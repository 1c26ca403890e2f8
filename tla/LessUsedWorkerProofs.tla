------------------------ MODULE LessUsedWorkerProofs ------------------------
(***************************************************************************)
(* How getLessUsedWorker picks a worker, for any number of threads and      *)
(* workers, whether or not calls overlap: how far the worker it returns can *)
(* be from the least used one, although the use counts include the locals of*)
(* other threads and are old when they are compared.                        *)
(***************************************************************************)
EXTENDS WebrtcAgentProofs, FiniteSetTheorems

(* A thread that picks has compared the workers before next, and works on a *)
(* connection that has no worker yet and that no other thread gives one.    *)
Picking(t) == at[t].step = "pick"

PickOK(t) ==
    /\ at[t].step # "out" => Len(at[t].ids) \in {1, 2}
    /\ Picking(t) => /\ at[t].chosen \in Workers /\ at[t].next \in 1..NumWorkers + 1
                     /\ at[t].chosen < at[t].next \/ (at[t].chosen = 1 /\ at[t].next = 1)
                     /\ at[t].pc # 0 /\ worker[at[t].pc] = 0
    /\ seen[t] # 0 => Picking(t) /\ at[t].next <= NumWorkers

PickInv ==
    /\ TypeOK
    /\ \A t \in Threads : PickOK(t)
    /\ \A t, u \in Threads : t # u /\ Picking(t) /\ Picking(u) => at[t].pc # at[u].pc
    /\ \A c \in Conns : c > made => worker[c] = 0

LEMMA InitPick == Init => PickInv
<1>. SUFFICES ASSUME Init PROVE PickInv  BY Zenon
<1>1. CallTypes  BY InitInv, Zenon DEF IInv
<1>2. TypeOK  BY <1>1, Zenon DEF Init, TypeOK
<1>. QED  BY <1>2, Zenon DEF Init, PickInv, PickOK, Picking, Out

(* A thread moves that does not pick, and no worker is given or taken. *)
LEMMA MovePick ==
  ASSUME PickInv, NEW t \in Threads, seen[t] = 0,
         made' \in made..Calls, peerConnections' \in [Ids -> 0..made'], worker' = worker,
         posted' \in [Conns -> Seq(Task)], badCall' \in BOOLEAN,
         held' = held, seen' = seen, drift' = drift,
         at' \in [Threads -> ThreadSet(made')], \A u \in Threads \ {t} : at'[u] = at[u],
         at'[t].step # "pick", at'[t].step # "out" => Len(at'[t].ids) \in {1, 2}
  PROVE  PickInv'
<1>1. made \in 0..Calls /\ made \in Nat /\ made' \in Nat  BY BoundAssumption DEF PickInv, TypeOK, CallTypes
<1>2. TypeOK'
  <2>1. made' \in 0..Calls  BY <1>1, BoundAssumption
  <2>. QED  BY <2>1, Zenon DEF PickInv, TypeOK, CallTypes, ThreadSet, Task
<1>3. \A u \in Threads : PickOK(u)'
  <2>1. PickOK(t)'  BY Zenon DEF PickOK, Picking
  <2>2. ASSUME NEW u \in Threads, u # t PROVE PickOK(u)'
    BY <2>2 DEF PickInv, PickOK, Picking
  <2>. QED  BY <2>1, <2>2, Zenon
<1>4. \A r, u \in Threads : r # u /\ Picking(r)' /\ Picking(u)' => at'[r].pc # at'[u].pc
  BY DEF PickInv, Picking
<1>5. \A c \in Conns : c > made' => worker'[c] = 0  BY <1>1, BoundAssumption DEF PickInv, Conns
<1>. QED  BY <1>2, <1>3, <1>4, <1>5, Zenon DEF PickInv

(* Each of the calls, as far as picking goes. *)
LEMMA IdsOf ==
  ASSUME PickInv, NEW t \in Threads, at[t].step # "out"
  PROVE  /\ at[t].ids[1] \in Ids /\ peerConnections[at[t].ids[1]] \in 0..made
         /\ Len(at[t].ids) \in {1, 2}
<1>1. at[t].ids \in Seq(Ids)  BY Fields, Zenon DEF PickInv, TypeOK
<1>2. Len(at[t].ids) \in {1, 2}  BY Zenon DEF PickInv, PickOK
<1>3. at[t].ids[1] \in Ids  BY <1>1, <1>2
<1>. QED  BY <1>2, <1>3, Zenon DEF PickInv, TypeOK, CallTypes

LEMMA PostTypes ==
  ASSUME CallTypes, NEW c, NEW task \in Task, Post(c, task)
  PROVE  posted' \in [Conns -> Seq(Task)] /\ badCall' \in BOOLEAN
<1>1. posted \in [Conns -> Seq(Task)] /\ badCall \in BOOLEAN  BY Zenon DEF CallTypes, Task
<1>2. CASE worker[c] = 0  BY <1>1, <1>2, Zenon DEF Post
<1>3. CASE worker[c] # 0
  <2>1. posted' = [posted EXCEPT ![c] = Append(@, task)] /\ badCall' = badCall
    BY <1>3, Zenon DEF Post
  <2>2. c \in Conns => Append(posted[c], task) \in Seq(Task)  BY <1>1
  <2>. QED  BY <1>1, <2>1, <2>2, Zenon
<1>. QED  BY <1>2, <1>3, Zenon

LEMMA ReturnTypes ==
  ASSUME CallTypes, NEW t \in Threads, Return(t), made' \in Nat, made <= made'
  PROVE  /\ at' \in [Threads -> ThreadSet(made')]
         /\ at'[t] = Out /\ \A u \in Threads \ {t} : at'[u] = at[u]
<1>1. Out \in ThreadSet(made')  BY NumWorkersAssumption DEF Out, ThreadSet
<1>2. made \in Nat /\ at \in [Threads -> ThreadSet(made)]
  BY BoundAssumption DEF CallTypes, ThreadSet
<1>3. \A u \in Threads : at[u] \in ThreadSet(made')
  <2>1. ThreadSet(made) \subseteq ThreadSet(made')  BY <1>2 DEF ThreadSet
  <2>. QED  BY <1>2, <2>1, Zenon
<1>. QED  BY <1>1, <1>2, <1>3, Zenon DEF Return

(* The steps of threads that do not pick, before or after. *)
Idles(t) == \/ \E i \in Ids : Call(t, "publish", <<i>>) \/ Call(t, "unpublish", <<i>>)
            \/ \E i, j \in Ids : Call(t, "linkup", <<i, j>>)
            \/ Emplace(t) /\ peerConnections[at[t].ids[1]] # 0
            \/ Signalling(t) \/ Erase(t) \/ Close(t) \/ Find(t) \/ Subscribe(t)

LEMMA IdlesPick ==
  ASSUME PickInv, NEW t \in Threads, Idles(t)
  PROVE  /\ PickInv'
         /\ at[t].step # "pick" /\ at'[t].step # "pick" /\ \A u \in Threads \ {t} : at'[u] = at[u]
         /\ worker' = worker /\ held' = held /\ seen' = seen /\ drift' = drift
<1>. DEFINE Goal == /\ PickInv'
                    /\ at[t].step # "pick" /\ at'[t].step # "pick"
                    /\ \A u \in Threads \ {t} : at'[u] = at[u]
                    /\ worker' = worker /\ held' = held /\ seen' = seen /\ drift' = drift
<1>0. /\ CallTypes /\ made \in 0..Calls /\ made \in Nat
      /\ peerConnections \in [Ids -> 0..made]
      /\ at \in [Threads -> ThreadSet(made)] /\ at[t] \in ThreadSet(made)
      /\ posted \in [Conns -> Seq(Task)] /\ badCall \in BOOLEAN
  BY BoundAssumption, SMTT(30) DEF PickInv, TypeOK, CallTypes, ThreadSet, Task
<1>s. at[t].step # "pick" => seen[t] = 0  BY ZenonT(40) DEF PickInv, PickOK, Picking
<1>m. made \in made..Calls  BY <1>0, BoundAssumption
<1>1. ASSUME NEW op \in {"publish", "unpublish", "linkup"}, NEW ids \in Seq(Ids), Call(t, op, ids),
             Len(ids) \in {1, 2}
      PROVE  Goal
  <2>1. /\ at[t] = Out /\ at' = [at EXCEPT ![t].step = op, ![t].ids = ids]
        /\ peerConnections' = peerConnections /\ made' = made /\ worker' = worker
        /\ posted' = posted /\ badCall' = badCall
        /\ held' = held /\ seen' = seen /\ drift' = drift
    BY <1>1, Zenon DEF Call, counts
  <2>2. at'[t] = [at[t] EXCEPT !.step = op, !.ids = ids] /\ \A u \in Threads \ {t} : at'[u] = at[u]
    BY <1>0, <2>1, Zenon
  <2>3. at'[t] \in ThreadSet(made) /\ at'[t].step = op /\ at'[t].ids = ids
    BY <1>0, <2>2, Zenon DEF ThreadSet
  <2>4. at' \in [Threads -> ThreadSet(made)]  BY <1>0, <2>1, <2>2, <2>3, ZenonT(40)
  <2>5. at[t].step = "out"  BY <2>1 DEF Out
  <2>6. PickInv'  BY <1>0, <1>1, <1>m, <1>s, <2>1, <2>2, <2>3, <2>4, <2>5, MovePick, Zenon
  <2>. QED  BY <1>1, <2>1, <2>2, <2>3, <2>5, <2>6, Zenon
<1>2. ASSUME Return(t), at[t].step # "pick", made' \in made..Calls,
             peerConnections' \in [Ids -> 0..made'], worker' = worker,
             posted' \in [Conns -> Seq(Task)], badCall' \in BOOLEAN,
             held' = held, seen' = seen, drift' = drift
      PROVE  Goal
  <2>1. made' \in Nat /\ made <= made'  BY <1>0, <1>2, BoundAssumption
  <2>2. /\ at' \in [Threads -> ThreadSet(made')]
        /\ at'[t] = Out /\ \A u \in Threads \ {t} : at'[u] = at[u]
    BY <1>0, <1>2, <2>1, ReturnTypes, Zenon
  <2>3. at'[t].step = "out"  BY <2>2 DEF Out
  <2>4. PickInv'  BY <1>2, <1>s, <2>2, <2>3, MovePick, Zenon
  <2>. QED  BY <1>2, <2>2, <2>3, <2>4, ZenonT(40)
<1>3. CASE Emplace(t) /\ peerConnections[at[t].ids[1]] # 0
  <2>1. /\ at[t].step = "publish" /\ made < Calls /\ made' = made + 1 /\ Return(t)
        /\ peerConnections' = peerConnections /\ worker' = worker /\ posted' = posted
        /\ badCall' = badCall /\ held' = held /\ seen' = seen /\ drift' = drift
    BY <1>3, Zenon DEF Emplace, counts
  <2>2. made' \in made..Calls /\ peerConnections' \in [Ids -> 0..made']
    BY <1>0, <2>1, BoundAssumption
  <2>. QED  BY <1>0, <1>2, <2>1, <2>2, Zenon
<1>4. CASE Signalling(t) \/ Close(t) \/ Subscribe(t)
  <2>1. /\ at[t].step # "pick" /\ Return(t) /\ \E task \in Task : Post(at[t].pc, task)
        /\ peerConnections' = peerConnections /\ made' = made /\ worker' = worker
        /\ held' = held /\ seen' = seen /\ drift' = drift
    BY <1>4, Zenon DEF Signalling, Close, Subscribe, counts, Task
  <2>2. posted' \in [Conns -> Seq(Task)] /\ badCall' \in BOOLEAN  BY <1>0, <2>1, PostTypes, Zenon
  <2>. QED  BY <1>0, <1>2, <1>m, <2>1, <2>2, Zenon
<1>5. CASE Erase(t) \/ Find(t)
  <2>1. /\ at[t].step \in {"unpublish", "linkup"} /\ made' = made /\ worker' = worker
        /\ posted' = posted /\ badCall' = badCall
        /\ held' = held /\ seen' = seen /\ drift' = drift
    BY <1>5, ZenonT(40) DEF Erase, Find, counts
  <2>2. peerConnections' \in [Ids -> 0..made]
    BY <1>0, <1>5 DEF Erase, Find
  <2>3. CASE Return(t)  BY <1>0, <1>2, <1>m, <2>1, <2>2, <2>3, Zenon
  <2>4. CASE \E op \in {"close", "link"} :
               at' = [at EXCEPT ![t].step = op, ![t].pc = peerConnections[at[t].ids[1]]]
    <3>1. PICK op \in {"close", "link"} :
               at' = [at EXCEPT ![t].step = op, ![t].pc = peerConnections[at[t].ids[1]]]
      BY <2>4, Zenon
    <3>2. peerConnections[at[t].ids[1]] \in 0..made /\ Len(at[t].ids) \in {1, 2}
      BY <2>1, IdsOf, Zenon
    <3>3. /\ at'[t] = [at[t] EXCEPT !.step = op, !.pc = peerConnections[at[t].ids[1]]]
          /\ \A u \in Threads \ {t} : at'[u] = at[u]
      BY <1>0, <3>1, Zenon
    <3>4. at'[t] \in ThreadSet(made) /\ at'[t].step = op /\ at'[t].ids = at[t].ids
      BY <1>0, <3>2, <3>3, Zenon DEF ThreadSet
    <3>5. at' \in [Threads -> ThreadSet(made)]  BY <1>0, <3>1, <3>3, <3>4, Zenon
    <3>6. PickInv'  BY <1>0, <1>m, <1>s, <2>1, <2>2, <3>2, <3>3, <3>4, <3>5, MovePick, Zenon
    <3>. QED  BY <2>1, <3>3, <3>4, <3>6, Zenon
  <2>. QED  BY <1>5, <2>3, <2>4, Zenon DEF Erase, Find
<1>6. ASSUME NEW i \in Ids, NEW j \in Ids
      PROVE  <<i>> \in Seq(Ids) /\ Len(<<i>>) = 1 /\ <<i, j>> \in Seq(Ids) /\ Len(<<i, j>>) = 2
  OBVIOUS
<1>7. CASE \E i \in Ids : Call(t, "publish", <<i>>) \/ Call(t, "unpublish", <<i>>)
  <2>1. PICK i \in Ids : Call(t, "publish", <<i>>) \/ Call(t, "unpublish", <<i>>)  BY <1>7, Zenon
  <2>2. PICK op \in {"publish", "unpublish"} : Call(t, op, <<i>>)  BY <2>1, Zenon
  <2>. QED  BY <1>1, <1>6, <2>2, Zenon
<1>8. CASE \E i, j \in Ids : Call(t, "linkup", <<i, j>>)
  <2>1. PICK i, j \in Ids : Call(t, "linkup", <<i, j>>)  BY <1>8, Zenon
  <2>. QED  BY <1>1, <1>6, <2>1, Zenon
<1>. QED  BY <1>3, <1>4, <1>5, <1>7, <1>8, Zenon DEF Idles

LEMMA EmplacePick ==
  ASSUME PickInv, NEW t \in Threads, Emplace(t), peerConnections[at[t].ids[1]] = 0
  PROVE  /\ PickInv'
         /\ at'[t].step = "pick" /\ at'[t].chosen = 1 /\ at'[t].next = 1 /\ seen[t] = 0
         /\ \A u \in Threads \ {t} : at'[u] = at[u]
         /\ worker' = worker /\ held' = held /\ seen' = seen /\ drift' = drift
<1>0. /\ CallTypes /\ made \in 0..Calls /\ made \in Nat
      /\ peerConnections \in [Ids -> 0..made]
      /\ at \in [Threads -> ThreadSet(made)] /\ at[t] \in ThreadSet(made)
  BY BoundAssumption DEF PickInv, TypeOK, CallTypes, ThreadSet
<1>1. /\ at[t].step = "publish" /\ made < Calls /\ made' = made + 1
      /\ peerConnections' = [peerConnections EXCEPT ![at[t].ids[1]] = made']
      /\ at' = [at EXCEPT ![t].step = "pick", ![t].pc = made', ![t].chosen = 1, ![t].next = 1]
      /\ worker' = worker /\ posted' = posted /\ badCall' = badCall
      /\ held' = held /\ seen' = seen /\ drift' = drift
  BY Zenon DEF Emplace, counts
<1>2. made' \in 0..Calls /\ made' \in Nat /\ made' \in Conns /\ made' # 0
  BY <1>0, <1>1, BoundAssumption DEF Conns
<1>3. /\ at'[t] = [step |-> "pick", ids |-> at[t].ids, pc |-> made', chosen |-> 1, next |-> 1]
      /\ \A u \in Threads \ {t} : at'[u] = at[u]
  BY <1>0, <1>1, Zenon DEF ThreadSet
<1>4. /\ at'[t] \in ThreadSet(made') /\ at'[t].step = "pick" /\ at'[t].ids = at[t].ids
      /\ at'[t].pc = made' /\ at'[t].chosen = 1 /\ at'[t].next = 1
  BY <1>0, <1>2, <1>3, Fields, NumWorkersAssumption DEF ThreadSet
<1>5. at' \in [Threads -> ThreadSet(made')]
  <2>1. ThreadSet(made) \subseteq ThreadSet(made')  BY <1>0, <1>1 DEF ThreadSet
  <2>. QED  BY <1>0, <1>1, <1>3, <1>4, <2>1, Zenon
<1>6. peerConnections' \in [Ids -> 0..made']
  <2>1. made' \in 0..made' /\ \A x \in 0..made : x \in 0..made'  BY <1>0, <1>1, <1>2
  <2>. QED  BY <1>0, <1>1, <2>1, Zenon
<1>7. TypeOK'
  BY <1>1, <1>2, <1>5, <1>6, Zenon DEF PickInv, TypeOK, CallTypes, ThreadSet
<1>8. seen[t] = 0  BY <1>1, Zenon DEF PickInv, PickOK, Picking
<1>9. worker[made'] = 0 /\ \A u \in Threads : at[u].pc \in Nat /\ at[u].pc < made'
  <2>1. \A u \in Threads : at[u].pc \in 0..made  BY <1>0, Fields, Zenon
  <2>. QED  BY <1>0, <1>1, <1>2, <2>1 DEF PickInv
<1>10. \A u \in Threads : PickOK(u)'
  <2>1. PickOK(t)'
    <3>1. Len(at[t].ids) \in {1, 2}  BY <1>1, IdsOf, ZenonT(40)
    <3>2. 1 \in Workers /\ 1 \in 1..NumWorkers + 1  BY NumWorkersAssumption DEF Workers
    <3>. QED  BY <1>1, <1>2, <1>4, <1>8, <1>9, <3>1, <3>2, Zenon DEF PickOK, Picking
  <2>2. ASSUME NEW u \in Threads, u # t PROVE PickOK(u)'
    <3>1. at'[u] = at[u] /\ worker' = worker /\ seen' = seen  BY <1>1, <1>3, <2>2, Zenon
    <3>2. PickOK(u)  BY Zenon DEF PickInv
    <3>. QED  BY <3>1, <3>2, Zenon DEF PickOK, Picking
  <2>. QED  BY <2>1, <2>2, Zenon
<1>11. \A r, u \in Threads : r # u /\ Picking(r)' /\ Picking(u)' => at'[r].pc # at'[u].pc
  <2>. TAKE r, u \in Threads
  <2>0. \A x \in Threads \ {t} : at'[x].pc # made'  BY <1>2, <1>3, <1>9
  <2>1. CASE r = t  BY <1>4, <2>0, <2>1, Zenon
  <2>2. CASE u = t  BY <1>4, <2>0, <2>2, Zenon
  <2>3. CASE r # t /\ u # t  BY <1>3, <2>3 DEF PickInv, Picking
  <2>. QED  BY <2>1, <2>2, <2>3, Zenon
<1>12. \A c \in Conns : c > made' => worker'[c] = 0
  BY <1>0, <1>1, BoundAssumption DEF PickInv, Conns
<1>. QED  BY <1>1, <1>3, <1>4, <1>7, <1>8, <1>10, <1>11, <1>12, Zenon DEF PickInv

LEMMA ShiftFacts ==
  ASSUME TypeOK, Shift
  PROVE  /\ drift' \in [Threads -> Nat]
         /\ \A t \in Threads : at'[t].step = "pick" => drift'[t] = drift[t] + 1
BY DEF TypeOK, Shift

LEMMA PcInitPick ==
  ASSUME PickInv, NEW t \in Threads, PcInit(t)
  PROVE  /\ PickInv' /\ Picking(t) /\ at'[t].step = "signal" /\ at[t].pc \in Conns
         /\ at'[t].chosen = at[t].chosen /\ at'[t].next = at[t].next
         /\ \A u \in Threads \ {t} : at'[u] = at[u]
<1>0. /\ CallTypes /\ made \in 0..Calls /\ made \in Nat
      /\ at \in [Threads -> ThreadSet(made)] /\ at[t] \in ThreadSet(made)
      /\ posted \in [Conns -> Seq(Task)] /\ worker \in [Conns -> 0..NumWorkers]
  BY BoundAssumption, SMTT(30) DEF PickInv, TypeOK, CallTypes, ThreadSet, Task
<1>. DEFINE c == at[t].pc
<1>1. /\ at[t].step = "pick" /\ at[t].next > NumWorkers
      /\ worker' = [worker EXCEPT ![c] = at[t].chosen]
      /\ posted' = [posted EXCEPT ![c] = Append(@, "init")]
      /\ at' = [at EXCEPT ![t].step = "signal"] /\ Shift
      /\ peerConnections' = peerConnections /\ made' = made /\ badCall' = badCall
      /\ held' = held /\ seen' = seen
  BY Zenon DEF PcInit, Goto
<1>2. c \in 1..made /\ c \in Conns
  <2>1. c \in 0..made /\ c # 0  BY <1>0, <1>1, Fields, Zenon DEF PickInv, PickOK, Picking
  <2>. QED  BY <1>0, <2>1, BoundAssumption DEF Conns
<1>3. /\ at'[t] = [at[t] EXCEPT !.step = "signal"]
      /\ \A u \in Threads \ {t} : at'[u] = at[u]
  BY <1>0, <1>1, ZenonT(40)
<1>4. /\ at'[t] \in ThreadSet(made) /\ at'[t].step = "signal" /\ at'[t].ids = at[t].ids
      /\ at'[t].chosen = at[t].chosen /\ at'[t].next = at[t].next
  BY <1>0, <1>3, Zenon DEF ThreadSet
<1>5. at' \in [Threads -> ThreadSet(made)]  BY <1>0, <1>1, <1>3, <1>4
<1>6. worker' \in [Conns -> 0..NumWorkers]
  BY <1>0, <1>1, Fields, Zenon
<1>7. posted' \in [Conns -> Seq(Task)]
  <2>1. Append(posted[c], "init") \in Seq(Task)  BY <1>0, <1>2 DEF Task
  <2>. QED  BY <1>0, <1>1, <2>1, Zenon
<1>8. TypeOK'
  <2>1. drift' \in [Threads -> Nat]  BY <1>1, ShiftFacts, ZenonT(40) DEF PickInv
  <2>. QED  BY <1>1, <1>5, <1>6, <1>7, <2>1, Zenon DEF PickInv, TypeOK, CallTypes, ThreadSet, Task
<1>9. \A u \in Threads : PickOK(u)'
  <2>1. PickOK(t)'
    <3>1. seen[t] = 0
      BY <1>0, <1>1, Fields, NumWorkersAssumption DEF PickInv, PickOK
    <3>. QED  BY <1>1, <1>4, <3>1, Zenon DEF PickInv, PickOK, Picking
  <2>2. ASSUME NEW u \in Threads, u # t PROVE PickOK(u)'
    <3>1. Picking(u) => at[u].pc # c  BY <1>1, <2>2, Zenon DEF PickInv, Picking
    <3>2. Picking(u) => worker'[at[u].pc] = worker[at[u].pc]
      BY <1>0, <1>1, <3>1
    <3>. QED  BY <1>1, <1>3, <2>2, <3>2 DEF PickInv, PickOK, Picking
  <2>. QED  BY <2>1, <2>2, Zenon
<1>10. \A r, u \in Threads : r # u /\ Picking(r)' /\ Picking(u)' => at'[r].pc # at'[u].pc
  <2>. TAKE r, u \in Threads
  <2>1. CASE r = t \/ u = t  BY <1>4, <2>1, Zenon DEF Picking
  <2>2. CASE r # t /\ u # t  BY <1>3, <2>2 DEF PickInv, Picking
  <2>. QED  BY <2>1, <2>2, Zenon
<1>11. \A d \in Conns : d > made' => worker'[d] = 0
  BY <1>0, <1>1, <1>2, BoundAssumption DEF PickInv, Conns
<1>. QED  BY <1>1, <1>2, <1>3, <1>4, <1>8, <1>9, <1>10, <1>11, Zenon DEF PickInv, Picking

(* What the use counts of workers count. *)
LEMMA ConnsFinite ==
  ASSUME NEW S \in SUBSET Conns
  PROVE  IsFiniteSet(S) /\ Cardinality(S) \in Nat
<1>1. IsFiniteSet(Conns)  BY BoundAssumption, FS_Interval DEF Conns
<1>2. IsFiniteSet(S)  BY <1>1, FS_Subset, Zenon
<1>. QED  BY <1>2, FS_CardinalityType, Zenon

LEMMA LoadType ==
  ASSUME NEW w
  PROVE  Load(w) \in Nat
BY ConnsFinite, Zenon DEF Load

LEMMA UsesType ==
  ASSUME TypeOK, NEW w \in Workers
  PROVE  Uses(w) \in Nat /\ Uses(w) = Load(w) + held[w]
BY LoadType DEF TypeOK, Uses

LEMMA LoadGiven ==
  ASSUME worker \in [Conns -> 0..NumWorkers], NEW c \in Conns, worker[c] = 0,
         NEW x \in Workers, worker' = [worker EXCEPT ![c] = x], NEW v \in Workers
  PROVE  Load(v)' = IF v = x THEN Load(v) + 1 ELSE Load(v)
<1>. DEFINE S == {d \in Conns : worker[d] = v}
            T == {d \in Conns : worker'[d] = v}
<1>0. v # 0 /\ x # 0  BY NumWorkersAssumption DEF Workers
<1>1. Load(v) = Cardinality(S) /\ Load(v)' = Cardinality(T)  BY Zenon DEF Load, Conns
<1>2. CASE v = x
  <2>1. T = S \cup {c} /\ c \notin S  BY <1>0, <1>2, Zenon
  <2>2. IsFiniteSet(S)  BY ConnsFinite, Zenon
  <2>3. Cardinality(S \cup {c}) = Cardinality(S) + 1  BY <2>1, <2>2, FS_AddElement, Zenon
  <2>. QED  BY <1>1, <1>2, <2>1, <2>3, Zenon
<1>3. CASE v # x
  <2>1. T = S  BY <1>0, <1>3, Zenon
  <2>. QED  BY <1>1, <1>3, <2>1, Zenon
<1>. QED  BY <1>2, <1>3, Zenon

LEMMA LoadTaken ==
  ASSUME worker \in [Conns -> 0..NumWorkers], NEW c \in Conns, worker[c] # 0,
         worker' = [worker EXCEPT ![c] = 0], NEW v \in Workers
  PROVE  Load(v)' = IF v = worker[c] THEN Load(v) - 1 ELSE Load(v)
<1>. DEFINE S == {d \in Conns : worker[d] = v}
            T == {d \in Conns : worker'[d] = v}
<1>0. v # 0  BY NumWorkersAssumption DEF Workers
<1>1. Load(v) = Cardinality(S) /\ Load(v)' = Cardinality(T)  BY Zenon DEF Load, Conns
<1>2. CASE v = worker[c]
  <2>1. T = S \ {c} /\ c \in S  BY <1>0, <1>2, Zenon
  <2>2. IsFiniteSet(S)  BY ConnsFinite, Zenon
  <2>3. Cardinality(S \ {c}) = Cardinality(S) - 1  BY <2>1, <2>2, FS_RemoveElement, Zenon
  <2>. QED  BY <1>1, <1>2, <2>1, <2>3, Zenon
<1>3. CASE v # worker[c]
  <2>1. T = S  BY <1>0, <1>3, Zenon
  <2>. QED  BY <1>1, <1>3, <2>1, Zenon
<1>. QED  BY <1>2, <1>3, Zenon

(* Some of n threads, one of them or the others. *)
LEMMA SomeThreads ==
  ASSUME NEW t \in Threads, NEW S \in SUBSET Threads
  PROVE  /\ Cardinality(Threads) \in Nat /\ Cardinality(Threads) >= 1
         /\ Cardinality(S) \in Nat
         /\ t \in S => Cardinality(S) \in 1..Cardinality(Threads)
         /\ t \notin S => Cardinality(S) <= Cardinality(Threads) - 1
<1>1. IsFiniteSet(Threads) /\ IsFiniteSet(S)  BY ThreadsAssumption, FS_Subset, Zenon
<1>2. Cardinality(Threads) \in Nat /\ Cardinality(S) \in Nat  BY <1>1, FS_CardinalityType, Zenon
<1>3. IsFiniteSet(Threads \ {t}) /\ Cardinality(Threads \ {t}) = Cardinality(Threads) - 1
  BY <1>1, FS_RemoveElement, Zenon
<1>4. Cardinality(Threads \ {t}) \in Nat  BY <1>3, FS_CardinalityType, Zenon
<1>5. Cardinality(S) <= Cardinality(Threads)  BY <1>1, FS_Subset, Zenon
<1>6. t \in S => Cardinality(S) # 0  BY <1>1, FS_EmptySet, Zenon
<1>7. t \notin S => Cardinality(S) <= Cardinality(Threads) - 1
  <2>1. t \notin S => S \subseteq Threads \ {t}  BY Zenon
  <2>. QED  BY <1>3, <2>1, FS_Subset
<1>. QED  BY <1>2, <1>3, <1>4, <1>5, <1>6, <1>7

(* What the locals of the other threads add for each worker compared. *)
Slack(j) == 2 * (Cardinality(Threads) - 1) * j

LEMMA SlackFacts ==
  ASSUME NEW t \in Threads, NEW j \in Nat
  PROVE  /\ Slack(j) \in Nat /\ Slack(0) = 0 /\ Slack(j + 1) = Slack(j) + Slack(1)
         /\ Slack(1) = 2 * (Cardinality(Threads) - 1) /\ Slack(1) \in Nat
<1>. DEFINE k == 2 * (Cardinality(Threads) - 1)
<1>1. Cardinality(Threads) \in Nat /\ Cardinality(Threads) >= 1  BY SomeThreads, Zenon
<1>2. k \in Nat  BY <1>1
<1>3. Slack(0) = k * 0 /\ Slack(1) = k * 1 /\ Slack(j) = k * j /\ Slack(j + 1) = k * (j + 1)
  BY Zenon DEF Slack
<1>4. k * (j + 1) = k * j + k /\ k * j \in Nat /\ k * 0 = 0 /\ k * 1 = k
  <2>. HIDE DEF k
  <2>. QED  BY <1>2
<1>. QED  BY <1>2, <1>3, <1>4, Zenon

(* The locals of a thread that picks are counted once for each of the two   *)
(* workers, those of the others up to Slack(1) times.                       *)
LEMMA UseBounds ==
  ASSUME TypeOK, NEW t \in Threads, Picking(t), NEW w \in Workers
  PROVE  /\ UseCount(w) \in Nat /\ UseCount(w) >= Uses(w) + 1
         /\ w = at[t].chosen \/ w = at[t].next => UseCount(w) >= Uses(w) + 2
         /\ at[t].chosen # at[t].next => UseCount(w) <= Uses(w) + 2 + Slack(1)
<1>. DEFINE A == {u \in Threads : at[u].chosen = w}
            B == {u \in Threads : at[u].step = "pick" /\ at[u].next = w}
            n == Cardinality(Threads)
<1>1. UseCount(w) = 1 + Uses(w) + Cardinality(A) + Cardinality(B)  BY Zenon DEF UseCount
<1>2. A \in SUBSET Threads /\ B \in SUBSET Threads
      /\ (t \in A <=> w = at[t].chosen) /\ (t \in B <=> w = at[t].next)
  BY Zenon DEF Picking
<1>3. Slack(1) = 2 * (n - 1)  BY SlackFacts, Zenon
<1>. HIDE DEF A, B
<1>4. /\ Cardinality(A) \in Nat /\ Cardinality(B) \in Nat /\ n \in Nat /\ n >= 1
      /\ t \in A => Cardinality(A) \in 1..n
      /\ t \in B => Cardinality(B) \in 1..n
      /\ t \notin A => Cardinality(A) <= n - 1
      /\ t \notin B => Cardinality(B) <= n - 1
  BY <1>2, SomeThreads, Zenon
<1>5. Uses(w) \in Nat  BY UsesType, Zenon
<1>. HIDE DEF n
<1>6. UseCount(w) \in Nat /\ UseCount(w) >= Uses(w) + 1  BY <1>1, <1>4, <1>5
<1>7. w = at[t].chosen \/ w = at[t].next => UseCount(w) >= Uses(w) + 2
  BY <1>1, <1>2, <1>4, <1>5
<1>8. at[t].chosen # at[t].next => UseCount(w) <= Uses(w) + 2 + Slack(1)
  <2>1. at[t].chosen # at[t].next => ~(t \in A /\ t \in B)  BY <1>2, Zenon
  <2>. QED  BY <1>1, <1>3, <1>4, <1>5, <2>1
<1>. QED  BY <1>6, <1>7, <1>8, Zenon

LEMMA ReadChosenPick ==
  ASSUME PickInv, NEW t \in Threads, ReadChosen(t)
  PROVE  /\ PickInv' /\ Picking(t) /\ at' = at /\ worker' = worker /\ held' = held /\ drift' = drift
         /\ seen'[t] = UseCount(at[t].chosen) /\ \A u \in Threads \ {t} : seen'[u] = seen[u]
<1>1. /\ Picking(t) /\ at[t].next <= NumWorkers
      /\ seen' = [seen EXCEPT ![t] = UseCount(at[t].chosen)]
      /\ peerConnections' = peerConnections /\ made' = made /\ worker' = worker
      /\ posted' = posted /\ at' = at /\ badCall' = badCall /\ held' = held /\ drift' = drift
  BY Zenon DEF ReadChosen, Picking
<1>2. at[t].chosen \in Workers  BY <1>1, Zenon DEF PickInv, PickOK
<1>3. UseCount(at[t].chosen) \in Nat  BY <1>1, <1>2, UseBounds, Zenon DEF PickInv
<1>4. /\ seen' \in [Threads -> Nat] /\ seen'[t] = UseCount(at[t].chosen)
      /\ \A u \in Threads \ {t} : seen'[u] = seen[u]
  BY <1>1, <1>3, Zenon DEF PickInv, TypeOK
<1>5. TypeOK'  BY <1>1, <1>4, SMTT(30) DEF PickInv, TypeOK, CallTypes
<1>6. \A u \in Threads : PickOK(u)'
  <2>1. PickOK(t)'  BY <1>1, Zenon DEF PickInv, PickOK, Picking
  <2>2. ASSUME NEW u \in Threads, u # t PROVE PickOK(u)'
    BY <1>1, <1>4, <2>2, ZenonT(40) DEF PickInv, PickOK, Picking
  <2>. QED  BY <2>1, <2>2
<1>. QED  BY <1>1, <1>4, <1>5, <1>6, Zenon DEF PickInv, Picking

LEMMA GetLessUsedWorkerPick ==
  ASSUME PickInv, NEW t \in Threads, GetLessUsedWorker(t)
  PROVE  /\ PickInv' /\ Picking(t) /\ seen[t] # 0 /\ at[t].next \in Workers
         /\ at'[t].step = "pick" /\ at'[t].next = at[t].next + 1
         /\ at'[t].chosen = IF seen[t] > UseCount(at[t].next) THEN at[t].next ELSE at[t].chosen
         /\ \A u \in Threads \ {t} : at'[u] = at[u] /\ seen'[u] = seen[u]
         /\ seen'[t] = 0 /\ worker' = worker /\ held' = held /\ drift' = drift
<1>. DEFINE w == at[t].next
            c == IF seen[t] > UseCount(w) THEN w ELSE at[t].chosen
<1>0. /\ CallTypes /\ at \in [Threads -> ThreadSet(made)] /\ at[t] \in ThreadSet(made)
  BY Zenon DEF PickInv, TypeOK, CallTypes, ThreadSet
<1>1. /\ Picking(t) /\ w <= NumWorkers /\ seen[t] # 0
      /\ at' = [at EXCEPT ![t].chosen = c, ![t].next = w + 1]
      /\ seen' = [seen EXCEPT ![t] = 0]
      /\ peerConnections' = peerConnections /\ made' = made /\ worker' = worker
      /\ posted' = posted /\ badCall' = badCall /\ held' = held /\ drift' = drift
  BY Zenon DEF GetLessUsedWorker, Picking
<1>2. /\ w \in Workers /\ w + 1 \in 1..NumWorkers + 1 /\ w + 1 \in 0..NumWorkers + 1
      /\ c \in Workers /\ c \in 0..NumWorkers /\ c < w + 1
  BY <1>1, NumWorkersAssumption DEF PickInv, PickOK, Workers
<1>. HIDE DEF c
<1>3. /\ at'[t] = [step |-> at[t].step, ids |-> at[t].ids, pc |-> at[t].pc,
                   chosen |-> c, next |-> w + 1]
      /\ \A u \in Threads \ {t} : at'[u] = at[u]
  BY <1>0, <1>1, Zenon DEF ThreadSet
<1>4. /\ at'[t] \in ThreadSet(made) /\ at'[t].step = "pick" /\ at'[t].ids = at[t].ids
      /\ at'[t].pc = at[t].pc /\ at'[t].chosen = c /\ at'[t].next = w + 1
  BY <1>0, <1>1, <1>2, <1>3, Fields, Zenon DEF ThreadSet, Picking
<1>5. at' \in [Threads -> ThreadSet(made)]  BY <1>0, <1>1, <1>3, <1>4, ZenonT(40)
<1>6. /\ seen' \in [Threads -> Nat] /\ seen'[t] = 0
      /\ \A u \in Threads \ {t} : seen'[u] = seen[u]
  BY <1>1, Zenon DEF PickInv, TypeOK
<1>7. TypeOK'  BY <1>1, <1>5, <1>6, Zenon DEF PickInv, TypeOK, CallTypes, ThreadSet
<1>8. \A u \in Threads : PickOK(u)'
  <2>1. PickOK(t)'
    <3>1. PickOK(t)  BY ZenonT(40) DEF PickInv
    <3>. QED  BY <1>1, <1>2, <1>4, <1>6, <3>1, Zenon DEF PickOK, Picking
  <2>2. ASSUME NEW u \in Threads, u # t PROVE PickOK(u)'
    <3>1. at'[u] = at[u] /\ worker' = worker /\ seen'[u] = seen[u]  BY <1>1, <1>3, <1>6, <2>2, Zenon
    <3>2. PickOK(u)  BY Zenon DEF PickInv
    <3>. QED  BY <3>1, <3>2, Zenon DEF PickOK, Picking
  <2>. QED  BY <2>1, <2>2
<1>9. \A r, u \in Threads : r # u /\ Picking(r)' /\ Picking(u)' => at'[r].pc # at'[u].pc
  <2>1. \A u \in Threads : at'[u].step = at[u].step /\ at'[u].pc = at[u].pc
    BY <1>1, <1>3, <1>4, Zenon DEF Picking
  <2>. QED  BY <2>1 DEF PickInv, Picking
<1>10. \A d \in Conns : d > made' => worker'[d] = 0  BY <1>1, Zenon DEF PickInv
<1>. QED  BY <1>1, <1>2, <1>3, <1>4, <1>6, <1>7, <1>8, <1>9, <1>10, Zenon DEF PickInv, c

(* A connection goes, a timer starts or ends: no thread is concerned. *)
LEMMA OtherPick ==
  ASSUME PickInv, \/ \E c \in Conns : Gone(c) \/ Hold(c)
                  \/ \E w \in Workers : Release(w)
  PROVE  PickInv' /\ at' = at /\ seen' = seen /\ Shift
<1>0. /\ worker \in [Conns -> 0..NumWorkers] /\ held \in [Workers -> Nat]
      /\ made \in 0..Calls /\ at \in [Threads -> ThreadSet(made)]
  BY ZenonT(40) DEF PickInv, TypeOK, CallTypes, ThreadSet
<1>1. /\ Shift /\ at' = at /\ seen' = seen /\ peerConnections' = peerConnections
      /\ made' = made /\ posted' = posted /\ badCall' = badCall
  BY Zenon DEF Gone, Hold, Release
<1>2. \/ worker' = worker
      \/ \E c \in Conns : worker' = [worker EXCEPT ![c] = 0]
  BY Zenon DEF Gone, Hold, Release
<1>3. worker' \in [Conns -> 0..NumWorkers] /\ \A c \in Conns : worker[c] = 0 => worker'[c] = 0
  BY <1>0, <1>2, NumWorkersAssumption
<1>4. held' \in [Workers -> Nat]
  <2>1. CASE held' = held  BY <1>0, <2>1, Zenon
  <2>2. CASE \E c \in Conns : Hold(c)
    <3>1. PICK c \in Conns : Hold(c)  BY <2>2, Zenon
    <3>2. worker[c] \in Workers  BY <1>0, <3>1, NumWorkersAssumption DEF Hold, Workers
    <3>. QED  BY <1>0, <3>1, <3>2 DEF Hold
  <2>3. CASE \E w \in Workers : Release(w)
    <3>1. PICK w \in Workers : Release(w)  BY <2>3, Zenon
    <3>2. held[w] - 1 \in Nat  BY <1>0, <3>1 DEF Release
    <3>. QED  BY <1>0, <3>1, <3>2, Zenon DEF Release
  <2>. QED  BY <2>1, <2>2, <2>3, Zenon DEF Gone
<1>5. TypeOK'
  <2>1. drift' \in [Threads -> Nat]  BY <1>1, ShiftFacts, Zenon DEF PickInv
  <2>. QED  BY <1>1, <1>3, <1>4, <2>1, Zenon DEF PickInv, TypeOK, CallTypes
<1>6. ASSUME NEW u \in Threads PROVE PickOK(u)'
  <2>1. PickOK(u)  BY Zenon DEF PickInv
  <2>2. Picking(u) => at[u].pc \in Conns
    <3>1. at[u].pc \in 0..made  BY Fields, Zenon DEF PickInv, TypeOK
    <3>. QED  BY <1>0, <2>1, <3>1, BoundAssumption DEF PickOK, Conns
  <2>. QED  BY <1>1, <1>3, <2>1, <2>2, Zenon DEF PickOK, Picking
<1>. QED  BY <1>1, <1>3, <1>5, <1>6 DEF PickInv, Picking

Others == \/ \E c \in Conns : Gone(c) \/ Hold(c)
          \/ \E w \in Workers : Release(w)

LEMMA PickCases ==
  ASSUME [Next]_vars
  PROVE  \/ \E t \in Threads : \/ Idles(t) \/ ReadChosen(t) \/ GetLessUsedWorker(t) \/ PcInit(t)
                               \/ Emplace(t) /\ peerConnections[at[t].ids[1]] = 0
         \/ Others
         \/ UNCHANGED vars
BY Zenon DEF Next, Idles, Others

LEMMA PickStep ==
  ASSUME PickInv, [Next]_vars
  PROVE  PickInv'
<1>1. CASE UNCHANGED vars
  BY <1>1, ZenonT(40) DEF vars, PickInv, TypeOK, CallTypes, PickOK, Picking
<1>. QED
  BY <1>1, PickCases, IdlesPick, EmplacePick, ReadChosenPick, GetLessUsedWorkerPick, PcInitPick,
     OtherPick, Zenon DEF Others

LEMMA PickHolds == Spec => []PickInv
<1>1. PickInv /\ [Next]_vars => PickInv'  BY PickStep, Zenon
<1>. QED  BY <1>1, InitPick, PTL DEF Spec

(* A use of one worker begins or ends. *)
Shifted ==
    /\ \A v \in Workers : Uses(v)' \in Nat /\ Uses(v)' <= Uses(v) + 1 /\ Uses(v) <= Uses(v)' + 1
    /\ \A c, v \in Workers : Uses(c)' + Uses(v) <= Uses(c) + Uses(v)' + 1

LEMMA OneShifts ==
  ASSUME NEW x, \A v \in Workers : /\ Uses(v) \in Nat /\ Uses(v)' \in Nat
                                   /\ v # x => Uses(v)' = Uses(v)
                                   /\ Uses(v)' <= Uses(v) + 1 /\ Uses(v) <= Uses(v)' + 1
  PROVE  Shifted
<1>1. ASSUME NEW c \in Workers, NEW v \in Workers
      PROVE  Uses(c)' + Uses(v) <= Uses(c) + Uses(v)' + 1
  <2>1. CASE c = v  BY <2>1
  <2>2. CASE c # v  BY <2>2
  <2>. QED  BY <2>1, <2>2, Zenon
<1>. QED  BY <1>1, Zenon DEF Shifted

LEMMA UsesShift ==
  ASSUME PickInv, (\E t \in Threads : PcInit(t)) \/ Others
  PROVE  Shifted /\ Shift
<1>0. TypeOK /\ TypeOK'  BY PcInitPick, OtherPick, ZenonT(40) DEF PickInv, Others
<1>1. \A v \in Workers : /\ Uses(v) \in Nat /\ Uses(v) = Load(v) + held[v] /\ Load(v) \in Nat
                         /\ Uses(v)' \in Nat /\ Uses(v)' = Load(v)' + held'[v] /\ Load(v)' \in Nat
                         /\ held[v] \in Nat
  <2>. TAKE v \in Workers
  <2>1. Load(v) \in Nat /\ Uses(v) \in Nat /\ Uses(v) = Load(v) + held[v]
    BY <1>0, LoadType, UsesType, Zenon
  <2>2. Load(v)' \in Nat
    <3>1. Load(v)' = Cardinality({d \in Conns : worker'[d] = v})  BY Zenon DEF Load, Conns
    <3>. QED  BY <3>1, ConnsFinite, Zenon
  <2>3. held'[v] \in Nat /\ held[v] \in Nat  BY <1>0, Zenon DEF TypeOK, Workers
  <2>4. Uses(v)' = Load(v)' + held'[v]  BY Zenon DEF Uses
  <2>. QED  BY <2>1, <2>2, <2>3, <2>4
<1>2. worker \in [Conns -> 0..NumWorkers] /\ held \in [Workers -> Nat]
  BY <1>0, Zenon DEF TypeOK, CallTypes
<1>3. ASSUME NEW t \in Threads, PcInit(t) PROVE Shifted /\ Shift
  <2>. DEFINE c == at[t].pc
              x == at[t].chosen
  <2>1. /\ c \in Conns /\ x \in Workers /\ worker[c] = 0 /\ worker' = [worker EXCEPT ![c] = x]
        /\ held' = held /\ Shift
    BY <1>3, PcInitPick, Zenon DEF PcInit, PickInv, PickOK
  <2>. HIDE DEF c, x
  <2>2. \A v \in Workers : Load(v)' = IF v = x THEN Load(v) + 1 ELSE Load(v)
    BY <1>2, <2>1, LoadGiven, Zenon
  <2>3. ASSUME NEW v \in Workers
        PROVE  /\ v # x => Uses(v)' = Uses(v)
               /\ Uses(v)' <= Uses(v) + 1 /\ Uses(v) <= Uses(v)' + 1
    BY <1>1, <2>1, <2>2
  <2>4. Shifted  BY <1>1, <2>3, OneShifts, Zenon
  <2>. QED  BY <2>1, <2>4, Zenon
<1>4. ASSUME NEW c \in Conns, Gone(c) PROVE Shifted /\ Shift
  <2>1. worker[c] # 0 /\ worker' = [worker EXCEPT ![c] = 0] /\ held' = held /\ Shift
    BY <1>4, Zenon DEF Gone
  <2>2. \A v \in Workers : Load(v)' = IF v = worker[c] THEN Load(v) - 1 ELSE Load(v)
    BY <1>2, <2>1, LoadTaken, Zenon
  <2>. QED  BY <1>1, <2>1, <2>2, OneShifts
<1>5. ASSUME worker' = worker, NEW x \in Workers, NEW k \in {1, -1},
             held' = [held EXCEPT ![x] = @ + k]
      PROVE  Shifted
  <2>1. \A v \in Workers : Load(v)' = Load(v)  BY <1>5, Zenon DEF Load, Conns
  <2>2. \A v \in Workers : held'[v] = IF v = x THEN held[v] + k ELSE held[v]
    BY <1>2, <1>5, Zenon
  <2>. QED  BY <1>1, <2>1, <2>2, OneShifts
<1>6. ASSUME NEW c \in Conns, Hold(c) PROVE Shifted /\ Shift
  <2>1. worker[c] \in Workers  BY <1>2, <1>6, NumWorkersAssumption DEF Hold, Workers
  <2>2. worker' = worker /\ held' = [held EXCEPT ![worker[c]] = @ + 1] /\ Shift
    BY <1>6, Zenon DEF Hold
  <2>. QED  BY <1>5, <2>1, <2>2, Zenon
<1>7. ASSUME NEW w \in Workers, Release(w) PROVE Shifted /\ Shift
  <2>1. worker' = worker /\ held' = [held EXCEPT ![w] = @ - 1] /\ Shift
    BY <1>7, Zenon DEF Release
  <2>2. held' = [held EXCEPT ![w] = @ + (-1)]  BY <1>2, <2>1, Zenon
  <2>. QED  BY <1>5, <2>1, <2>2, Zenon
<1>. QED  BY <1>3, <1>4, <1>6, <1>7, Zenon DEF Others

(* The worker chosen so far, against each worker it was compared with.  A   *)
(* count once read goes on counting: what it says of a worker is off by the *)
(* uses that began or ended since.                                          *)
NearOK(t) ==
    \A c, v \in Workers, j \in 1..NumWorkers + 1 :
        Picking(t) /\ c = at[t].chosen /\ j = at[t].next =>
            /\ v < j => Uses(c) <= Uses(v) + drift[t] + Slack(j - 2)
            /\ seen[t] # 0 =>
                 /\ Uses(c) + 2 <= seen[t] + drift[t]
                 /\ v < j => seen[t] <= Uses(v) + 2 + drift[t] + Slack(j - 1)

NearInv == \A t \in Threads : NearOK(t)

(* Where a thread stays, and where no use begins or ends. *)
LEMMA NearStays ==
  ASSUME NEW t \in Threads, NearOK(t), at'[t] = at[t], seen'[t] = seen[t], drift'[t] = drift[t],
         \A v \in Workers : Uses(v)' = Uses(v)
  PROVE  NearOK(t)'
BY Zenon DEF NearOK, Picking, Workers

LEMMA SameUses ==
  ASSUME worker' = worker, held' = held, NEW v
  PROVE  Uses(v)' = Uses(v)
BY Zenon DEF Uses, Load, Conns

LEMMA NearShifts ==
  ASSUME PickInv, NEW t \in Threads, NearOK(t), Shifted, Shift, at'[t] = at[t], seen'[t] = seen[t]
  PROVE  NearOK(t)'
<1>. SUFFICES ASSUME NEW c \in Workers, NEW v \in Workers, NEW j \in 1..NumWorkers + 1,
                     Picking(t), c = at[t].chosen, j = at[t].next
     PROVE  /\ v < j => Uses(c)' <= Uses(v)' + drift'[t] + Slack(j - 2)
            /\ seen[t] # 0 =>
                 /\ Uses(c)' + 2 <= seen[t] + drift'[t]
                 /\ v < j => seen[t] <= Uses(v)' + 2 + drift'[t] + Slack(j - 1)
  BY Zenon DEF NearOK, Picking, Workers
<1>1. drift'[t] = drift[t] + 1  BY ShiftFacts, Zenon DEF PickInv, Picking
<1>2. drift[t] \in Nat /\ seen[t] \in Nat /\ Uses(c) \in Nat /\ Uses(v) \in Nat
  BY UsesType, Zenon DEF PickInv, TypeOK
<1>3. v < j => Slack(j - 2) \in Nat /\ Slack(j - 1) \in Nat
  <2>1. v < j => j - 2 \in Nat /\ j - 1 \in Nat  BY NumWorkersAssumption DEF Workers
  <2>. QED  BY <2>1, SlackFacts, Zenon
<1>4. /\ Uses(c)' \in Nat /\ Uses(v)' \in Nat /\ Uses(c)' <= Uses(c) + 1 /\ Uses(v) <= Uses(v)' + 1
      /\ Uses(c)' + Uses(v) <= Uses(c) + Uses(v)' + 1
  BY Zenon DEF Shifted
<1>5. /\ v < j => Uses(c) <= Uses(v) + drift[t] + Slack(j - 2)
      /\ seen[t] # 0 => /\ Uses(c) + 2 <= seen[t] + drift[t]
                        /\ v < j => seen[t] <= Uses(v) + 2 + drift[t] + Slack(j - 1)
  BY Zenon DEF NearOK
<1>. QED  BY <1>1, <1>2, <1>3, <1>4, <1>5

LEMMA NearRead ==
  ASSUME PickInv, NEW t \in Threads, NearOK(t), ReadChosen(t)
  PROVE  NearOK(t)'
<1>0. /\ Picking(t) /\ at' = at /\ worker' = worker /\ held' = held /\ drift' = drift
      /\ seen'[t] = UseCount(at[t].chosen)
  BY ReadChosenPick, Zenon
<1>. SUFFICES ASSUME NEW c \in Workers, NEW v \in Workers, NEW j \in 1..NumWorkers + 1,
                     c = at[t].chosen, j = at[t].next
     PROVE  /\ v < j => Uses(c) <= Uses(v) + drift[t] + Slack(j - 2)
            /\ Uses(c) + 2 <= UseCount(c) + drift[t]
            /\ v < j => UseCount(c) <= Uses(v) + 2 + drift[t] + Slack(j - 1)
  BY <1>0, SameUses, ZenonT(40) DEF NearOK, Picking, Workers
<1>1. drift[t] \in Nat /\ Uses(c) \in Nat /\ Uses(v) \in Nat
  BY UsesType, Zenon DEF PickInv, TypeOK
<1>2. /\ UseCount(c) \in Nat /\ UseCount(c) >= Uses(c) + 2
      /\ c # j => UseCount(c) <= Uses(c) + 2 + Slack(1)
  BY <1>0, UseBounds, Zenon DEF PickInv
<1>3. v < j => Uses(c) <= Uses(v) + drift[t] + Slack(j - 2)  BY <1>0, Zenon DEF NearOK
<1>4. ASSUME v < j PROVE UseCount(c) <= Uses(v) + 2 + drift[t] + Slack(j - 1)
  <2>1. j - 2 \in Nat /\ (j - 2) + 1 = j - 1 /\ j # 1
    BY <1>4, NumWorkersAssumption, SMTT(30) DEF Workers
  <2>2. c # j
    BY <1>0, <2>1, NumWorkersAssumption, SMTT(30) DEF PickInv, PickOK, Workers
  <2>3. Slack(j - 1) = Slack(j - 2) + Slack(1) /\ Slack(j - 2) \in Nat /\ Slack(1) \in Nat
    BY <2>1, SlackFacts, Zenon
  <2>. QED  BY <1>1, <1>2, <1>3, <1>4, <2>2, <2>3, SMTT(30)
<1>. QED  BY <1>1, <1>2, <1>3, <1>4

LEMMA NearPicks ==
  ASSUME PickInv, NEW t \in Threads, NearOK(t), GetLessUsedWorker(t)
  PROVE  NearOK(t)'
<1>. DEFINE w == at[t].next
            b == at[t].chosen
            d == IF seen[t] > UseCount(w) THEN w ELSE b
<1>0. /\ Picking(t) /\ seen[t] # 0 /\ w \in Workers
      /\ at'[t].step = "pick" /\ at'[t].next = w + 1 /\ at'[t].chosen = d
      /\ seen'[t] = 0 /\ worker' = worker /\ held' = held /\ drift' = drift
  BY GetLessUsedWorkerPick, Zenon
<1>1. b \in Workers /\ w \in 1..NumWorkers + 1 /\ w \in Nat /\ w >= 1
      /\ (b < w \/ (b = 1 /\ w = 1))
  BY <1>0, NumWorkersAssumption, SMTT(30) DEF PickInv, PickOK, Workers
<1>2. \A v \in Workers : Uses(v)' = Uses(v) /\ Uses(v) \in Nat
  BY <1>0, SameUses, UsesType, Zenon DEF PickInv
<1>. HIDE DEF w, b, d
<1>. SUFFICES ASSUME NEW v \in Workers, v < w + 1
     PROVE  Uses(d) <= Uses(v) + drift[t] + Slack(w - 1)
  <2>1. \A j \in 1..NumWorkers + 1 : j = w + 1 => j - 2 = w - 1  BY <1>1
  <2>. QED  BY <1>0, <1>2, <2>1 DEF NearOK, Picking, Workers
<1>3. drift[t] \in Nat /\ seen[t] \in Nat  BY Zenon DEF PickInv, TypeOK
<1>4. /\ v < w => Uses(b) <= Uses(v) + drift[t] + Slack(w - 2)
      /\ Uses(b) + 2 <= seen[t] + drift[t]
      /\ v < w => seen[t] <= Uses(v) + 2 + drift[t] + Slack(w - 1)
  BY <1>0, <1>1, Zenon DEF NearOK, w, b
<1>5. /\ UseCount(w) \in Nat /\ UseCount(w) >= Uses(w) + 2
      /\ b # w => UseCount(w) <= Uses(w) + 2 + Slack(1)
  BY <1>0, UseBounds, Zenon DEF PickInv, w, b
<1>6. Slack(w - 1) \in Nat /\ Slack(1) \in Nat
  <2>1. w - 1 \in Nat  BY <1>1
  <2>. QED  BY <2>1, SlackFacts, Zenon
<1>7. w # 1 => Slack(w - 1) = Slack(w - 2) + Slack(1) /\ Slack(w - 2) \in Nat
  <2>1. w # 1 => w - 2 \in Nat /\ (w - 2) + 1 = w - 1  BY <1>1
  <2>. QED  BY <2>1, SlackFacts, Zenon
<1>8. v \in Nat /\ v >= 1 /\ (v < w \/ v = w)  BY <1>1, NumWorkersAssumption DEF Workers
<1>9. CASE w = 1
  <2>0. b = 1  BY <1>1, <1>9, NumWorkersAssumption DEF Workers
  <2>1. d = v  BY <1>8, <1>9, <2>0 DEF d
  <2>. QED  BY <1>2, <1>3, <1>6, <2>1
<1>10. CASE w # 1 /\ seen[t] > UseCount(w)
  <2>1. d = w  BY <1>10, Zenon DEF d
  <2>2. CASE v < w  BY <1>0, <1>2, <1>3, <1>4, <1>5, <1>6, <1>10, <2>1, <2>2, SMTT(30)
  <2>3. CASE v = w  BY <1>2, <1>3, <1>6, <2>1, <2>3, SMTT(30)
  <2>. QED  BY <1>8, <2>2, <2>3, Zenon
<1>11. CASE w # 1 /\ ~(seen[t] > UseCount(w))
  <2>1. d = b /\ b # w  BY <1>1, <1>11, NumWorkersAssumption DEF d, Workers
  <2>2. CASE v < w  BY <1>1, <1>2, <1>3, <1>4, <1>6, <1>7, <1>11, <2>1, <2>2, SMTT(30)
  <2>3. CASE v = w
    <3>1. Uses(b) <= Uses(w) + Slack(1) + drift[t]
      BY <1>0, <1>1, <1>2, <1>3, <1>4, <1>5, <1>6, <1>11, <2>1, SMTT(30)
    <3>2. Slack(1) <= Slack(w - 1)  BY <1>6, <1>7, <1>11
    <3>. QED  BY <1>0, <1>1, <1>2, <1>3, <1>6, <2>1, <2>3, <3>1, <3>2, SMTT(30)
  <2>. QED  BY <1>8, <2>2, <2>3
<1>. QED  BY <1>9, <1>10, <1>11, SMTT(30)

LEMMA NearStep ==
  ASSUME PickInv, NearInv, [Next]_vars
  PROVE  NearInv'
<1>. SUFFICES ASSUME NEW u \in Threads PROVE NearOK(u)'  BY Zenon DEF NearInv
<1>0. NearOK(u)  BY Zenon DEF NearInv
<1>1. CASE UNCHANGED vars
  <2>1. worker' = worker /\ held' = held /\ at' = at /\ seen' = seen /\ drift' = drift
    BY <1>1, Zenon DEF vars
  <2>. QED  BY <1>0, <2>1, SameUses, NearStays, Zenon
<1>2. ASSUME NEW t \in Threads, Idles(t) PROVE NearOK(u)'
  <2>1. /\ at'[t].step # "pick" /\ \A r \in Threads \ {t} : at'[r] = at[r]
        /\ worker' = worker /\ held' = held /\ seen' = seen /\ drift' = drift
    BY <1>2, IdlesPick, Zenon
  <2>2. CASE u = t  BY <2>1, <2>2, Zenon DEF NearOK, Picking
  <2>3. CASE u # t  BY <1>0, <2>1, <2>3, SameUses, NearStays, Zenon
  <2>. QED  BY <2>2, <2>3, Zenon
<1>3. ASSUME NEW t \in Threads, Emplace(t), peerConnections[at[t].ids[1]] = 0 PROVE NearOK(u)'
  <2>1. /\ at'[t].next = 1 /\ seen[t] = 0 /\ \A r \in Threads \ {t} : at'[r] = at[r]
        /\ worker' = worker /\ held' = held /\ seen' = seen /\ drift' = drift
    BY <1>3, EmplacePick, Zenon
  <2>2. CASE u = t
    <3>1. \A v \in Workers : ~(v < 1)  BY NumWorkersAssumption DEF Workers
    <3>. QED  BY <2>1, <2>2, <3>1, Zenon DEF NearOK, Workers
  <2>3. CASE u # t  BY <1>0, <2>1, <2>3, SameUses, NearStays, Zenon
  <2>. QED  BY <2>2, <2>3
<1>4. ASSUME NEW t \in Threads, ReadChosen(t) PROVE NearOK(u)'
  <2>1. /\ at' = at /\ \A r \in Threads \ {t} : seen'[r] = seen[r]
        /\ worker' = worker /\ held' = held /\ drift' = drift
    BY <1>4, ReadChosenPick, Zenon
  <2>2. CASE u = t  BY <1>0, <1>4, <2>2, NearRead, Zenon
  <2>3. CASE u # t  BY <1>0, <2>1, <2>3, SameUses, NearStays, ZenonT(40)
  <2>. QED  BY <2>2, <2>3
<1>5. ASSUME NEW t \in Threads, GetLessUsedWorker(t) PROVE NearOK(u)'
  <2>1. /\ \A r \in Threads \ {t} : at'[r] = at[r] /\ seen'[r] = seen[r]
        /\ worker' = worker /\ held' = held /\ drift' = drift
    BY <1>5, GetLessUsedWorkerPick, Zenon
  <2>2. CASE u = t  BY <1>0, <1>5, <2>2, NearPicks
  <2>3. CASE u # t  BY <1>0, <2>1, <2>3, SameUses, NearStays, Zenon
  <2>. QED  BY <2>2, <2>3
<1>6. ASSUME NEW t \in Threads, PcInit(t) PROVE NearOK(u)'
  <2>1. at'[t].step = "signal" /\ \A r \in Threads \ {t} : at'[r] = at[r]  BY <1>6, PcInitPick, Zenon
  <2>2. Shifted /\ Shift /\ seen' = seen  BY <1>6, UsesShift, Zenon DEF PcInit
  <2>3. CASE u = t  BY <2>1, <2>3, Zenon DEF NearOK, Picking
  <2>4. CASE u # t  BY <1>0, <2>1, <2>2, <2>4, NearShifts, Zenon
  <2>. QED  BY <2>3, <2>4
<1>7. CASE Others
  <2>1. at' = at /\ seen' = seen  BY <1>7, OtherPick, Zenon DEF Others
  <2>. QED  BY <1>0, <1>7, <2>1, UsesShift, NearShifts, Zenon
<1>. QED  BY <1>1, <1>2, <1>3, <1>4, <1>5, <1>6, <1>7, PickCases, ZenonT(40)

(* Type correctness of the agent's map and its callers, however their calls *)
(* overlap.                                                                 *)
THEOREM TypeCorrect == Spec => []TypeOK
<1>1. PickInv => TypeOK  BY Zenon DEF PickInv
<1>. QED  BY <1>1, PickHolds, PTL

(* For any number of threads and workers, and however their calls overlap,  *)
(* getLessUsedWorker comes near the least used worker: the locals of the    *)
(* other threads cost at most two uses each for every comparison, and every *)
(* use that begins or ends meanwhile costs at most one.                     *)
THEOREM NearLeastUsedHolds == Spec => NearLeastUsed
<1>1. Init => NearInv
  BY DEF Init, NearInv, NearOK, Picking, Out
<1>2. PickInv /\ NearInv /\ [Next]_vars => NearInv'  BY NearStep, Zenon
<1>3. ASSUME PickInv, NearInv, NEW t \in Threads, PcInit(t), NEW w \in Workers
      PROVE  Uses(at[t].chosen) <= Uses(w) + drift[t]
               + 2 * (Cardinality(Threads) - 1) * (NumWorkers - 1)
  <2>1. Picking(t) /\ at[t].next > NumWorkers  BY <1>3, Zenon DEF PcInit, Picking
  <2>2. /\ at[t].chosen \in Workers /\ at[t].next = NumWorkers + 1
        /\ NumWorkers + 1 \in 1..NumWorkers + 1 /\ w < NumWorkers + 1
        /\ (NumWorkers + 1) - 2 = NumWorkers - 1
    BY <1>3, <2>1, NumWorkersAssumption, SMTT(30) DEF PickInv, PickOK, Workers
  <2>3. Uses(at[t].chosen) <= Uses(w) + drift[t] + Slack(NumWorkers - 1)
    BY <1>3, <2>1, <2>2, Zenon DEF NearInv, NearOK
  <2>. QED  BY <2>3, Zenon DEF Slack
<1>4. PickInv /\ NearInv =>
        [\A t \in Threads : PcInit(t) =>
           \A w \in Workers :
             Uses(at[t].chosen) <= Uses(w) + drift[t]
               + 2 * (Cardinality(Threads) - 1) * (NumWorkers - 1)]_vars
  BY <1>3, Zenon
<1>. QED  BY <1>1, <1>2, <1>4, PickHolds, PTL DEF Spec, NearLeastUsed

=============================================================================
