------------------------- MODULE WebrtcAgentProofs --------------------------
(***************************************************************************)
(* Proofs about WebrtcAgent, for any number of threads, ids, workers and    *)
(* calls: when calls that name the same id do not overlap, publish may give *)
(* a connection its worker and its first tasks after it has let go of the   *)
(* lock on the map.                                                         *)
(***************************************************************************)
EXTENDS WebrtcAgent, TLAPS

Task == {"init", "offer", "link", "close"}

(* The lives of a connection, by its worker w and the tasks q posted for it: *)
(* before them it is new, and with init alone publish is still on its way.   *)
Starts(q) == Len(q) >= 2 /\ q[1] = "init" /\ q[2] = "offer"

Open(w, q) == w # 0 /\ Starts(q) /\ \A i \in 3..Len(q) : q[i] = "link"

Closed(q) == /\ Starts(q) /\ Len(q) >= 3 /\ q[Len(q)] = "close"
             /\ \A i \in 3..Len(q) - 1 : q[i] = "link"

(* A thread in publish, after the lock, has the connection to itself: the   *)
(* id it was called with leads to it, and no other call may use the id.     *)
Setting == {"pick", "signal"}

ThreadOK(t) ==
    /\ at[t].step = "out" => at[t].ids = <<>>
    /\ at[t].step \notin {"out", "linkup", "link"} => Len(at[t].ids) = 1
    /\ at[t].step \in {"linkup", "link"} => Len(at[t].ids) = 2
    /\ at[t].step \in {"pick", "signal", "link", "close"} => at[t].pc # 0
    /\ at[t].step \in {"pick", "signal", "link"} => peerConnections[at[t].ids[1]] = at[t].pc
    /\ at[t].step = "pick" => /\ posted[at[t].pc] = <<>>
                              /\ at[t].chosen # 0 /\ at[t].next # 0
    /\ at[t].step = "signal" => worker[at[t].pc] # 0 /\ posted[at[t].pc] = <<"init">>
    /\ at[t].step \in {"close", "link"} => Open(worker[at[t].pc], posted[at[t].pc])
    /\ at[t].step = "close" => \A i \in Ids : peerConnections[i] # at[t].pc

ThreadInv == \A t \in Threads : ThreadOK(t)

(* Calls that name the same id do not overlap, and no two threads close the *)
(* same connection.                                                         *)
ApartInv == \A t, u \in Threads : t # u =>
    /\ \A i \in DOMAIN at[t].ids, j \in DOMAIN at[u].ids : at[t].ids[i] # at[u].ids[j]
    /\ at[t].step = "close" /\ at[u].step = "close" => at[t].pc # at[u].pc

(* A connection in the map is open, or the publish that made it is not over.*)
MapInv == \A i \in Ids : peerConnections[i] # 0 =>
    /\ \/ Open(worker[peerConnections[i]], posted[peerConnections[i]])
       \/ \E t \in Threads : at[t].step \in Setting /\ at[t].ids[1] = i
    /\ \A j \in Ids : peerConnections[j] = peerConnections[i] => j = i

(* A connection out of the map was never used, or is closed or being closed.*)
OutInv == \A c \in Conns : (\A i \in Ids : peerConnections[i] # c) =>
    \/ posted[c] = <<>> \/ Closed(posted[c])
    \/ \E t \in Threads : at[t].step = "close" /\ at[t].pc = c

NewInv == \A c \in Conns : c > made => posted[c] = <<>>

IInv == CallTypes /\ NoNullWorker /\ ThreadInv /\ ApartInv /\ MapInv /\ OutInv /\ NewInv

-----------------------------------------------------------------------------

(* What a task more makes of a connection. *)
LEMMA OfferOpens ==
  ASSUME NEW w, w # 0
  PROVE  Open(w, Append(<<"init">>, "offer"))
BY DEF Open, Starts

LEMMA LinkKeepsOpen ==
  ASSUME NEW w, NEW q \in Seq(Task), Open(w, q)
  PROVE  Open(w, Append(q, "link"))
BY DEF Open, Starts, Task

LEMMA CloseCloses ==
  ASSUME NEW w, NEW q \in Seq(Task), Open(w, q)
  PROVE  Closed(Append(q, "close"))
BY DEF Open, Closed, Starts, Task

(* No close is among the tasks of an open connection. *)
LEMMA OpenHasNoClose ==
  ASSUME NEW w, NEW q \in Seq(Task), Open(w, q)
  PROVE  q # <<>> /\ \A i \in DOMAIN q : q[i] # "close"
BY DEF Open, Starts, Task

ThreadSet(m) ==
    [step : {"out", "publish", "unpublish", "linkup", "pick", "signal", "close", "link"},
     ids : Seq(Ids), pc : 0..m, chosen : 0..NumWorkers, next : 0..NumWorkers + 1]

(* The fields of a thread. *)
LEMMA Fields ==
  ASSUME CallTypes, NEW t \in Threads
  PROVE  /\ at[t].step \in {"out", "publish", "unpublish", "linkup", "pick",
                            "signal", "close", "link"}
         /\ at[t].ids \in Seq(Ids)
         /\ at[t].pc \in 0..made
         /\ at[t].chosen \in 0..NumWorkers
         /\ at[t].next \in 0..NumWorkers + 1
BY Zenon DEF CallTypes

(* A thread in a call was called with an id. *)
LEMMA FirstId ==
  ASSUME CallTypes, NEW t \in Threads, ThreadOK(t), at[t].step # "out"
  PROVE  at[t].ids[1] \in Ids /\ 1 \in DOMAIN at[t].ids
<1>1. at[t].ids \in Seq(Ids)  BY Fields, Zenon
<1>2. Len(at[t].ids) \in {1, 2}  BY Zenon DEF ThreadOK
<1>. QED  BY <1>1, <1>2

(* A thread is not concerned by steps that leave it and the connections alone. *)
LEMMA OtherThread ==
  ASSUME NEW u \in Threads, ThreadOK(u), at'[u] = at[u],
         UNCHANGED <<peerConnections, worker, posted>>
  PROVE  ThreadOK(u)'
BY DEF ThreadOK

(* A call that leaves with nothing done, because an id is taken or unknown. *)
LEMMA LeaveInv ==
  ASSUME IInv, NEW t \in Threads, at[t].step \in {"publish", "unpublish", "linkup"},
         Return(t), made' \in made..Calls,
         UNCHANGED <<peerConnections, worker, posted, badCall>>
  PROVE  IInv'
<1>1. /\ CallTypes /\ made \in Nat /\ made' \in Nat /\ made <= made'
      /\ at' = [at EXCEPT ![t] = Out]
  BY BoundAssumption DEF IInv, CallTypes, Return
<1>2. at'[t] = Out /\ \A u \in Threads \ {t} : at'[u] = at[u]
  BY <1>1, Zenon DEF CallTypes
<1>3. CallTypes'
  <2>1. at' \in [Threads -> ThreadSet(made')]
    BY <1>1, <1>2, NumWorkersAssumption DEF CallTypes, ThreadSet, Out
  <2>. QED  BY <2>1, <1>1, BoundAssumption, SMTT(30) DEF CallTypes, ThreadSet
<1>4. ThreadInv'
  <2>1. ThreadOK(t)'  BY <1>2 DEF ThreadOK, Out
  <2>2. ASSUME NEW u \in Threads, u # t PROVE ThreadOK(u)'
    <3>1. ThreadOK(u)  BY Zenon DEF IInv, ThreadInv
    <3>. QED  BY <3>1, <2>2, <1>2, OtherThread, Zenon
  <2>. QED  BY <2>1, <2>2, Zenon DEF ThreadInv
<1>5. ApartInv'
  BY <1>2 DEF ApartInv, IInv, Out
<1>6. MapInv'
  BY <1>2 DEF MapInv, IInv, Setting
<1>7. OutInv' /\ NewInv'
  BY <1>1, <1>2 DEF OutInv, NewInv, IInv, Conns
<1>. QED  BY <1>3, <1>4, <1>5, <1>6, <1>7, Zenon DEF IInv, NoNullWorker

LEMMA EmplaceInv ==
  ASSUME IInv, NEW t \in Threads, Emplace(t)
  PROVE  IInv'
<1> DEFINE i == at[t].ids[1]
<1>0. CallTypes /\ made \in Nat /\ made' = made + 1 /\ made' \in 0..Calls
  <2>1. CallTypes  BY Zenon DEF IInv
  <2>2. made < Calls /\ made' = made + 1  BY Zenon DEF Emplace
  <2>3. made \in 0..Calls  BY <2>1, Zenon DEF CallTypes
  <2>. QED  BY <2>1, <2>2, <2>3, BoundAssumption
<1>1. i \in Ids /\ at[t].step = "publish" /\ Len(at[t].ids) = 1
  BY <1>0, Fields DEF IInv, ThreadInv, ThreadOK, Emplace
<1>2. /\ \A u \in Threads \ {t} : at'[u] = at[u]
      /\ UNCHANGED <<worker, posted, badCall>>
  BY Zenon DEF Emplace, Return, IInv, CallTypes
<1>3. CASE peerConnections[i] # 0
  <2>1. Return(t) /\ UNCHANGED peerConnections  BY <1>3, Zenon DEF Emplace
  <2>. QED  BY <2>1, <1>0, <1>1, <1>2, LeaveInv
<1>4. CASE peerConnections[i] = 0
  <2>1. /\ peerConnections' = [peerConnections EXCEPT ![i] = made']
        /\ at' = [at EXCEPT ![t].step = "pick", ![t].pc = made',
                            ![t].chosen = 1, ![t].next = 1]
    BY <1>4, Zenon DEF Emplace
  <2>2. at'[t] = [step |-> "pick", ids |-> at[t].ids, pc |-> made', chosen |-> 1, next |-> 1]
    BY <2>1, Zenon DEF IInv, CallTypes
  <2>3. CallTypes'
    <3>1. peerConnections' \in [Ids -> 0..made']
      BY <2>1, <1>0, <1>1 DEF CallTypes
    <3>2. at'[t] \in ThreadSet(made')
      BY <2>2, <1>0, Fields, NumWorkersAssumption DEF ThreadSet
    <3>3. at' \in [Threads -> ThreadSet(made')]
      BY <3>2, <2>1, <1>0, <1>2, SMTT(30) DEF CallTypes, ThreadSet
    <3>. QED  BY <3>1, <3>3, <1>0, <1>2, Zenon DEF CallTypes, ThreadSet
  (* The new connection is unknown to every id and thread. *)
  <2>4. /\ made' \in Conns /\ made' # 0 /\ posted[made'] = <<>>
        /\ \A j \in Ids : peerConnections[j] # made'
        /\ \A u \in Threads : at[u].pc # made'
    <3>1. \A u \in Threads : at[u].pc # made'  BY <1>0, Fields
    <3>. QED  BY <3>1, <1>0 DEF IInv, CallTypes, NewInv, Conns
  <2>5. /\ peerConnections'[i] = made'
        /\ \A j \in Ids \ {i} : peerConnections'[j] = peerConnections[j]
    BY <2>1, <1>1, <1>0, Zenon DEF CallTypes
  <2>6. \A u \in Threads \ {t} : at[u].step \notin {"out", "publish"} => at[u].ids[1] # i
    BY <1>0, <1>1, Fields DEF IInv, ThreadInv, ThreadOK, ApartInv
  <2>7. ThreadInv'
    <3>1. ASSUME NEW u \in Threads, u # t PROVE ThreadOK(u)'
      <4>1. ThreadOK(u)  BY Zenon DEF IInv, ThreadInv
      <4>2. at[u].step \in {"pick", "signal", "link"} => at[u].ids[1] \in Ids \ {i}
        BY <3>1, <4>1, <2>6, <1>0, FirstId, Zenon
      <4>. QED  BY <4>1, <4>2, <3>1, <2>4, <2>5, <1>2 DEF ThreadOK
    <3>2. ThreadOK(t)'
      BY <2>2, <2>4, <2>5, <1>1, <1>2 DEF ThreadOK
    <3>. QED  BY <3>1, <3>2, Zenon DEF ThreadInv
  <2>8. ApartInv'
    BY <2>2, <1>1, <1>2 DEF ApartInv, IInv
  <2>9. MapInv'
    BY <2>2, <2>4, <2>5, <1>1, <1>2 DEF MapInv, IInv, Setting
  <2>10. OutInv'
    BY <2>2, <2>4, <2>5, <1>1, <1>2, <1>4 DEF OutInv, IInv, Conns
  <2>11. NewInv'
    BY <1>0, <1>2 DEF NewInv, IInv, Conns
  <2>. QED  BY <2>3, <2>7, <2>8, <2>9, <2>10, <2>11, <1>2, Zenon DEF IInv, NoNullWorker
<1>. QED  BY <1>3, <1>4, Zenon

(* A call begins. *)
LEMMA CallInv ==
  ASSUME IInv, Serial, NEW t \in Threads, NEW op, NEW ids \in Seq(Ids), Call(t, op, ids),
         \/ op \in {"publish", "unpublish"} /\ Len(ids) = 1
         \/ op = "linkup" /\ Len(ids) = 2
  PROVE  IInv'
<1>1. CallTypes /\ at[t] = Out /\ at' = [at EXCEPT ![t].step = op, ![t].ids = ids]
  BY Zenon DEF IInv, Call
<1>2. UNCHANGED <<peerConnections, made, worker, posted, badCall>>
  BY Zenon DEF Call
<1>3. \A u \in Threads, i \in DOMAIN ids : \A j \in DOMAIN at[u].ids : at[u].ids[j] # ids[i]
  BY Zenon DEF Call
<1>4. at'[t] = [step |-> op, ids |-> ids, pc |-> 0, chosen |-> 0, next |-> 0]
  <2>1. at'[t] = [step |-> op, ids |-> ids, pc |-> at[t].pc, chosen |-> at[t].chosen,
                  next |-> at[t].next]
    BY <1>1, Zenon DEF CallTypes
  <2>2. at[t].pc = 0 /\ at[t].chosen = 0 /\ at[t].next = 0  BY <1>1 DEF Out
  <2>. QED  BY <2>1, <2>2, Zenon
<1>5. \A u \in Threads \ {t} : at'[u] = at[u]
  BY <1>1, Zenon DEF CallTypes
<1>6. CallTypes'
  <2>1. at'[t] \in ThreadSet(made)
    BY <1>1, <1>4, NumWorkersAssumption, BoundAssumption DEF CallTypes, ThreadSet
  <2>2. at' \in [Threads -> ThreadSet(made)]
    BY <2>1, <1>1, <1>5, Zenon DEF CallTypes, ThreadSet
  <2>. QED  BY <2>2, <1>1, <1>2, Zenon DEF CallTypes, ThreadSet
<1>7. ThreadInv'
  <2>1. ThreadOK(t)'  BY <1>4 DEF ThreadOK
  <2>2. ASSUME NEW u \in Threads, u # t PROVE ThreadOK(u)'
    <3>1. ThreadOK(u)  BY Zenon DEF IInv, ThreadInv
    <3>. QED  BY <3>1, <2>2, <1>2, <1>5, OtherThread, Zenon
  <2>. QED  BY <2>1, <2>2, Zenon DEF ThreadInv
<1>8. ApartInv'
  BY <1>3, <1>4, <1>5 DEF ApartInv, IInv
<1>9. at[t].step = "out"  BY <1>1 DEF Out
<1>10. MapInv'
  BY <1>2, <1>4, <1>5, <1>9 DEF MapInv, IInv, Setting
<1>11. OutInv'
  BY <1>2, <1>4, <1>5, <1>9 DEF OutInv, IInv
<1>12. NewInv'
  BY <1>2, Zenon DEF NewInv, IInv
<1>. QED  BY <1>2, <1>6, <1>7, <1>8, <1>10, <1>11, <1>12, Zenon DEF IInv, NoNullWorker

LEMMA GetLessUsedWorkerInv ==
  ASSUME IInv, NEW t \in Threads, GetLessUsedWorker(t)
  PROVE  IInv'
<1> DEFINE w == IF seen[t] > UseCount(at[t].next)
                THEN at[t].next ELSE at[t].chosen
<1>0. CallTypes /\ at[t].step = "pick" /\ at[t].next <= NumWorkers
  BY Zenon DEF IInv, GetLessUsedWorker
<1>1. at' = [at EXCEPT ![t].chosen = w, ![t].next = @ + 1]
  BY Zenon DEF GetLessUsedWorker
<1>2. UNCHANGED <<peerConnections, made, worker, posted, badCall>>
  BY Zenon DEF GetLessUsedWorker
<1>3. ThreadOK(t)  BY Zenon DEF IInv, ThreadInv
<1>4. w \in 1..NumWorkers /\ at[t].next + 1 \in 1..NumWorkers + 1
  BY <1>0, <1>3, Fields, NumWorkersAssumption DEF ThreadOK
<1> HIDE DEF w
<1>5. at'[t] = [step |-> "pick", ids |-> at[t].ids, pc |-> at[t].pc,
                chosen |-> w, next |-> at[t].next + 1]
  BY <1>0, <1>1, Zenon DEF CallTypes
<1>6. \A u \in Threads \ {t} : at'[u] = at[u]
  BY <1>0, <1>1, Zenon DEF CallTypes
<1>7. CallTypes'
  <2>1. at'[t] \in ThreadSet(made)
    BY <1>0, <1>4, <1>5, Fields, NumWorkersAssumption DEF ThreadSet
  <2>2. at' \in [Threads -> ThreadSet(made)]
    BY <2>1, <1>0, <1>1, <1>6, Zenon DEF CallTypes, ThreadSet
  <2>. QED  BY <2>2, <1>0, <1>2, Zenon DEF CallTypes, ThreadSet
<1>8. ThreadInv'
  <2>1. ThreadOK(t)'
    BY <1>0, <1>2, <1>3, <1>4, <1>5 DEF ThreadOK
  <2>2. ASSUME NEW u \in Threads, u # t PROVE ThreadOK(u)'
    <3>1. ThreadOK(u)  BY DEF IInv, ThreadInv
    <3>. QED  BY <3>1, <2>2, <1>2, <1>6, OtherThread, Zenon
  <2>. QED  BY <2>1, <2>2, Zenon DEF ThreadInv
<1>9. ApartInv'
  BY <1>0, <1>5, <1>6 DEF ApartInv, IInv
<1>10. MapInv'
  BY <1>0, <1>2, <1>5, <1>6 DEF MapInv, IInv, Setting
<1>11. OutInv' /\ NewInv'
  BY <1>0, <1>2, <1>5, <1>6 DEF OutInv, NewInv, IInv
<1>. QED  BY <1>2, <1>7, <1>8, <1>9, <1>10, <1>11, Zenon DEF IInv, NoNullWorker

Using == {"pick", "signal", "link", "close"}

(* Two threads never work on the same connection. *)
LEMMA PcApart ==
  ASSUME IInv, NEW t \in Threads, NEW u \in Threads, t # u,
         at[t].step \in Using, at[u].step \in Using
  PROVE  at[t].pc # at[u].pc
<1>0. CallTypes /\ ThreadOK(t) /\ ThreadOK(u)  BY Zenon DEF IInv, ThreadInv
<1>1. /\ at[t].ids[1] \in Ids /\ 1 \in DOMAIN at[t].ids
      /\ at[u].ids[1] \in Ids /\ 1 \in DOMAIN at[u].ids
  BY <1>0, Fields DEF ThreadOK, Using
<1>2. at[t].ids[1] # at[u].ids[1]  BY <1>1, Zenon DEF IInv, ApartInv
<1>3. CASE at[t].step = "close" /\ at[u].step = "close"
  BY <1>3, Zenon DEF IInv, ApartInv
<1>4. CASE at[t].step # "close" /\ at[u].step # "close"
  BY <1>0, <1>1, <1>2, <1>4 DEF ThreadOK, Using, IInv, MapInv
<1>5. CASE (at[t].step = "close") # (at[u].step = "close")
  BY <1>0, <1>1, <1>5, Zenon DEF ThreadOK, Using
<1>. QED  BY <1>3, <1>4, <1>5, Zenon

(* The connection a thread works on is one that was made. *)
LEMMA PcMade ==
  ASSUME IInv, NEW t \in Threads, at[t].step \in Using
  PROVE  /\ at[t].pc \in Conns /\ worker[at[t].pc] \in 0..NumWorkers
         /\ posted[at[t].pc] \in Seq(Task) /\ at[t].pc <= made
<1>1. CallTypes /\ ThreadOK(t)  BY Zenon DEF IInv, ThreadInv
<1>2. at[t].pc \in 1..made  BY <1>1, Fields DEF ThreadOK, Using, CallTypes
<1>3. at[t].pc \in Conns  BY <1>1, <1>2, BoundAssumption DEF CallTypes, Conns
<1>. QED  BY <1>1, <1>2, <1>3 DEF CallTypes, Task

(* A thread is not concerned by a step that changes a connection it does    *)
(* not work on.                                                             *)
LEMMA OtherConn ==
  ASSUME IInv, NEW u \in Threads, at'[u] = at[u], NEW c,
         UNCHANGED peerConnections,
         \A d \in Conns \ {c} : worker'[d] = worker[d] /\ posted'[d] = posted[d],
         at[u].step \in Using => at[u].pc # c
  PROVE  ThreadOK(u)'
<1>1. ThreadOK(u)  BY Zenon DEF IInv, ThreadInv
<1>2. CASE at[u].step \in Using
  <2>1. /\ worker'[at[u].pc] = worker[at[u].pc]
        /\ posted'[at[u].pc] = posted[at[u].pc]
    BY <1>2, PcMade, Zenon
  <2>. QED  BY <1>1, <2>1, Zenon DEF ThreadOK
<1>3. CASE at[u].step \notin Using
  BY <1>1, <1>3, Zenon DEF ThreadOK, Using
<1>. QED  BY <1>2, <1>3, Zenon

LEMMA PcInitInv ==
  ASSUME IInv, NEW t \in Threads, PcInit(t)
  PROVE  IInv'
<1> DEFINE c == at[t].pc
<1>0. CallTypes /\ ThreadOK(t) /\ at[t].step = "pick" /\ at[t].step \in Using
  BY Zenon DEF IInv, ThreadInv, PcInit, Using
<1>1. c \in Conns /\ c <= made  BY <1>0, PcMade, Zenon
<1>2. at[t].chosen \in 1..NumWorkers /\ at[t].ids[1] \in Ids /\ peerConnections[at[t].ids[1]] = c
      /\ posted[c] = <<>> /\ Len(at[t].ids) = 1
  BY <1>0, Fields, NumWorkersAssumption DEF ThreadOK
<1>3. /\ worker' = [worker EXCEPT ![c] = at[t].chosen]
      /\ posted' = [posted EXCEPT ![c] = Append(@, "init")]
      /\ at' = [at EXCEPT ![t].step = "signal"]
  BY Zenon DEF PcInit, Goto
<1>4. UNCHANGED <<peerConnections, made, badCall>>
  BY Zenon DEF PcInit
<1>5. at'[t] = [step |-> "signal", ids |-> at[t].ids, pc |-> c, chosen |-> at[t].chosen,
                next |-> at[t].next]
  BY <1>0, <1>3, Zenon DEF CallTypes
<1>6. \A u \in Threads \ {t} : at'[u] = at[u]
  BY <1>0, <1>3, Zenon DEF CallTypes
<1>7. worker'[c] = at[t].chosen /\ posted'[c] = <<"init">>
  BY <1>0, <1>1, <1>2, <1>3 DEF CallTypes
<1>8. \A d \in Conns \ {c} : worker'[d] = worker[d] /\ posted'[d] = posted[d]
  BY <1>0, <1>1, <1>3, Zenon DEF CallTypes
<1>9. CallTypes'
  <2>1. at'[t] \in ThreadSet(made)
    BY <1>0, <1>5, Fields DEF ThreadSet
  <2>2. at' \in [Threads -> ThreadSet(made)]
    BY <2>1, <1>0, <1>3, <1>6, Zenon DEF CallTypes, ThreadSet
  <2>3. worker' \in [Conns -> 0..NumWorkers]
    BY <1>0, <1>2, <1>3, NumWorkersAssumption, Zenon DEF CallTypes
  <2>4. posted' \in [Conns -> Seq({"init", "offer", "link", "close"})]
    BY <1>0, <1>1, <1>3 DEF CallTypes
  <2>. QED  BY <2>2, <2>3, <2>4, <1>0, <1>4, Zenon DEF CallTypes, ThreadSet
<1>10. ThreadInv'
  <2>1. ThreadOK(t)'
    BY <1>0, <1>2, <1>4, <1>5, <1>7, NumWorkersAssumption DEF ThreadOK
  <2>2. ASSUME NEW u \in Threads, u # t PROVE ThreadOK(u)'
    BY <2>2, <1>0, <1>4, <1>6, <1>8, PcApart, OtherConn, Zenon
  <2>. QED  BY <2>1, <2>2 DEF ThreadInv
<1>11. ApartInv'
  BY <1>0, <1>5, <1>6 DEF ApartInv, IInv
<1>12. MapInv'
  <2> SUFFICES ASSUME NEW i \in Ids, peerConnections[i] # 0
      PROVE  /\ \/ Open(worker'[peerConnections[i]], posted'[peerConnections[i]])
                \/ \E u \in Threads : at'[u].step \in Setting /\ at'[u].ids[1] = i
             /\ \A j \in Ids : peerConnections[j] = peerConnections[i] => j = i
    BY <1>4, Zenon DEF MapInv
  <2>1. peerConnections[i] \in Conns
    BY <1>0, BoundAssumption, SMTT(30) DEF CallTypes, Conns
  <2>2. CASE i = at[t].ids[1]
    BY <2>2, <1>5 DEF IInv, MapInv, Setting
  <2>3. CASE i # at[t].ids[1]
    BY <2>1, <2>3, <1>2, <1>5, <1>6, <1>8, SMTT(30) DEF IInv, MapInv
  <2>. QED  BY <2>2, <2>3, Zenon
<1>13. OutInv'
  BY <1>0, <1>2, <1>4, <1>5, <1>6, <1>8 DEF OutInv, IInv
<1>14. NewInv'
  BY <1>0, <1>1, <1>4, <1>8 DEF NewInv, IInv, Conns, CallTypes
<1>. QED  BY <1>4, <1>9, <1>10, <1>11, <1>12, <1>13, <1>14, Zenon DEF IInv, NoNullWorker

(* The last step of publish, unpublish and linkup posts a task and returns. *)
LEMMA PostInv ==
  ASSUME IInv, NEW t \in Threads, NEW task \in Task, Post(at[t].pc, task), Return(t),
         UNCHANGED <<peerConnections, made, worker>>,
         \/ at[t].step = "signal" /\ task = "offer"
         \/ at[t].step = "link" /\ task = "link"
         \/ at[t].step = "close" /\ task = "close"
  PROVE  IInv'
<1> DEFINE c == at[t].pc
<1>0. CallTypes /\ ThreadOK(t) /\ at[t].step \in Using
  BY Zenon DEF IInv, ThreadInv, Using
<1>1. c \in Conns /\ c <= made /\ posted[c] \in Seq(Task)  BY <1>0, PcMade, Zenon
<1>2. worker[c] # 0  BY <1>0, Zenon DEF ThreadOK, Open
<1>3. posted' = [posted EXCEPT ![c] = Append(@, task)] /\ UNCHANGED badCall
  BY <1>2, Zenon DEF Post
<1>4. at' = [at EXCEPT ![t] = Out]  BY Zenon DEF Return
<1>5. at'[t] = Out /\ \A u \in Threads \ {t} : at'[u] = at[u]
  BY <1>0, <1>4, Zenon DEF CallTypes
<1>6. posted'[c] = Append(posted[c], task)
  BY <1>0, <1>1, <1>3, Zenon DEF CallTypes
<1>7. \A d \in Conns \ {c} : worker'[d] = worker[d] /\ posted'[d] = posted[d]
  BY <1>0, <1>1, <1>3, Zenon DEF CallTypes
<1>8. /\ at[t].step \in {"signal", "link"} =>
           Open(worker[c], posted'[c]) /\ peerConnections[at[t].ids[1]] = c
      /\ at[t].step = "close" =>
           Closed(posted'[c]) /\ \A i \in Ids : peerConnections[i] # c
  <2>1. CASE at[t].step = "signal"
    BY <2>1, <1>0, <1>2, <1>6, OfferOpens, Zenon DEF ThreadOK
  <2>2. CASE at[t].step = "link"
    BY <2>2, <1>0, <1>1, <1>6, LinkKeepsOpen, Zenon DEF ThreadOK
  <2>3. CASE at[t].step = "close"
    BY <2>3, <1>0, <1>1, <1>6, CloseCloses, Zenon DEF ThreadOK
  <2>. QED  BY <2>1, <2>2, <2>3, Zenon
<1>9. at[t].ids[1] \in Ids  BY <1>0, Fields DEF ThreadOK, Using
<1>10. CallTypes'
  <2>1. at' \in [Threads -> ThreadSet(made)]
    BY <1>0, <1>4, <1>5, NumWorkersAssumption, BoundAssumption DEF CallTypes, ThreadSet, Out
  <2>2. posted' \in [Conns -> Seq({"init", "offer", "link", "close"})]
    BY <1>0, <1>1, <1>3 DEF CallTypes, Task
  <2>. QED  BY <2>1, <2>2, <1>0, <1>3, Zenon DEF CallTypes, ThreadSet
<1>11. ThreadInv'
  <2>1. ThreadOK(t)'  BY <1>5 DEF ThreadOK, Out
  <2>2. ASSUME NEW u \in Threads, u # t PROVE ThreadOK(u)'
    BY <2>2, <1>0, <1>5, <1>7, PcApart, OtherConn, Zenon
  <2>. QED  BY <2>1, <2>2, Zenon DEF ThreadInv
<1>12. ApartInv'
  BY <1>5, SMTT(30) DEF ApartInv, IInv, Out
<1>13. MapInv'
  <2> SUFFICES ASSUME NEW i \in Ids, peerConnections[i] # 0
      PROVE  /\ \/ Open(worker[peerConnections[i]], posted'[peerConnections[i]])
                \/ \E u \in Threads : at'[u].step \in Setting /\ at'[u].ids[1] = i
             /\ \A j \in Ids : peerConnections[j] = peerConnections[i] => j = i
    BY Zenon DEF MapInv
  <2>1. peerConnections[i] \in Conns
    BY <1>0, BoundAssumption, SMTT(30) DEF CallTypes, Conns
  <2>2. CASE peerConnections[i] = c
    BY <2>2, <1>0, <1>8, Zenon DEF IInv, MapInv, Using
  <2>3. CASE peerConnections[i] # c
    BY <2>1, <2>3, <1>5, <1>7, <1>8 DEF IInv, MapInv, Setting
  <2>. QED  BY <2>2, <2>3, Zenon
<1>14. OutInv'
  <2> SUFFICES ASSUME NEW d \in Conns, \A i \in Ids : peerConnections[i] # d
      PROVE  \/ posted'[d] = <<>> \/ Closed(posted'[d])
             \/ \E u \in Threads : at'[u].step = "close" /\ at'[u].pc = d
    BY Zenon DEF OutInv
  <2>1. CASE d = c
    BY <2>1, <1>0, <1>8, <1>9, Zenon DEF Using
  <2>2. CASE d # c
    BY <2>2, <1>5, <1>7 DEF IInv, OutInv
  <2>. QED  BY <2>1, <2>2, Zenon
<1>15. NewInv'
  BY <1>0, <1>1, <1>7 DEF NewInv, IInv, Conns, CallTypes
<1>. QED  BY <1>3, <1>10, <1>11, <1>12, <1>13, <1>14, <1>15, Zenon DEF IInv, NoNullWorker

(* A call that finds an entry in the map finds an open connection. *)
LEMMA FoundOpen ==
  ASSUME IInv, NEW t \in Threads, at[t].step \in {"unpublish", "linkup"},
         peerConnections[at[t].ids[1]] # 0
  PROVE  /\ at[t].ids[1] \in Ids /\ peerConnections[at[t].ids[1]] \in 1..made
         /\ Open(worker[peerConnections[at[t].ids[1]]], posted[peerConnections[at[t].ids[1]]])
<1>0. CallTypes /\ ThreadOK(t)  BY Zenon DEF IInv, ThreadInv
<1>1. at[t].ids[1] \in Ids /\ 1 \in DOMAIN at[t].ids
  BY <1>0, Fields DEF ThreadOK
<1>2. peerConnections[at[t].ids[1]] \in 1..made  BY <1>0, <1>1 DEF CallTypes
<1>3. ASSUME NEW u \in Threads, at[u].step \in Setting
      PROVE  at[u].ids[1] # at[t].ids[1]
  <2>1. u # t /\ ThreadOK(u)  BY <1>3, Zenon DEF Setting, IInv, ThreadInv
  <2>2. 1 \in DOMAIN at[u].ids  BY <2>1, <1>0, <1>3, Fields DEF ThreadOK, Setting
  <2>. QED  BY <2>1, <2>2, <1>1, Zenon DEF IInv, ApartInv
<1>. QED  BY <1>1, <1>2, <1>3, Zenon DEF IInv, MapInv

LEMMA EraseInv ==
  ASSUME IInv, NEW t \in Threads, Erase(t)
  PROVE  IInv'
<1> DEFINE i == at[t].ids[1]
           c == peerConnections[i]
<1>0. /\ CallTypes /\ ThreadOK(t) /\ at[t].step = "unpublish" /\ Len(at[t].ids) = 1
      /\ made \in 0..Calls
  BY Zenon DEF IInv, ThreadInv, ThreadOK, Erase, CallTypes
<1>1. UNCHANGED <<made, worker, posted, badCall>>
  BY Zenon DEF Erase
<1>2. CASE c = 0
  <2>1. Return(t) /\ UNCHANGED peerConnections  BY <1>2, Zenon DEF Erase
  <2>2. made' \in made..Calls  BY <1>0, <1>1, BoundAssumption
  <2>. QED  BY <2>1, <2>2, <1>0, <1>1, LeaveInv, Zenon
<1>3. CASE c # 0
  <2>1. /\ at' = [at EXCEPT ![t].step = "close", ![t].pc = c]
        /\ peerConnections' = [peerConnections EXCEPT ![i] = 0]
    BY <1>3, Zenon DEF Erase
  <2>2. i \in Ids /\ c \in 1..made /\ Open(worker[c], posted[c])
    BY <1>0, <1>3, FoundOpen, Zenon
  <2> HIDE DEF c
  <2>3. at'[t] = [step |-> "close", ids |-> at[t].ids, pc |-> c, chosen |-> at[t].chosen,
                  next |-> at[t].next]
    BY <1>0, <2>1, Zenon DEF CallTypes
  <2>4. \A u \in Threads \ {t} : at'[u] = at[u]
    BY <1>0, <2>1, Zenon DEF CallTypes
  <2>5. /\ peerConnections'[i] = 0
        /\ \A j \in Ids \ {i} : peerConnections'[j] = peerConnections[j] /\ peerConnections[j] # c
    <3>1. \A j \in Ids \ {i} : peerConnections[j] # c  BY <2>2, <1>3, Zenon DEF IInv, MapInv, c
    <3>. QED  BY <3>1, <1>0, <2>1, <2>2, Zenon DEF CallTypes
  <2>6. CallTypes'
    <3>1. at'[t] \in ThreadSet(made)
      BY <1>0, <2>2, <2>3, Fields DEF ThreadSet
    <3>2. at' \in [Threads -> ThreadSet(made)]
      BY <3>1, <1>0, <2>1, <2>4, Zenon DEF CallTypes, ThreadSet
    <3>3. peerConnections' \in [Ids -> 0..made]
      BY <1>0, <2>1, <2>2, BoundAssumption, SMTT(30) DEF CallTypes
    <3>. QED  BY <3>2, <3>3, <1>0, <1>1, Zenon DEF CallTypes, ThreadSet
  <2>7. ThreadInv'
    <3>1. ThreadOK(t)'  BY <1>0, <1>1, <1>3, <2>2, <2>3, <2>5, SMTT(30) DEF ThreadOK
    <3>2. ASSUME NEW u \in Threads, u # t PROVE ThreadOK(u)'
      <4>1. ThreadOK(u)  BY DEF IInv, ThreadInv
      <4>2. at[u].step \in {"pick", "signal", "link"} => at[u].ids[1] \in Ids \ {i}
        <5> SUFFICES ASSUME at[u].step \in {"pick", "signal", "link"}
                     PROVE  at[u].ids[1] \in Ids \ {i}  BY Zenon
        <5>1. at[u].ids[1] \in Ids /\ 1 \in DOMAIN at[u].ids  BY <4>1, <1>0, FirstId, Zenon
        <5>2. 1 \in DOMAIN at[t].ids  BY <1>0, FirstId, Zenon
        <5>. QED  BY <3>2, <5>1, <5>2, Zenon DEF IInv, ApartInv
      <4>3. at[u].step = "close" => at[u].pc # 0  BY <4>1, Zenon DEF ThreadOK
      <4>. QED  BY <4>1, <4>2, <4>3, <3>2, <1>1, <2>4, <2>5, Zenon DEF ThreadOK
    <3>. QED  BY <3>1, <3>2 DEF ThreadInv
  <2>8. ApartInv'
    <3>1. \A u \in Threads : at[u].step = "close" => at[u].pc # c
      BY <2>2, Zenon DEF IInv, ThreadInv, ThreadOK, c
    <3>2. at'[t].ids = at[t].ids /\ at'[t].pc = c  BY <2>3
    <3>. QED  BY <3>1, <3>2, <2>4, SMTT(30) DEF ApartInv, IInv
  <2>9. MapInv'
    <3> SUFFICES ASSUME NEW j \in Ids, peerConnections'[j] # 0
        PROVE  /\ \/ Open(worker[peerConnections'[j]], posted[peerConnections'[j]])
                  \/ \E u \in Threads : at'[u].step \in Setting /\ at'[u].ids[1] = j
               /\ \A k \in Ids : peerConnections'[k] = peerConnections'[j] => k = j
      BY <1>1, Zenon DEF MapInv
    <3>1. j # i /\ peerConnections'[j] = peerConnections[j]  BY <2>5, Zenon
    <3>2. \A u \in Threads : at[u].step \in Setting => at'[u] = at[u]
      BY <1>0, <2>4, Zenon DEF Setting
    <3>3. \/ Open(worker[peerConnections[j]], posted[peerConnections[j]])
          \/ \E u \in Threads : at'[u].step \in Setting /\ at'[u].ids[1] = j
      BY <3>1, <3>2 DEF IInv, MapInv
    <3>4. ASSUME NEW k \in Ids, peerConnections'[k] = peerConnections'[j] PROVE k = j
      BY <3>1, <3>4, <2>5, SMTT(30) DEF IInv, MapInv
    <3>. QED  BY <3>1, <3>3, <3>4, Zenon
  <2>10. OutInv'
    BY <1>0, <1>1, <2>3, <2>4, <2>5 DEF OutInv, IInv, c
  <2>11. NewInv'  BY <1>1, Zenon DEF NewInv, IInv
  <2>. QED  BY <1>1, <2>6, <2>7, <2>8, <2>9, <2>10, <2>11, Zenon DEF IInv, NoNullWorker
<1>. QED  BY <1>2, <1>3, Zenon

LEMMA FindInv ==
  ASSUME IInv, NEW t \in Threads, Find(t)
  PROVE  IInv'
<1> DEFINE c == peerConnections[at[t].ids[1]]
<1>0. /\ CallTypes /\ ThreadOK(t) /\ at[t].step = "linkup" /\ Len(at[t].ids) = 2
      /\ made \in 0..Calls
  BY Zenon DEF IInv, ThreadInv, ThreadOK, Find, CallTypes
<1>1. UNCHANGED <<peerConnections, made, worker, posted, badCall>>
  BY Zenon DEF Find
<1>2. CASE \E i \in DOMAIN at[t].ids : peerConnections[at[t].ids[i]] = 0
  <2>1. Return(t)  BY <1>2, Zenon DEF Find
  <2>2. made' \in made..Calls  BY <1>0, <1>1, BoundAssumption
  <2>. QED  BY <2>1, <2>2, <1>0, <1>1, LeaveInv, Zenon
<1>3. CASE \A i \in DOMAIN at[t].ids : peerConnections[at[t].ids[i]] # 0
  <2>1. at' = [at EXCEPT ![t].step = "link", ![t].pc = c]
    BY <1>3, Zenon DEF Find
  <2>2. c # 0  BY <1>0, <1>3, Fields
  <2>3. c \in 1..made /\ Open(worker[c], posted[c])
    BY <1>0, <2>2, FoundOpen, Zenon
  <2>4. at'[t] = [step |-> "link", ids |-> at[t].ids, pc |-> c, chosen |-> at[t].chosen,
                  next |-> at[t].next]
    BY <1>0, <2>1, Zenon DEF CallTypes
  <2>5. \A u \in Threads \ {t} : at'[u] = at[u]
    BY <1>0, <2>1, Zenon DEF CallTypes
  <2>6. CallTypes'
    <3>1. at'[t] \in ThreadSet(made)
      BY <1>0, <2>3, <2>4, Fields DEF ThreadSet
    <3>2. at' \in [Threads -> ThreadSet(made)]
      BY <3>1, <1>0, <2>1, <2>5, Zenon DEF CallTypes, ThreadSet
    <3>. QED  BY <3>2, <1>0, <1>1, Zenon DEF CallTypes, ThreadSet
  <2>7. ThreadInv'
    <3>1. peerConnections'[at'[t].ids[1]] = c  BY <1>1, <2>4
    <3>2. Open(worker'[c], posted'[c])  BY <1>1, <2>3, Zenon
    <3>3. at'[t].step = "link" /\ at'[t].ids = at[t].ids /\ at'[t].pc = c  BY <2>4, SMTT(30)
    <3>4. ThreadOK(t)'
      <4>1. Len(at'[t].ids) = 2 /\ at'[t].pc # 0  BY <3>3, <1>0, <2>2, Zenon
      <4>2. Open(worker[at[t].pc], posted[at[t].pc])'  BY <3>2, <3>3, Zenon
      <4>. QED  BY <3>1, <3>3, <4>1, <4>2, Zenon DEF ThreadOK
    <3>5. ASSUME NEW u \in Threads, u # t PROVE ThreadOK(u)'
      <4>1. ThreadOK(u)  BY DEF IInv, ThreadInv
      <4>. QED  BY <4>1, <3>5, <1>1, <2>5, OtherThread
    <3>. QED  BY <3>4, <3>5 DEF ThreadInv
  <2>8. ApartInv'  BY <2>4, <2>5 DEF ApartInv, IInv
  (* Nobody started or stopped setting up or closing a connection. *)
  <2>9. \A u \in Threads :
          /\ at[u].step \in Setting => at'[u] = at[u]
          /\ at[u].step = "close" => at'[u] = at[u]
    BY <1>0, <2>5, Zenon DEF Setting
  <2>10. MapInv'  BY <1>1, <2>9 DEF MapInv, IInv
  <2>11. OutInv' /\ NewInv'  BY <1>1, <2>9 DEF OutInv, NewInv, IInv
  <2>. QED  BY <1>1, <2>6, <2>7, <2>8, <2>10, <2>11 DEF IInv, NoNullWorker
<1>. QED  BY <1>2, <1>3, Zenon

(* A connection goes away: it is closed, so nothing leads to it. *)
LEMMA GoneInv ==
  ASSUME IInv, NEW c \in Conns, Gone(c)
  PROVE  IInv'
<1>0. CallTypes /\ posted[c] \in Seq(Task)  BY Zenon DEF IInv, CallTypes, Task
<1>1. worker' = [worker EXCEPT ![c] = 0] /\ \A t \in Threads : at[t].pc # c
  BY Zenon DEF Gone
<1>2. UNCHANGED <<peerConnections, made, posted, at, badCall>>
  BY Zenon DEF Gone
<1>3. \A w : ~Open(w, posted[c])
  <2> SUFFICES ASSUME NEW w, Open(w, posted[c]) PROVE FALSE  BY Zenon
  <2>1. \E i \in DOMAIN posted[c] : posted[c][i] = "close"  BY Zenon DEF Gone
  <2>. QED  BY <2>1, <1>0, OpenHasNoClose, Zenon
<1>4. \A d \in Conns \ {c} : worker'[d] = worker[d] /\ posted'[d] = posted[d]
  BY <1>0, <1>1, <1>2, Zenon DEF CallTypes
<1>5. CallTypes'
  BY <1>0, <1>1, <1>2, NumWorkersAssumption DEF CallTypes
<1>6. ThreadInv'
  <2> SUFFICES ASSUME NEW t \in Threads PROVE ThreadOK(t)'  BY Zenon DEF ThreadInv
  <2>. QED  BY <1>1, <1>2, <1>4, OtherConn, Zenon
<1>7. MapInv'
  <2> SUFFICES ASSUME NEW i \in Ids, peerConnections[i] # 0
      PROVE  /\ \/ Open(worker'[peerConnections[i]], posted[peerConnections[i]])
                \/ \E u \in Threads : at[u].step \in Setting /\ at[u].ids[1] = i
             /\ \A j \in Ids : peerConnections[j] = peerConnections[i] => j = i
    BY <1>2, Zenon DEF MapInv
  <2>1. peerConnections[i] \in Conns
    BY <1>0, BoundAssumption DEF CallTypes, Conns
  <2>. QED  BY <2>1, <1>3, <1>4, Zenon DEF IInv, MapInv
<1>. QED  BY <1>2, <1>5, <1>6, <1>7 DEF IInv, NoNullWorker, ApartInv, OutInv, NewInv

(* One step. *)
LEMMA NextInv ==
  ASSUME IInv, Serial, [Next]_vars
  PROVE  IInv'
<1>1. ASSUME \/ UNCHANGED vars
             \/ \E t \in Threads : ReadChosen(t)
             \/ \E c \in Conns : Hold(c)
             \/ \E w \in Workers : Release(w)
      PROVE  IInv'
  <2>1. UNCHANGED <<peerConnections, made, worker, posted, at, badCall>>
    BY <1>1, Zenon DEF vars, ReadChosen, Hold, Release
  <2>2. CallTypes' /\ NoNullWorker'  BY <2>1, Zenon DEF IInv, CallTypes, NoNullWorker
  <2>3. ThreadInv'  BY <2>1, OtherThread, Zenon DEF IInv, ThreadInv
  <2>4. ApartInv' /\ NewInv'  BY <2>1 DEF IInv, ApartInv, NewInv
  <2>5. MapInv'  BY <2>1, Zenon DEF IInv, MapInv
  <2>6. OutInv'  BY <2>1, Zenon DEF IInv, OutInv
  <2>. QED  BY <2>2, <2>3, <2>4, <2>5, <2>6, Zenon DEF IInv
<1>2. ASSUME NEW t \in Threads, NEW i \in Ids,
             Call(t, "publish", <<i>>) \/ Call(t, "unpublish", <<i>>)
      PROVE  IInv'
  <2>1. <<i>> \in Seq(Ids) /\ Len(<<i>>) = 1  OBVIOUS
  <2>2. CASE Call(t, "publish", <<i>>)  BY <2>1, <2>2, CallInv, Zenon
  <2>3. CASE Call(t, "unpublish", <<i>>)  BY <2>1, <2>3, CallInv, Zenon
  <2>. QED  BY <1>2, <2>2, <2>3, Zenon
<1>3. ASSUME NEW t \in Threads, NEW i \in Ids, NEW j \in Ids, Call(t, "linkup", <<i, j>>)
      PROVE  IInv'
  <2>1. <<i, j>> \in Seq(Ids) /\ Len(<<i, j>>) = 2  OBVIOUS
  <2>. QED  BY <1>3, <2>1, CallInv, Zenon
<1>4. ASSUME NEW t \in Threads, Signalling(t) \/ Close(t) \/ Subscribe(t)
      PROVE  IInv'
  <2>1. CASE Signalling(t)  BY <2>1, PostInv, Zenon DEF Signalling, Task
  <2>2. CASE Close(t)  BY <2>2, PostInv, Zenon DEF Close, Task
  <2>3. CASE Subscribe(t)  BY <2>3, PostInv, Zenon DEF Subscribe, Task
  <2>. QED  BY <1>4, <2>1, <2>2, <2>3, Zenon
<1>. QED
  BY <1>1, <1>2, <1>3, <1>4, EmplaceInv, GetLessUsedWorkerInv, PcInitInv, EraseInv, FindInv,
     GoneInv, Zenon DEF Next

LEMMA InitInv ==
  Init => IInv
<1> SUFFICES ASSUME Init PROVE IInv  BY Zenon
<1>1. CallTypes
  <2>1. Out \in ThreadSet(0)  BY NumWorkersAssumption DEF Out, ThreadSet
  <2>2. at \in [Threads -> ThreadSet(made)]  BY <2>1, Zenon DEF Init
  <2>3. posted \in [Conns -> Seq({"init", "offer", "link", "close"})]  BY DEF Init
  <2>4. made \in 0..Calls  BY BoundAssumption DEF Init
  <2>0. badCall \in BOOLEAN  BY Zenon DEF Init
  <2>5. peerConnections \in [Ids -> 0..made]  BY DEF Init
  <2>6. worker \in [Conns -> 0..NumWorkers]  BY NumWorkersAssumption DEF Init
  <2>. QED  BY <2>0, <2>2, <2>3, <2>4, <2>5, <2>6, Zenon DEF CallTypes, ThreadSet
<1>. QED
  BY <1>1 DEF Init, IInv, NoNullWorker, ThreadInv, ThreadOK, ApartInv, MapInv, OutInv, NewInv,
              Out

LEMMA InvHolds ==
  ASSUME Serial
  PROVE  Spec => []IInv
<1>1. IInv /\ [Next]_vars => IInv'  BY NextInv, Zenon
<1>. QED  BY <1>1, InitInv, PTL DEF Spec

(* publish may put a connection into the map before it has a worker: if     *)
(* calls that name the same id do not overlap, no call of any thread meets  *)
(* a connection without one.                                                *)
THEOREM NoNullWorkerHolds ==
  ASSUME Serial
  PROVE  Spec => []NoNullWorker
<1>1. IInv => NoNullWorker  BY Zenon DEF IInv
<1>. QED  BY <1>1, InvHolds, PTL

(* For any number of threads, workers and connections the tasks of each     *)
(* connection start with init and offer and end with close.                 *)
THEOREM TasksInOrderHolds ==
  ASSUME Serial
  PROVE  Spec => []TasksInOrder
<1>1. IInv => TasksInOrder
  <2> SUFFICES ASSUME IInv, NEW c \in Conns, NEW i \in DOMAIN posted[c]
      PROVE  /\ posted[c][i] = "init" <=> i = 1
             /\ posted[c][i] = "offer" <=> i = 2
             /\ posted[c][i] = "close" => i = Len(posted[c])
    BY Zenon DEF TasksInOrder
  <2>1. posted[c] \in Seq(Task)  BY Zenon DEF IInv, CallTypes, Task
  <2>2. posted[c] = <<"init">> \/ (\E w : Open(w, posted[c])) \/ Closed(posted[c])
    <3>1. posted[c] # <<>>  OBVIOUS
    <3>2. CASE \E j \in Ids : peerConnections[j] = c
      <4>1. PICK j \in Ids : peerConnections[j] = c  BY <3>2, Zenon
      <4>2. c # 0  BY BoundAssumption DEF Conns
      <4>3. ASSUME NEW t \in Threads, at[t].step \in Setting, at[t].ids[1] = j
            PROVE  posted[c] = <<"init">>
        BY <3>1, <4>1, <4>3, Zenon DEF IInv, ThreadInv, ThreadOK, Setting
      <4>. QED  BY <4>1, <4>2, <4>3, Zenon DEF IInv, MapInv
    <3>3. CASE \A j \in Ids : peerConnections[j] # c
      BY <3>1, <3>3, Zenon DEF IInv, OutInv, ThreadInv, ThreadOK
    <3>. QED  BY <3>2, <3>3, Zenon
  <2>3. CASE posted[c] = <<"init">>
    BY <2>3
  <2>4. CASE \E w : Open(w, posted[c])
    BY <2>1, <2>4 DEF Open, Starts
  <2>5. CASE Closed(posted[c])
    BY <2>1, <2>5 DEF Closed, Starts
  <2>. QED  BY <2>2, <2>3, <2>4, <2>5, Zenon
<1>. QED  BY <1>1, InvHolds, PTL

(* A connection is closed by the one call that took it out of the map.      *)
THEOREM ClosedOnceHolds ==
  ASSUME Serial
  PROVE  Spec => []ClosedOnce
<1>1. IInv => ClosedOnce
  <2> SUFFICES ASSUME IInv, NEW c \in 1..made
      PROVE  LET inMap == \E i \in Ids : peerConnections[i] = c
                 closed == "close" \in {posted[c][i] : i \in DOMAIN posted[c]}
                 closing == \E t \in Threads : at[t].step = "close" /\ at[t].pc = c
             IN (inMap => ~closed /\ ~closing)
                /\ (~inMap /\ posted[c] # <<>> => closed \/ closing)
    BY Zenon DEF ClosedOnce
  <2>1. c \in Conns /\ posted[c] \in Seq(Task)
    BY BoundAssumption DEF IInv, CallTypes, Conns, Task
  <2>2. ASSUME NEW i \in Ids, peerConnections[i] = c
        PROVE  /\ \A j \in DOMAIN posted[c] : posted[c][j] # "close"
               /\ \A t \in Threads : ~(at[t].step = "close" /\ at[t].pc = c)
    <3>1. CASE Open(worker[c], posted[c])
      BY <3>1, <2>1, <2>2, OpenHasNoClose, Zenon DEF IInv, ThreadInv, ThreadOK
    <3>2. ASSUME NEW t \in Threads, at[t].step \in Setting, at[t].ids[1] = i
          PROVE  posted[c] = <<>> \/ posted[c] = <<"init">>
      BY <2>2, <3>2, Zenon DEF IInv, ThreadInv, ThreadOK, Setting
    <3>3. posted[c] = <<>> \/ posted[c] = <<"init">> \/ Open(worker[c], posted[c])
      BY <2>2, <3>2 DEF IInv, MapInv
    <3>. QED  BY <3>1, <3>3, <2>2 DEF IInv, ThreadInv, ThreadOK
  <2>3. ASSUME \A i \in Ids : peerConnections[i] # c, posted[c] # <<>>
        PROVE  \/ \E j \in DOMAIN posted[c] : posted[c][j] = "close"
               \/ \E t \in Threads : at[t].step = "close" /\ at[t].pc = c
    <3>1. Closed(posted[c]) => Len(posted[c]) \in DOMAIN posted[c] /\ posted[c][Len(posted[c])] = "close"
      BY <2>1 DEF Closed
    <3>. QED  BY <3>1, <2>1, <2>3, Zenon DEF IInv, OutInv
  <2>. QED  BY <2>2, <2>3, Zenon
<1>. QED  BY <1>1, InvHolds, PTL

=============================================================================
