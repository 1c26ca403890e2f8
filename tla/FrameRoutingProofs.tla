------------------------- MODULE FrameRoutingProofs -------------------------
(***************************************************************************)
(* Proofs about FrameRouting, for any number of publishers, subscribers,    *)
(* workers and addresses, and whatever addresses are reused: every state is *)
(* well formed and deliveries leave nobody out.  This is the first of four  *)
(* layers of the invariant.                                                 *)
(***************************************************************************)
EXTENDS FrameRouting, TLAPS

(* 1. A task runs on the worker of the connection it is about, so a map of  *)
(* destinations changes only under its publisher's worker; and a delivery   *)
(* still has to visit an entry, or has posted to it.                        *)
OwnInv ==
    \A w \in Workers :
        /\ run[w] # Idle => WorkerOf[run[w].pc] = w
        /\ \A i \in 1 .. Len(tasks[w]) : WorkerOf[tasks[w][i].pc] = w

DeliverInv ==
    \A w \in Workers : run[w].type = "deliver" =>
        \A a \in Addresses :
            LET e == dests[run[w].pc][run[w].sub][a] IN
            /\ a \in run[w].todo => e # NoDest
            /\ e # NoDest => a \in run[w].todo \/ e \in run[w].posted

Inv1 == TypeOK /\ OwnInv /\ DeliverInv

(* What a worker is in the middle of, by the type of its task. *)
LEMMA RunCases ==
  ASSUME TypeOK, NEW w \in Workers
  PROVE  /\ run[w].type \in {"idle", "offer", "close", "link", "cut", "deliver"}
         /\ run[w].type = "idle" <=> run[w] = Idle
         /\ run[w].type \in {"offer", "close"} =>
              /\ run[w].pc \in Pcs /\ run[w].sub = None
              /\ run[w].todo \in SUBSET Kinds /\ run[w].held = {} /\ run[w].posted = {}
         /\ run[w].type \in {"link", "cut"} =>
              /\ run[w].pc \in Pubs /\ run[w].sub \in Subs
              /\ run[w].todo \in SUBSET Kinds /\ run[w].held \in SUBSET Dests
              /\ run[w].posted = {}
         /\ run[w].type = "deliver" =>
              /\ run[w].pc \in Pubs /\ run[w].sub \in Kinds
              /\ run[w].todo \in SUBSET Addresses /\ run[w].held \in SUBSET Dests
              /\ run[w].posted \in SUBSET Dests
<1>1. run[w] \in Running \cup {Idle}  BY Zenon DEF TypeOK
<1>2. CASE run[w] = Idle  BY <1>2 DEF Idle
<1>3. CASE run[w] \in Running
  <2>1. CASE run[w] \in [type : {"offer", "close"}, pc : Pcs, sub : {None},
                         todo : SUBSET Kinds, held : {{}}, posted : {{}}]
    BY <2>1 DEF Idle
  <2>2. CASE run[w] \in [type : {"link", "cut"}, pc : Pubs, sub : Subs, todo : SUBSET Kinds,
                         held : SUBSET Dests, posted : {{}}]
    BY <2>2 DEF Idle
  <2>3. CASE run[w] \in [type : {"deliver"}, pc : Pubs, sub : Kinds, todo : SUBSET Addresses,
                         held : SUBSET Dests, posted : SUBSET Dests]
    BY <2>3 DEF Idle
  <2>. QED  BY <1>3, <2>1, <2>2, <2>3, Zenon DEF Running
<1>. QED  BY <1>1, <1>2, <1>3, Zenon

(* The task at the head of a queue. *)
LEMMA HeadCases ==
  ASSUME TypeOK, NEW w \in Workers, tasks[w] # <<>>
  PROVE  /\ Head(tasks[w]) \in Posted /\ Tail(tasks[w]) \in Seq(Posted)
         /\ Len(tasks[w]) \in Nat /\ Len(tasks[w]) > 0
         /\ Head(tasks[w]) = tasks[w][1]
         /\ Len(Tail(tasks[w])) = Len(tasks[w]) - 1
         /\ \A i \in 1 .. Len(tasks[w]) - 1 : Tail(tasks[w])[i] = tasks[w][i + 1]
<1>. tasks[w] \in Seq(Posted)  BY Zenon DEF TypeOK
<1>. QED  OBVIOUS

LEMMA RunRecord ==
  ASSUME TypeOK, NEW w \in Workers
  PROVE  run[w] = [type |-> run[w].type, pc |-> run[w].pc, sub |-> run[w].sub,
                   todo |-> run[w].todo, held |-> run[w].held, posted |-> run[w].posted]
<1>1. run[w] \in Running \cup {Idle}  BY DEF TypeOK
<1>. QED  BY <1>1, Zenon DEF Running, Idle

(* What a step of a loop does to the worker's task. *)
LEMMA TodoRun ==
  ASSUME TypeOK, NEW w \in Workers, NEW k, NoTrack(w, k) \/ CloseTrack(w, k)
  PROVE  /\ run' \in [Workers -> Running \cup {Idle}]
         /\ run' = [run EXCEPT ![w] = run'[w]]
         /\ run'[w] = [type |-> run[w].type, pc |-> run[w].pc, sub |-> run[w].sub,
                       todo |-> run[w].todo \ {k}, held |-> run[w].held,
                       posted |-> run[w].posted]
<1>0. /\ run' = [run EXCEPT ![w].todo = @ \ {k}]
      /\ run[w].type \in {"link", "cut", "close"}
  BY Zenon DEF NoTrack, CloseTrack
<1>1. run \in [Workers -> Running \cup {Idle}]  BY Zenon DEF TypeOK
<1>2. run' = [run EXCEPT ![w] = run'[w]]  BY <1>0, <1>1, Zenon
<1>3. run'[w] = [type |-> run[w].type, pc |-> run[w].pc, sub |-> run[w].sub,
                 todo |-> run[w].todo \ {k}, held |-> run[w].held,
                 posted |-> run[w].posted]
  <2>1. run[w] = [type |-> run[w].type, pc |-> run[w].pc, sub |-> run[w].sub,
                  todo |-> run[w].todo, held |-> run[w].held, posted |-> run[w].posted]
    BY RunRecord, Zenon
  <2>. QED  BY <1>0, <1>1, <2>1, Zenon
<1>4. run'[w] \in Running
  <2>1. CASE run[w].type = "close"  BY <1>3, <2>1, RunCases DEF Running
  <2>2. CASE run[w].type \in {"link", "cut"}  BY <1>3, <2>2, RunCases DEF Running
  <2>. QED  BY <1>0, <2>1, <2>2, Zenon
<1>. QED  BY <1>1, <1>2, <1>3, <1>4, Zenon

LEMMA TodoFields ==
  ASSUME TypeOK, NEW w \in Workers, NEW k, NoTrack(w, k) \/ CloseTrack(w, k)
  PROVE  /\ \A v \in Workers : v # w => run'[v] = run[v]
         /\ run'[w].type = run[w].type /\ run'[w].pc = run[w].pc
         /\ run'[w].sub = run[w].sub
         /\ run'[w].todo = run[w].todo \ {k} /\ run'[w].held = run[w].held
         /\ run'[w].posted = run[w].posted
<1>1. run \in [Workers -> Running \cup {Idle}]  BY DEF TypeOK
<1>2. run' = [run EXCEPT ![w] = run'[w]]  BY TodoRun, Zenon
<1>3. run'[w] = [type |-> run[w].type, pc |-> run[w].pc, sub |-> run[w].sub,
                 todo |-> run[w].todo \ {k}, held |-> run[w].held, posted |-> run[w].posted]
  BY TodoRun, Zenon
<1>4. \A v \in Workers : v # w => run'[v] = run[v]  BY <1>1, <1>2, Zenon
<1>. QED  BY <1>3, <1>4

LEMMA AdvanceRun ==
  ASSUME TypeOK, NEW w \in Workers, NEW item, NEW D, Advance(w, item, D)
  PROVE  /\ run' = [run EXCEPT ![w] = run'[w]]
         /\ run'[w] = [type |-> run[w].type, pc |-> run[w].pc, sub |-> run[w].sub,
                       todo |-> run[w].todo \ {item}, held |-> D,
                       posted |-> run[w].posted
                                    \cup (IF run[w].type = "deliver" THEN D ELSE {})]
<1>1. run \in [Workers -> Running \cup {Idle}]  BY Zenon DEF TypeOK
<1>2. run[w] = [type |-> run[w].type, pc |-> run[w].pc, sub |-> run[w].sub,
                todo |-> run[w].todo, held |-> run[w].held, posted |-> run[w].posted]
  BY RunRecord, Zenon
<1>. QED  BY <1>1, <1>2, Zenon DEF Advance

LEMMA AdvanceFields ==
  ASSUME TypeOK, NEW w \in Workers, NEW item, NEW D, Advance(w, item, D)
  PROVE  /\ \A v \in Workers : v # w => run'[v] = run[v]
         /\ run'[w].type = run[w].type /\ run'[w].pc = run[w].pc
         /\ run'[w].sub = run[w].sub
         /\ run'[w].todo = run[w].todo \ {item} /\ run'[w].held = D
         /\ run'[w].posted = run[w].posted \cup (IF run[w].type = "deliver" THEN D ELSE {})
<1>1. run \in [Workers -> Running \cup {Idle}]  BY DEF TypeOK
<1>2. run' = [run EXCEPT ![w] = run'[w]]  BY AdvanceRun, Zenon
<1>3. run'[w] = [type |-> run[w].type, pc |-> run[w].pc, sub |-> run[w].sub,
                 todo |-> run[w].todo \ {item}, held |-> D, posted |-> run[w].posted \cup (IF run[w].type = "deliver" THEN D ELSE {})]
  BY AdvanceRun, Zenon
<1>4. \A v \in Workers : v # w => run'[v] = run[v]  BY <1>1, <1>2, Zenon
<1>. QED  BY <1>3, <1>4

LEMMA ReleaseTypes ==
  ASSUME TypeOK, NEW w \in Workers, NEW D, Release(w, D)
  PROVE  /\ addr' \in [Dests -> Addresses \cup {None}]
         /\ freedOn' \in [Dests -> Workers \cup {None}]
BY Zenon DEF TypeOK, Release

LEMMA RunTyped ==
  ASSUME TypeOK, NEW w \in Workers, NEW r \in Running \cup {Idle},
         run' = [run EXCEPT ![w] = r]
  PROVE  run' \in [Workers -> Running \cup {Idle}]
BY Zenon DEF TypeOK

LEMMA AdvanceTypes ==
  ASSUME TypeOK, NEW w \in Workers, NEW item, NEW D \in SUBSET Dests, Advance(w, item, D),
         run[w].type \in {"link", "cut", "deliver"}
  PROVE  /\ run' \in [Workers -> Running \cup {Idle}]
         /\ addr' \in [Dests -> Addresses \cup {None}]
         /\ freedOn' \in [Dests -> Workers \cup {None}]
<1>1. run'[w] \in Running
  <2>. DEFINE P == run[w].posted \cup (IF run[w].type = "deliver" THEN D ELSE {})
  <2>0. run'[w] = [type |-> run[w].type, pc |-> run[w].pc, sub |-> run[w].sub,
                   todo |-> run[w].todo \ {item}, held |-> D, posted |-> P]
    BY AdvanceRun
  <2>1. CASE run[w].type = "deliver"
    <3>1. P \in SUBSET Dests  BY <2>1, RunCases, Zenon
    <3>. HIDE DEF P
    <3>. QED  BY <2>0, <2>1, <3>1, RunCases DEF Running
  <2>2. CASE run[w].type \in {"link", "cut"}
    <3>1. P = {}  BY <2>2, RunCases, Zenon
    <3>. HIDE DEF P
    <3>. QED  BY <2>0, <2>2, <3>1, RunCases DEF Running
  <2>. QED  BY <2>1, <2>2, Zenon
<1>2. run' = [run EXCEPT ![w] = run'[w]]  BY AdvanceRun, Zenon
<1>3. run' \in [Workers -> Running \cup {Idle}]  BY <1>1, <1>2, Zenon DEF TypeOK
<1>. QED  BY <1>3, ReleaseTypes, Zenon DEF Advance

(* One entry of a map of destinations is set. *)
Put(p, k, a, e) == dests' = [dests EXCEPT ![p][k][a] = e]

LEMMA SetEntry ==
  ASSUME TypeOK, NEW p \in Pubs, NEW k \in Kinds, NEW a, NEW e,
         a \in Addresses => e \in Dests \cup {NoDest}, Put(p, k, a, e)
  PROVE  /\ dests' \in [Pubs -> [Kinds -> [Addresses -> Dests \cup {NoDest}]]]
         /\ \A q \in Pubs, j \in Kinds, b \in Addresses :
              dests'[q][j][b] = IF q = p /\ j = k /\ b = a THEN e ELSE dests[q][j][b]
<1>. DEFINE M == [Addresses -> Dests \cup {NoDest}]
            m == [dests[p][k] EXCEPT ![a] = e]
<1>1. dests \in [Pubs -> [Kinds -> M]]  BY Zenon DEF TypeOK
<1>2. dests[p][k] \in M  BY <1>1, Zenon
<1>3. m \in M /\ \A b \in Addresses : m[b] = IF b = a THEN e ELSE dests[p][k][b]  BY <1>2, Zenon
<1>4. dests' = [dests EXCEPT ![p][k] = m]  BY Zenon DEF Put
<1>. HIDE DEF m, M
<1>5. dests' \in [Pubs -> [Kinds -> M]]  BY <1>1, <1>3, <1>4, Zenon
<1>6. \A q \in Pubs, j \in Kinds :
        dests'[q][j] = IF q = p /\ j = k THEN m ELSE dests[q][j]
  BY <1>1, <1>4, Zenon
<1>. QED  BY <1>3, <1>5, <1>6 DEF M

LEMMA NoDestNotDest == NoDest \notin Dests
BY Zenon DEF NoDest, Dests, Kinds, None

LEMMA PostTypes ==
  ASSUME TypeOK, NEW x \in Pcs, NEW t \in Posted, Post(x, t),
         registered' \subseteq used', used' \subseteq Pcs
  PROVE  TypeOK'
<1>1. WorkerOf[x] \in Workers  BY WorkersAssumption, Zenon DEF Pcs
<1>2. Append(tasks[WorkerOf[x]], t) \in Seq(Posted)  BY <1>1 DEF TypeOK
<1>3. tasks' \in [Workers -> Seq(Posted)]  BY <1>1, <1>2, Zenon DEF TypeOK, Post
<1>. QED  BY <1>3, Zenon DEF TypeOK, Post

LEMMA TypeStep == TypeOK /\ DeliverInv /\ [Next]_vars => TypeOK'
<1>. SUFFICES ASSUME TypeOK, DeliverInv, [Next]_vars PROVE TypeOK'
  BY Zenon
<1>1. CASE UNCHANGED vars  BY <1>1, Zenon DEF TypeOK, vars
<1>2. ASSUME NEW x \in Pcs, Open(x) PROVE TypeOK'
  <2>1. Task("offer", x, None) \in Posted  BY Zenon DEF Task, Posted
  <2>. QED  BY <1>2, <2>1, PostTypes, Zenon DEF Open, TypeOK
<1>3. ASSUME NEW x \in Pcs, Unregister(x) PROVE TypeOK'
  <2>1. Task("close", x, None) \in Posted  BY Zenon DEF Task, Posted
  <2>. QED  BY <1>3, <2>1, PostTypes, Zenon DEF Unregister, TypeOK
<1>4. ASSUME NEW p \in Pubs, NEW s \in Subs, Linkup(p, s) PROVE TypeOK'
  <2>1. Task("link", p, s) \in Posted /\ p \in Pcs  BY Zenon DEF Task, Posted, Pcs
  <2>. QED  BY <1>4, <2>1, PostTypes, Zenon DEF Linkup, TypeOK
<1>5. ASSUME NEW p \in Pubs, NEW s \in Subs, Cutoff(p, s) PROVE TypeOK'
  <2>1. Task("cut", p, s) \in Posted /\ p \in Pcs  BY Zenon DEF Task, Posted, Pcs
  <2>. QED  BY <1>5, <2>1, PostTypes, Zenon DEF Cutoff, TypeOK
<1>6. ASSUME NEW w \in Workers, NEW p \in Pubs, NEW k \in Kinds, Frame(w, p, k)
      PROVE  TypeOK'
  <2>1. [type |-> "deliver", pc |-> p, sub |-> k, held |-> {}, posted |-> {},
         todo |-> {a \in Addresses : dests[p][k][a] # NoDest}] \in Running
    BY Zenon DEF Running
  <2>2. run' \in [Workers -> Running \cup {Idle}]  BY <1>6, <2>1, RunTyped, Zenon DEF Frame
  <2>. QED  BY <1>6, <2>2, Zenon DEF TypeOK, Frame, api
<1>7. ASSUME NEW w \in Workers, Start(w) PROVE TypeOK'
  <2>. DEFINE t == Head(tasks[w])
  <2>. DEFINE r == [type |-> t.type, pc |-> t.pc, sub |-> t.sub, held |-> {}, posted |-> {},
                    todo |-> IF t.type = "close" THEN track[t.pc]
                             ELSE IF t.type = "offer" THEN {} ELSE track[t.sub]]
  <2>1. t \in Posted /\ Tail(tasks[w]) \in Seq(Posted)  BY <1>7, HeadCases, Zenon DEF Start
  <2>2. r \in Running
    <3>1. CASE t \in [type : {"offer", "close"}, pc : Pcs, sub : {None}]
      BY <3>1, Zenon DEF Running, TypeOK
    <3>2. CASE t \in [type : {"link", "cut"}, pc : Pubs, sub : Subs]
      BY <3>2, Zenon DEF Running, TypeOK, Pcs
    <3>. QED  BY <2>1, <3>1, <3>2, Zenon DEF Posted
  <2>3. run' = [run EXCEPT ![w] = r]  BY <1>7, Zenon DEF Start
  <2>4. run' \in [Workers -> Running \cup {Idle}]  BY <2>2, <2>3, RunTyped, Zenon
  <2>5. tasks' \in [Workers -> Seq(Posted)]  BY <1>7, <2>1, Zenon DEF TypeOK, Start
  <2>. QED  BY <1>7, <2>4, <2>5, Zenon DEF TypeOK, Start, api
<1>8. ASSUME NEW w \in Workers, Offer(w) PROVE TypeOK'
  <2>1. PICK K \in SUBSET Kinds \ {{}}, f \in [Kinds -> Addresses] :
          /\ track' = [track EXCEPT ![run[w].pc] = K]
          /\ IF run[w].pc \in Pubs THEN UNCHANGED addr
             ELSE addr' = [d \in Dests |-> IF d[1] = run[w].pc /\ d[2] \in K
                                           THEN f[d[2]] ELSE addr[d]]
    BY <1>8, Zenon DEF Offer
  <2>2. track' \in [Pcs -> SUBSET Kinds]  BY <2>1, Zenon DEF TypeOK
  <2>3. addr' \in [Dests -> Addresses \cup {None}]  BY <2>1 DEF TypeOK
  <2>4. run' \in [Workers -> Running \cup {Idle}]  BY <1>8, RunTyped, Zenon DEF Offer
  <2>. QED  BY <1>8, <2>2, <2>3, <2>4, Zenon DEF TypeOK, Offer, api
<1>9. ASSUME NEW w \in Workers, Finish(w) PROVE TypeOK'
  <2>1. run' \in [Workers -> Running \cup {Idle}]  BY <1>9, RunTyped, Zenon DEF Finish
  <2>2. /\ addr' \in [Dests -> Addresses \cup {None}]
        /\ freedOn' \in [Dests -> Workers \cup {None}]
    BY <1>9, ReleaseTypes, Zenon DEF Finish
  <2>. QED  BY <1>9, <2>1, <2>2, Zenon DEF TypeOK, Finish, api
<1>10. ASSUME NEW w \in Workers, NEW k \in Kinds, NoTrack(w, k) PROVE TypeOK'
  <2>1. run' \in [Workers -> Running \cup {Idle}]  BY <1>10, TodoRun, Zenon
  <2>. QED  BY <1>10, <2>1, Zenon DEF TypeOK, NoTrack, api
<1>11. ASSUME NEW w \in Workers, NEW k \in Kinds, AddLink(w, k) PROVE TypeOK'
  <2>1. run[w].pc \in Pubs /\ <<run[w].sub, k>> \in Dests
    BY <1>11, RunCases, Zenon DEF AddLink, Dests
  <2>2. /\ run' \in [Workers -> Running \cup {Idle}]
        /\ addr' \in [Dests -> Addresses \cup {None}]
        /\ freedOn' \in [Dests -> Workers \cup {None}]
    BY <1>11, <2>1, AdvanceTypes, Zenon DEF AddLink
  <2>3. source' \in [Dests -> Pubs \cup {None}]
    BY <1>11, <2>1, Zenon DEF AddLink, AddDestination, TypeOK
  <2>4. dests' \in [Pubs -> [Kinds -> [Addresses -> Dests \cup {NoDest}]]]
    <3>. DEFINE d == <<run[w].sub, k>>
                e == dests[run[w].pc][k][addr[d]]
    <3>1. Put(run[w].pc, k, addr[d], IF e = NoDest THEN d ELSE e)
      BY <1>11, Zenon DEF AddLink, AddDestination, Put
    <3>2. addr[d] \in Addresses => e \in Dests \cup {NoDest}  BY <2>1 DEF TypeOK
    <3>. HIDE DEF e
    <3>. QED  BY <2>1, <3>1, <3>2, SetEntry, Zenon
  <2>. QED  BY <1>11, <2>2, <2>3, <2>4, Zenon DEF TypeOK, AddLink, api
<1>12. ASSUME NEW w \in Workers, NEW k \in Kinds, RemoveLink(w, k) PROVE TypeOK'
  <2>1. run[w].pc \in Pubs /\ <<run[w].sub, k>> \in Dests
    BY <1>12, RunCases, Zenon DEF RemoveLink, Dests
  <2>2. /\ run' \in [Workers -> Running \cup {Idle}]
        /\ addr' \in [Dests -> Addresses \cup {None}]
        /\ freedOn' \in [Dests -> Workers \cup {None}]
    BY <1>12, <2>1, AdvanceTypes, Zenon DEF RemoveLink
  <2>3. source' \in [Dests -> Pubs \cup {None}] /\ crashed' \in BOOLEAN
    BY <1>12, <2>1, Zenon DEF RemoveLink, RemoveDestination, TypeOK
  <2>4. dests' \in [Pubs -> [Kinds -> [Addresses -> Dests \cup {NoDest}]]]
    <3>. DEFINE d == <<run[w].sub, k>>
    <3>1. dests' = dests \/ Put(run[w].pc, k, addr[d], NoDest)
      BY <1>12, Zenon DEF RemoveLink, RemoveDestination, Put
    <3>. QED  BY <2>1, <3>1, SetEntry, Zenon DEF TypeOK
  <2>. QED  BY <1>12, <2>2, <2>3, <2>4, Zenon DEF TypeOK, RemoveLink, api
<1>13. ASSUME NEW w \in Workers, NEW k \in Kinds, CloseTrack(w, k) PROVE TypeOK'
  <2>3. run' \in [Workers -> Running \cup {Idle}]  BY <1>13, TodoRun, Zenon
  <2>4. /\ addr' \in [Dests -> Addresses \cup {None}]
        /\ freedOn' \in [Dests -> Workers \cup {None}]
    BY <1>13, ReleaseTypes, Zenon DEF CloseTrack
  <2>5. track' \in [Pcs -> SUBSET Kinds]  BY <1>13, Zenon DEF CloseTrack, TypeOK
  <2>6. dests' \in [Pubs -> [Kinds -> [Addresses -> Dests \cup {NoDest}]]]
    BY <1>13, Zenon DEF CloseTrack, TypeOK
  <2>. QED  BY <1>13, <2>3, <2>4, <2>5, <2>6, Zenon DEF TypeOK, CloseTrack, api
<1>14. ASSUME NEW w \in Workers, NEW a \in Addresses, DeliverTo(w, a) PROVE TypeOK'
  <2>. DEFINE d == dests[run[w].pc][run[w].sub][a]
  <2>1. run[w].pc \in Pubs /\ run[w].sub \in Kinds  BY <1>14, RunCases, Zenon DEF DeliverTo
  <2>2. d \in Dests  BY <1>14, <2>1, SMTT(30) DEF DeliverTo, DeliverInv, TypeOK
  <2>3. /\ run' \in [Workers -> Running \cup {Idle}]
        /\ addr' \in [Dests -> Addresses \cup {None}]
        /\ freedOn' \in [Dests -> Workers \cup {None}]
    BY <1>14, <2>2, AdvanceTypes, Zenon DEF DeliverTo
  <2>4. dests' \in [Pubs -> [Kinds -> [Addresses -> Dests \cup {NoDest}]]]
    <3>1. dests' = dests \/ Put(run[w].pc, run[w].sub, a, NoDest)
      BY <1>14, Zenon DEF DeliverTo, Put
    <3>. QED  BY <2>1, <3>1, SetEntry, Zenon DEF TypeOK
  <2>. QED  BY <1>14, <2>3, <2>4, Zenon DEF TypeOK, DeliverTo, api
<1>. QED
  BY <1>1, <1>2, <1>3, <1>4, <1>5, <1>6, <1>7, <1>8, <1>9, <1>10, <1>11, <1>12, <1>13, <1>14, Zenon
  DEF Next, Work

(* The application's calls have in common that they post one task, to the   *)
(* worker of the connection it is about.                                    *)
Call(x, t) == /\ Post(x, t) /\ t.pc = x
              /\ IF t.type = "offer" THEN x \notin used /\ used' = used \cup {x}
                 ELSE used' = used
              /\ t.type \in {"link", "cut"} => t.pc \in used /\ t.sub \in used

(* What the other steps have in common, for the worker that takes them. *)
Continues(w) == /\ tasks' = tasks /\ used' = used
                /\ \A v \in Workers : v # w => run'[v] = run[v]
                /\ \/ run'[w] = Idle
                   \/ /\ run[w].type \in {"link", "cut", "close", "deliver"}
                      /\ run'[w].type = run[w].type
                      /\ run'[w].pc = run[w].pc
                      /\ run'[w].sub = run[w].sub

Loop(w) == \/ \E k \in Kinds : NoTrack(w, k) \/ AddLink(w, k) \/ RemoveLink(w, k)
                               \/ CloseTrack(w, k)
           \/ \E a \in Addresses : DeliverTo(w, a)

LEMMA LoopContinues ==
  ASSUME TypeOK, NEW w \in Workers, Loop(w)
  PROVE  Continues(w)
<1>1. ASSUME NEW k \in Kinds, NoTrack(w, k) PROVE Continues(w)
  BY <1>1, TodoFields, Zenon DEF Continues, NoTrack, api
<1>2. ASSUME NEW k \in Kinds, CloseTrack(w, k) PROVE Continues(w)
  BY <1>2, TodoFields, Zenon DEF Continues, CloseTrack, api
<1>3. ASSUME NEW item, NEW D, Advance(w, item, D),
             run[w].type \in {"link", "cut", "deliver"}, tasks' = tasks, used' = used
      PROVE  Continues(w)
  BY <1>3, AdvanceFields, Zenon DEF Continues
<1>4. ASSUME NEW k \in Kinds, AddLink(w, k) \/ RemoveLink(w, k) PROVE Continues(w)
  BY <1>3, <1>4, Zenon DEF AddLink, RemoveLink, api
<1>5. ASSUME NEW a \in Addresses, DeliverTo(w, a) PROVE Continues(w)
  BY <1>3, <1>5, Zenon DEF DeliverTo, api
<1>. QED  BY <1>1, <1>2, <1>4, <1>5, Zenon DEF Loop

LEMMA EndContinues ==
  ASSUME TypeOK, NEW w \in Workers, Offer(w) \/ Finish(w)
  PROVE  Continues(w)
<1>1. run \in [Workers -> Running \cup {Idle}]  BY Zenon DEF TypeOK
<1>2. run' = [run EXCEPT ![w] = Idle] /\ tasks' = tasks /\ used' = used
  BY Zenon DEF Offer, Finish, api
<1>. QED  BY <1>1, <1>2, Zenon DEF Continues

(* Every step is one of these. *)
LEMMA StepCases ==
  ASSUME TypeOK, [Next]_vars
  PROVE  \/ UNCHANGED vars
         \/ \E x \in Pcs, t \in Posted : Call(x, t)
         \/ \E w \in Workers, p \in Pubs, k \in Kinds : Frame(w, p, k)
         \/ \E w \in Workers : Start(w) \/ Offer(w) \/ Finish(w) \/ Loop(w)
<1>1. ASSUME NEW x \in Pcs, Open(x) PROVE \E t \in Posted : Call(x, t)
  <2>1. Task("offer", x, None) \in Posted  BY Zenon DEF Task, Posted
  <2>2. Call(x, Task("offer", x, None))  BY <1>1, Zenon DEF Open, Call, Task
  <2>. QED  BY <2>1, <2>2, Zenon
<1>2. ASSUME NEW x \in Pcs, Unregister(x) PROVE \E t \in Posted : Call(x, t)
  <2>1. Task("close", x, None) \in Posted  BY Zenon DEF Task, Posted
  <2>2. Call(x, Task("close", x, None))  BY <1>2, Zenon DEF Unregister, Call, Task
  <2>. QED  BY <2>1, <2>2, Zenon
<1>3. ASSUME NEW p \in Pubs, NEW s \in Subs, Linkup(p, s)
      PROVE  p \in Pcs /\ \E t \in Posted : Call(p, t)
  <2>1. Task("link", p, s) \in Posted /\ p \in Pcs  BY Zenon DEF Task, Posted, Pcs
  <2>2. Call(p, Task("link", p, s))  BY <1>3, Zenon DEF Linkup, Call, Task, TypeOK
  <2>. QED  BY <2>1, <2>2, Zenon
<1>4. ASSUME NEW p \in Pubs, NEW s \in Subs, Cutoff(p, s)
      PROVE  p \in Pcs /\ \E t \in Posted : Call(p, t)
  <2>1. Task("cut", p, s) \in Posted /\ p \in Pcs  BY Zenon DEF Task, Posted, Pcs
  <2>2. Call(p, Task("cut", p, s))  BY <1>4, Zenon DEF Cutoff, Call, Task, TypeOK
  <2>. QED  BY <2>1, <2>2, Zenon
<1>. QED  BY <1>1, <1>2, <1>3, <1>4, Zenon DEF Next, Work, Loop

(* The queues after a call and after a task is taken. *)
LEMMA CallQueue ==
  ASSUME TypeOK, NEW x \in Pcs, NEW t \in Posted, Call(x, t)
  PROVE  LET w == WorkerOf[x]
             n == Len(tasks[w])
         IN /\ w \in Workers /\ n \in Nat /\ Len(tasks'[w]) = n + 1 /\ tasks'[w][n + 1] = t
            /\ \A i \in 1 .. n : tasks'[w][i] = tasks[w][i]
            /\ \A v \in Workers : v # w => tasks'[v] = tasks[v]
            /\ UNCHANGED <<run, track, addr, dests, source, crashed>>
<1>. DEFINE w == WorkerOf[x]
<1>1. w \in Workers  BY WorkersAssumption, Zenon DEF Pcs
<1>2. tasks \in [Workers -> Seq(Posted)] /\ tasks[w] \in Seq(Posted)  BY <1>1, Zenon DEF TypeOK
<1>3. tasks' = [tasks EXCEPT ![w] = Append(tasks[w], t)]  BY Zenon DEF Call, Post
<1>4. tasks'[w] = Append(tasks[w], t)  BY <1>1, <1>2, <1>3, Zenon
<1>5. /\ Len(tasks[w]) \in Nat /\ Len(tasks'[w]) = Len(tasks[w]) + 1
      /\ tasks'[w][Len(tasks[w]) + 1] = t
      /\ \A i \in 1 .. Len(tasks[w]) : tasks'[w][i] = tasks[w][i]
  BY <1>2, <1>4
<1>6. \A v \in Workers : v # w => tasks'[v] = tasks[v]  BY <1>2, <1>3, Zenon
<1>. QED  BY <1>1, <1>5, <1>6, Zenon DEF Call, Post

LEMMA StartQueue ==
  ASSUME TypeOK, NEW w \in Workers, Start(w)
  PROVE  LET n == Len(tasks[w])
             t == tasks[w][1]
         IN /\ n \in Nat /\ n > 0 /\ t \in Posted /\ Len(tasks'[w]) = n - 1
            /\ \A i \in 1 .. n - 1 : tasks'[w][i] = tasks[w][i + 1]
            /\ \A v \in Workers : v # w => tasks'[v] = tasks[v] /\ run'[v] = run[v]
            /\ run'[w].type = t.type /\ run'[w].pc = t.pc /\ run'[w].sub = t.sub
            /\ run'[w].held = {} /\ run[w] = Idle
            /\ UNCHANGED <<used, track, addr, dests, source, crashed>>
<1>1. run[w] = Idle /\ tasks[w] # <<>>  BY Zenon DEF Start
<1>2. tasks \in [Workers -> Seq(Posted)] /\ run \in [Workers -> Running \cup {Idle}]
  BY Zenon DEF TypeOK
<1>3. tasks'[w] = Tail(tasks[w]) /\ \A v \in Workers : v # w => tasks'[v] = tasks[v]
  BY <1>2, Zenon DEF Start
<1>4. \A v \in Workers : v # w => run'[v] = run[v]  BY <1>2, Zenon DEF Start
<1>5. /\ run'[w].type = Head(tasks[w]).type /\ run'[w].pc = Head(tasks[w]).pc
      /\ run'[w].sub = Head(tasks[w]).sub /\ run'[w].held = {}
  BY <1>2, Zenon DEF Start
<1>6. UNCHANGED <<used, track, addr, dests, source, crashed>>  BY Zenon DEF Start, api
<1>. QED  BY <1>1, <1>3, <1>4, <1>5, <1>6, HeadCases

LEMMA FrameRun ==
  ASSUME TypeOK, NEW w \in Workers, NEW p \in Pubs, NEW k \in Kinds, Frame(w, p, k)
  PROVE  /\ \A v \in Workers : v # w => run'[v] = run[v]
         /\ run[w] = Idle /\ WorkerOf[p] = w
         /\ run'[w].type = "deliver" /\ run'[w].pc = p /\ run'[w].sub = k
         /\ run'[w].held = {} /\ run'[w].todo = {a \in Addresses : dests[p][k][a] # NoDest}
         /\ UNCHANGED <<used, tasks, track, addr, dests, source, crashed>>
BY Zenon DEF Frame, TypeOK, api

(* The packetizer of track k of subscriber s. *)
Dest(s, k) == <<s, k>>

LEMMA DestFacts ==
  /\ \A s \in Subs, k \in Kinds : /\ Dest(s, k) \in Dests
                                  /\ Dest(s, k)[1] = s /\ Dest(s, k)[2] = k
  /\ \A d \in Dests : d[1] \in Subs /\ d[2] \in Kinds /\ d = Dest(d[1], d[2])
BY SMTT(30) DEF Dest, Dests

(* The entries of the maps after the steps that change them: one for        *)
(* packetizer d is made if there is none, or the one of address a is erased,*)
(* and the packetizer e is told that it has no audio source.                *)
Entered(p, k, a, d) ==
    \A q \in Pubs, j \in Kinds, b \in Addresses :
        dests'[q][j][b] = IF q = p /\ j = k /\ b = a /\ dests[p][k][b] = NoDest
                          THEN d ELSE dests[q][j][b]

Cleared(p, k, a) ==
    \A q \in Pubs, j \in Kinds, b \in Addresses :
        dests'[q][j][b] = IF q = p /\ j = k /\ b = a THEN NoDest ELSE dests[q][j][b]

Unset(k, e) ==
    \A c \in Dests : source'[c] = IF k = "audio" /\ c = e THEN None ELSE source[c]

LEMMA AddLinkNames ==
  ASSUME TypeOK, NEW w \in Workers, NEW k \in Kinds, AddLink(w, k)
  PROVE  LET d == Dest(run[w].sub, k)
         IN /\ run[w].pc \in Pubs /\ run[w].sub \in Subs /\ track' = track
            /\ k \in track[run[w].pc] /\ k \in track[run[w].sub]
            /\ d \in Dests /\ d[1] = run[w].sub /\ d[2] = k
BY RunCases, DestFacts, SMTT(30) DEF AddLink

LEMMA AddLinkEntries ==
  ASSUME TypeOK, NEW w \in Workers, NEW k \in Kinds, AddLink(w, k)
  PROVE  Entered(run[w].pc, k, addr[Dest(run[w].sub, k)], Dest(run[w].sub, k))
<1>. DEFINE p == run[w].pc
            d == Dest(run[w].sub, k)
            e == dests[p][k][addr[d]]
            n == IF e = NoDest THEN d ELSE e
<1>1. p \in Pubs /\ d \in Dests  BY AddLinkNames, Zenon
<1>2. Put(p, k, addr[d], n)
  BY Zenon DEF AddLink, AddDestination, Put, Dest
<1>3. addr[d] \in Addresses => n \in Dests \cup {NoDest}  BY <1>1, SMTT(30) DEF TypeOK
<1>4. \A q \in Pubs, j \in Kinds, b \in Addresses :
        dests'[q][j][b] = IF q = p /\ j = k /\ b = addr[d] THEN n ELSE dests[q][j][b]
  <2>. HIDE DEF n
  <2>. QED  BY <1>1, <1>2, <1>3, SetEntry, SMTT(30)
<1>5. ASSUME NEW q \in Pubs, NEW j \in Kinds, NEW b \in Addresses
      PROVE  dests'[q][j][b] = IF q = p /\ j = k /\ b = addr[d] /\ dests[p][k][b] = NoDest
                               THEN d ELSE dests[q][j][b]
  <2>1. CASE q = p /\ j = k /\ b = addr[d]  BY <1>4, <2>1, Zenon
  <2>2. CASE ~(q = p /\ j = k /\ b = addr[d])  BY <1>4, <2>2, Zenon
  <2>. QED  BY <2>1, <2>2, Zenon
<1>. QED  BY <1>5, Zenon DEF Entered

LEMMA RemoveLinkNames ==
  ASSUME TypeOK, NEW w \in Workers, NEW k \in Kinds, RemoveLink(w, k)
  PROVE  LET d == Dest(run[w].sub, k)
         IN /\ run[w].pc \in Pubs /\ run[w].sub \in Subs /\ track' = track
            /\ k \in track[run[w].pc] /\ k \in track[run[w].sub]
            /\ d \in Dests /\ d[1] = run[w].sub /\ d[2] = k
BY RunCases, DestFacts, SMTT(30) DEF RemoveLink

LEMMA RemoveLinkEntries ==
  ASSUME TypeOK, NEW w \in Workers, NEW k \in Kinds, RemoveLink(w, k), NEW a,
         a = addr[Dest(run[w].sub, k)], NEW e, e = dests[run[w].pc][k][a]
  PROVE  \/ e = NoDest /\ dests' = dests /\ source' = source /\ crashed' = crashed
         \/ e # NoDest /\ ~Exists(e) /\ dests' = dests /\ source' = source
         \/ e # NoDest /\ Exists(e) /\ crashed' = crashed
            /\ Unset(k, e) /\ Cleared(run[w].pc, k, a)
<1>. DEFINE p == run[w].pc
            d == Dest(run[w].sub, k)
<1>1. p \in Pubs  BY RemoveLinkNames, Zenon
<1>2. RemoveDestination(p, d) /\ d[2] = k  BY RemoveLinkNames, Zenon DEF RemoveLink, Dest
<1>3. Put(p, k, a, NoDest) => Cleared(p, k, a)  BY <1>1, SetEntry DEF Cleared
<1>4. CASE e = NoDest  BY <1>2, <1>4, Zenon DEF RemoveDestination
<1>5. CASE e # NoDest /\ ~Exists(e)  BY <1>2, <1>5, ZenonT(40) DEF RemoveDestination
<1>6. CASE e # NoDest /\ Exists(e)
  <2>1. /\ source' = IF k = "audio" THEN [source EXCEPT ![e] = None] ELSE source
        /\ Put(p, k, a, NoDest) /\ crashed' = crashed
    BY <1>2, <1>6, ZenonT(40) DEF RemoveDestination, Put
  <2>2. Unset(k, e)  BY <2>1, ZenonT(40) DEF TypeOK, Unset
  <2>. QED  BY <1>3, <1>6, <2>1, <2>2, ZenonT(40)
<1>. QED  BY <1>4, <1>5, <1>6, Zenon

LEMMA RemoveLinkClears ==
  ASSUME TypeOK, NEW w \in Workers, NEW k \in Kinds, RemoveLink(w, k)
  PROVE  /\ \A c \in Dests : source'[c] \in {source[c], None}
         /\ \A q \in Pubs, j \in Kinds, b \in Addresses :
              dests'[q][j][b] = NoDest \/ dests'[q][j][b] = dests[q][j][b]
         /\ \A q \in Pubs, j \in Kinds, b \in Addresses :
              q # run[w].pc => dests'[q][j][b] = dests[q][j][b]
<1>. DEFINE a == addr[Dest(run[w].sub, k)]
            e == dests[run[w].pc][k][a]
<1>1. \/ dests' = dests /\ source' = source
      \/ Unset(k, e) /\ Cleared(run[w].pc, k, a)
  <2>1. a = addr[Dest(run[w].sub, k)] /\ e = dests[run[w].pc][k][a]  BY Zenon
  <2>. HIDE DEF a, e
  <2>. QED  BY <2>1, RemoveLinkEntries, Zenon
<1>2. CASE dests' = dests /\ source' = source  BY <1>2, Zenon
<1>3. CASE Unset(k, e) /\ Cleared(run[w].pc, k, a)
  <2>1. \A c \in Dests : source'[c] \in {source[c], None}  BY <1>3, Zenon DEF Unset
  <2>. QED  BY <1>3, <2>1 DEF Cleared
<1>. QED  BY <1>1, <1>2, <1>3, Zenon

LEMMA CloseTrackEntries ==
  ASSUME TypeOK, NEW w \in Workers, NEW k \in Kinds, CloseTrack(w, k)
  PROVE  /\ run[w].type = "close" /\ run[w].pc \in Pcs /\ run[w].held = {}
         /\ \A x \in Pcs, j \in Kinds :
              j \in track'[x] <=> j \in track[x] /\ ~(x = run[w].pc /\ j = k)
         /\ \A q \in Pubs, j \in Kinds, b \in Addresses :
              dests'[q][j][b] = IF q = run[w].pc /\ j = k THEN NoDest ELSE dests[q][j][b]
<1>1. run[w].type = "close" /\ run[w].pc \in Pcs /\ run[w].held = {}
  BY RunCases, Zenon DEF CloseTrack
<1>2. \A x \in Pcs, j \in Kinds :
        j \in track'[x] <=> j \in track[x] /\ ~(x = run[w].pc /\ j = k)
  BY <1>1, Zenon DEF CloseTrack, TypeOK
<1>3. \A q \in Pubs, j \in Kinds, b \in Addresses :
        dests'[q][j][b] = IF q = run[w].pc /\ j = k THEN NoDest ELSE dests[q][j][b]
  BY Zenon DEF CloseTrack, TypeOK
<1>. QED  BY <1>1, <1>2, <1>3, Zenon

LEMMA DeliverToNames ==
  ASSUME TypeOK, DeliverInv, NEW w \in Workers, NEW a \in Addresses, DeliverTo(w, a)
  PROVE  /\ run[w].type = "deliver" /\ a \in run[w].todo
         /\ run[w].pc \in Pubs /\ run[w].sub \in Kinds
         /\ dests[run[w].pc][run[w].sub][a] \in Dests
<1>1. run[w].type = "deliver" /\ a \in run[w].todo /\ run[w].pc \in Pubs /\ run[w].sub \in Kinds
  BY RunCases, Zenon DEF DeliverTo
<1>2. dests[run[w].pc][run[w].sub][a] \in Dests  BY <1>1 DEF DeliverInv, TypeOK
<1>. QED  BY <1>1, <1>2, Zenon

LEMMA DeliverToEntries ==
  ASSUME TypeOK, DeliverInv, NEW w \in Workers, NEW a \in Addresses, DeliverTo(w, a),
         NEW d, d = dests[run[w].pc][run[w].sub][a]
  PROVE  \/ Exists(d) /\ dests' = dests
         \/ ~Exists(d) /\ Cleared(run[w].pc, run[w].sub, a)
<1>. DEFINE p == run[w].pc
            k == run[w].sub
<1>1. p \in Pubs /\ k \in Kinds  BY DeliverToNames, Zenon
<1>2. Put(p, k, a, NoDest) => Cleared(p, k, a)  BY <1>1, SetEntry DEF Cleared
<1>. QED  BY <1>2, Zenon DEF DeliverTo, Put

LEMMA OwnStep == TypeOK /\ OwnInv /\ [Next]_vars => OwnInv'
<1>. SUFFICES ASSUME TypeOK, OwnInv, [Next]_vars PROVE OwnInv'
  BY Zenon
<1>1. CASE UNCHANGED vars  BY <1>1, Zenon DEF OwnInv, vars
<1>2. ASSUME NEW x \in Pcs, NEW t \in Posted, Call(x, t) PROVE OwnInv'
  <2>1. t.pc = x  BY <1>2, Zenon DEF Call
  <2>2. ASSUME NEW v \in Workers, NEW i \in 1 .. Len(tasks'[v])
        PROVE  WorkerOf[tasks'[v][i].pc] = v
    <3>1. CASE v # WorkerOf[x]  BY <1>2, <2>2, <3>1, CallQueue DEF OwnInv
    <3>2. CASE v = WorkerOf[x]
      <4>1. i \in 1 .. Len(tasks[v]) \/ i = Len(tasks[v]) + 1
        BY <1>2, <2>2, <3>2, CallQueue
      <4>2. CASE i \in 1 .. Len(tasks[v])  BY <1>2, <3>2, <4>2, CallQueue, SMTT(30) DEF OwnInv
      <4>3. CASE i = Len(tasks[v]) + 1  BY <1>2, <2>1, <3>2, <4>3, CallQueue
      <4>. QED  BY <4>1, <4>2, <4>3, Zenon
    <3>. QED  BY <3>1, <3>2, Zenon
  <2>3. run' = run  BY <1>2, CallQueue, Zenon
  <2>. QED  BY <2>2, <2>3, Zenon DEF OwnInv
<1>3. ASSUME NEW w \in Workers, NEW p \in Pubs, NEW k \in Kinds, Frame(w, p, k)
      PROVE  OwnInv'
  BY <1>3, FrameRun DEF OwnInv
<1>4. ASSUME NEW w \in Workers, Start(w) PROVE OwnInv'
  <2>1. ASSUME NEW v \in Workers, NEW i \in 1 .. Len(tasks'[v])
        PROVE  WorkerOf[tasks'[v][i].pc] = v
    <3>1. CASE v # w  BY <1>4, <2>1, <3>1, StartQueue, SMTT(30) DEF OwnInv
    <3>2. CASE v = w
      <4>1. /\ i \in 1 .. Len(tasks[w]) - 1 /\ i + 1 \in 1 .. Len(tasks[w])
            /\ tasks'[w][i] = tasks[w][i + 1]
        BY <1>4, <2>1, <3>2, StartQueue
      <4>. QED  BY <3>2, <4>1 DEF OwnInv
    <3>. QED  BY <3>1, <3>2, Zenon
  <2>2. WorkerOf[tasks[w][1].pc] = w
    <3>1. 1 \in 1 .. Len(tasks[w])  BY <1>4, StartQueue
    <3>. QED  BY <3>1, Zenon DEF OwnInv
  <2>. QED  BY <1>4, <2>1, <2>2, StartQueue DEF OwnInv
<1>5. ASSUME NEW w \in Workers, Continues(w) PROVE OwnInv'
  <2>1. run[w] # Idle \/ run'[w] = Idle  BY <1>5, RunCases, Zenon DEF Continues
  <2>. QED  BY <1>5, <2>1 DEF OwnInv, Continues
<1>. QED  BY <1>1, <1>2, <1>3, <1>4, <1>5, StepCases, LoopContinues, EndContinues, Zenon

(* A step on worker w leaves the maps of other workers' publishers alone. *)
LEMMA OtherMaps ==
  ASSUME TypeOK, OwnInv, DeliverInv, NEW w \in Workers, Loop(w),
         NEW v \in Workers, v # w, run[v] # Idle,
         NEW k \in Kinds, NEW a \in Addresses, run[v].pc \in Pubs
  PROVE  dests'[run[v].pc][k][a] = dests[run[v].pc][k][a]
<1>1. run[w] # Idle
  <2>1. run[w].type # "idle"
    BY Zenon DEF Loop, NoTrack, AddLink, RemoveLink, CloseTrack, DeliverTo
  <2>. QED  BY <2>1, RunCases, Zenon
<1>2. run[v].pc # run[w].pc  BY <1>1, Zenon DEF OwnInv
<1>3. ASSUME NEW j \in Kinds, NoTrack(w, j) PROVE dests' = dests  BY <1>3, Zenon DEF NoTrack
<1>4. ASSUME NEW j \in Kinds, AddLink(w, j)
      PROVE  dests'[run[v].pc][k][a] = dests[run[v].pc][k][a]
  <2>0. Entered(run[w].pc, j, addr[Dest(run[w].sub, j)], Dest(run[w].sub, j))
    BY <1>4, AddLinkEntries, Zenon
  <2>1. \A q \in Pubs, i \in Kinds, b \in Addresses :
          q # run[w].pc => dests'[q][i][b] = dests[q][i][b]
    BY <2>0 DEF Entered
  <2>. QED  BY <1>2, <2>1, Zenon
<1>5. ASSUME NEW j \in Kinds, RemoveLink(w, j)
      PROVE  dests'[run[v].pc][k][a] = dests[run[v].pc][k][a]
  <2>1. \A q \in Pubs, i \in Kinds, b \in Addresses :
          q # run[w].pc => dests'[q][i][b] = dests[q][i][b]
    BY <1>5, RemoveLinkClears, Zenon
  <2>. QED  BY <1>2, <2>1
<1>6. ASSUME NEW j \in Kinds, CloseTrack(w, j)
      PROVE  dests'[run[v].pc][k][a] = dests[run[v].pc][k][a]
  BY <1>2, <1>6, CloseTrackEntries
<1>7. ASSUME NEW b \in Addresses, DeliverTo(w, b)
      PROVE  dests'[run[v].pc][k][a] = dests[run[v].pc][k][a]
  <2>0. dests' = dests \/ Cleared(run[w].pc, run[w].sub, b)
    BY <1>7, DeliverToEntries, Zenon
  <2>1. \A q \in Pubs, i \in Kinds, c \in Addresses :
          q # run[w].pc => dests'[q][i][c] = dests[q][i][c]
    BY <2>0 DEF Cleared
  <2>. QED  BY <1>2, <2>1, Zenon
<1>. QED  BY <1>3, <1>4, <1>5, <1>6, <1>7, Zenon DEF Loop

LEMMA DeliverStep == Inv1 /\ [Next]_vars => DeliverInv'
<1>. SUFFICES ASSUME TypeOK, OwnInv, DeliverInv, [Next]_vars PROVE DeliverInv'
  BY Zenon DEF Inv1
<1>. DEFINE Good(v) == run[v].type = "deliver" =>
              \A a \in Addresses :
                /\ a \in run[v].todo => dests[run[v].pc][run[v].sub][a] # NoDest
                /\ dests[run[v].pc][run[v].sub][a] # NoDest =>
                     a \in run[v].todo \/ dests[run[v].pc][run[v].sub][a] \in run[v].posted
<1>0. DeliverInv <=> \A v \in Workers : Good(v)  BY Zenon DEF DeliverInv
<1>1. CASE UNCHANGED vars  BY <1>1, Zenon DEF DeliverInv, vars
<1>2. ASSUME NEW x \in Pcs, NEW t \in Posted, Call(x, t) PROVE DeliverInv'
  <2>1. run' = run /\ dests' = dests  BY <1>2, CallQueue, Zenon
  <2>. QED  BY <2>1, Zenon DEF DeliverInv
<1>3. ASSUME NEW w \in Workers, NEW p \in Pubs, NEW k \in Kinds, Frame(w, p, k)
      PROVE  DeliverInv'
  <2>1. /\ run'[w].pc = p /\ run'[w].sub = k /\ dests' = dests
        /\ run'[w].todo = {a \in Addresses : dests[p][k][a] # NoDest}
        /\ \A v \in Workers : v # w => run'[v] = run[v]
    BY <1>3, FrameRun
  <2>2. Good(w)'  BY <2>1, Zenon
  <2>3. ASSUME NEW v \in Workers, v # w PROVE Good(v)'
    <3>1. run'[v] = run[v]  BY <2>1, <2>3, Zenon
    <3>. QED  BY <1>0, <2>1, <3>1, Zenon
  <2>. QED  BY <2>2, <2>3, Zenon DEF DeliverInv
<1>4. ASSUME NEW w \in Workers, Start(w) PROVE DeliverInv'
  <2>1. run'[w].type # "deliver"  BY <1>4, StartQueue, Zenon DEF Posted
  <2>2. dests' = dests /\ \A v \in Workers : v # w => run'[v] = run[v]  BY <1>4, StartQueue, Zenon
  <2>3. ASSUME NEW v \in Workers, v # w PROVE Good(v)'
    <3>1. run'[v] = run[v]  BY <2>2, <2>3, Zenon
    <3>. QED  BY <1>0, <2>2, <3>1, Zenon
  <2>. QED  BY <2>1, <2>3, Zenon DEF DeliverInv
<1>5. ASSUME NEW w \in Workers, Offer(w) \/ Finish(w) PROVE DeliverInv'
  <2>1. run'[w] = Idle /\ dests' = dests /\ \A v \in Workers : v # w => run'[v] = run[v]
    BY <1>5, Zenon DEF Offer, Finish, TypeOK
  <2>. QED  BY <2>1, SMTT(30) DEF DeliverInv, Idle
<1>6. ASSUME NEW w \in Workers, Loop(w) PROVE DeliverInv'
  <2>1. ASSUME NEW v \in Workers, v # w PROVE Good(v)'
    <3>1. run'[v] = run[v]  BY <1>6, <2>1, LoopContinues, Zenon DEF Continues
    <3>2. CASE run[v].type = "deliver"
      <4>1. run[v] # Idle /\ run[v].pc \in Pubs /\ run[v].sub \in Kinds
        BY <3>2, RunCases, Zenon
      <4>2. \A a \in Addresses :
              dests'[run[v].pc][run[v].sub][a] = dests[run[v].pc][run[v].sub][a]
        BY <1>6, <2>1, <4>1, OtherMaps, ZenonT(40)
      <4>. QED  BY <3>1, <4>2, Zenon DEF DeliverInv
    <3>. QED  BY <3>1, <3>2, Zenon
  <2>2. Good(w)'
    <3>1. ASSUME NEW a \in Addresses, DeliverTo(w, a) PROVE Good(w)'
      <4>. DEFINE p == run[w].pc
                  k == run[w].sub
                  d == dests[p][k][a]
      <4>1. p \in Pubs /\ k \in Kinds /\ run[w].type = "deliver"
        BY <3>1, DeliverToNames, Zenon
      <4>2. CASE Exists(d) /\ dests' = dests
        <5>1. Advance(w, a, {d})  BY <3>1, <4>2, Zenon DEF DeliverTo
        <5>2. /\ run'[w].type = run[w].type /\ run'[w].pc = p /\ run'[w].sub = k
              /\ run'[w].todo = run[w].todo \ {a} /\ run'[w].posted = run[w].posted \cup {d}
          BY <4>1, <5>1, AdvanceFields, SMTT(30)
        <5>. QED  BY <4>1, <4>2, <5>2, ZenonT(40) DEF DeliverInv
      <4>3. CASE ~Exists(d) /\ Cleared(p, k, a)
        <5>1. Advance(w, a, {})  BY <3>1, <4>3, Zenon DEF DeliverTo
        <5>2. /\ run'[w].type = run[w].type /\ run'[w].pc = p /\ run'[w].sub = k
              /\ run'[w].todo = run[w].todo \ {a} /\ run'[w].posted = run[w].posted \cup {}
          BY <4>1, <5>1, AdvanceFields, Zenon
        <5>. QED  BY <4>1, <4>3, <5>2, Zenon DEF DeliverInv, Cleared
      <4>. QED  BY <3>1, <4>2, <4>3, DeliverToEntries, ZenonT(40)
    <3>2. ASSUME NEW k \in Kinds,
                 NoTrack(w, k) \/ AddLink(w, k) \/ RemoveLink(w, k) \/ CloseTrack(w, k)
          PROVE  Good(w)'
      <4>1. run[w].type # "deliver"  BY <3>2, Zenon DEF NoTrack, AddLink, RemoveLink, CloseTrack
      <4>2. run'[w].type # "deliver"
        BY <1>6, <4>1, LoopContinues DEF Continues, Idle
      <4>. QED  BY <4>2, Zenon
    <3>. QED  BY <1>6, <3>1, <3>2, ZenonT(40) DEF Loop
  <2>. QED  BY <2>1, <2>2, Zenon DEF DeliverInv
<1>. QED  BY <1>1, <1>2, <1>3, <1>4, <1>5, <1>6, StepCases, Zenon

LEMMA InitInv1 == Init => Inv1
<1>. SUFFICES ASSUME Init PROVE Inv1
  BY Zenon
<1>1. TypeOK
  <2>1. <<>> \in Seq(Posted)  OBVIOUS
  <2>. QED  BY <2>1, Zenon DEF Init, TypeOK
<1>2. \A w \in Workers : run[w] = Idle /\ tasks[w] = <<>>  BY Zenon DEF Init
<1>3. DeliverInv  BY <1>2 DEF DeliverInv, Idle
<1>4. OwnInv  BY <1>2 DEF OwnInv
<1>. QED  BY <1>1, <1>3, <1>4, Zenon DEF Inv1

LEMMA Inv1Holds == Spec => []Inv1
<1>1. Inv1 /\ [Next]_vars => Inv1'  BY TypeStep, OwnStep, DeliverStep, Zenon DEF Inv1
<1>. QED  BY <1>1, InitInv1, PTL DEF Spec

(* Tasks and what the workers are in the middle of are always of the kinds  *)
(* the code posts and runs, and the maps hold packetizers, for any sets of  *)
(* connections, workers and addresses.                                      *)
THEOREM RoutingTypeCorrect == Spec => []TypeOK
<1>1. Inv1 => TypeOK  BY Zenon DEF Inv1
<1>. QED  BY <1>1, Inv1Holds, PTL

(* deliverFrame leaves no linked subscriber out, however the publishers and *)
(* subscribers are spread over the workers, and even if addresses are given *)
(* out again while a map has an expired entry for them.                     *)
THEOREM DeliveryCompleteHolds == Spec => []DeliveryComplete
<1>1. ASSUME Inv1 PROVE DeliveryComplete
  <2>. SUFFICES ASSUME NEW w \in Workers, run[w].type = "deliver", run[w].todo = {},
                       NEW s \in Subs, Linked(run[w].pc, s, run[w].sub)
                PROVE  <<s, run[w].sub>> \in run[w].posted
    BY Zenon DEF DeliveryComplete
  <2>1. PICK a \in Addresses : dests[run[w].pc][run[w].sub][a] = <<s, run[w].sub>>
    BY Zenon DEF Linked
  <2>2. <<s, run[w].sub>> # NoDest
    <3>1. run[w].sub \in Kinds  BY <1>1, RunCases, Zenon DEF Inv1
    <3>. QED  BY <3>1, NoDestNotDest DEF Dests
  <2>. QED  BY <1>1, <2>1, <2>2, Zenon DEF Inv1, DeliverInv
<1>. QED  BY <1>1, Inv1Holds, PTL

=============================================================================
