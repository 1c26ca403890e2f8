-------------------------- MODULE FrameLinksProofs --------------------------
(***************************************************************************)
(* The last layer of the invariant of FrameRouting, and that FrameRouting   *)
(* implements FrameLinks.  What depends on the order of the tasks of two    *)
(* connections needs that they share a worker (SameWorker); that frames     *)
(* follow the links of FrameLinks needs StaleReuse = FALSE as well.         *)
(***************************************************************************)
EXTENDS PacketizerProofs

(* 4. A worker's queue keeps a connection's offer before the link-ups and   *)
(* cut-offs that name it.  If all connections are on one worker, no track   *)
(* is closed while a task holds its packetizer.                             *)
Names(t, x) == t.type \in {"link", "cut"} /\ x \in {t.pc, t.sub}

FifoInv ==
    \A w \in Workers, x \in Pcs :
        /\ Names(run[w], x) => x \in used
        /\ \A j \in 1 .. Len(tasks[w]) :
             /\ Names(tasks[w][j], x) => x \in used
             /\ IsOffer(tasks[w][j], x) => /\ ~Names(run[w], x)
                                           /\ \A i \in 1 .. j : ~Names(tasks[w][i], x)

SameWorker == \A x, y \in Pcs : WorkerOf[x] = WorkerOf[y]

HeldInv == \A w \in Workers : \A d \in run[w].held : d[2] \in track[d[1]]

-----------------------------------------------------------------------------
(* Layer 4. *)

LEMMA FifoStep == TypeOK /\ FifoInv /\ [Next]_vars => FifoInv'
<1>. SUFFICES ASSUME TypeOK, FifoInv, [Next]_vars, NEW v \in Workers, NEW y \in Pcs
              PROVE  /\ Names(run'[v], y) => y \in used'
                     /\ \A j \in 1 .. Len(tasks'[v]) :
                          /\ Names(tasks'[v][j], y) => y \in used'
                          /\ IsOffer(tasks'[v][j], y) =>
                               /\ ~Names(run'[v], y)
                               /\ \A i \in 1 .. j : ~Names(tasks'[v][i], y)
  BY ZenonT(40) DEF FifoInv, Names, IsOffer
<1>. DEFINE Goal == /\ Names(run'[v], y) => y \in used'
                    /\ \A j \in 1 .. Len(tasks'[v]) :
                         /\ Names(tasks'[v][j], y) => y \in used'
                         /\ IsOffer(tasks'[v][j], y) =>
                              /\ ~Names(run'[v], y)
                              /\ \A i \in 1 .. j : ~Names(tasks'[v][i], y)
<1>1. CASE UNCHANGED vars  BY <1>1, Zenon DEF FifoInv, vars
<1>2. ASSUME NEW x \in Pcs, NEW t \in Posted, Call(x, t) PROVE Goal
  <2>1. run' = run /\ used \subseteq used'  BY <1>2, CallQueue, Zenon DEF Call
  <2>2. CASE v # WorkerOf[x]  BY <1>2, <2>1, <2>2, CallQueue, SMTT(30) DEF FifoInv
  <2>3. CASE v = WorkerOf[x]
    <3>. DEFINE n == Len(tasks[v])
    <3>1. /\ n \in Nat /\ Len(tasks'[v]) = n + 1 /\ tasks'[v][n + 1] = t
          /\ \A i \in 1 .. n : tasks'[v][i] = tasks[v][i]
      BY <1>2, <2>3, CallQueue, ZenonT(40)
    <3>2. \A i \in 1 .. n + 1 : i \in 1 .. n \/ i = n + 1  BY <3>1
    <3>3. \A j \in 1 .. n : \A i \in 1 .. j : i \in 1 .. n  BY <3>1
    <3>4. IsOffer(t, y) => y \notin used /\ ~Names(t, y)  BY <1>2, Zenon DEF IsOffer, Names, Call
    <3>5. Names(t, y) => y \in used  BY <1>2, Zenon DEF Names, Call
    <3>. HIDE DEF n
    <3>6. /\ Names(run[v], y) => y \in used
          /\ \A j \in 1 .. n : /\ Names(tasks[v][j], y) => y \in used
                               /\ IsOffer(tasks[v][j], y) =>
                                    /\ ~Names(run[v], y)
                                    /\ \A i \in 1 .. j : ~Names(tasks[v][i], y)
      BY Zenon DEF FifoInv, n
    <3>7. ASSUME NEW j \in 1 .. n
          PROVE  /\ Names(tasks'[v][j], y) => y \in used'
                 /\ IsOffer(tasks'[v][j], y) => /\ ~Names(run'[v], y)
                                                /\ \A i \in 1 .. j : ~Names(tasks'[v][i], y)
      BY <2>1, <3>1, <3>3, <3>6, Zenon
    <3>8. /\ Names(tasks'[v][n + 1], y) => y \in used'
          /\ IsOffer(tasks'[v][n + 1], y) =>
               /\ ~Names(run'[v], y)
               /\ \A i \in 1 .. n + 1 : ~Names(tasks'[v][i], y)
      BY <2>1, <3>1, <3>2, <3>4, <3>5, <3>6, Zenon
    <3>. QED  BY <2>1, <3>1, <3>2, <3>6, <3>7, <3>8, Zenon
  <2>. QED  BY <2>2, <2>3, Zenon
<1>3. ASSUME NEW w \in Workers, NEW p \in Pubs, NEW k \in Kinds, Frame(w, p, k) PROVE Goal
  <2>1. v = w => ~Names(run'[v], y)  BY <1>3, FrameRun, Zenon DEF Names
  <2>. QED  BY <1>3, <2>1, FrameRun DEF FifoInv
<1>4. ASSUME NEW w \in Workers, Start(w) PROVE Goal
  <2>1. CASE v # w  BY <1>4, <2>1, StartQueue DEF FifoInv
  <2>2. CASE v = w
    <3>. DEFINE n == Len(tasks[w])
    <3>1. /\ n \in Nat /\ n > 0 /\ Len(tasks'[w]) = n - 1 /\ used' = used
          /\ \A i \in 1 .. n - 1 : tasks'[w][i] = tasks[w][i + 1]
      BY <1>4, StartQueue, Zenon
    <3>2. Names(run'[w], y) <=> Names(tasks[w][1], y)  BY <1>4, StartQueue, Zenon DEF Names
    <3>3. 1 \in 1 .. n /\ \A j \in 1 .. n - 1 :
            /\ j + 1 \in 1 .. n /\ 1 \in 1 .. j + 1
            /\ \A i \in 1 .. j : i \in 1 .. n - 1 /\ i + 1 \in 1 .. j + 1
      BY <3>1
    <3>. HIDE DEF n
    <3>4. \A j \in 1 .. n : /\ Names(tasks[w][j], y) => y \in used
                            /\ IsOffer(tasks[w][j], y) =>
                                 \A i \in 1 .. j : ~Names(tasks[w][i], y)
      BY Zenon DEF FifoInv, n
    <3>5. ASSUME NEW j \in 1 .. n - 1
          PROVE  /\ Names(tasks'[w][j], y) => y \in used
                 /\ IsOffer(tasks'[w][j], y) => /\ ~Names(run'[w], y)
                                                /\ \A i \in 1 .. j : ~Names(tasks'[w][i], y)
      BY <3>1, <3>2, <3>3, <3>4, Zenon
    <3>. QED  BY <2>2, <3>1, <3>2, <3>3, <3>4, <3>5, Zenon
  <2>. QED  BY <2>1, <2>2, Zenon
<1>5. ASSUME NEW w \in Workers, Continues(w) PROVE Goal
  <2>1. Names(run'[v], y) => Names(run[v], y)  BY <1>5 DEF Continues, Names, Idle
  <2>. QED  BY <1>5, <2>1, Zenon DEF FifoInv, Continues
<1>. QED  BY <1>1, <1>2, <1>3, <1>4, <1>5, StepCases, LoopContinues, EndContinues, Zenon

LEMMA FifoHolds == Spec => []FifoInv
<1>1. Init => FifoInv
  <2>. SUFFICES ASSUME Init PROVE FifoInv
    BY Zenon
  <2>1. \A w \in Workers : run[w] = Idle /\ tasks[w] = <<>>  BY Zenon DEF Init
  <2>. QED  BY <2>1 DEF FifoInv, Names, Idle
<1>. QED  BY <1>1, FifoStep, RoutingTypeCorrect, PTL DEF Spec

(* A link-up or cut-off finds the offers of its connections processed, if   *)
(* the agent's connections share a worker (as they do in an agent with one  *)
(* worker).                                                                 *)
THEOREM LinkFindsTracksHolds ==
  ASSUME SameWorker
  PROVE  Spec => []LinkFindsTracks
<1>1. ASSUME Inv1, FifoInv PROVE LinkFindsTracks
  <2>. SUFFICES ASSUME NEW w \in Workers, run[w].type \in {"link", "cut"},
                       NEW x \in {run[w].pc, run[w].sub}, x \in OffersWaiting
                PROVE  FALSE
    BY Zenon DEF LinkFindsTracks
  <2>1. run[w].pc \in Pcs /\ run[w] # Idle /\ Names(run[w], x) /\ x \in Pcs
    BY <1>1, RunCases, Zenon DEF Inv1, Names, OffersWaiting, Pcs
  <2>2. WorkerOf[x] = w  BY <1>1, <2>1, Zenon DEF Inv1, OwnInv, SameWorker
  <2>3. ASSUME NEW v \in Workers, NEW i \in DOMAIN tasks[v],
               tasks[v][i] = Task("offer", x, None)
        PROVE  FALSE
    <3>1. i \in 1 .. Len(tasks[v])  BY <1>1, <2>3 DEF Inv1, TypeOK
    <3>2. IsOffer(tasks[v][i], x)  BY <2>3 DEF IsOffer, Task
    <3>3. v = w  BY <1>1, <2>2, <3>1, <3>2, Zenon DEF Inv1, OwnInv, IsOffer
    <3>. QED  BY <1>1, <2>1, <3>1, <3>2, <3>3, Zenon DEF FifoInv
  <2>4. ASSUME NEW v \in Workers, run[v].type = "offer", run[v].pc = x PROVE FALSE
    <3>1. run[v] # Idle  BY <2>4 DEF Idle
    <3>2. v = w  BY <1>1, <2>2, <2>4, <3>1, Zenon DEF Inv1, OwnInv
    <3>. QED  BY <2>4, <3>2, Zenon
  <2>. QED  BY <2>3, <2>4, Zenon DEF OffersWaiting
<1>. QED  BY <1>1, Inv1Holds, FifoHolds, PTL

(* A packetizer is destroyed on the worker of its own connection, if the     *)
(* agent's connections share a worker: whoever held it last, setVideoSource, *)
(* a delivery or the closing of its track, ran there.                        *)
THEOREM FreedOnItsWorkerHolds ==
  ASSUME SameWorker
  PROVE  Spec => []FreedOnItsWorker
<1>1. Init => FreedOnItsWorker  BY Zenon DEF Init, FreedOnItsWorker
<1>2. ASSUME Inv1, FreedOnItsWorker, [Next]_vars PROVE FreedOnItsWorker'
  <2>. USE DEF Inv1
  <2>1. CASE freedOn' = freedOn  BY <1>2, <2>1, Zenon DEF FreedOnItsWorker
  <2>2. ASSUME NEW w \in Workers, run[w] # Idle, NEW D, Release(w, D)
        PROVE  FreedOnItsWorker'
    <3>1. run[w].pc \in Pcs /\ WorkerOf[run[w].pc] = w
      BY <1>2, <2>2, RunCases, Zenon DEF OwnInv, Pcs
    <3>2. \A d \in Dests : d[1] \in Pcs  BY DestFacts, Zenon DEF Pcs
    <3>3. \A d \in Dests : WorkerOf[d[1]] = w  BY <3>1, <3>2, Zenon DEF SameWorker
    <3>4. \A d \in Dests : freedOn'[d] \in {w, freedOn[d]}  BY <2>2, Zenon DEF Release
    <3>. QED  BY <1>2, <3>3, <3>4, Zenon DEF FreedOnItsWorker
  <2>3. ASSUME NEW w \in Workers, run[w] # Idle, NEW item, NEW D, Advance(w, item, D)
        PROVE  FreedOnItsWorker'
    BY <2>2, <2>3, Zenon DEF Advance
  <2>4. ASSUME NEW w \in Workers, Loop(w) \/ Finish(w) PROVE FreedOnItsWorker'
    <3>0. run[w] # Idle
      <4>1. run[w].type # "idle"
        BY <2>4, Zenon DEF Loop, Finish, NoTrack, AddLink, RemoveLink, CloseTrack, DeliverTo
      <4>. QED  BY <4>1 DEF Idle
    <3>1. ASSUME NEW k \in Kinds, NoTrack(w, k) PROVE FreedOnItsWorker'
      BY <2>1, <3>1, Zenon DEF NoTrack
    <3>2. ASSUME NEW k \in Kinds, AddLink(w, k) PROVE FreedOnItsWorker'
      BY <2>3, <3>0, <3>2, Zenon DEF AddLink
    <3>3. ASSUME NEW k \in Kinds, RemoveLink(w, k) PROVE FreedOnItsWorker'
      BY <2>3, <3>0, <3>3, Zenon DEF RemoveLink
    <3>4. ASSUME NEW k \in Kinds, CloseTrack(w, k) PROVE FreedOnItsWorker'
      BY <2>2, <3>0, <3>4, Zenon DEF CloseTrack
    <3>5. ASSUME NEW a \in Addresses, DeliverTo(w, a) PROVE FreedOnItsWorker'
      BY <2>3, <3>0, <3>5, ZenonT(40) DEF DeliverTo
    <3>6. CASE Finish(w)  BY <2>2, <3>0, <3>6, Zenon DEF Finish
    <3>. QED  BY <2>4, <3>1, <3>2, <3>3, <3>4, <3>5, <3>6, Zenon DEF Loop
  <2>5. ASSUME NEW w \in Workers, Start(w) \/ Offer(w) PROVE freedOn' = freedOn
    BY <2>5, Zenon DEF Start, Offer
  <2>6. ASSUME NEW w \in Workers, NEW p \in Pubs, NEW k \in Kinds, Frame(w, p, k)
        PROVE  freedOn' = freedOn
    BY <2>6, Zenon DEF Frame
  <2>7. ASSUME NEW x \in Pcs, NEW t \in Posted, Call(x, t) PROVE freedOn' = freedOn
    BY <2>7, Zenon DEF Call, Post
  <2>8. CASE UNCHANGED vars  BY <2>1, <2>8, Zenon DEF vars
  <2>. QED  BY <1>2, <2>1, <2>4, <2>5, <2>6, <2>7, <2>8, StepCases, Zenon
<1>. QED  BY <1>1, <1>2, Inv1Holds, PTL DEF Spec

(* On a shared worker, while one task runs there is no other. *)
LEMMA OthersIdle ==
  ASSUME SameWorker, TypeOK, OwnInv, NEW w \in Workers, run[w] # Idle,
         NEW v \in Workers, v # w
  PROVE  run[v] = Idle
<1>1. ASSUME NEW u \in Workers, run[u] # Idle PROVE run[u].pc \in Pcs /\ WorkerOf[run[u].pc] = u
  BY <1>1, RunCases, Zenon DEF OwnInv, Pcs
<1>. QED  BY <1>1 DEF SameWorker

LEMMA HeldStep ==
  ASSUME SameWorker, Inv1, Inv2, HeldInv, [Next]_vars
  PROVE  HeldInv'
<1>. USE DEF Inv1, Inv2
<1>1. ASSUME track' = track, NEW w \in Workers,
             \A v \in Workers : v # w => run'[v].held = run[v].held,
             \A d \in run'[w].held : d[2] \in track[d[1]]
      PROVE  HeldInv'
  BY <1>1, ZenonT(40) DEF HeldInv
<1>2. ASSUME NEW w \in Workers, \A v \in Workers : run'[v].held = {} PROVE HeldInv'
  BY <1>2, Zenon DEF HeldInv
<1>3. CASE UNCHANGED vars  BY <1>3, Zenon DEF HeldInv, vars
<1>4. ASSUME NEW x \in Pcs, NEW t \in Posted, Call(x, t) PROVE HeldInv'
  BY <1>4, CallQueue, Zenon DEF HeldInv
<1>5. ASSUME NEW w \in Workers, NEW p \in Pubs, NEW k \in Kinds, Frame(w, p, k)
      PROVE  HeldInv'
  BY <1>1, <1>5, FrameRun
<1>6. ASSUME NEW w \in Workers, Start(w) PROVE HeldInv'  BY <1>1, <1>6, StartQueue, Zenon
<1>7. ASSUME NEW w \in Workers, Offer(w) PROVE HeldInv'
  <2>1. run[w] # Idle  BY <1>7 DEF Offer, Idle
  <2>2. \A v \in Workers : v # w => run[v].held = {}  BY <2>1, OthersIdle, SMTT(30) DEF Idle
  <2>. QED  BY <1>2, <1>7, <2>2, OfferTracks, Zenon
<1>8. ASSUME NEW w \in Workers, Finish(w) PROVE HeldInv'
  <2>1. run'[w].held = {} /\ \A v \in Workers : v # w => run'[v] = run[v]
    BY <1>8, Zenon DEF Finish, TypeOK, Idle
  <2>. QED  BY <1>1, <1>8, <2>1, Zenon DEF Finish
<1>9. ASSUME NEW w \in Workers, NEW k \in Kinds, NoTrack(w, k) PROVE HeldInv'
  <2>1. \A v \in Workers : run'[v].held = run[v].held  BY <1>9, TodoFields, Zenon
  <2>. QED  BY <1>9, <2>1, Zenon DEF HeldInv, NoTrack
<1>10. ASSUME NEW w \in Workers, NEW k \in Kinds, CloseTrack(w, k) PROVE HeldInv'
  <2>1. run[w] # Idle  BY <1>10, SMTT(30) DEF CloseTrack, Idle
  <2>2. \A v \in Workers : v # w => run[v].held = {}  BY <2>1, OthersIdle, SMTT(30) DEF Idle
  <2>3. run[w].held = {}  BY <1>10, CloseTrackEntries, Zenon
  <2>4. \A v \in Workers : run'[v].held = run[v].held  BY <1>10, TodoFields, Zenon
  <2>. QED  BY <1>2, <2>2, <2>3, <2>4, Zenon
<1>11. ASSUME NEW w \in Workers, NEW item, NEW D \in SUBSET Dests, Advance(w, item, D),
              track' = track, \A d \in D : Exists(d)
       PROVE  HeldInv'
  <2>1. run'[w].held = D /\ \A v \in Workers : v # w => run'[v].held = run[v].held
    BY <1>11, AdvanceFields
  <2>2. \A d \in D : d[2] \in track[d[1]]  BY <1>11, Zenon DEF LifeInv, Used, HeldInv
  <2>. QED  BY <1>1, <1>11, <2>1, <2>2, Zenon
<1>12. ASSUME NEW w \in Workers, NEW k \in Kinds, AddLink(w, k) \/ RemoveLink(w, k)
       PROVE  HeldInv'
  <2>. DEFINE d == <<run[w].sub, k>>
  <2>1. /\ run[w].type \in {"link", "cut"} /\ k \in track[run[w].sub] /\ track' = track
        /\ Advance(w, k, {d})
    BY <1>12, Zenon DEF AddLink, RemoveLink
  <2>2. d \in Dests /\ d[1] = run[w].sub /\ d[2] = k  BY <2>1, RunCases, Zenon DEF Dests
  <2>3. Exists(d)  BY <2>1, <2>2, Zenon DEF LifeInv, Used
  <2>. HIDE DEF d
  <2>. QED  BY <1>11, <2>1, <2>2, <2>3, Zenon
<1>13. ASSUME NEW w \in Workers, NEW a \in Addresses, DeliverTo(w, a) PROVE HeldInv'
  <2>. DEFINE d == dests[run[w].pc][run[w].sub][a]
  <2>1. d \in Dests  BY <1>13, DeliverToNames, Zenon
  <2>. HIDE DEF d
  <2>2. track' = track /\ ((Exists(d) /\ Advance(w, a, {d})) \/ Advance(w, a, {}))
    BY <1>13, Zenon DEF DeliverTo, d
  <2>. QED  BY <1>11, <2>1, <2>2
<1>. QED
  BY <1>3, <1>4, <1>5, <1>6, <1>7, <1>8, <1>9, <1>10, <1>12, <1>13, StepCases, Zenon DEF Loop

LEMMA HeldHolds ==
  ASSUME SameWorker
  PROVE  Spec => []HeldInv
<1>1. Init => HeldInv
  <2>. SUFFICES ASSUME Init PROVE HeldInv
    BY Zenon
  <2>1. \A w \in Workers : run[w].held = {}  BY Zenon DEF Init, Idle
  <2>. QED  BY <2>1, Zenon DEF HeldInv
<1>2. Inv1 /\ Inv2 /\ HeldInv /\ [Next]_vars => HeldInv'  BY HeldStep, Zenon
<1>. QED  BY <1>1, <1>2, Inv2Holds, PTL DEF Spec

-----------------------------------------------------------------------------
(* FrameRouting implements FrameLinks.                                      *)

LEMMA LinkedFacts ==
  \A p, s, k : Linked(p, s, k) <=>
    k \in track[s] /\ \E a \in Addresses : dests[p][k][a] = Dest(s, k)
BY Zenon DEF Linked, Dest

(* How the set of links changes when Linked does for one triple, for the    *)
(* triples of a track, or for none.                                         *)
LEMMA LinksSame ==
  ASSUME \A q \in Pubs, t \in Subs, j \in Kinds : Linked(q, t, j)' <=> Linked(q, t, j)
  PROVE  Links' = Links
BY Zenon DEF Links

LEMMA LinksAdd ==
  ASSUME NEW p \in Pubs, NEW s \in Subs, NEW k \in Kinds,
         \A q \in Pubs, t \in Subs, j \in Kinds :
             Linked(q, t, j)' <=> Linked(q, t, j) \/ (q = p /\ t = s /\ j = k)
  PROVE  Links' = Links \cup {<<p, s, k>>}
BY DEF Links

LEMMA LinksCut ==
  ASSUME NEW p \in Pubs, NEW s \in Subs, NEW k \in Kinds,
         \A q \in Pubs, t \in Subs, j \in Kinds :
             Linked(q, t, j)' <=> Linked(q, t, j) /\ ~(q = p /\ t = s /\ j = k)
  PROVE  Links' = Links \ {<<p, s, k>>}
BY DEF Links

LEMMA LinksClose ==
  ASSUME NEW x \in Pcs, NEW k \in Kinds,
         \A q \in Pubs, t \in Subs, j \in Kinds :
             Linked(q, t, j)' <=> Linked(q, t, j) /\ ~(x \in {q, t} /\ j = k)
  PROVE  Links' = {l \in Links : ~(x \in {l[1], l[2]} /\ k = l[3])}
BY Zenon DEF Links

LEMMA ContractStep ==
  ASSUME SameWorker, Inv1, Inv2, Inv3, HeldInv, [Next]_vars
  PROVE  [Contract!Next]_(Contract!vars)
<1>. USE DEF Inv1, Inv2, Inv3
<1>. DEFINE Stutter == Links' = Links /\ last' = last
<1>0. Stutter => [Contract!Next]_(Contract!vars)  BY Zenon DEF Contract!vars
<1>1. ASSUME UNCHANGED <<track, dests, last>> PROVE Stutter
  BY <1>1, Zenon DEF Links, Linked
<1>2. UNCHANGED vars => UNCHANGED <<track, dests, last>>  BY Zenon DEF vars
<1>3. ASSUME NEW x \in Pcs, NEW t \in Posted, Call(x, t) PROVE Stutter
  BY <1>1, <1>3, Zenon DEF Call, Post
<1>4. ASSUME NEW w \in Workers, NEW p \in Pubs, NEW k \in Kinds, Frame(w, p, k) PROVE Stutter
  BY <1>1, <1>4, Zenon DEF Frame
<1>5. ASSUME NEW w \in Workers, Start(w) PROVE Stutter  BY <1>1, <1>5, ZenonT(40) DEF Start
<1>6. ASSUME NEW w \in Workers, Finish(w) PROVE Stutter  BY <1>1, <1>6, Zenon DEF Finish
<1>7. ASSUME NEW w \in Workers, NEW k \in Kinds, NoTrack(w, k) PROVE Stutter
  BY <1>1, <1>7, Zenon DEF NoTrack
<1>8. ASSUME NEW w \in Workers, Offer(w) PROVE Stutter
  <2>1. PICK K \in SUBSET Kinds, f \in [Kinds -> Addresses] : NewTracks(w, K, f)
    BY <1>8, OfferTracks, Zenon
  <2>2. Fresh(run[w].pc) /\ run[w].pc \in Pcs /\ dests' = dests /\ last' = last
    BY <1>8, OfferOnce, OfferTracks, Zenon
  <2>3. ASSUME NEW q \in Pubs, NEW t \in Subs, NEW j \in Kinds
        PROVE  Linked(q, t, j)' <=> Linked(q, t, j)
    <3>1. CASE t = run[w].pc
      <4>1. \A a \in Addresses : dests[q][j][a] # Dest(t, j)
        BY <2>2, <3>1, DestFacts DEF FreshInv
      <4>. QED  BY <2>2, <4>1, Zenon DEF Linked, Dest
    <3>2. CASE t # run[w].pc
      <4>1. track'[t] = track[t]  BY <2>1, <3>2, Zenon DEF NewTracks, Pcs
      <4>. QED  BY <2>2, <4>1, Zenon DEF Linked
    <3>. QED  BY <3>1, <3>2, Zenon
  <2>. QED  BY <2>2, <2>3, LinksSame, Zenon
<1>9. ASSUME NEW w \in Workers, NEW k \in Kinds, AddLink(w, k) PROVE Contract!Next
  <2>. DEFINE p == run[w].pc
              s == run[w].sub
              d == Dest(s, k)
  <2>1. /\ p \in Pubs /\ s \in Subs /\ d \in Dests /\ d[1] = s /\ d[2] = k
        /\ k \in track[s]
    BY <1>9, AddLinkNames, Zenon
  <2>2. track' = track /\ last' = <<"link", p, s, k>>  BY <1>9, Zenon DEF AddLink
  <2>3. Exists(d)  BY <2>1, Zenon DEF LifeInv, Used
  <2>4. addr[d] \in Addresses /\ dests[p][k][addr[d]] \in {NoDest, d}
    BY <2>1, <2>3, EntryIsOwn, Zenon
  <2>5. \A q \in Pubs, j \in Kinds, b \in Addresses :
          dests'[q][j][b] = IF q = p /\ j = k /\ b = addr[d] /\ dests[p][k][b] = NoDest
                            THEN d ELSE dests[q][j][b]
    BY <1>9, AddLinkEntries, Zenon DEF Entered
  <2>6. ASSUME NEW q \in Pubs, NEW t \in Subs, NEW j \in Kinds
        PROVE  Linked(q, t, j)' <=> Linked(q, t, j) \/ (q = p /\ t = s /\ j = k)
    <3>. DEFINE c == Dest(t, j)
    <3>0. c \in Dests /\ c[1] = t /\ c[2] = j /\ c # NoDest  BY DestFacts, NoDestNotDest
    <3>1. Linked(q, t, j)' <=> j \in track[t] /\ \E a \in Addresses : dests'[q][j][a] = c
      BY <2>2, Zenon DEF Linked, Dest
    <3>2. Linked(q, t, j) <=> j \in track[t] /\ \E a \in Addresses : dests[q][j][a] = c
      BY LinkedFacts, Zenon
    <3>. HIDE DEF c, d, p, s
    <3>3. CASE q = p /\ t = s /\ j = k
      <4>1. c = d  BY <3>3, Zenon DEF c, d
      <4>2. dests'[p][k][addr[d]] = d  BY <2>1, <2>4, <2>5, SMTT(30)
      <4>. QED  BY <2>1, <2>4, <3>1, <3>3, <4>1, <4>2, Zenon
    <3>4. CASE ~(q = p /\ t = s /\ j = k)
      <4>1. \A a \in Addresses : dests'[q][j][a] = c <=> dests[q][j][a] = c
        BY <2>1, <2>5, <3>0, <3>4, SMTT(30)
      <4>. QED  BY <3>1, <3>2, <3>4, <4>1, Zenon
    <3>. QED  BY <3>3, <3>4, Zenon
  <2>7. Links' = Links \cup {<<p, s, k>>}
    <3>. HIDE DEF p, s
    <3>. QED  BY <2>1, <2>6, LinksAdd, Zenon
  <2>8. Contract!Link(p, s, k)  BY <2>2, <2>7, Zenon DEF Contract!Link
  <2>. QED  BY <2>1, <2>8, Zenon DEF Contract!Next
<1>10. ASSUME NEW w \in Workers, NEW k \in Kinds, RemoveLink(w, k) PROVE Contract!Next
  <2>. DEFINE p == run[w].pc
              s == run[w].sub
              d == Dest(s, k)
              e == dests[p][k][addr[d]]
  <2>1. /\ p \in Pubs /\ s \in Subs /\ d \in Dests /\ d[1] = s /\ d[2] = k
        /\ k \in track[s] /\ track' = track
    BY <1>10, RemoveLinkNames, Zenon
  <2>2. last' = <<"cut", p, s, k>>  BY <1>10, Zenon DEF RemoveLink
  <2>3. Exists(d)  BY <2>1, Zenon DEF LifeInv, Used
  <2>4. /\ addr[d] \in Addresses /\ e \in {NoDest, d}
        /\ \A a \in Addresses : dests[p][k][a] = d => a = addr[d]
    BY <2>1, <2>3, EntryIsOwn, SMTT(30)
  <2>5. \/ e = NoDest /\ dests' = dests
        \/ e = d /\ Cleared(p, k, addr[d])
    <3>1. \/ e = NoDest /\ dests' = dests /\ source' = source /\ crashed' = crashed
          \/ e # NoDest /\ ~Exists(e) /\ dests' = dests /\ source' = source
          \/ e # NoDest /\ Exists(e) /\ crashed' = crashed
             /\ Unset(k, e) /\ Cleared(p, k, addr[d])
      BY <1>10, RemoveLinkEntries, Zenon
    <3>. QED  BY <2>3, <2>4, <3>1, Zenon
  <2>6. ASSUME NEW q \in Pubs, NEW t \in Subs, NEW j \in Kinds
        PROVE  Linked(q, t, j)' <=> Linked(q, t, j) /\ ~(q = p /\ t = s /\ j = k)
    <3>. DEFINE c == Dest(t, j)
    <3>0. c \in Dests /\ c[1] = t /\ c[2] = j /\ c # NoDest  BY DestFacts, NoDestNotDest
    <3>1. Linked(q, t, j)' <=> j \in track[t] /\ \E a \in Addresses : dests'[q][j][a] = c
      BY <2>1, Zenon DEF Linked, Dest
    <3>2. Linked(q, t, j) <=> j \in track[t] /\ \E a \in Addresses : dests[q][j][a] = c
      BY LinkedFacts
    <3>a. e = dests[p][k][addr[d]]  BY Zenon
    <3>. HIDE DEF c, d, p, s, e
    <3>3. CASE q = p /\ t = s /\ j = k
      <4>1. c = d  BY <3>3 DEF c, d
      <4>2. ASSUME NEW a \in Addresses, dests'[p][k][a] = d PROVE FALSE
        <5>1. CASE e = NoDest /\ dests' = dests
          BY <2>4, <3>0, <3>a, <4>1, <4>2, <5>1, Zenon
        <5>2. CASE e = d /\ Cleared(p, k, addr[d])
          BY <2>1, <2>4, <3>0, <4>1, <4>2, <5>2, ZenonT(40) DEF Cleared
        <5>. QED  BY <2>5, <5>1, <5>2, Zenon
      <4>. QED  BY <3>1, <3>3, <4>1, <4>2
    <3>4. CASE ~(q = p /\ t = s /\ j = k)
      <4>1. q = p /\ j = k => c # d  BY <2>1, <3>0, <3>4, Zenon
      <4>2. ASSUME NEW a \in Addresses PROVE dests'[q][j][a] = c <=> dests[q][j][a] = c
        <5>1. CASE dests' = dests  BY <5>1, Zenon
        <5>2. CASE e = d /\ Cleared(p, k, addr[d])
          BY <3>0, <3>a, <4>1, <5>2, Zenon DEF Cleared
        <5>. QED  BY <2>5, <5>1, <5>2, Zenon
      <4>. QED  BY <3>1, <3>2, <3>4, <4>2, ZenonT(40)
    <3>. QED  BY <3>3, <3>4, Zenon
  <2>7. Links' = Links \ {<<p, s, k>>}
    <3>. HIDE DEF p, s
    <3>. QED  BY <2>1, <2>6, LinksCut, Zenon
  <2>8. Contract!Cut(p, s, k)  BY <2>2, <2>7, Zenon DEF Contract!Cut
  <2>. QED  BY <2>1, <2>8, Zenon DEF Contract!Next
<1>11. ASSUME NEW w \in Workers, NEW k \in Kinds, CloseTrack(w, k) PROVE Contract!Next
  <2>. DEFINE x == run[w].pc
  <2>1. x \in Pcs /\ x \in Pubs \cup Subs  BY <1>11, CloseTrackEntries, Zenon DEF Pcs
  <2>2. last' = <<"close", x, k>>  BY <1>11, Zenon DEF CloseTrack
  <2>3. ASSUME NEW q \in Pubs, NEW t \in Subs, NEW j \in Kinds
        PROVE  Linked(q, t, j)' <=> Linked(q, t, j) /\ ~(x \in {q, t} /\ j = k)
    <3>. DEFINE c == Dest(t, j)
    <3>0. c # NoDest /\ t \in Pcs  BY DestFacts, NoDestNotDest, Zenon DEF Pcs
    <3>1. Linked(q, t, j)' <=> j \in track'[t] /\ \E a \in Addresses : dests'[q][j][a] = c
      BY Zenon DEF Linked, Dest
    <3>2. Linked(q, t, j) <=> j \in track[t] /\ \E a \in Addresses : dests[q][j][a] = c
      BY LinkedFacts
    <3>3. j \in track'[t] <=> j \in track[t] /\ ~(t = x /\ j = k)
      BY <1>11, <3>0, CloseTrackEntries, SMTT(30)
    <3>4. \A a \in Addresses :
            dests'[q][j][a] = IF q = x /\ j = k THEN NoDest ELSE dests[q][j][a]
      BY <1>11, CloseTrackEntries
    <3>. HIDE DEF c, x
    <3>. QED  BY <3>0, <3>1, <3>2, <3>3, <3>4
  <2>4. Links' = {l \in Links : ~(x \in {l[1], l[2]} /\ k = l[3])}
    <3>. HIDE DEF x
    <3>. QED  BY <2>1, <2>3, LinksClose, Zenon
  <2>5. Contract!Close(x, k)  BY <2>2, <2>4, Zenon DEF Contract!Close
  <2>. QED  BY <2>1, <2>5, ZenonT(40) DEF Contract!Next
<1>12. ASSUME NEW w \in Workers, NEW a \in Addresses, DeliverTo(w, a)
       PROVE  Contract!Next \/ Stutter
  <2>. DEFINE p == run[w].pc
              k == run[w].sub
              d == dests[p][k][a]
  <2>1. p \in Pubs /\ k \in Kinds /\ d \in Dests /\ d # NoDest
    BY <1>12, DeliverToNames, NoDestNotDest, Zenon
  <2>2. d[2] = k /\ d[1] \in Subs /\ d = Dest(d[1], k)
    <3>1. d[2] = k  BY <2>1, SMTT(30) DEF EntryInv
    <3>. QED  BY <2>1, <3>1, DestFacts, ZenonT(40)
  <2>3. track' = track  BY <1>12, Zenon DEF DeliverTo
  <2>4. Exists(d) <=> k \in track[d[1]]  BY <2>1, <2>2, ZenonT(40) DEF LifeInv, Used, HeldInv
  <2>5. CASE Exists(d)
    <3>1. dests' = dests /\ last' = <<"deliver", p, d[1], k>>  BY <1>12, <2>5, Zenon DEF DeliverTo
    <3>2. Links' = Links  BY <2>3, <3>1, Zenon DEF Links, Linked
    <3>3. Linked(p, d[1], k)
      <4>. HIDE DEF p, k
      <4>. QED  BY <2>2, <2>4, <2>5, LinkedFacts, Zenon
    <3>4. <<p, d[1], k>> \in Links  BY <2>1, <2>2, <3>3, Zenon DEF Links
    <3>5. Contract!Deliver(p, d[1], k)  BY <3>1, <3>2, <3>4, Zenon DEF Contract!Deliver
    <3>. QED  BY <2>1, <2>2, <3>5, ZenonT(40) DEF Contract!Next
  <2>6. CASE ~Exists(d)
    <3>1. last' = last  BY <1>12, <2>6, Zenon DEF DeliverTo
    <3>2. \A q \in Pubs, j \in Kinds, b \in Addresses :
            dests'[q][j][b] = IF q = p /\ j = k /\ b = a THEN NoDest ELSE dests[q][j][b]
      <4>1. Cleared(p, k, a)  BY <1>12, <2>6, DeliverToEntries
      <4>. QED  BY <4>1, Zenon DEF Cleared
    <3>3. ASSUME NEW q \in Pubs, NEW t \in Subs, NEW j \in Kinds
          PROVE  Linked(q, t, j)' <=> Linked(q, t, j)
      <4>. DEFINE c == Dest(t, j)
      <4>0. c \in Dests /\ c[1] = t /\ c[2] = j /\ c # NoDest  BY DestFacts, NoDestNotDest, Zenon
      <4>1. Linked(q, t, j)' <=> j \in track[t] /\ \E b \in Addresses : dests'[q][j][b] = c
        BY <2>3, Zenon DEF Linked, Dest
      <4>2. Linked(q, t, j) <=> j \in track[t] /\ \E b \in Addresses : dests[q][j][b] = c
        BY LinkedFacts, Zenon
      <4>3. j \in track[t] => c # d  BY <2>2, <2>4, <2>6, <4>0, Zenon
      <4>. HIDE DEF c
      <4>4. c # d => \A b \in Addresses : dests'[q][j][b] = c <=> dests[q][j][b] = c
        BY <3>2, <4>0
      <4>. QED  BY <4>1, <4>2, <4>3, <4>4, Zenon
    <3>. QED  BY <3>1, <3>3, LinksSame, Zenon
  <2>. QED  BY <2>5, <2>6, Zenon
<1>. QED
  BY <1>0, <1>1, <1>2, <1>3, <1>4, <1>5, <1>6, <1>7, <1>8, <1>9, <1>10, <1>11, <1>12, StepCases, Zenon
  DEF Loop

(* Frames are routed as FrameLinks says if the connections share a worker   *)
(* and no address is given out while a map has an expired entry for it: a   *)
(* link-up adds exactly the link it names, a cut-off removes exactly that,  *)
(* closing a track removes exactly its links, and a frame is posted only    *)
(* along a link.                                                            *)
THEOREM ImplementsLinks ==
  ASSUME SameWorker, StaleReuse = FALSE
  PROVE  Spec => RoutesAsLinked
<1>1. Init => Contract!Init
  <2>. SUFFICES ASSUME Init PROVE Links = {} /\ last = <<"none">>
    BY Zenon DEF Contract!Init
  <2>1. \A s \in Subs : track[s] = {}  BY Zenon DEF Init, Pcs
  <2>. QED  BY <2>1, Zenon DEF Links, Linked, Init
<1>2. Inv1 /\ Inv2 /\ Inv3 /\ HeldInv /\ [Next]_vars => [Contract!Next]_(Contract!vars)
  BY ContractStep, Zenon
<1>. QED  BY <1>1, <1>2, Inv3Holds, HeldHolds, PTL DEF Spec, RoutesAsLinked, Contract!Spec

=============================================================================
