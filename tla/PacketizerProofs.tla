-------------------------- MODULE PacketizerProofs --------------------------
(***************************************************************************)
(* The second and the third layer of the invariant of FrameRouting: how     *)
(* long a packetizer lives, whatever addresses are reused, and that a map   *)
(* entry leads to the packetizer it was made for, if no address is reused   *)
(* while a map has an entry for it (StaleReuse = FALSE).                    *)
(***************************************************************************)
EXTENDS FrameRoutingProofs

(* 2. A connection's offer runs once, and before that nothing refers to its *)
(* tracks; a packetizer lives exactly while its track or a task holds it,   *)
(* at an address of its own.                                                *)
IsOffer(t, x) == t.type = "offer" /\ t.pc = x

OnceInv ==
    \A w \in Workers, x \in Pcs :
        /\ IsOffer(run[w], x) =>
             x \in used /\ \A i \in 1 .. Len(tasks[w]) : ~IsOffer(tasks[w][i], x)
        /\ \A i \in 1 .. Len(tasks[w]) : IsOffer(tasks[w][i], x) =>
             x \in used /\ \A j \in 1 .. Len(tasks[w]) : IsOffer(tasks[w][j], x) => i = j

Fresh(x) == \/ x \notin used
            \/ \E w \in Workers : \/ IsOffer(run[w], x)
                                  \/ \E i \in 1 .. Len(tasks[w]) : IsOffer(tasks[w][i], x)

FreshInv ==
    \A x \in Pcs : Fresh(x) =>
        /\ track[x] = {}
        /\ \A d \in Dests : /\ source[d] # x
                            /\ d[1] = x => addr[d] = None /\ source[d] = None
        /\ \A p \in Pubs, k \in Kinds, a \in Addresses : dests[p][k][a][1] # x

Used(d) == d[2] \in track[d[1]] \/ \E w \in Workers : d \in run[w].held

LifeInv == \A d \in Dests : Exists(d) <=> Used(d)

AddrInv == \A d, e \in Dests : Exists(d) /\ addr[d] = addr[e] => d = e

Inv2 == OnceInv /\ FreshInv /\ LifeInv /\ AddrInv

(* 3. If addresses are not given out while a map has an entry for them: an  *)
(* entry's destination is at the entry's address, or it is gone and nothing *)
(* else is there.                                                           *)
EntryInv ==
    \A p \in Pubs, k \in Kinds, a \in Addresses :
        LET e == dests[p][k][a] IN
        e # NoDest => /\ e[2] = k
                      /\ addr[e] \in {a, None}
                      /\ addr[e] = None => \A d \in Dests : addr[d] # a

Inv3 == EntryInv /\ NoBadEntryUsed /\ AudioSourceIsRoute

-----------------------------------------------------------------------------
(* Layer 2. *)

LEMMA OnceStep == TypeOK /\ OnceInv /\ [Next]_vars => OnceInv'
<1>. SUFFICES ASSUME TypeOK, OnceInv, [Next]_vars PROVE OnceInv'
  BY Zenon
<1>1. CASE UNCHANGED vars  BY <1>1, SMTT(30) DEF OnceInv, vars, IsOffer
<1>2. ASSUME NEW x \in Pcs, NEW t \in Posted, Call(x, t) PROVE OnceInv'
  <2>. SUFFICES ASSUME NEW v \in Workers, NEW y \in Pcs
                PROVE  /\ IsOffer(run'[v], y) =>
                            /\ y \in used'
                            /\ \A i \in 1 .. Len(tasks'[v]) : ~IsOffer(tasks'[v][i], y)
                       /\ \A i \in 1 .. Len(tasks'[v]) : IsOffer(tasks'[v][i], y) =>
                            /\ y \in used'
                            /\ \A j \in 1 .. Len(tasks'[v]) : IsOffer(tasks'[v][j], y) => i = j
    BY Zenon DEF OnceInv, IsOffer
  <2>1. run' = run /\ used \subseteq used'  BY <1>2, CallQueue, Zenon DEF Call
  <2>2. CASE v # WorkerOf[x]  BY <1>2, <2>1, <2>2, CallQueue DEF OnceInv
  <2>3. CASE v = WorkerOf[x]
    <3>. DEFINE n == Len(tasks[v])
    <3>1. /\ n \in Nat /\ Len(tasks'[v]) = n + 1 /\ tasks'[v][n + 1] = t
          /\ \A i \in 1 .. n : tasks'[v][i] = tasks[v][i]
      BY <1>2, <2>3, CallQueue, Zenon
    <3>2. \A i \in 1 .. n + 1 : i \in 1 .. n \/ i = n + 1  BY <3>1
    <3>3. IsOffer(t, y) => y \notin used /\ y \in used'  BY <1>2, Zenon DEF IsOffer, Call
    <3>. HIDE DEF n
    <3>4. \A i \in 1 .. n : /\ IsOffer(tasks[v][i], y) => y \in used
                            /\ \A j \in 1 .. n :
                                 IsOffer(tasks[v][i], y) /\ IsOffer(tasks[v][j], y) => i = j
      BY Zenon DEF OnceInv, n
    <3>5. IsOffer(run[v], y) => y \in used /\ \A i \in 1 .. n : ~IsOffer(tasks[v][i], y)
      BY Zenon DEF OnceInv, n
    <3>. QED  BY <2>1, <3>1, <3>2, <3>3, <3>4, <3>5, Zenon
  <2>. QED  BY <2>2, <2>3, Zenon
<1>3. ASSUME NEW w \in Workers, NEW p \in Pubs, NEW k \in Kinds, Frame(w, p, k)
      PROVE  OnceInv'
  BY <1>3, FrameRun DEF OnceInv, IsOffer
<1>4. ASSUME NEW w \in Workers, Start(w) PROVE OnceInv'
  <2>. SUFFICES ASSUME NEW v \in Workers, NEW y \in Pcs
                PROVE  /\ IsOffer(run'[v], y) =>
                            /\ y \in used'
                            /\ \A i \in 1 .. Len(tasks'[v]) : ~IsOffer(tasks'[v][i], y)
                       /\ \A i \in 1 .. Len(tasks'[v]) : IsOffer(tasks'[v][i], y) =>
                            /\ y \in used'
                            /\ \A j \in 1 .. Len(tasks'[v]) : IsOffer(tasks'[v][j], y) => i = j
    BY Zenon DEF OnceInv, IsOffer
  <2>1. CASE v # w  BY <1>4, <2>1, StartQueue, SMTT(30) DEF OnceInv
  <2>2. CASE v = w
    <3>. DEFINE n == Len(tasks[w])
    <3>1. /\ n \in Nat /\ n > 0 /\ Len(tasks'[w]) = n - 1 /\ used' = used
          /\ \A i \in 1 .. n - 1 : tasks'[w][i] = tasks[w][i + 1]
          /\ IsOffer(run'[w], y) <=> IsOffer(tasks[w][1], y)
      BY <1>4, StartQueue, Zenon DEF IsOffer
    <3>2. 1 \in 1 .. n /\ \A i \in 1 .. n - 1 : i + 1 \in 1 .. n /\ i + 1 # 1  BY <3>1
    <3>3. \A i \in 1 .. n : /\ IsOffer(tasks[w][i], y) => y \in used
                            /\ \A j \in 1 .. n :
                                 IsOffer(tasks[w][i], y) /\ IsOffer(tasks[w][j], y) => i = j
      BY Zenon DEF OnceInv
    <3>4. \A i, j \in 1 .. n - 1 : i + 1 = j + 1 => i = j  BY <3>1
    <3>. HIDE DEF n
    <3>5. ASSUME IsOffer(run'[w], y), NEW i \in 1 .. n - 1 PROVE ~IsOffer(tasks'[w][i], y)
      BY <3>1, <3>2, <3>3, <3>5, Zenon
    <3>6. ASSUME NEW i \in 1 .. n - 1, NEW j \in 1 .. n - 1,
                 IsOffer(tasks'[w][i], y), IsOffer(tasks'[w][j], y)
          PROVE  i = j
      <4>1. IsOffer(tasks[w][i + 1], y) /\ IsOffer(tasks[w][j + 1], y)  BY <3>1, <3>6, Zenon
      <4>2. i + 1 = j + 1  BY <3>2, <3>3, <4>1, Zenon
      <4>. QED  BY <3>4, <4>2, Zenon
    <3>. QED  BY <2>2, <3>1, <3>2, <3>3, <3>5, <3>6, Zenon
  <2>. QED  BY <2>1, <2>2, Zenon
<1>5. ASSUME NEW w \in Workers, Continues(w) PROVE OnceInv'
  <2>1. run'[w].type # "offer"  BY <1>5 DEF Continues, Idle
  <2>. QED  BY <1>5, <2>1, SMTT(30) DEF OnceInv, Continues, IsOffer
<1>. QED  BY <1>1, <1>2, <1>3, <1>4, <1>5, StepCases, LoopContinues, EndContinues, Zenon

(* A connection is fresh until its offer runs, and never again. *)
LEMMA FreshOnce ==
  ASSUME TypeOK, OwnInv, OnceInv, [Next]_vars, NEW y \in Pcs, Fresh(y)'
  PROVE  Fresh(y)
<1>1. CASE UNCHANGED vars  BY <1>1, Zenon DEF Fresh, vars, IsOffer
<1>2. ASSUME NEW x \in Pcs, NEW t \in Posted, Call(x, t) PROVE Fresh(y)
  <2>1. run' = run /\ used \subseteq used'  BY <1>2, CallQueue, Zenon DEF Call
  <2>2. CASE y \notin used'  BY <2>1, <2>2, Zenon DEF Fresh
  <2>3. CASE \E v \in Workers : IsOffer(run'[v], y)  BY <2>1, <2>3, Zenon DEF Fresh
  <2>4. ASSUME NEW v \in Workers, NEW i \in 1 .. Len(tasks'[v]), IsOffer(tasks'[v][i], y)
        PROVE  Fresh(y)
    <3>1. CASE v # WorkerOf[x]  BY <1>2, <2>4, <3>1, CallQueue, Zenon DEF Fresh
    <3>2. CASE v = WorkerOf[x]
      <4>1. i \in 1 .. Len(tasks[v]) \/ i = Len(tasks[v]) + 1
        BY <1>2, <2>4, <3>2, CallQueue, SMTT(30)
      <4>2. CASE i \in 1 .. Len(tasks[v])  BY <1>2, <2>4, <3>2, <4>2, CallQueue, SMTT(30) DEF Fresh
      <4>3. CASE i = Len(tasks[v]) + 1
        <5>1. IsOffer(t, y)  BY <1>2, <2>4, <3>2, <4>3, CallQueue, Zenon
        <5>. QED  BY <1>2, <5>1, Zenon DEF IsOffer, Call, Fresh
      <4>. QED  BY <4>1, <4>2, <4>3, Zenon
    <3>. QED  BY <3>1, <3>2, Zenon
  <2>. QED  BY <2>2, <2>3, <2>4, Zenon DEF Fresh, IsOffer
<1>3. ASSUME NEW w \in Workers, NEW p \in Pubs, NEW k \in Kinds, Frame(w, p, k)
      PROVE  Fresh(y)
  BY <1>3, FrameRun, SMTT(30) DEF Fresh, IsOffer
<1>4. ASSUME NEW w \in Workers, Start(w) PROVE Fresh(y)
  <2>1. CASE y \notin used'  BY <1>4, <2>1, StartQueue, Zenon DEF Fresh
  <2>2. ASSUME NEW v \in Workers, IsOffer(run'[v], y) PROVE Fresh(y)
    <3>1. CASE v # w  BY <1>4, <2>2, <3>1, StartQueue, ZenonT(40) DEF Fresh
    <3>2. CASE v = w
      <4>1. 1 \in 1 .. Len(tasks[w]) /\ IsOffer(tasks[w][1], y)
        BY <1>4, <2>2, <3>2, StartQueue DEF IsOffer
      <4>. QED  BY <4>1, Zenon DEF Fresh
    <3>. QED  BY <3>1, <3>2, Zenon
  <2>3. ASSUME NEW v \in Workers, NEW i \in 1 .. Len(tasks'[v]), IsOffer(tasks'[v][i], y)
        PROVE  Fresh(y)
    <3>1. CASE v # w  BY <1>4, <2>3, <3>1, StartQueue DEF Fresh
    <3>2. CASE v = w
      <4>1. i + 1 \in 1 .. Len(tasks[w]) /\ IsOffer(tasks[w][i + 1], y)
        BY <1>4, <2>3, <3>2, StartQueue, SMTT(30)
      <4>. QED  BY <4>1, Zenon DEF Fresh
    <3>. QED  BY <3>1, <3>2, Zenon
  <2>. QED  BY <2>1, <2>2, <2>3, Zenon DEF Fresh, IsOffer
<1>5. ASSUME NEW w \in Workers, Continues(w) PROVE Fresh(y)
  <2>1. run'[w].type # "offer"  BY <1>5, SMTT(30) DEF Continues, Idle
  <2>. QED  BY <1>5, <2>1, Zenon DEF Fresh, Continues, IsOffer
<1>. QED  BY <1>1, <1>2, <1>3, <1>4, <1>5, StepCases, LoopContinues, EndContinues, Zenon

LEMMA OfferOnce ==
  ASSUME TypeOK, OwnInv, OnceInv, NEW w \in Workers, Offer(w), NEW x \in Pcs, x = run[w].pc
  PROVE  Fresh(x) /\ ~Fresh(x)'
<1>1. IsOffer(run[w], x) /\ run[w] # Idle
  BY RunCases, Zenon DEF Offer, IsOffer
<1>2. Fresh(x)  BY <1>1, Zenon DEF Fresh
<1>3. WorkerOf[x] = w  BY <1>1, Zenon DEF OwnInv
<1>4. x \in used /\ used' = used  BY <1>1, Zenon DEF OnceInv, Offer, api
<1>5. ASSUME NEW v \in Workers PROVE ~IsOffer(run'[v], x)
  <2>1. CASE v = w
    <3>1. run'[w] = Idle  BY Zenon DEF Offer, TypeOK
    <3>. QED  BY <2>1, <3>1, SMTT(30) DEF IsOffer, Idle
  <2>2. CASE v # w
    <3>1. run'[v] = run[v]  BY <2>2, Zenon DEF Offer, TypeOK
    <3>2. IsOffer(run[v], x) => WorkerOf[x] = v
      BY DEF OwnInv, IsOffer, Idle
    <3>. QED  BY <1>3, <2>2, <3>1, <3>2, Zenon
  <2>. QED  BY <2>1, <2>2, Zenon
<1>6. ASSUME NEW v \in Workers, NEW i \in 1 .. Len(tasks'[v]) PROVE ~IsOffer(tasks'[v][i], x)
  <2>1. tasks' = tasks  BY Zenon DEF Offer
  <2>2. IsOffer(tasks[v][i], x) => v = w  BY <1>3, <1>6, <2>1 DEF OwnInv, IsOffer
  <2>3. v = w => ~IsOffer(tasks[v][i], x)  BY <1>1, <1>6, <2>1, Zenon DEF OnceInv
  <2>. QED  BY <2>1, <2>2, <2>3, Zenon
<1>. QED  BY <1>1, <1>2, <1>4, <1>5, <1>6, Zenon DEF Fresh, IsOffer

(* The tracks of an offer, K, and where their packetizers are allocated. *)
NewTracks(w, K, f) ==
    /\ \A y \in Pcs : track'[y] = IF y = run[w].pc THEN K ELSE track[y]
    /\ run[w].pc \in Pubs => addr' = addr
    /\ run[w].pc \notin Pubs =>
         /\ \A k \in K : Allocatable(f[k])
         /\ \A j, k \in K : f[j] = f[k] => j = k
         /\ \A d \in Dests : addr'[d] = IF d[1] = run[w].pc /\ d[2] \in K
                                        THEN f[d[2]] ELSE addr[d]

LEMMA OfferTracks ==
  ASSUME TypeOK, NEW w \in Workers, Offer(w)
  PROVE  /\ run[w].pc \in Pcs /\ run[w].held = {} /\ run'[w].held = {}
         /\ \A v \in Workers : v # w => run'[v] = run[v]
         /\ UNCHANGED <<tasks, used, dests, source, crashed, last>>
         /\ \E K \in SUBSET Kinds, f \in [Kinds -> Addresses] : NewTracks(w, K, f)
<1>1. run[w].pc \in Pcs /\ run[w].held = {}  BY RunCases, Zenon DEF Offer
<1>2. run'[w].held = {} /\ \A v \in Workers : v # w => run'[v] = run[v]
  BY Zenon DEF Offer, TypeOK, Idle
<1>3. UNCHANGED <<tasks, used, dests, source, crashed, last>>  BY Zenon DEF Offer, api
<1>4. PICK K \in SUBSET Kinds \ {{}}, f \in [Kinds -> Addresses] :
         /\ track' = [track EXCEPT ![run[w].pc] = K]
         /\ IF run[w].pc \in Pubs THEN UNCHANGED addr
            ELSE /\ \A k \in K : Allocatable(f[k])
                 /\ \A j, k \in K : f[j] = f[k] => j = k
                 /\ addr' = [d \in Dests |-> IF d[1] = run[w].pc /\ d[2] \in K
                                             THEN f[d[2]] ELSE addr[d]]
  BY Zenon DEF Offer
<1>5. \A y \in Pcs : track'[y] = IF y = run[w].pc THEN K ELSE track[y]  BY <1>4, Zenon DEF TypeOK
<1>6. run[w].pc \in Pubs => addr' = addr  BY <1>4, Zenon
<1>7. run[w].pc \notin Pubs =>
        /\ \A k \in K : Allocatable(f[k])
        /\ \A j, k \in K : f[j] = f[k] => j = k
        /\ \A d \in Dests : addr'[d] = IF d[1] = run[w].pc /\ d[2] \in K
                                       THEN f[d[2]] ELSE addr[d]
  BY <1>4, Zenon
<1>8. NewTracks(w, K, f)  BY <1>5, <1>6, <1>7, Zenon DEF NewTracks
<1>. QED  BY <1>1, <1>2, <1>3, <1>8, Zenon

(* Giving up references leaves the other packetizers where they are. *)
LEMMA ReleaseAddr ==
  ASSUME TypeOK, NEW w \in Workers, NEW D, Release(w, D)
  PROVE  \A d \in Dests :
           addr'[d] = IF d \in D /\ d[2] \notin track'[d[1]]
                           /\ \A v \in Workers : v # w => d \notin run[v].held
                      THEN None ELSE addr[d]
BY Zenon DEF Release, Orphans

Shrinks == \A d \in Dests : addr'[d] \in {addr[d], None}

LEMMA LoopShrinks ==
  ASSUME TypeOK, NEW w \in Workers, Loop(w) \/ Finish(w)
  PROVE  Shrinks
<1>1. ASSUME NEW D, Release(w, D) PROVE Shrinks  BY <1>1, ReleaseAddr, Zenon DEF Shrinks
<1>2. ASSUME NEW item, NEW D, Advance(w, item, D) PROVE Shrinks  BY <1>1, <1>2, Zenon DEF Advance
<1>3. ASSUME NEW k \in Kinds, NoTrack(w, k) PROVE Shrinks  BY <1>3, Zenon DEF NoTrack, Shrinks
<1>4. ASSUME NEW k \in Kinds, AddLink(w, k) PROVE Shrinks  BY <1>2, <1>4, Zenon DEF AddLink
<1>5. ASSUME NEW k \in Kinds, RemoveLink(w, k) PROVE Shrinks  BY <1>2, <1>5, Zenon DEF RemoveLink
<1>6. ASSUME NEW k \in Kinds, CloseTrack(w, k) PROVE Shrinks  BY <1>1, <1>6, Zenon DEF CloseTrack
<1>7. ASSUME NEW a \in Addresses, DeliverTo(w, a) PROVE Shrinks  BY <1>2, <1>7, ZenonT(40) DEF DeliverTo
<1>8. CASE Finish(w)  BY <1>1, <1>8, Zenon DEF Finish
<1>. QED  BY <1>3, <1>4, <1>5, <1>6, <1>7, <1>8, Zenon DEF Loop

LEMMA AddrStep == TypeOK /\ AddrInv /\ [Next]_vars => AddrInv'
<1>. SUFFICES ASSUME TypeOK, AddrInv, [Next]_vars PROVE AddrInv'
  OBVIOUS
<1>1. CASE addr' = addr  BY <1>1, Zenon DEF AddrInv, Exists
<1>2. CASE Shrinks  BY <1>2, Zenon DEF Shrinks, AddrInv, Exists
<1>3. ASSUME NEW w \in Workers, Offer(w) PROVE AddrInv'
  <2>0. PICK K \in SUBSET Kinds, f \in [Kinds -> Addresses] : NewTracks(w, K, f)
    BY <1>3, OfferTracks, Zenon
  <2>1. /\ run[w].pc \in Pubs => addr' = addr
        /\ run[w].pc \notin Pubs =>
             /\ \A k \in K : Allocatable(f[k])
             /\ \A j, k \in K : f[j] = f[k] => j = k
             /\ \A d \in Dests : addr'[d] = IF d[1] = run[w].pc /\ d[2] \in K
                                            THEN f[d[2]] ELSE addr[d]
    BY <2>0, Zenon DEF NewTracks
  <2>2. CASE run[w].pc \notin Pubs
    <3>. SUFFICES ASSUME NEW d \in Dests, NEW e \in Dests, addr'[d] # None, addr'[d] = addr'[e]
                  PROVE  d = e
      BY Zenon DEF AddrInv, Exists
    <3>. DEFINE New(c) == c[1] = run[w].pc /\ c[2] \in K
    <3>0. /\ d[1] \in Subs /\ d[2] \in Kinds /\ d = Dest(d[1], d[2])
          /\ e[1] \in Subs /\ e[2] \in Kinds /\ e = Dest(e[1], e[2])
      BY DestFacts, Zenon
    <3>1. CASE New(d) /\ New(e)
      <4>1. f[d[2]] = f[e[2]]  BY <2>1, <2>2, <3>1, Zenon
      <4>2. d[2] = e[2]  BY <2>1, <2>2, <3>1, <4>1, Zenon
      <4>. QED  BY <3>0, <3>1, <4>2, Zenon
    <3>2. CASE New(d) /\ ~New(e)
      <4>1. addr[e] = f[d[2]]  BY <2>1, <2>2, <3>2, Zenon
      <4>. QED  BY <2>1, <2>2, <3>2, <4>1 DEF Allocatable
    <3>3. CASE ~New(d) /\ New(e)
      <4>1. addr[d] = f[e[2]]  BY <2>1, <2>2, <3>3, Zenon
      <4>. QED  BY <2>1, <2>2, <3>3, <4>1, Zenon DEF Allocatable
    <3>4. CASE ~New(d) /\ ~New(e)  BY <2>1, <2>2, <3>4, Zenon DEF AddrInv, Exists
    <3>. QED  BY <3>1, <3>2, <3>3, <3>4, Zenon
  <2>. QED  BY <1>1, <2>1, <2>2, Zenon
<1>4. ASSUME NEW x \in Pcs, NEW t \in Posted, Call(x, t) PROVE addr' = addr
  BY <1>4, CallQueue, Zenon
<1>5. ASSUME NEW w \in Workers, Start(w) PROVE addr' = addr  BY <1>5, Zenon DEF Start
<1>6. ASSUME NEW w \in Workers, NEW p \in Pubs, NEW k \in Kinds, Frame(w, p, k)
      PROVE  addr' = addr
  BY <1>6, Zenon DEF Frame
<1>7. UNCHANGED vars => addr' = addr  BY Zenon DEF vars
<1>. QED  BY <1>1, <1>2, <1>3, <1>4, <1>5, <1>6, <1>7, StepCases, LoopShrinks, Zenon

(* A reference replaces those that the task held before. *)
LEMMA AdvanceLife ==
  ASSUME TypeOK, LifeInv, NEW w \in Workers, NEW item, NEW D \in SUBSET Dests,
         Advance(w, item, D), track' = track, \A d \in D : Exists(d)
  PROVE  LifeInv'
<1>. SUFFICES ASSUME NEW d \in Dests
              PROVE  addr'[d] # None <=>
                       d[2] \in track[d[1]] \/ \E v \in Workers : d \in run'[v].held
  BY Zenon DEF LifeInv, Exists, Used
<1>1. run'[w].held = D /\ \A v \in Workers : v # w => run'[v] = run[v]  BY AdvanceFields
<1>2. addr'[d] = IF /\ d \in run[w].held \ D /\ d[2] \notin track[d[1]]
                    /\ \A v \in Workers : v # w => d \notin run[v].held
                 THEN None ELSE addr[d]
  BY ReleaseAddr DEF Advance
<1>3. addr[d] # None <=> d[2] \in track[d[1]] \/ \E v \in Workers : d \in run[v].held
  BY Zenon DEF LifeInv, Exists, Used
<1>4. d \in D => addr[d] # None  BY Zenon DEF Exists
<1>. QED  BY <1>1, <1>2, <1>3, <1>4, Zenon

LEMMA LifeStep ==
  TypeOK /\ OwnInv /\ DeliverInv /\ OnceInv /\ FreshInv /\ LifeInv /\ [Next]_vars => LifeInv'
<1>. SUFFICES ASSUME TypeOK, OwnInv, DeliverInv, OnceInv, FreshInv, LifeInv, [Next]_vars
              PROVE  LifeInv'
  BY Zenon
<1>1. CASE UNCHANGED vars  BY <1>1, Zenon DEF LifeInv, Exists, Used, vars
<1>2. ASSUME NEW x \in Pcs, NEW t \in Posted, Call(x, t) PROVE LifeInv'
  BY <1>2, CallQueue DEF LifeInv, Exists, Used
<1>3. ASSUME UNCHANGED <<track, addr>>, \A v \in Workers : run'[v].held = run[v].held
      PROVE  LifeInv'
  BY <1>3, Zenon DEF LifeInv, Exists, Used
<1>4. ASSUME NEW w \in Workers, NEW p \in Pubs, NEW k \in Kinds, Frame(w, p, k)
      PROVE  LifeInv'
  <2>1. run[w].held = {}  BY <1>4, FrameRun DEF Idle
  <2>. QED  BY <1>3, <1>4, <2>1, FrameRun, Zenon
<1>5. ASSUME NEW w \in Workers, Start(w) PROVE LifeInv'
  <2>1. run[w].held = {}  BY <1>5, StartQueue DEF Idle
  <2>. QED  BY <1>3, <1>5, <2>1, StartQueue, Zenon
<1>6. ASSUME NEW w \in Workers, NEW k \in Kinds, NoTrack(w, k) PROVE LifeInv'
  <2>1. \A v \in Workers : run'[v].held = run[v].held  BY <1>6, TodoFields, Zenon
  <2>. QED  BY <1>3, <1>6, <2>1, Zenon DEF NoTrack
<1>7. ASSUME NEW w \in Workers, NEW k \in Kinds, AddLink(w, k) \/ RemoveLink(w, k)
      PROVE  LifeInv'
  <2>. DEFINE d == <<run[w].sub, k>>
  <2>1. run[w].type \in {"link", "cut"} /\ k \in track[run[w].sub] /\ track' = track
        /\ Advance(w, k, {d})
    BY <1>7, ZenonT(40) DEF AddLink, RemoveLink
  <2>2. d \in Dests /\ d[1] = run[w].sub /\ d[2] = k  BY <2>1, RunCases, Zenon DEF Dests
  <2>3. Exists(d)  BY <2>1, <2>2, Zenon DEF LifeInv, Used
  <2>. HIDE DEF d
  <2>. QED  BY <2>1, <2>2, <2>3, AdvanceLife, Zenon
<1>8. ASSUME NEW w \in Workers, NEW a \in Addresses, DeliverTo(w, a) PROVE LifeInv'
  <2>. DEFINE d == dests[run[w].pc][run[w].sub][a]
  <2>1. d \in Dests  BY <1>8, DeliverToNames, Zenon
  <2>. HIDE DEF d
  <2>2. track' = track /\ ((Exists(d) /\ Advance(w, a, {d})) \/ Advance(w, a, {}))
    BY <1>8, ZenonT(40) DEF DeliverTo, d
  <2>. QED  BY <2>1, <2>2, AdvanceLife, SMTT(30)
<1>9. ASSUME NEW w \in Workers, Finish(w) PROVE LifeInv'
  <2>. SUFFICES ASSUME NEW d \in Dests
                PROVE  addr'[d] # None <=>
                         d[2] \in track[d[1]] \/ \E v \in Workers : d \in run'[v].held
    BY <1>9, Zenon DEF LifeInv, Exists, Used, Finish
  <2>1. run'[w].held = {} /\ \A v \in Workers : v # w => run'[v] = run[v]
    BY <1>9, ZenonT(40) DEF Finish, TypeOK, Idle
  <2>2. addr'[d] = IF /\ d \in run[w].held /\ d[2] \notin track[d[1]]
                      /\ \A v \in Workers : v # w => d \notin run[v].held
                   THEN None ELSE addr[d]
    BY <1>9, ReleaseAddr, Zenon DEF Finish
  <2>3. addr[d] # None <=> d[2] \in track[d[1]] \/ \E v \in Workers : d \in run[v].held
    BY Zenon DEF LifeInv, Exists, Used
  <2>. QED  BY <2>1, <2>2, <2>3, Zenon
<1>10. ASSUME NEW w \in Workers, NEW k \in Kinds, CloseTrack(w, k) PROVE LifeInv'
  <2>. SUFFICES ASSUME NEW d \in Dests
                PROVE  addr'[d] # None <=>
                         d[2] \in track'[d[1]] \/ \E v \in Workers : d \in run'[v].held
    BY Zenon DEF LifeInv, Exists, Used
  <2>0. d[1] \in Subs /\ d[2] \in Kinds /\ d[1] \in Pcs
        /\ (d \in {<<run[w].pc, k>>} \cap Dests <=> d[1] = run[w].pc /\ d[2] = k)
    BY SMTT(30) DEF Dests, Pcs
  <2>1. run[w].held = {} /\ \A v \in Workers : run'[v].held = run[v].held
    BY <1>10, TodoFields, CloseTrackEntries, Zenon
  <2>2. addr'[d] = IF /\ d[1] = run[w].pc /\ d[2] = k /\ d[2] \notin track'[d[1]]
                      /\ \A v \in Workers : v # w => d \notin run[v].held
                   THEN None ELSE addr[d]
    BY <1>10, <2>0, ReleaseAddr, SMTT(30) DEF CloseTrack
  <2>3. d[2] \in track'[d[1]] <=> d[2] \in track[d[1]] /\ ~(d[1] = run[w].pc /\ d[2] = k)
    BY <1>10, <2>0, CloseTrackEntries
  <2>4. addr[d] # None <=> d[2] \in track[d[1]] \/ \E v \in Workers : d \in run[v].held
    BY Zenon DEF LifeInv, Exists, Used
  <2>. QED  BY <2>1, <2>2, <2>3, <2>4, Zenon
<1>11. ASSUME NEW w \in Workers, Offer(w) PROVE LifeInv'
  <2>. SUFFICES ASSUME NEW d \in Dests
                PROVE  addr'[d] # None <=>
                         d[2] \in track'[d[1]] \/ \E v \in Workers : d \in run'[v].held
    BY Zenon DEF LifeInv, Exists, Used
  <2>0. d[1] \in Subs /\ d[2] \in Kinds /\ d[1] \in Pcs /\ d[1] \notin Pubs
    BY IdsAssumption, Zenon DEF Dests, Pcs
  <2>1. PICK K \in SUBSET Kinds, f \in [Kinds -> Addresses] : NewTracks(w, K, f)
    BY <1>11, OfferTracks, Zenon
  <2>2. \A v \in Workers : run'[v].held = run[v].held  BY <1>11, OfferTracks, Zenon
  <2>3. addr[d] # None <=> d[2] \in track[d[1]] \/ \E v \in Workers : d \in run[v].held
    BY Zenon DEF LifeInv, Exists, Used
  <2>4. CASE d[1] = run[w].pc
    <3>1. Fresh(d[1])  BY <1>11, <2>0, <2>4, OfferOnce, Zenon
    <3>2. addr[d] = None  BY <2>0, <3>1, Zenon DEF FreshInv
    <3>3. track'[d[1]] = K /\ addr'[d] = IF d[2] \in K THEN f[d[2]] ELSE addr[d]
      BY <2>0, <2>1, <2>4, Zenon DEF NewTracks
    <3>4. f[d[2]] # None  BY <2>0, IdsAssumption, Zenon
    <3>. QED  BY <2>2, <2>3, <3>2, <3>3, <3>4
  <2>5. CASE d[1] # run[w].pc
    <3>1. track'[d[1]] = track[d[1]] /\ addr'[d] = addr[d]  BY <2>0, <2>1, <2>5, SMTT(30) DEF NewTracks
    <3>. QED  BY <2>2, <2>3, <3>1, Zenon
  <2>. QED  BY <2>4, <2>5, Zenon
<1>. QED  BY <1>1, <1>2, <1>4, <1>5, <1>6, <1>7, <1>8, <1>9, <1>10, <1>11, StepCases DEF Loop

LEMMA FreshStep ==
  TypeOK /\ OwnInv /\ DeliverInv /\ OnceInv /\ FreshInv /\ [Next]_vars => FreshInv'
<1>. SUFFICES ASSUME TypeOK, OwnInv, DeliverInv, OnceInv, FreshInv, [Next]_vars,
                     NEW x \in Pcs, Fresh(x)'
              PROVE  /\ track'[x] = {}
                     /\ \A d \in Dests : /\ source'[d] # x
                                         /\ d[1] = x => addr'[d] = None /\ source'[d] = None
                     /\ \A p \in Pubs, k \in Kinds, a \in Addresses : dests'[p][k][a][1] # x
  BY ZenonT(40) DEF FreshInv
<1>. DEFINE Goal == /\ track'[x] = {}
                    /\ \A d \in Dests : /\ source'[d] # x
                                        /\ d[1] = x => addr'[d] = None /\ source'[d] = None
                    /\ \A p \in Pubs, k \in Kinds, a \in Addresses : dests'[p][k][a][1] # x
<1>0. /\ track[x] = {}
      /\ \A d \in Dests : /\ source[d] # x
                          /\ d[1] = x => addr[d] = None /\ source[d] = None
      /\ \A p \in Pubs, k \in Kinds, a \in Addresses : dests[p][k][a][1] # x
  BY FreshOnce, Zenon DEF FreshInv
<1>a. NoDest[1] # x /\ x # None  BY IdsAssumption, Zenon DEF NoDest
<1>1. ASSUME UNCHANGED <<track, addr, source, dests>> PROVE Goal  BY <1>0, <1>1, Zenon
<1>2. ASSUME NEW y \in Pcs, NEW t \in Posted, Call(y, t) PROVE Goal
  BY <1>1, <1>2, CallQueue, Zenon
<1>3. ASSUME NEW w \in Workers, NEW p \in Pubs, NEW k \in Kinds, Frame(w, p, k)
      PROVE  Goal
  BY <1>1, <1>3, FrameRun, Zenon
<1>4. ASSUME NEW w \in Workers, Start(w) PROVE Goal  BY <1>1, <1>4, StartQueue, Zenon
<1>5. ASSUME NEW w \in Workers, Offer(w) PROVE Goal
  <2>1. PICK K \in SUBSET Kinds, f \in [Kinds -> Addresses] : NewTracks(w, K, f)
    BY <1>5, OfferTracks, Zenon
  <2>2. x # run[w].pc  BY <1>5, OfferOnce, Zenon
  <2>3. track'[x] = {}  BY <1>0, <2>1, <2>2, ZenonT(40) DEF NewTracks
  <2>4. \A d \in Dests : d[1] = x => addr'[d] = None  BY <1>0, <2>1, <2>2, Zenon DEF NewTracks
  <2>. QED  BY <1>0, <1>5, <2>3, <2>4, OfferTracks, SMTT(30)
<1>6. ASSUME Shrinks PROVE \A d \in Dests : d[1] = x => addr'[d] = None
  BY <1>0, <1>6, Zenon DEF Shrinks
<1>7. ASSUME NEW w \in Workers, Finish(w) PROVE Goal
  BY <1>0, <1>6, <1>7, LoopShrinks, Zenon DEF Finish
<1>8. ASSUME NEW w \in Workers, NEW k \in Kinds, NoTrack(w, k) PROVE Goal
  BY <1>1, <1>8, Zenon DEF NoTrack
<1>9. ASSUME NEW w \in Workers, NEW k \in Kinds, AddLink(w, k) PROVE Goal
  <2>. DEFINE p == run[w].pc
              d == Dest(run[w].sub, k)
  <2>1. /\ p \in Pubs /\ d \in Dests /\ run[w].sub \in Subs
        /\ k \in track[p] /\ k \in track[run[w].sub]
    BY <1>9, AddLinkNames, Zenon
  <2>2. x # p /\ x # run[w].sub /\ d[1] = run[w].sub  BY <1>0, <2>1, DestFacts, ZenonT(40)
  <2>3. source' = [source EXCEPT ![d] = p] /\ track' = track
    BY <1>9, ZenonT(40) DEF AddLink, AddDestination, Dest
  <2>4. \A c \in Dests : source'[c] = IF c = d THEN p ELSE source[c]
    BY <2>1, <2>3, ZenonT(40) DEF TypeOK
  <2>0. Entered(p, k, addr[d], d)  BY <1>9, AddLinkEntries, Zenon
  <2>5. \A q \in Pubs, j \in Kinds, b \in Addresses :
          dests'[q][j][b] = d \/ dests'[q][j][b] = dests[q][j][b]
    <3>. HIDE DEF p, d
    <3>. QED  BY <2>0 DEF Entered
  <2>6. Shrinks  BY <1>9, LoopShrinks, Zenon DEF Loop
  <2>. HIDE DEF p, d
  <2>. QED  BY <1>0, <1>6, <2>2, <2>3, <2>4, <2>5, <2>6, SMTT(30)
<1>10. ASSUME NEW w \in Workers, NEW k \in Kinds, RemoveLink(w, k) PROVE Goal
  <2>1. track' = track /\ Shrinks  BY <1>10, LoopShrinks, Zenon DEF Loop, RemoveLink
  <2>2. \A c \in Dests : source'[c] \in {source[c], None}  BY <1>10, RemoveLinkClears, Zenon
  <2>3. \A q \in Pubs, j \in Kinds, b \in Addresses :
          dests'[q][j][b] = NoDest \/ dests'[q][j][b] = dests[q][j][b]
    BY <1>10, RemoveLinkClears, Zenon
  <2>. QED  BY <1>0, <1>a, <1>6, <2>1, <2>2, <2>3, SMTT(30)
<1>11. ASSUME NEW w \in Workers, NEW k \in Kinds, CloseTrack(w, k) PROVE Goal
  <2>1. source' = source /\ Shrinks  BY <1>11, LoopShrinks, Zenon DEF Loop, CloseTrack
  <2>2. track'[x] = {}  BY <1>0, <1>11, Zenon DEF CloseTrack, TypeOK
  <2>3. \A q \in Pubs, j \in Kinds, b \in Addresses :
          dests'[q][j][b] = NoDest \/ dests'[q][j][b] = dests[q][j][b]
    BY <1>11, CloseTrackEntries
  <2>. QED  BY <1>0, <1>a, <1>6, <2>1, <2>2, <2>3, SMTT(30)
<1>12. ASSUME NEW w \in Workers, NEW a \in Addresses, DeliverTo(w, a) PROVE Goal
  <2>1. track' = track /\ source' = source /\ Shrinks
    BY <1>12, LoopShrinks, ZenonT(40) DEF Loop, DeliverTo
  <2>2. \A q \in Pubs, j \in Kinds, b \in Addresses :
          dests'[q][j][b] = NoDest \/ dests'[q][j][b] = dests[q][j][b]
    <3>1. dests' = dests \/ Cleared(run[w].pc, run[w].sub, a)  BY <1>12, DeliverToEntries, Zenon
    <3>. QED  BY <3>1 DEF Cleared
  <2>. QED  BY <1>0, <1>a, <1>6, <2>1, <2>2, SMTT(30)
<1>13. UNCHANGED vars => UNCHANGED <<track, addr, source, dests>>  BY Zenon DEF vars
<1>. QED
  BY <1>1, <1>2, <1>3, <1>4, <1>5, <1>7, <1>8, <1>9, <1>10, <1>11, <1>12, <1>13, StepCases, ZenonT(40)
  DEF Loop

LEMMA InitInv2 == Init => Inv2
<1>. SUFFICES ASSUME Init PROVE Inv2
  BY Zenon
<1>1. \A w \in Workers : run[w] = Idle /\ tasks[w] = <<>>  BY Zenon DEF Init
<1>2. OnceInv  BY <1>1 DEF OnceInv, IsOffer, Idle
<1>3. \A x \in Pcs : track[x] = {}  BY Zenon DEF Init
<1>4. \A d \in Dests : addr[d] = None /\ source[d] = None  BY Zenon DEF Init
<1>5. FreshInv
  <2>1. \A x \in Pcs : NoDest[1] # x /\ x # None  BY IdsAssumption, Zenon DEF NoDest
  <2>2. \A p \in Pubs, k \in Kinds, a \in Addresses : dests[p][k][a] = NoDest  BY Zenon DEF Init
  <2>. QED  BY <1>3, <1>4, <2>1, <2>2 DEF FreshInv
<1>6. LifeInv
  <2>1. \A d \in Dests : d[1] \in Pcs  BY Zenon DEF Dests, Pcs
  <2>2. \A w \in Workers : run[w].held = {}  BY <1>1 DEF Idle
  <2>. QED  BY <1>3, <1>4, <2>1, <2>2, Zenon DEF LifeInv, Exists, Used
<1>7. AddrInv  BY <1>4, Zenon DEF AddrInv, Exists
<1>. QED  BY <1>2, <1>5, <1>6, <1>7, Zenon DEF Inv2

LEMMA Inv2Holds == Spec => [](Inv1 /\ Inv2)
<1>1. Inv1 /\ Inv2 /\ [Next]_vars => Inv2'
  BY OnceStep, FreshStep, LifeStep, AddrStep, Zenon DEF Inv1, Inv2
<1>. QED  BY <1>1, InitInv2, Inv1Holds, PTL DEF Spec

(* A packetizer exists exactly while its track or a running task holds it:  *)
(* the shared pointers of subscribe_i, deliverFrame and WebrtcTrack neither *)
(* leak one nor destroy one that is still held, on any number of workers.   *)
THEOREM PacketizersHeld == Spec => []LifeInv
<1>1. Inv2 => LifeInv  BY Zenon DEF Inv2
<1>. QED  BY <1>1, Inv2Holds, PTL

-----------------------------------------------------------------------------
(* Layer 3. *)

(* The entry for the address of a packetizer that exists is that            *)
(* packetizer's own.                                                        *)
LEMMA EntryIsOwn ==
  ASSUME TypeOK, LifeInv, AddrInv, EntryInv, NEW p \in Pubs, NEW d \in Dests, Exists(d)
  PROVE  /\ addr[d] \in Addresses /\ addr[d] # None
         /\ dests[p][d[2]][addr[d]] \in {NoDest, d}
         /\ \A a \in Addresses : dests[p][d[2]][a] = d => a = addr[d]
<1>. DEFINE k == d[2]
            e == dests[p][k][addr[d]]
<1>1. addr[d] \in Addresses /\ addr[d] # None  BY Zenon DEF TypeOK, Exists
<1>2. k \in Kinds  BY DestFacts, Zenon
<1>3. e \in Dests \cup {NoDest}  BY <1>1, <1>2 DEF TypeOK
<1>4. e # NoDest => addr[e] = addr[d]  BY <1>1, <1>2 DEF EntryInv
<1>5. e # NoDest => e = d  BY <1>3, <1>4, Zenon DEF AddrInv
<1>6. \A a \in Addresses : dests[p][k][a] = d => a = addr[d]
  BY <1>1, <1>2, NoDestNotDest DEF EntryInv
<1>. QED  BY <1>1, <1>5, <1>6, Zenon

(* Entries stay or go, and so do packetizers. *)
LEMMA EntryShrinks ==
  ASSUME TypeOK, AddrInv, EntryInv, Shrinks,
         \A q \in Pubs, j \in Kinds, b \in Addresses :
             dests'[q][j][b] = NoDest \/ dests'[q][j][b] = dests[q][j][b]
  PROVE  EntryInv'
<1>. SUFFICES ASSUME NEW p \in Pubs, NEW k \in Kinds, NEW a \in Addresses, NEW e,
                     e = dests'[p][k][a], e # NoDest
              PROVE  /\ e[2] = k
                     /\ addr'[e] \in {a, None}
                     /\ addr'[e] = None => \A d \in Dests : addr'[d] # a
  BY DEF EntryInv
<1>1. e = dests[p][k][a]  BY Zenon
<1>2. e \in Dests  BY <1>1 DEF TypeOK
<1>3. a # None  BY IdsAssumption, Zenon
<1>4. /\ e[2] = k /\ addr[e] \in {a, None}
      /\ addr[e] = None => \A d \in Dests : addr[d] # a
  BY <1>1 DEF EntryInv
<1>5. ASSUME addr[e] = a, NEW d \in Dests, addr[d] = a PROVE d = e
  BY <1>2, <1>3, <1>5, Zenon DEF AddrInv, Exists
<1>. QED  BY <1>2, <1>3, <1>4, <1>5, Zenon DEF Shrinks

LEMMA EntryStep ==
  ASSUME StaleReuse = FALSE, Inv1, Inv2, EntryInv, [Next]_vars
  PROVE  EntryInv'
<1>. USE DEF Inv1, Inv2
<1>0. ASSUME UNCHANGED <<addr, dests>> PROVE EntryInv'  BY <1>0 DEF EntryInv
<1>1. UNCHANGED vars => UNCHANGED <<addr, dests>>  BY Zenon DEF vars
<1>2. ASSUME NEW x \in Pcs, NEW t \in Posted, Call(x, t) PROVE EntryInv'
  BY <1>0, <1>2, CallQueue, Zenon
<1>3. ASSUME NEW w \in Workers, NEW p \in Pubs, NEW k \in Kinds, Frame(w, p, k)
      PROVE  EntryInv'
  BY <1>0, <1>3, FrameRun, Zenon
<1>4. ASSUME NEW w \in Workers, Start(w) PROVE EntryInv'  BY <1>0, <1>4, StartQueue, Zenon
<1>5. ASSUME NEW w \in Workers, Offer(w) PROVE EntryInv'
  <2>. SUFFICES ASSUME NEW p \in Pubs, NEW k \in Kinds, NEW a \in Addresses, NEW e,
                       e = dests[p][k][a], e # NoDest
                PROVE  /\ e[2] = k
                       /\ addr'[e] \in {a, None}
                       /\ addr'[e] = None => \A d \in Dests : addr'[d] # a
    BY <1>5, OfferTracks DEF EntryInv
  <2>1. PICK K \in SUBSET Kinds, f \in [Kinds -> Addresses] : NewTracks(w, K, f)
    BY <1>5, OfferTracks, Zenon
  <2>2. e \in Dests  BY DEF TypeOK
  <2>3. Fresh(run[w].pc) /\ run[w].pc \in Pcs  BY <1>5, OfferOnce, OfferTracks, Zenon
  <2>4. e[1] # run[w].pc  BY <2>3, Zenon DEF FreshInv
  <2>5. addr'[e] = addr[e]  BY <2>1, <2>2, <2>4, Zenon DEF NewTracks
  <2>6. ASSUME NEW d \in Dests, addr'[d] = a PROVE addr[d] = a
    <3>1. d[2] \in Kinds  BY DestFacts, Zenon
    <3>2. CASE run[w].pc \in Pubs  BY <2>1, <2>6, <3>2, Zenon DEF NewTracks
    <3>3. CASE run[w].pc \notin Pubs /\ ~(d[1] = run[w].pc /\ d[2] \in K)
      BY <2>1, <2>6, <3>3, Zenon DEF NewTracks
    <3>4. CASE run[w].pc \notin Pubs /\ d[1] = run[w].pc /\ d[2] \in K
      <4>1. Allocatable(f[d[2]]) /\ f[d[2]] = a  BY <2>1, <2>6, <3>4, Zenon DEF NewTracks
      <4>2. dests[p][k][a] = NoDest  BY <4>1, ZenonT(40) DEF Allocatable
      <4>. QED  BY <4>2, Zenon
    <3>. QED  BY <3>2, <3>3, <3>4, Zenon
  <2>. QED  BY <2>5, <2>6 DEF EntryInv
<1>6. ASSUME NEW w \in Workers, Finish(w) PROVE EntryInv'
  <2>1. dests' = dests /\ Shrinks  BY <1>6, LoopShrinks, Zenon DEF Finish
  <2>. QED  BY <2>1, EntryShrinks, Zenon
<1>7. ASSUME NEW w \in Workers, NEW k \in Kinds, NoTrack(w, k) PROVE EntryInv'
  BY <1>0, <1>7, Zenon DEF NoTrack
<1>8. ASSUME NEW w \in Workers, NEW k \in Kinds, RemoveLink(w, k) PROVE EntryInv'
  <2>1. Shrinks  BY <1>8, LoopShrinks, Zenon DEF Loop
  <2>2. \A q \in Pubs, j \in Kinds, b \in Addresses :
          dests'[q][j][b] = NoDest \/ dests'[q][j][b] = dests[q][j][b]
    BY <1>8, RemoveLinkClears, Zenon
  <2>. QED  BY <2>1, <2>2, EntryShrinks, Zenon
<1>9. ASSUME NEW w \in Workers, NEW k \in Kinds, CloseTrack(w, k) PROVE EntryInv'
  <2>1. Shrinks  BY <1>9, LoopShrinks, Zenon DEF Loop
  <2>2. \A q \in Pubs, j \in Kinds, b \in Addresses :
          dests'[q][j][b] = NoDest \/ dests'[q][j][b] = dests[q][j][b]
    BY <1>9, CloseTrackEntries
  <2>. QED  BY <2>1, <2>2, EntryShrinks
<1>10. ASSUME NEW w \in Workers, NEW a \in Addresses, DeliverTo(w, a) PROVE EntryInv'
  <2>1. Shrinks  BY <1>10, LoopShrinks, Zenon DEF Loop
  <2>2. \A q \in Pubs, j \in Kinds, b \in Addresses :
          dests'[q][j][b] = NoDest \/ dests'[q][j][b] = dests[q][j][b]
    <3>1. dests' = dests \/ Cleared(run[w].pc, run[w].sub, a)  BY <1>10, DeliverToEntries, Zenon
    <3>. QED  BY <3>1 DEF Cleared
  <2>. QED  BY <2>1, <2>2, EntryShrinks, Zenon
<1>11. ASSUME NEW w \in Workers, NEW k \in Kinds, AddLink(w, k) PROVE EntryInv'
  <2>. DEFINE p == run[w].pc
              d == Dest(run[w].sub, k)
  <2>1. p \in Pubs /\ d \in Dests /\ k \in track[run[w].sub] /\ d[1] = run[w].sub /\ d[2] = k
    BY <1>11, AddLinkNames, Zenon
  <2>2. Exists(d)  BY <2>1, ZenonT(40) DEF LifeInv, Used
  <2>3. addr'[d] = addr[d]
    <3>1. Advance(w, k, {d})  BY <1>11, Zenon DEF AddLink, Dest
    <3>2. Release(w, run[w].held \ {d})  BY <3>1, Zenon DEF Advance
    <3>. QED  BY <2>1, <3>2, ReleaseAddr
  <2>4. Shrinks  BY <1>11, LoopShrinks, Zenon DEF Loop
  <2>5. \A q \in Pubs, j \in Kinds, b \in Addresses :
          dests'[q][j][b] = IF q = p /\ j = k /\ b = addr[d] /\ dests[p][k][b] = NoDest
                            THEN d ELSE dests[q][j][b]
    BY <1>11, AddLinkEntries, Zenon DEF Entered
  <2>. HIDE DEF p, d
  <2>. SUFFICES ASSUME NEW q \in Pubs, NEW j \in Kinds, NEW a \in Addresses, NEW e,
                       e = dests'[q][j][a], e # NoDest
                PROVE  /\ e[2] = j
                       /\ addr'[e] \in {a, None}
                       /\ addr'[e] = None => \A c \in Dests : addr'[c] # a
    BY DEF EntryInv
  <2>6. CASE q = p /\ j = k /\ a = addr[d] /\ dests[p][k][a] = NoDest
    <3>1. e = d  BY <2>5, <2>6, Zenon
    <3>. QED  BY <2>1, <2>2, <2>3, <2>6, <3>1, Zenon DEF Exists
  <2>7. CASE ~(q = p /\ j = k /\ a = addr[d] /\ dests[p][k][a] = NoDest)
    <3>1. e = dests[q][j][a] /\ e \in Dests  BY <2>5, <2>7 DEF TypeOK
    <3>2. a # None  BY IdsAssumption, Zenon
    <3>3. /\ e[2] = j /\ addr[e] \in {a, None}
          /\ addr[e] = None => \A c \in Dests : addr[c] # a
      BY <3>1 DEF EntryInv
    <3>4. ASSUME addr[e] = a, NEW c \in Dests, addr[c] = a PROVE c = e
      BY <3>1, <3>2, <3>4, Zenon DEF AddrInv, Exists
    <3>. QED  BY <2>4, <3>1, <3>2, <3>3, <3>4, Zenon DEF Shrinks
  <2>. QED  BY <2>6, <2>7, Zenon
<1>. QED
  BY <1>0, <1>1, <1>2, <1>3, <1>4, <1>5, <1>6, <1>7, <1>8, <1>9, <1>10, <1>11, StepCases, Zenon
  DEF Loop

LEMMA CrashStep ==
  ASSUME Inv1, Inv2, EntryInv, NoBadEntryUsed, [Next]_vars
  PROVE  NoBadEntryUsed'
<1>. USE DEF Inv1, Inv2
<1>1. crashed' = crashed => NoBadEntryUsed'  BY SMTT(30) DEF NoBadEntryUsed
<1>2. ASSUME NEW w \in Workers, NEW k \in Kinds, RemoveLink(w, k) PROVE NoBadEntryUsed'
  <2>. DEFINE p == run[w].pc
              d == Dest(run[w].sub, k)
  <2>1. p \in Pubs /\ d \in Dests /\ k \in track[run[w].sub] /\ d[1] = run[w].sub /\ d[2] = k
    BY <1>2, RemoveLinkNames, Zenon
  <2>2. Exists(d)  BY <2>1, ZenonT(40) DEF LifeInv, Used
  <2>3. dests[p][k][addr[d]] \in {NoDest, d}  BY <2>1, <2>2, EntryIsOwn, Zenon
  <2>4. \/ crashed' = crashed
        \/ dests[p][k][addr[d]] # NoDest /\ ~Exists(dests[p][k][addr[d]])
    BY <1>2, RemoveLinkEntries, Zenon
  <2>. QED  BY <2>2, <2>3, <2>4, Zenon DEF NoBadEntryUsed
<1>3. ASSUME NEW x \in Pcs, NEW t \in Posted, Call(x, t) PROVE crashed' = crashed
  BY <1>3, CallQueue, Zenon
<1>4. ASSUME NEW w \in Workers, Start(w) \/ Offer(w) \/ Finish(w) PROVE crashed' = crashed
  BY <1>4, Zenon DEF Start, Offer, Finish
<1>5. ASSUME NEW w \in Workers, NEW k \in Kinds,
             NoTrack(w, k) \/ AddLink(w, k) \/ CloseTrack(w, k)
      PROVE  crashed' = crashed
  BY <1>5, Zenon DEF NoTrack, AddLink, CloseTrack
<1>6. ASSUME NEW w \in Workers, NEW a \in Addresses, DeliverTo(w, a) PROVE crashed' = crashed
  BY <1>6, Zenon DEF DeliverTo
<1>7. ASSUME NEW w \in Workers, NEW p \in Pubs, NEW k \in Kinds, Frame(w, p, k)
      PROVE  crashed' = crashed
  BY <1>7, Zenon DEF Frame
<1>8. UNCHANGED vars => crashed' = crashed  BY Zenon DEF vars
<1>. QED  BY <1>1, <1>2, <1>3, <1>4, <1>5, <1>6, <1>7, <1>8, StepCases, Zenon DEF Loop

(* AudioSourceIsRoute, for one pair of connections. *)
Route(s, p) ==
    source[Dest(s, "audio")] = p /\ "audio" \in track[s] /\ "audio" \in track[p] =>
        \E a \in Addresses : dests[p]["audio"][a] = Dest(s, "audio")

LEMMA RouteFacts == AudioSourceIsRoute <=> \A s \in Subs, p \in Pubs : Route(s, p)
BY Zenon DEF AudioSourceIsRoute, Route, Dest, Linked

LEMMA RouteStep ==
  ASSUME Inv1, Inv2, EntryInv, AudioSourceIsRoute, [Next]_vars
  PROVE  AudioSourceIsRoute'
<1>. USE DEF Inv1, Inv2
<1>. SUFFICES ASSUME NEW s \in Subs, NEW p \in Pubs PROVE Route(s, p)'
  BY Zenon DEF AudioSourceIsRoute, Route, Dest, Linked
<1>. DEFINE c == Dest(s, "audio")
<1>0. /\ c \in Dests /\ c[1] = s /\ c[2] = "audio" /\ "audio" \in Kinds
      /\ s \in Pcs /\ p \in Pcs /\ Route(s, p)
  BY DestFacts, RouteFacts, Zenon DEF Kinds, Pcs
<1>1. ASSUME UNCHANGED <<source, track, dests>> PROVE Route(s, p)'  BY <1>0, <1>1, Zenon DEF Route
<1>2. ASSUME NEW x \in Pcs, NEW t \in Posted, Call(x, t) PROVE Route(s, p)'
  BY <1>1, <1>2, CallQueue, Zenon
<1>3. ASSUME NEW w \in Workers, Start(w) PROVE Route(s, p)'  BY <1>1, <1>3, StartQueue, Zenon
<1>4. ASSUME NEW w \in Workers, NEW q \in Pubs, NEW k \in Kinds, Frame(w, q, k)
      PROVE  Route(s, p)'
  BY <1>1, <1>4, FrameRun, Zenon
<1>5. ASSUME NEW w \in Workers, Finish(w) PROVE Route(s, p)'  BY <1>1, <1>5, Zenon DEF Finish
<1>6. ASSUME NEW w \in Workers, NEW k \in Kinds, NoTrack(w, k) PROVE Route(s, p)'
  BY <1>1, <1>6, Zenon DEF NoTrack
<1>7. ASSUME NEW w \in Workers, Offer(w) PROVE Route(s, p)'
  <2>1. PICK K \in SUBSET Kinds, f \in [Kinds -> Addresses] : NewTracks(w, K, f)
    BY <1>7, OfferTracks, Zenon
  <2>2. Fresh(run[w].pc) /\ run[w].pc \in Pcs /\ source' = source /\ dests' = dests
    BY <1>7, OfferOnce, OfferTracks, Zenon
  <2>3. source[c] = p => run[w].pc # s /\ run[w].pc # p
    <3>1. p # None  BY <1>0, IdsAssumption, Zenon
    <3>. QED  BY <1>0, <2>2, <3>1, ZenonT(40) DEF FreshInv
  <2>4. source[c] = p => track'[s] = track[s] /\ track'[p] = track[p]
    BY <1>0, <2>1, <2>3, Zenon DEF NewTracks
  <2>. QED  BY <1>0, <2>2, <2>4, Zenon DEF Route
<1>8. ASSUME NEW w \in Workers, NEW k \in Kinds, AddLink(w, k) PROVE Route(s, p)'
  <2>. DEFINE d == Dest(run[w].sub, k)
  <2>1. /\ run[w].pc \in Pubs /\ d \in Dests /\ d[1] = run[w].sub /\ d[2] = k
        /\ k \in track[run[w].sub]
    BY <1>8, AddLinkNames, Zenon
  <2>2. track' = track /\ source' = [source EXCEPT ![d] = run[w].pc]
    BY <1>8, Zenon DEF AddLink, AddDestination, Dest
  <2>3. \A q \in Pubs, j \in Kinds, b \in Addresses :
          dests'[q][j][b] = IF q = run[w].pc /\ j = k /\ b = addr[d]
                                 /\ dests[run[w].pc][k][b] = NoDest
                            THEN d ELSE dests[q][j][b]
    BY <1>8, AddLinkEntries, Zenon DEF Entered
  <2>4. CASE c = d /\ p = run[w].pc
    <3>1. Exists(d)  BY <2>1, Zenon DEF LifeInv, Used
    <3>2. addr[d] \in Addresses /\ dests[p][k][addr[d]] \in {NoDest, d}
      BY <2>1, <3>1, EntryIsOwn, Zenon
    <3>3. dests'[p][k][addr[d]] = d  BY <2>1, <2>3, <2>4, <3>2, Zenon
    <3>4. k = "audio"  BY <1>0, <2>1, <2>4, Zenon
    <3>. QED  BY <2>4, <3>2, <3>3, <3>4, Zenon DEF Route
  <2>5. CASE c = d /\ p # run[w].pc
    <3>1. source'[c] # p  BY <1>0, <2>1, <2>2, <2>5, Zenon DEF TypeOK
    <3>. QED  BY <3>1, Zenon DEF Route
  <2>6. CASE c # d
    <3>1. source'[c] = source[c]  BY <1>0, <2>2, <2>6, Zenon DEF TypeOK
    <3>2. \A a \in Addresses : dests[p]["audio"][a] = c => dests'[p]["audio"][a] = c
      BY <1>0, <2>1, <2>3, NoDestNotDest, SMTT(30)
    <3>. QED  BY <1>0, <2>2, <3>1, <3>2, Zenon DEF Route
  <2>. QED  BY <2>4, <2>5, <2>6, Zenon
<1>9. ASSUME NEW w \in Workers, NEW k \in Kinds, RemoveLink(w, k) PROVE Route(s, p)'
  <2>. DEFINE d == Dest(run[w].sub, k)
              e == dests[run[w].pc][k][addr[d]]
  <2>1. /\ run[w].pc \in Pubs /\ d \in Dests /\ d[1] = run[w].sub /\ d[2] = k
        /\ k \in track[run[w].sub] /\ track' = track
    BY <1>9, RemoveLinkNames, Zenon
  <2>3. Exists(d)  BY <2>1, Zenon DEF LifeInv, Used
  <2>4. e \in {NoDest, d}  BY <2>1, <2>3, EntryIsOwn, Zenon
  <2>5. \/ UNCHANGED <<dests, source>>
        \/ e # NoDest /\ Unset(k, e) /\ Cleared(run[w].pc, k, addr[d])
    BY <1>9, RemoveLinkEntries, Zenon
  <2>6. CASE UNCHANGED <<dests, source>>  BY <1>1, <2>1, <2>6, Zenon
  <2>7. CASE e # NoDest /\ Unset(k, e) /\ Cleared(run[w].pc, k, addr[d])
    <3>. HIDE DEF d, e
    <3>0. e = d  BY <2>4, <2>7, Zenon
    <3>1. CASE c = d
      <4>1. k = "audio"  BY <1>0, <2>1, <3>1, Zenon
      <4>2. source'[c] = None  BY <1>0, <2>7, <3>0, <3>1, <4>1, Zenon DEF Unset
      <4>3. p # None  BY <1>0, IdsAssumption, Zenon
      <4>. QED  BY <4>2, <4>3, Zenon DEF Route
    <3>2. CASE c # d
      <4>1. source'[c] = source[c]  BY <1>0, <2>7, <3>0, <3>2, Zenon DEF Unset
      <4>2. ASSUME NEW a \in Addresses, dests[p]["audio"][a] = c
            PROVE  dests'[p]["audio"][a] = c
        <5>1. ~(p = run[w].pc /\ "audio" = k /\ a = addr[d])
          BY <3>0, <3>2, <4>2, Zenon DEF e
        <5>. QED  BY <1>0, <2>7, <4>2, <5>1, Zenon DEF Cleared
      <4>. QED  BY <1>0, <2>1, <4>1, <4>2, Zenon DEF Route
    <3>. QED  BY <3>1, <3>2, Zenon
  <2>. QED  BY <2>5, <2>6, <2>7, Zenon
<1>10. ASSUME NEW w \in Workers, NEW k \in Kinds, CloseTrack(w, k) PROVE Route(s, p)'
  <2>1. source' = source  BY <1>10, Zenon DEF CloseTrack
  <2>2. \A x \in Pcs : "audio" \in track'[x] =>
          "audio" \in track[x] /\ ~(x = run[w].pc /\ k = "audio")
    BY <1>0, <1>10, CloseTrackEntries
  <2>3. ~(p = run[w].pc /\ k = "audio") =>
          \A a \in Addresses : dests'[p]["audio"][a] = dests[p]["audio"][a]
    BY <1>0, <1>10, CloseTrackEntries, SMTT(30)
  <2>. QED  BY <1>0, <2>1, <2>2, <2>3, ZenonT(40) DEF Route
<1>11. ASSUME NEW w \in Workers, NEW a \in Addresses, DeliverTo(w, a) PROVE Route(s, p)'
  <2>. DEFINE d == dests[run[w].pc][run[w].sub][a]
  <2>1. source' = source /\ track' = track  BY <1>11, Zenon DEF DeliverTo
  <2>2. \/ dests' = dests
        \/ /\ ~Exists(d) /\ d \in Dests
           /\ \A q \in Pubs, j \in Kinds, b \in Addresses :
                dests'[q][j][b] = IF q = run[w].pc /\ j = run[w].sub /\ b = a
                                  THEN NoDest ELSE dests[q][j][b]
    BY <1>11, DeliverToNames, DeliverToEntries, ZenonT(40) DEF Cleared
  <2>3. ~Exists(d) /\ d \in Dests => d[2] \notin track[d[1]]  BY Zenon DEF LifeInv, Used
  <2>4. CASE dests' = dests  BY <1>1, <2>1, <2>4, Zenon
  <2>5. CASE /\ ~Exists(d) /\ d \in Dests
             /\ \A q \in Pubs, j \in Kinds, b \in Addresses :
                  dests'[q][j][b] = IF q = run[w].pc /\ j = run[w].sub /\ b = a
                                    THEN NoDest ELSE dests[q][j][b]
    <3>. HIDE DEF c, d
    <3>1. "audio" \in track[s] => c # d  BY <1>0, <2>3, <2>5, ZenonT(40)
    <3>2. c # d => \A b \in Addresses : dests[p]["audio"][b] = c => dests'[p]["audio"][b] = c
      BY <1>0, <2>5, ZenonT(40) DEF d
    <3>. QED  BY <1>0, <2>1, <3>1, <3>2, Zenon DEF Route, c
  <2>. QED  BY <2>2, <2>4, <2>5, Zenon
<1>12. UNCHANGED vars => UNCHANGED <<source, track, dests>>  BY Zenon DEF vars
<1>. QED
  BY <1>1, <1>2, <1>3, <1>4, <1>5, <1>6, <1>7, <1>8, <1>9, <1>10, <1>11, <1>12, StepCases, ZenonT(40)
  DEF Loop

LEMMA Inv3Holds ==
  ASSUME StaleReuse = FALSE
  PROVE  Spec => [](Inv1 /\ Inv2 /\ Inv3)
<1>1. Init => Inv3
  <2>. SUFFICES ASSUME Init PROVE Inv3
    BY Zenon
  <2>1. \A p \in Pubs, k \in Kinds, a \in Addresses : dests[p][k][a] = NoDest  BY Zenon DEF Init
  <2>2. \A s \in Subs : track[s] = {}  BY Zenon DEF Init, Pcs
  <2>3. EntryInv  BY <2>1, Zenon DEF EntryInv
  <2>4. AudioSourceIsRoute  BY <2>2, Zenon DEF AudioSourceIsRoute
  <2>. QED  BY <2>3, <2>4, Zenon DEF Inv3, NoBadEntryUsed, Init
<1>2. Inv1 /\ Inv2 /\ Inv3 /\ [Next]_vars => Inv3'
  BY EntryStep, CrashStep, RouteStep, Zenon DEF Inv3
<1>. QED  BY <1>1, <1>2, Inv2Holds, PTL DEF Spec

(* removeAudioDestination and removeVideoDestination never meet an entry    *)
(* whose packetizer is gone, as long as no map has an expired entry for an  *)
(* address that is given out: for any connections, workers and addresses.   *)
THEOREM NoBadEntryUsedHolds ==
  ASSUME StaleReuse = FALSE
  PROVE  Spec => []NoBadEntryUsed
<1>1. Inv3 => NoBadEntryUsed  BY Zenon DEF Inv3
<1>. QED  BY <1>1, Inv3Holds, PTL

(* An audio packetizer's feedback goes only to a publisher whose map has    *)
(* it, under the same condition and on any number of workers.               *)
THEOREM AudioSourceIsRouteHolds ==
  ASSUME StaleReuse = FALSE
  PROVE  Spec => []AudioSourceIsRoute
<1>1. Inv3 => AudioSourceIsRoute  BY Zenon DEF Inv3
<1>. QED  BY <1>1, Inv3Holds, PTL

=============================================================================
