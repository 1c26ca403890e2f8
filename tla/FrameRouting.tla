---------------------------- MODULE FrameRouting -----------------------------
(***************************************************************************)
(* How frames get from publishers to subscribers: linkup and cutoff         *)
(* (WrtcAgentPc::subscribe_i), the FrameSource of a publisher's track with  *)
(* its maps of weak pointers to FrameDestinations, and the ownership of     *)
(* those destinations, the packetizers of a subscriber's tracks.            *)
(*                                                                          *)
(* Every peer connection has a worker.  A task of one worker is a few steps *)
(* here, so that the other workers may run between them.  A packetizer is   *)
(* <<s, k>>; it lives while its track or a running task holds it, and the   *)
(* maps know it by its address, which may be given out again.               *)
(***************************************************************************)
EXTENDS Naturals, Sequences, FiniteSets

CONSTANTS
    Pubs, Subs,     \* peer connections of publish and of subscribe
    Workers,
    WorkerOf,       \* the worker given to a peer connection
    Addresses,      \* where packetizers may be allocated
    StaleReuse,     \* an address may be given out while a map still has an
                    \* expired entry for it
    QueueBound      \* bound on the tasks of a worker, a limit of the model

ASSUME StaleReuseAssumption == StaleReuse \in BOOLEAN
ASSUME WorkersAssumption == WorkerOf \in [Pubs \cup Subs -> Workers]

Kinds == {"audio", "video"}
Pcs == Pubs \cup Subs
Dests == Subs \X Kinds
None == "none"
NoDest == <<None, None>>

(* publish and subscribe keep their connections in one map, by id. *)
ASSUME IdsAssumption == Pubs \cap Subs = {} /\ None \notin Pcs \cup Addresses

VARIABLES
    registered,     \* keys of peerConnections_
    used,           \* the connection ids used so far
    tasks,          \* tasks of each worker
    run,            \* the task each worker is in
    track,          \* the kinds in track_map_ whose media object is set
    addr,           \* address of a packetizer, if it exists
    dests,          \* m_audio_dests and m_video_dests of the publishers
    source,         \* m_audio_src or m_video_src of a packetizer
    freedOn,        \* the worker that destroyed a packetizer
    crashed,        \* a null pointer was used
    last            \* the last routing step

vars == <<registered, used, tasks, run, track, addr, dests, source, freedOn, crashed, last>>

Idle == [type |-> "idle", pc |-> None, sub |-> None, todo |-> {}, held |-> {}, posted |-> {}]

Task(t, pc, s) == [type |-> t, pc |-> pc, sub |-> s]

Init == /\ registered = {} /\ used = {}
        /\ tasks = [w \in Workers |-> <<>>]
        /\ run = [w \in Workers |-> Idle]
        /\ track = [x \in Pcs |-> {}]
        /\ addr = [d \in Dests |-> None]
        /\ dests = [p \in Pubs |-> [k \in Kinds |-> [a \in Addresses |-> NoDest]]]
        /\ source = [d \in Dests |-> None]
        /\ freedOn = [d \in Dests |-> None]
        /\ crashed = FALSE
        /\ last = <<"none">>

Exists(d) == addr[d] # None

-----------------------------------------------------------------------------
(* The application's calls.  *)

Post(x, t) == /\ Len(tasks[WorkerOf[x]]) < QueueBound
              /\ tasks' = [tasks EXCEPT ![WorkerOf[x]] = Append(@, t)]
              /\ UNCHANGED <<run, track, addr, dests, source, freedOn, crashed, last>>

(* publish and subscribe: the connection is registered, its offer posted.   *)
Open(x) == /\ x \notin used
           /\ used' = used \cup {x}
           /\ registered' = registered \cup {x}
           /\ Post(x, Task("offer", x, None))

(* unpublish and unsubscribe. *)
Unregister(x) == /\ x \in registered
                 /\ registered' = registered \ {x}
                 /\ Post(x, Task("close", x, None))
                 /\ UNCHANGED used

(* linkup and cutoff: subscribe_i posts to the worker of the publisher. *)
Linkup(p, s) == /\ {p, s} \subseteq registered
                /\ Post(p, Task("link", p, s))
                /\ UNCHANGED <<registered, used>>

Cutoff(p, s) == /\ {p, s} \subseteq registered
                /\ Post(p, Task("cut", p, s))
                /\ UNCHANGED <<registered, used>>

-----------------------------------------------------------------------------
(* The workers. *)

api == <<registered, used>>

(* Mutant of Start: the newest task first. *)
StartLast(w) ==
    /\ run[w] = Idle /\ tasks[w] # <<>>
    /\ LET t == tasks[w][Len(tasks[w])] IN
         run' = [run EXCEPT ![w] =
            [type |-> t.type, pc |-> t.pc, sub |-> t.sub, held |-> {}, posted |-> {},
             todo |-> IF t.type = "close" THEN track[t.pc]
                      ELSE IF t.type = "offer" THEN {} ELSE track[t.sub]]]
    /\ tasks' = [tasks EXCEPT ![w] = SubSeq(@, 1, Len(@) - 1)]
    /\ UNCHANGED <<api, track, addr, dests, source, freedOn, crashed, last>>

(* A worker takes its next task; the tracks it will go through are those of *)
(* the subscriber (subscribe_i) or of the connection (close_i).             *)
Start(w) ==
    /\ run[w] = Idle /\ tasks[w] # <<>>
    /\ LET t == Head(tasks[w]) IN
         run' = [run EXCEPT ![w] =
            [type |-> t.type, pc |-> t.pc, sub |-> t.sub, held |-> {}, posted |-> {},
             todo |-> IF t.type = "close" THEN track[t.pc]
                      ELSE IF t.type = "offer" THEN {} ELSE track[t.sub]]]
    /\ tasks' = [tasks EXCEPT ![w] = Tail(@)]
    /\ UNCHANGED <<api, track, addr, dests, source, freedOn, crashed, last>>

(* The packetizers that only the task of worker w still holds: giving up    *)
(* the references in D destroys them, on w.                                 *)
Orphans(w, D) == {d \in D : /\ d[2] \notin track'[d[1]]
                            /\ \A v \in Workers \ {w} : d \notin run[v].held}

Release(w, D) ==
    /\ addr' = [d \in Dests |-> IF d \in Orphans(w, D) THEN None ELSE addr[d]]
    /\ freedOn' = [d \in Dests |-> IF d \in Orphans(w, D) THEN w ELSE freedOn[d]]

(* The allocator gives out memory that is not in use. *)
Allocatable(a) ==
    /\ \A d \in Dests : addr[d] # a
    /\ StaleReuse \/ \A p \in Pubs, k \in Kinds : dests[p][k][a] = NoDest

(* processOffer, addTrack: the media objects of the offer's kinds are made. *)
Offer(w) ==
    /\ run[w].type = "offer"
    /\ \E K \in SUBSET Kinds \ {{}}, f \in [Kinds -> Addresses] :
         /\ track' = [track EXCEPT ![run[w].pc] = K]
         /\ IF run[w].pc \in Pubs THEN UNCHANGED addr
            ELSE /\ \A k \in K : Allocatable(f[k])
                 /\ \A j, k \in K : f[j] = f[k] => j = k
                 /\ addr' = [d \in Dests |-> IF d[1] = run[w].pc /\ d[2] \in K
                                             THEN f[d[2]] ELSE addr[d]]
    /\ run' = [run EXCEPT ![w] = Idle]
    /\ UNCHANGED <<api, tasks, dests, source, freedOn, crashed, last>>

(* A step of the loop of subscribe_i or deliverFrame: one item is done, and *)
(* the reference it took replaces the one of the step before.               *)
Advance(w, item, D) ==
    /\ run' = [run EXCEPT ![w].todo = @ \ {item}, ![w].held = D,
                          ![w].posted = @ \cup (IF run[w].type = "deliver" THEN D ELSE {})]
    /\ Release(w, run[w].held \ D)

(* getTrack finds no source track, or no receiver: continue. *)
NoTrack(w, k) ==
    /\ run[w].type \in {"link", "cut"} /\ k \in run[w].todo
    /\ k \notin track[run[w].pc] \cap track[run[w].sub]
    /\ run' = [run EXCEPT ![w].todo = @ \ {k}]
    /\ UNCHANGED <<api, tasks, track, addr, dests, source, freedOn, crashed, last>>

(* FrameSource::addAudioDestination, addVideoDestination: emplace does      *)
(* nothing when the key is there.                                           *)
AddDestination(p, d) ==
    /\ source' = [source EXCEPT ![d] = p]
    /\ dests' = [dests EXCEPT ![p][d[2]][addr[d]] = IF @ = NoDest THEN d ELSE @]

(* subscribe_i with isSub, for one track. *)
AddLink(w, k) ==
    LET p == run[w].pc
        d == <<run[w].sub, k>>
    IN /\ run[w].type = "link" /\ k \in run[w].todo
       /\ k \in track[p] \cap track[run[w].sub]
       /\ track' = track
       /\ AddDestination(p, d)
       /\ Advance(w, k, {d})
       /\ last' = <<"link", p, run[w].sub, k>>
       /\ UNCHANGED <<api, tasks, crashed>>

(* Mutant of RemoveDestination: the entry is left in the map. *)
RemoveDestinationKeeps(p, d) ==
    /\ source' = IF dests[p][d[2]][addr[d]] # NoDest /\ d[2] = "audio"
                 THEN [source EXCEPT ![d] = None] ELSE source
    /\ UNCHANGED <<dests, crashed>>

(* Mutant of RemoveDestination: only the entry goes, the source stays.      *)
RemoveDestinationNoUnset(p, d) ==
    /\ dests' = [dests EXCEPT ![p][d[2]][addr[d]] = NoDest]
    /\ UNCHANGED <<source, crashed>>

(* Mutant of RemoveDestination: the result of find is used unchecked. *)
RemoveDestinationUnchecked(p, d) ==
    LET e == dests[p][d[2]][addr[d]] IN
    /\ crashed' = (crashed \/ e = NoDest)
    /\ dests' = [dests EXCEPT ![p][d[2]][addr[d]] = NoDest]
    /\ source' = [source EXCEPT ![d] = None]

(* FrameSource::removeAudioDestination, removeVideoDestination.  Both call  *)
(* unsetAudioSource on what the entry points to, which must exist; the      *)
(* m_audio_src of a video packetizer is never set.                          *)
RemoveDestination(p, d) ==
    LET e == dests[p][d[2]][addr[d]] IN
    IF e = NoDest THEN UNCHANGED <<source, dests, crashed>>
    ELSE IF ~Exists(e) THEN crashed' = TRUE /\ UNCHANGED <<source, dests>>
    ELSE /\ source' = IF d[2] = "audio" THEN [source EXCEPT ![e] = None] ELSE source
         /\ dests' = [dests EXCEPT ![p][d[2]][addr[d]] = NoDest]
         /\ UNCHANGED crashed

(* subscribe_i without isSub, for one track. *)
RemoveLink(w, k) ==
    LET p == run[w].pc
        d == <<run[w].sub, k>>
    IN /\ run[w].type = "cut" /\ k \in run[w].todo
       /\ k \in track[p] \cap track[run[w].sub]
       /\ track' = track
       /\ RemoveDestination(p, d)
       /\ Advance(w, k, {d})
       /\ last' = <<"cut", p, run[w].sub, k>>
       /\ UNCHANGED <<api, tasks>>

(* WebrtcTrack::close of one track, in close_i: the media object is given   *)
(* up.  With a constructor its maps go; a packetizer may be held elsewhere. *)
CloseTrack(w, k) ==
    LET x == run[w].pc IN
    /\ run[w].type = "close" /\ k \in run[w].todo
    /\ track' = [track EXCEPT ![x] = @ \ {k}]
    /\ run' = [run EXCEPT ![w].todo = @ \ {k}]
    /\ dests' = IF x \in Pubs
                THEN [dests EXCEPT ![x][k] = [a \in Addresses |-> NoDest]] ELSE dests
    /\ Release(w, {<<x, k>>} \cap Dests)
    /\ last' = <<"close", x, k>>
    /\ UNCHANGED <<api, tasks, source, crashed>>

(* A frame of track k of publisher p: deliverFrame begins. *)
Frame(w, p, k) ==
    /\ run[w] = Idle /\ WorkerOf[p] = w /\ k \in track[p]
    /\ run' = [run EXCEPT ![w] = [type |-> "deliver", pc |-> p, sub |-> k, held |-> {},
                posted |-> {}, todo |-> {a \in Addresses : dests[p][k][a] # NoDest}]]
    /\ UNCHANGED <<api, tasks, track, addr, dests, source, freedOn, crashed, last>>

(* Mutant of DeliverTo: erases the entry after the expired one as well. *)
DeliverToSkips(w, a) ==
    LET p == run[w].pc
        k == run[w].sub
        d == dests[p][k][a]
    IN /\ run[w].type = "deliver" /\ a \in run[w].todo
       /\ track' = track
       /\ IF Exists(d)
          THEN /\ Advance(w, a, {d})
               /\ last' = <<"deliver", p, d[1], k>>
               /\ UNCHANGED dests
          ELSE /\ run' = [run EXCEPT ![w].todo = {}, ![w].held = {}]
               /\ Release(w, run[w].held)
               /\ dests' = [dests EXCEPT ![p][k][a] = NoDest]
               /\ UNCHANGED last
       /\ UNCHANGED <<api, tasks, source, crashed>>

(* Mutant of DeliverTo: uses the key, an address, for the destination. *)
DeliverToKey(w, a) ==
    /\ run[w].type = "deliver" /\ a \in run[w].todo
    /\ track' = track
    /\ Advance(w, a, {a})
    /\ UNCHANGED <<api, tasks, dests, source, crashed, last>>

(* An entry of the map in deliverFrame: the frame is posted to the          *)
(* packetizer, or the entry is erased when that is gone.                    *)
DeliverTo(w, a) ==
    LET p == run[w].pc
        k == run[w].sub
        d == dests[p][k][a]
    IN /\ run[w].type = "deliver" /\ a \in run[w].todo
       /\ track' = track
       /\ IF Exists(d)
          THEN /\ Advance(w, a, {d})
               /\ last' = <<"deliver", p, d[1], k>>
               /\ UNCHANGED dests
          ELSE /\ Advance(w, a, {})
               /\ dests' = [dests EXCEPT ![p][k][a] = NoDest]
               /\ UNCHANGED last
       /\ UNCHANGED <<api, tasks, source, crashed>>

(* The end of a task or of a delivery: its last reference is given up. *)
Finish(w) ==
    /\ run[w].type \in {"link", "cut", "close", "deliver"} /\ run[w].todo = {}
    /\ track' = track
    /\ run' = [run EXCEPT ![w] = Idle]
    /\ Release(w, run[w].held)
    /\ UNCHANGED <<api, tasks, dests, source, crashed, last>>

-----------------------------------------------------------------------------

Work(w) == \/ Start(w) \/ Offer(w) \/ Finish(w)
           \/ \E k \in Kinds : NoTrack(w, k) \/ AddLink(w, k) \/ RemoveLink(w, k)
                               \/ CloseTrack(w, k)
           \/ \E a \in Addresses : DeliverTo(w, a)

Next == \/ \E x \in Pcs : Open(x) \/ Unregister(x)
        \/ \E p \in Pubs, s \in Subs : Linkup(p, s) \/ Cutoff(p, s)
        \/ \E w \in Workers, p \in Pubs, k \in Kinds : Frame(w, p, k)
        \/ \E w \in Workers : Work(w)

Spec == Init /\ [][Next]_vars

-----------------------------------------------------------------------------

(* What a worker's queue holds, and what a worker may be in the middle of. *)
Posted == [type : {"offer", "close"}, pc : Pcs, sub : {None}]
            \cup [type : {"link", "cut"}, pc : Pubs, sub : Subs]

Running == [type : {"offer", "close"}, pc : Pcs, sub : {None}, todo : SUBSET Kinds,
            held : {{}}, posted : {{}}]
             \cup [type : {"link", "cut"}, pc : Pubs, sub : Subs, todo : SUBSET Kinds,
                   held : SUBSET Dests, posted : {{}}]
             \cup [type : {"deliver"}, pc : Pubs, sub : Kinds, todo : SUBSET Addresses,
                   held : SUBSET Dests, posted : SUBSET Dests]

(* Type correctness; in particular only deliverFrame posts to packetizers,  *)
(* and a task that opens or closes a connection holds none.                 *)
TypeOK ==
    /\ registered \subseteq used /\ used \subseteq Pcs
    /\ tasks \in [Workers -> Seq(Posted)]
    /\ run \in [Workers -> Running \cup {Idle}]
    /\ crashed \in BOOLEAN
    /\ track \in [Pcs -> SUBSET Kinds]
    /\ addr \in [Dests -> Addresses \cup {None}]
    /\ dests \in [Pubs -> [Kinds -> [Addresses -> Dests \cup {NoDest}]]]
    /\ source \in [Dests -> Pubs \cup {None}]
    /\ freedOn \in [Dests -> Workers \cup {None}]

Linked(p, s, k) == /\ k \in track[s]
                   /\ \E a \in Addresses : dests[p][k][a] = <<s, k>>

Links == {l \in Pubs \X Subs \X Kinds : Linked(l[1], l[2], l[3])}

Contract == INSTANCE FrameLinks WITH links <- Links, Kinds <- Kinds

(* The routing of frames is that of FrameLinks: a link-up adds the link it  *)
(* names, a cut-off removes it, closing removes the links of the track and  *)
(* no others, and a frame is posted only along a link.                      *)
RoutesAsLinked == Contract!Spec

(* A delivery leaves nobody out: when it ends, every subscriber that is     *)
(* linked to the track has had the frame posted, whatever expired entries   *)
(* deliverFrame met and erased on the way.                                  *)
DeliveryComplete ==
    \A w \in Workers : run[w].type = "deliver" /\ run[w].todo = {} =>
        \A s \in Subs : Linked(run[w].pc, s, run[w].sub) =>
            <<s, run[w].sub>> \in run[w].posted

(* removeDestination meets no entry whose destination is gone, and uses no  *)
(* entry that find did not find, in any order of link-ups, cut-offs, closes *)
(* and frames.                                                              *)
NoBadEntryUsed == ~crashed

(* An audio packetizer's feedback goes only to a publisher it is linked to: *)
(* addAudioDestination and removeAudioDestination keep m_audio_src and the  *)
(* publisher's map together.                                                *)
AudioSourceIsRoute ==
    \A s \in Subs, p \in Pubs :
        source[<<s, "audio">>] = p /\ "audio" \in track[s] \cap track[p] =>
            Linked(p, s, "audio")

(* "RTC_DCHECK(thread_checker_.IsCurrent())" in DeRegisterModule, which the *)
(* destructor of a packetizer reaches: it is destroyed on its own worker.   *)
FreedOnItsWorker == \A d \in Dests : freedOn[d] \in {None, WorkerOf[d[1]]}

(* The connections whose offer has not been processed yet. *)
OffersWaiting == {x \in Pcs : \/ \E w \in Workers : \E i \in DOMAIN tasks[w] :
                                    tasks[w][i] = Task("offer", x, None)
                              \/ \E w \in Workers : run[w].type = "offer" /\ run[w].pc = x}

(* A link-up or cut-off comes after the offers of the connections it names, *)
(* so it finds the tracks that were asked for and does not fall through     *)
(* subscribe_i with "dest tracks empty!".                                   *)
LinkFindsTracks ==
    \A w \in Workers : run[w].type \in {"link", "cut"} =>
        {run[w].pc, run[w].sub} \cap OffersWaiting = {}

=============================================================================
