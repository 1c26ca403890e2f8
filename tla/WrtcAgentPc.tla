---------------------------- MODULE WrtcAgentPc -----------------------------
(***************************************************************************)
(* One peer connection (wa::WrtcAgentPc) from the call of                  *)
(* WebrtcAgent::publish (or subscribe, which is the same) to its           *)
(* destruction after unpublish (unsubscribe).  The threads:                *)
(*   - the application's thread in publish and unpublish;                  *)
(*   - the worker, which runs one task after the other; close_i is split   *)
(*     where the IO thread can see the difference;                         *)
(*   - the IO thread, inside the libnice callbacks.                        *)
(* The peer and libnice are the environment.                               *)
(***************************************************************************)
EXTENDS WebRtcConnection

CONSTANTS
    Offers,         \* the offers an application may pass
    MaxWrites       \* bound: packets the tracks try to send

(* An offer: whether WaSdpInfo parses it, whether every m-line finds an     *)
(* operation and an answer can be built, the types of the accepted m-lines *)
(* in order, BUNDLE, rtcp-mux, and whether it has SAVPF and a fingerprint. *)
OfferType == [parses : BOOLEAN, negotiates : BOOLEAN,
              medias : Seq({"audio", "video"}),
              bundle : BOOLEAN, mux : BOOLEAN, secure : BOOLEAN]

ASSUME BoundsAssumption ==
    /\ MaxCandidates \in Nat
    /\ MaxPackets \in Nat
    /\ MaxWrites \in Nat

ASSUME OffersAssumption == \A o \in Offers : o \in OfferType

VARIABLES
    api,        \* how far the application's call of publish has come
    offer,      \* the offer it passed
    refs,       \* who holds a strong reference to the pc
    sink,       \* sink_ is set
    connection, \* connection_: not created, live, destroyed
    remoteSdp,  \* remote_sdp_ # nullptr
    localSdp,   \* local_sdp_ # nullptr
    tracks,     \* number of tracks in track_map_
    ready,      \* ready_
    told,       \* callbacks made to the sink, in order
    at,         \* the worker's place in close_i, or idle
    mediaIn,    \* a media packet has reached the media streams
    writes      \* packets the tracks have tried to send

pcVars == <<api, offer, refs, sink, connection, remoteSdp, localSdp, tracks,
            ready, told, at, mediaIn, writes>>

vars == <<pcVars, connVars, dtlsVars, iceVars, tasks>>

Tasks ==
    [type : {"init", "offer", "close", "candidate"}]
    \cup [type : {"ice"}, state : IceStates]
    \cup [type : {"packet"}, kind : PacketKinds]

PcTypeOK ==
    /\ api \in {"none", "emplaced", "inited", "signalled", "returned"}
    /\ offer \in Offers
    /\ refs \subseteq {"map", "caller", "task"}
    /\ sink \in BOOLEAN
    /\ connection \in {"none", "live", "destroyed"}
    /\ remoteSdp \in BOOLEAN
    /\ localSdp \in BOOLEAN
    /\ tracks \in Nat
    /\ ready \in BOOLEAN
    /\ told \in Seq({"answer", "ready", "failed"})
    /\ at \in {"idle", "closing", "destroying"}
    /\ mediaIn \in BOOLEAN
    /\ writes \in 0 .. MaxWrites

(* Every variable has its type: with the components', the worker's queue    *)
(* holds only tasks that some handler of the connection posts.             *)
TypeOK == IceTypeOK /\ DtlsTypeOK /\ ConnTypeOK /\ PcTypeOK /\ tasks \in Seq(Tasks)

Init ==
    /\ WorkerInit /\ IceInit /\ DtlsInit /\ ConnInit
    /\ api = "none"
    /\ offer \in Offers
    /\ refs = {}
    /\ sink = TRUE
    /\ connection = "none"
    /\ remoteSdp = FALSE
    /\ localSdp = FALSE
    /\ tracks = 0
    /\ ready = FALSE
    /\ told = <<>>
    /\ at = "idle"
    /\ mediaIn = FALSE
    /\ writes = 0

-----------------------------------------------------------------------------
(* The application's thread. *)

ApiUnchanged == UNCHANGED <<connVars, dtlsVars, iceVars, offer, connection,
                            remoteSdp, localSdp, tracks, ready, told, at,
                            mediaIn, writes>>

(* publish: the pc is created and entered in peerConnections_. *)
Publish ==
    /\ api = "none"
    /\ api' = "emplaced"
    /\ refs' = {"map", "caller"}
    /\ UNCHANGED <<sink, tasks>> /\ ApiUnchanged

(* WrtcAgentPc::init, called by publish. *)
PcInit ==
    /\ api = "emplaced"
    /\ api' = "inited"
    /\ Task([type |-> "init"])
    /\ UNCHANGED <<refs, sink>> /\ ApiUnchanged

(* WrtcAgentPc::signalling, called by publish. *)
Signalling ==
    /\ api = "inited"
    /\ api' = "signalled"
    /\ Task([type |-> "offer"])
    /\ UNCHANGED <<refs, sink>> /\ ApiUnchanged

PublishReturns ==
    /\ api = "signalled"
    /\ api' = "returned"
    /\ refs' = refs \ {"caller"}
    /\ UNCHANGED <<sink, tasks>> /\ ApiUnchanged

(* Mutant of Unpublish: sink_ is not cleared. *)
UnpublishKeepsSink ==
    /\ api = "returned"
    /\ "map" \in refs
    /\ refs' = {"task"}
    /\ Task([type |-> "close"])
    /\ UNCHANGED <<api, sink>> /\ ApiUnchanged

(* unpublish and WrtcAgentPc::close.  The application closes a connection   *)
(* only after the call that opened it has returned.                        *)
Unpublish ==
    /\ api = "returned"
    /\ "map" \in refs
    /\ refs' = {"task"}
    /\ sink' = FALSE
    /\ Task([type |-> "close"])
    /\ UNCHANGED api /\ ApiUnchanged

-----------------------------------------------------------------------------
(* The worker thread. *)

(* notifyEvent and callBack: what the sink is told of a new global state. *)
CallbackFor(event) ==
    CASE event = "GATHERED"           -> "answer"
      [] event = "READY" /\ ~ready    -> "ready"
      [] event = "FAILED"             -> "failed"
      [] OTHER                        -> "none"

NotifyEvent(event) ==
    /\ told' = IF sink /\ CallbackFor(event) # "none"
               THEN Append(told, CallbackFor(event)) ELSE told
    /\ ready' = (ready \/ event = "READY")

(* updateTransportState's upcall: a new state reaches the connection, and  *)
(* the pc if the global state changes with it.                             *)
Upcall ==
    IF tstate' = tstate
    THEN UNCHANGED <<connVars, told, ready>>
    ELSE /\ UpdateState(tstate')
         /\ IF observed /\ gstate' # gstate THEN NotifyEvent(gstate')
                                            ELSE UNCHANGED <<told, ready>>

PcAlive == refs # {}
TransportAlive == iceObj = "alive"

WorkerIdle == at = "idle"

(* The weak pointer that the task at the head captured has expired. *)
RunExpired ==
    /\ WorkerIdle
    /\ \/ (Starts("init") \/ Starts("offer")) /\ ~PcAlive
       \/ (Starts("ice") \/ Starts("candidate") \/ Starts("packet")) /\ ~TransportAlive
    /\ UNCHANGED <<pcVars, connVars, dtlsVars, iceVars>>

(* init_i *)
RunInit ==
    /\ WorkerIdle /\ Starts("init") /\ PcAlive
    /\ connection' = "live"
    /\ NewConnection
    /\ UNCHANGED <<dtlsVars, iceVars, api, offer, refs, sink, remoteSdp,
                   localSdp, tracks, ready, told, at, mediaIn, writes>>

(* processOffer.  An offer that does not parse leaves remote_sdp_ null; one *)
(* that cannot be negotiated leaves it set.  Neither is reported.           *)
RunOffer ==
    /\ WorkerIdle /\ Starts("offer") /\ PcAlive
    /\ remoteSdp' = offer.parses
    /\ IF offer.parses /\ offer.negotiates
       THEN /\ localSdp' = TRUE
            /\ tracks' = Len(offer.medias)
            /\ SetRemoteSdp(offer.medias, offer.bundle, offer.mux, offer.secure)
       ELSE UNCHANGED <<localSdp, tracks, connVars, dtlsVars, iceVars>>
    /\ UNCHANGED <<api, offer, refs, sink, connection, ready, told, at,
                   mediaIn, writes>>

(* updateIceState's task. *)
RunIceState ==
    /\ WorkerIdle /\ Starts("ice") /\ TransportAlive
    /\ UpdateIceStateSync(Head(tasks).state)
    /\ Upcall
    /\ UNCHANGED <<iceVars, api, offer, refs, sink, connection, remoteSdp,
                   localSdp, tracks, at, mediaIn, writes>>

(* onCandidate's task: the candidate is added to the local SDP. *)
RunCandidate ==
    /\ WorkerIdle /\ Starts("candidate") /\ TransportAlive
    /\ UNCHANGED <<pcVars, connVars, dtlsVars, iceVars>>

(* onPacketReceived's task with a DTLS datagram. *)
RunDtls(outcome) ==
    /\ WorkerIdle /\ Starts("packet") /\ TransportAlive
    /\ Head(tasks).kind = "dtls"
    /\ OnDtlsData(outcome)
    /\ Upcall
    /\ UNCHANGED <<iceVars, api, offer, refs, sink, connection, remoteSdp,
                   localSdp, tracks, at, mediaIn, writes>>

(* onPacketReceived's task with media, which is dropped when it cannot be   *)
(* unprotected or has the SSRC of no media stream.                          *)
RunMedia ==
    /\ WorkerIdle /\ Starts("packet") /\ TransportAlive
    /\ Head(tasks).kind = "media"
    /\ \/ AcceptsMedia /\ DeliversData /\ mediaIn' = TRUE
       \/ UNCHANGED mediaIn
    /\ UNCHANGED <<connVars, dtlsVars, iceVars, api, offer, refs, sink,
                   connection, remoteSdp, localSdp, tracks, ready, told, at,
                   writes>>

(* A track sends an audio or a video packet: MediaStream::write. *)
RunWrite(media) ==
    /\ WorkerIdle /\ tracks > 0 /\ writes < MaxWrites
    /\ writes' = writes + 1
    /\ IF sending /\ RoutesTo(media) = transport THEN Write ELSE UNCHANGED dtlsVars
    /\ UNCHANGED <<connVars, iceVars, tasks, api, offer, refs, sink, connection,
                   remoteSdp, localSdp, tracks, ready, told, at, mediaIn>>

(* close_i up to the point where the ICE connection reads its state. *)
RunClose ==
    /\ WorkerIdle /\ Starts("close")
    /\ at' = "closing"
    /\ tracks' = 0
    /\ IF connection = "live" THEN ConnCloseBegins ELSE UNCHANGED connVars
    /\ IF TransportAlive THEN TransportCloseBegins /\ IceCloseRead
                         ELSE UNCHANGED <<dtlsVars, iceVars>>
    /\ UNCHANGED <<api, offer, refs, sink, connection, remoteSdp, localSdp,
                   ready, told, mediaIn, writes>>

(* The rest of WebRtcConnection::close. *)
CloseConnection ==
    /\ at = "closing"
    /\ at' = "destroying"
    /\ IF connection = "live" THEN ConnCloseEnds ELSE UNCHANGED connVars
    /\ IF TransportAlive THEN TransportCloseEnds /\ IceCloseWrite
                         ELSE UNCHANGED <<dtlsVars, iceVars>>
    /\ UNCHANGED <<tasks, api, offer, refs, sink, connection, remoteSdp,
                   localSdp, tracks, ready, told, mediaIn, writes>>

(* connection_ = nullptr destroys the connection, its transport and the ICE *)
(* connection; the task's reference to the pc goes, and the pc with it.     *)
DestroyConnection ==
    /\ at = "destroying"
    /\ at' = "idle"
    /\ connection' = IF connection = "live" THEN "destroyed" ELSE connection
    /\ refs' = refs \ {"task"}
    /\ IF TransportAlive THEN IceDestroy ELSE UNCHANGED iceVars
    /\ UNCHANGED <<tasks, connVars, dtlsVars, api, offer, sink, remoteSdp,
                   localSdp, tracks, ready, told, mediaIn, writes>>

-----------------------------------------------------------------------------
(* The IO thread.  The peer can connect only once it has the answer, which *)
(* carries the ICE credentials and the addresses of this side.             *)
PeerHasAnswer == told # <<>>

LibniceCallback ==
    /\ \/ CbGatheringDone
       \/ CbNewCandidate
       \/ PeerHasAnswer /\ (\/ \E s \in {READY, FAILED} : CbComponentState(s)
                            \/ CbNewRemoteCandidate
                            \/ \E k \in PacketKinds : CbRecv(k))
    /\ UNCHANGED <<iceObj, iceState, listener, agent, unrefs, closeSeen, tasks,
                   pcVars, connVars, dtlsVars>>

IoThread == (IoStep \/ IoAbandoned) /\ UNCHANGED <<pcVars, connVars, dtlsVars>>

Application == Publish \/ PcInit \/ Signalling \/ PublishReturns \/ Unpublish

WorkerThread ==
    \/ RunExpired \/ RunInit \/ RunOffer \/ RunIceState \/ RunCandidate
    \/ \E o \in DtlsOutcomes : RunDtls(o)
    \/ RunMedia \/ RunClose \/ CloseConnection \/ DestroyConnection

Next ==
    \/ Application
    \/ WorkerThread
    \/ \E m \in {"audio", "video"} : RunWrite(m)
    \/ LibniceCallback
    \/ IoThread

Spec == Init /\ [][Next]_vars

(* The calls of publish proceed, the worker runs its tasks, the IO thread  *)
(* finishes its callbacks, libnice ends the gathering it has started.      *)
FairSpec ==
    /\ Spec
    /\ WF_vars(PcInit \/ Signalling \/ PublishReturns)
    /\ WF_vars(WorkerThread)
    /\ WF_vars(IoThread)
    /\ WF_vars(CbGatheringDone /\ LibniceCallback)

-----------------------------------------------------------------------------
(* Properties. *)

Closed == api = "returned" /\ "map" \notin refs

Lifecycle == INSTANCE PeerLifecycle WITH closed <- Closed

(* The callbacks of WrtcAgentPc::callBack keep the promise of PeerLifecycle *)
(* whatever the interleaving of the worker, the IO thread and the           *)
(* application: one answer, then one onReady, one final onFailed, and no    *)
(* callback that loads sink_ after close() has cleared it.                  *)
LifecycleKept == Lifecycle!Spec

(* The worker dereferences no null pointer: when processOffer is about to  *)
(* run, init_i has created connection_, and when the end of gathering is   *)
(* about to be processed, processSendAnswer will find local_sdp_ although  *)
(* gathering was started in the middle of processOffer.                    *)
NoNullDereference ==
    (WorkerIdle /\ tasks # <<>>) =>
        /\ (Head(tasks).type = "offer" /\ PcAlive) => connection = "live"
        /\ (Head(tasks).type = "ice" /\ TransportAlive) => localSdp

(* Between two tasks the states of the transport and of the connection     *)
(* agree: a failure is never known to one of them only and stops sending,  *)
(* the connection is ready only with its transport, and it is gathered or  *)
(* ready only when every channel of the offer has a transport ("ready only *)
(* when all channels are ready").                                          *)
StatesAgree ==
    (WorkerIdle /\ TransportAlive) =>
        /\ gstate = "FAILED" <=> tstate = "FAILED"
        /\ gstate = "FAILED" => ~sending
        /\ gstate = "READY" => tstate = "READY"
        /\ gstate \in {"GATHERED", "READY"} => (bundle \/ AllChannels)

(* The libnice agent is released exactly once, however often close() runs  *)
(* (close_i, the destructors, a late remote candidate on the IO thread) and *)
(* whatever ice_state_ the race with updateIceState leaves behind.         *)
AgentReleasedOnce ==
    /\ unrefs <= 1
    /\ iceObj = "destroyed" => (~agent /\ unrefs = 1)

(* Once the application has been told that the connection failed, no step  *)
(* sends a datagram or passes media to the tracks, although datagrams that *)
(* arrived before are still queued as tasks.                               *)
QuietAfterFailed ==
    [][(\E i \in DOMAIN told : told[i] = "failed")
          => sent' = sent /\ mediaIn' = mediaIn]_vars

(* The offers that the code can answer: it parses and negotiates, has an   *)
(* m-line, SAVPF and a fingerprint, and is bundled unless all its m-lines  *)
(* have one type (only the first m-line of an offer gets a transport).     *)
Answerable(o) ==
    /\ o.parses /\ o.negotiates /\ o.secure /\ o.medias # <<>>
    /\ o.bundle \/ \A i \in DOMAIN o.medias : o.medias[i] = o.medias[1]

(* Every answerable offer passed to publish leads to onAnswer, unless the  *)
(* application closes the connection first.                                *)
AnswerArrives ==
    (api = "returned" /\ Answerable(offer)) ~> (told # <<>> \/ Closed)

(* After unpublish the connection, the pc and the libnice agent are gone   *)
(* eventually, in whatever state the close found them.                     *)
CloseReleases == Closed ~> (connection = "destroyed" /\ ~PcAlive /\ ~agent)

(* What updateIceState means to enforce ("unexpected ice state transition") *)
(* and its comment takes for granted ("outside our state lock"): the state *)
(* of an ICE connection never goes back.                                   *)
IceStateMonotone == [][iceObj = "alive" => iceState' >= iceState]_vars

(* "need to fall through to propagate alerts, if any": each alert OpenSSL  *)
(* produces when a handshake fails is sent to the peer.                    *)
AlertsPropagated == alerts.sent = alerts.due

=============================================================================
