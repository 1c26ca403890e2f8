------------------------- MODULE WrtcAgentPcProofs --------------------------
(***************************************************************************)
(* Proofs about the peer connection, for every set of offers and every     *)
(* bound: what the application is told (LifecycleKept), that the libnice   *)
(* agent is released once (AgentReleasedOnce), that a failed connection is *)
(* quiet (QuietAfterFailed), that connection and transport agree on their  *)
(* states (StatesAgree) and that no step uses what has not been made yet   *)
(* (NoNullDereference).                                                    *)
(***************************************************************************)
EXTENDS WrtcAgentPc, SequenceTheorems, TLAPS

(* The tasks that publish and unpublish post: the init task is the first   *)
(* task of all, the close task comes after sink_ is cleared.               *)
CallTasks ==
    \A i \in DOMAIN tasks :
       /\ tasks[i].type = "init" => i = 1 /\ told = <<>> /\ gstate = "INITIAL" /\ at = "idle"
       /\ tasks[i].type = "close" => ~sink

(* How far publish and unpublish have come. *)
ApiInv ==
    /\ api \in {"none", "emplaced"} => tasks = <<>> /\ iceObj = "none" /\ told = <<>>
                                       /\ gstate = "INITIAL"
    /\ api = "none" => refs = {}
    /\ api \in {"emplaced", "inited", "signalled"} => refs = {"map", "caller"}
    /\ sink = ~Closed
    /\ CallTasks
    /\ at # "idle" => ~sink /\ ~sending

(* The libnice agent: who has released it, and what ice_state_ can say     *)
(* about it although updateIceState and close() race.                      *)
AgentInv ==
    /\ iceObj = "none" => ~agent /\ unrefs = 0 /\ iceState = INITIAL
                          /\ closeSeen = NotClosing
    /\ iceObj = "alive" => firstSdp /\ unrefs = (IF agent THEN 0 ELSE 1)
    /\ iceObj = "destroyed" => firstSdp /\ ~agent /\ unrefs = 1 /\ closeSeen = NotClosing
    /\ iceState = FINISHED => ~agent
    /\ closeSeen = FINISHED => ~agent
    /\ closeSeen # NotClosing => at = "closing"
    /\ at = "destroying" => ~agent
    /\ io.at \in {"check", "set", "notify"} => io.state \notin {INITIAL, FINISHED}

(* The end of gathering is one token: with the IO thread or in one task,   *)
(* and while it is there the application has been told nothing.  All other *)
(* news of the ICE layer follow the answer.                                *)
IoGathers == io.at \in {"check", "set", "notify"} /\ io.state = CANDIDATES_RECEIVED

Gathers(t) == t.type = "ice" /\ t.state = CANDIDATES_RECEIVED

PeerNews(t) == t.type = "packet" \/ (t.type = "ice" /\ t.state # CANDIDATES_RECEIVED)

TokenInv ==
    /\ told # <<>> => gathered
    /\ IoGathers => gathered /\ told = <<>>
    /\ io.at \notin {"idle", "candidate"} /\ ~IoGathers => told # <<>>
    /\ \A i \in DOMAIN tasks :
          /\ Gathers(tasks[i]) =>
                /\ gathered /\ told = <<>> /\ ~IoGathers
                /\ \A j \in DOMAIN tasks : Gathers(tasks[j]) => j = i
          /\ PeerNews(tasks[i]) => told # <<>>
          /\ tasks[i].type = "ice" => tasks[i].state \notin {INITIAL, FINISHED}

(* What the application has been told, by the state of the connection.     *)
ToldInv ==
    /\ told # <<>> => iceObj # "none"
    /\ sending => observed /\ connection = "live"
    /\ sink /\ iceObj = "alive" => observed
    /\ sink =>
         /\ gstate # "FINISHED"
         /\ gstate \in {"INITIAL", "STARTED"} => told = <<>> /\ ~ready
         /\ gstate = "GATHERED" => told = <<"answer">> /\ ~ready
         /\ gstate = "READY" => told = <<"answer", "ready">>
         /\ gstate = "FAILED" => told \in {<<"answer", "failed">>,
                                           <<"answer", "ready", "failed">>}

HasFailed == \E i \in DOMAIN told : told[i] = "failed"

(* A failure that the application knows of cannot be undone.               *)
QuietInv ==
    /\ HasFailed => /\ gstate \in {"FAILED", "FINISHED"}
                    /\ ~sending
                    /\ running => handshaken
    /\ gstate = "FINISHED" => ~sending
    /\ gstate = "FINISHED" /\ iceObj = "alive" => at = "destroying"

IInv == TypeOK /\ ApiInv /\ AgentInv /\ TokenInv /\ ToldInv /\ QuietInv

-----------------------------------------------------------------------------
(* Type correctness. *)

USE DEF INITIAL, CANDIDATES_RECEIVED, READY, FINISHED, FAILED, IceStates, NotClosing

(* The worker's queue stays a sequence of tasks when a task is started. *)
LEMMA StartsType ==
    ASSUME NEW type, tasks \in Seq(Tasks), Starts(type)
    PROVE  /\ tasks' \in Seq(Tasks)
           /\ tasks # <<>> /\ Head(tasks) \in Tasks /\ Head(tasks).type = type
BY DEF Starts

(* close() keeps the types of what it writes. *)
LEMMA CloseType ==
    ASSUME NEW seen \in IceStates, IceTypeOK, CloseEffect(seen)
    PROVE  iceState' \in IceStates /\ listener' \in BOOLEAN /\ agent' \in BOOLEAN /\ unrefs' \in Nat
<1>1. CASE seen = FINISHED
  BY <1>1 DEF CloseEffect, IceTypeOK
<1>2. CASE seen # FINISHED
  <2>1. iceState' \in IceStates
    BY <1>2 DEF CloseEffect, IceTypeOK
  <2>2. unrefs' \in Nat
    BY <1>2 DEF CloseEffect, IceTypeOK
  <2>3. listener' = FALSE /\ agent' = FALSE
    BY <1>2 DEF CloseEffect
  <2> QED BY <2>1, <2>2, <2>3, Zenon
<1> QED BY <1>1, <1>2

(* The IO thread's steps keep the types of the ICE layer and of the queue. *)
LEMMA IoType ==
    ASSUME BoundsAssumption, IceTypeOK, tasks \in Seq(Tasks), IoStep \/ IoAbandoned
    PROVE  IceTypeOK' /\ tasks' \in Seq(Tasks)
<1>0. /\ [type |-> "candidate"] \in Tasks
      /\ io.at = "notify" => [type |-> "ice", state |-> io.state] \in Tasks
      /\ io.at = "packet" => [type |-> "packet", kind |-> io.kind] \in Tasks
  BY DEF IceTypeOK, IoPlaces, Idle, Tasks
<1>1. CASE IoAbandoned
  BY <1>1 DEF IoAbandoned, IceTypeOK, IoPlaces
<1>2. CASE IoStep /\ UpdateIceStateCheck
  BY <1>2 DEF IoStep, UpdateIceStateCheck, IceTypeOK, IoPlaces, Idle
<1>3. CASE IoStep /\ UpdateIceStateSet
  BY <1>3 DEF IoStep, UpdateIceStateSet, IceTypeOK, IoPlaces, Idle
<1>4. CASE IoStep /\ UpdateIceStateNotify
  BY <1>0, <1>4 DEF IoStep, UpdateIceStateNotify, IceTypeOK, IoPlaces, Task
<1>5. CASE IoStep /\ GotCandidate
  BY <1>0, <1>5 DEF IoStep, GotCandidate, IceTypeOK, IoPlaces, Task
<1>6. CASE IoStep /\ OnRemoteNewCandidate
  <2>1. io' \in IoPlaces /\ UNCHANGED <<tasks, iceObj, closeSeen, gathered, candidates, packets>>
    BY <1>6 DEF IoStep, OnRemoteNewCandidate, IoPlaces
  <2>2. iceState' \in IceStates /\ listener' \in BOOLEAN /\ agent' \in BOOLEAN /\ unrefs' \in Nat
    BY <1>6, CloseType DEF OnRemoteNewCandidate, IceTypeOK
  <2> QED BY <2>1, <2>2 DEF IceTypeOK
<1>7. CASE IoStep /\ OnDataRead
  BY <1>7 DEF IoStep, OnDataRead, IceTypeOK, IoPlaces, Idle
<1>8. CASE IoStep /\ OnDataPost
  BY <1>0, <1>8 DEF IoStep, OnDataPost, IceTypeOK, IoPlaces, Task
<1> QED BY <1>1, <1>2, <1>3, <1>4, <1>5, <1>6, <1>7, <1>8, Zenon DEF IoStep

(* The upcall of a transport keeps the types of the connection and the pc. *)
LEMMA UpcallType ==
    ASSUME ConnTypeOK, PcTypeOK, tstate' \in TransportStates, Upcall
    PROVE  ConnTypeOK' /\ told' \in Seq({"answer", "ready", "failed"}) /\ ready' \in BOOLEAN
<1>1. CASE tstate' = tstate
  BY <1>1, Zenon DEF Upcall, connVars, ConnTypeOK, PcTypeOK
<1>2. CASE tstate' # tstate
  <2>1. ConnTypeOK'
    <3>1. UpdateState(tstate')
      BY <1>2 DEF Upcall
    <3>2. gstate' \in GlobalStates
      BY <3>1 DEF UpdateState, StateAfter, ConnTypeOK, GlobalStates, TransportStates
    <3> QED BY <3>1, <3>2 DEF UpdateState, ConnTypeOK
  <2>2. CallbackFor(gstate') \in {"answer", "ready", "failed", "none"}
    BY DEF CallbackFor
  <2>3. told' \in Seq({"answer", "ready", "failed"})
    BY <1>2, <2>2 DEF Upcall, NotifyEvent, PcTypeOK
  <2>4. ready' \in BOOLEAN
    BY <1>2, Zenon DEF Upcall, NotifyEvent, PcTypeOK
  <2> QED BY <2>1, <2>3, <2>4
<1> QED BY <1>1, <1>2

(* Every step keeps the types. *)
LEMMA NextTypeOK == TypeOK /\ [Next]_vars => TypeOK'
<1> SUFFICES ASSUME TypeOK, [Next]_vars PROVE TypeOK'
  OBVIOUS
<1> USE BoundsAssumption, OffersAssumption
<1>0. IceTypeOK /\ DtlsTypeOK /\ ConnTypeOK /\ PcTypeOK /\ tasks \in Seq(Tasks)
  BY DEF TypeOK
<1>1. ASSUME UNCHANGED iceVars PROVE IceTypeOK'
  BY <1>0, <1>1 DEF iceVars, IceTypeOK
<1>2. ASSUME UNCHANGED dtlsVars PROVE DtlsTypeOK'
  BY <1>0, <1>2 DEF dtlsVars, DtlsTypeOK
<1>3. ASSUME UNCHANGED connVars PROVE ConnTypeOK'
  BY <1>0, <1>3 DEF connVars, ConnTypeOK
<1>4. ASSUME UNCHANGED pcVars PROVE PcTypeOK'
  BY <1>0, <1>4 DEF pcVars, PcTypeOK
<1>5. CASE UNCHANGED vars
  BY <1>0, <1>1, <1>2, <1>3, <1>4, <1>5 DEF vars, TypeOK
<1>6. CASE Application
  <2>1. UNCHANGED <<connVars, dtlsVars, iceVars>>
    BY <1>6 DEF Application, Publish, PcInit, Signalling, PublishReturns, Unpublish, ApiUnchanged
  <2>2. tasks' \in Seq(Tasks)
    <3>1. \A n \in {"init", "offer", "close"} : [type |-> n] \in Tasks
      BY DEF Tasks
    <3>2. CASE Publish \/ PublishReturns
      BY <1>0, <3>2 DEF Publish, PublishReturns
    <3>3. CASE PcInit \/ Signalling \/ Unpublish
      <4>1. PICK n \in {"init", "offer", "close"} : Task([type |-> n])
        BY <3>3 DEF PcInit, Signalling, Unpublish
      <4> QED BY <1>0, <3>1, <4>1 DEF Task
    <3> QED BY <1>6, <3>2, <3>3 DEF Application
  <2>3. PcTypeOK'
    <3>1. /\ api' \in {"none", "emplaced", "inited", "signalled", "returned"}
          /\ refs' \subseteq {"map", "caller", "task"}
          /\ sink' \in BOOLEAN
          /\ ApiUnchanged
      BY <1>0, <1>6, Zenon DEF Application, Publish, PcInit, Signalling, PublishReturns, Unpublish, PcTypeOK
    <3> QED BY <1>0, <3>1 DEF ApiUnchanged, PcTypeOK
  <2> QED BY <1>1, <1>2, <1>3, <2>1, <2>2, <2>3, Zenon DEF TypeOK
<1>7. CASE RunExpired \/ RunCandidate
  <2>1. UNCHANGED <<pcVars, connVars, dtlsVars, iceVars>> /\ tasks' \in Seq(Tasks)
    BY <1>0, <1>7, StartsType DEF RunExpired, RunCandidate
  <2> QED BY <1>1, <1>2, <1>3, <1>4, <2>1 DEF TypeOK
<1>8. CASE RunInit
  <2>1. UNCHANGED <<dtlsVars, iceVars>> /\ tasks' \in Seq(Tasks)
    BY <1>0, <1>8, StartsType DEF RunInit
  <2>2. ConnTypeOK'
    BY <1>0, <1>8 DEF RunInit, NewConnection, ConnTypeOK
  <2>3. PcTypeOK'
    BY <1>0, <1>8 DEF RunInit, PcTypeOK
  <2> QED BY <1>1, <1>2, <2>1, <2>2, <2>3 DEF TypeOK
<1>9. CASE RunOffer
  <2>1. tasks' \in Seq(Tasks)
    BY <1>0, <1>9, StartsType DEF RunOffer
  <2>2. offer \in OfferType
    BY <1>0 DEF PcTypeOK
  <2>3. PcTypeOK'
    <3>1. offer.parses \in BOOLEAN /\ Len(offer.medias) \in Nat
      BY <2>2 DEF OfferType
    <3>2. remoteSdp' \in BOOLEAN /\ localSdp' \in BOOLEAN /\ tracks' \in Nat
      BY <1>0, <1>9, <3>1, Zenon DEF RunOffer, PcTypeOK
    <3> QED BY <1>0, <1>9, <3>2 DEF RunOffer, PcTypeOK
  <2>4. ConnTypeOK' /\ DtlsTypeOK' /\ IceTypeOK'
    <3>1. CASE UNCHANGED <<connVars, dtlsVars, iceVars>>
      BY <1>1, <1>2, <1>3, <3>1
    <3>2. CASE ~UNCHANGED <<connVars, dtlsVars, iceVars>>
      <4>1. SetRemoteSdp(offer.medias, offer.bundle, offer.mux, offer.secure)
        BY <1>9, <3>2 DEF RunOffer
      <4>2. offer.medias \in Seq({"audio", "video"}) /\ offer.bundle \in BOOLEAN
            /\ offer.mux \in BOOLEAN
        BY <2>2 DEF OfferType
      <4>3. ConnTypeOK'
        <5>1. channels' \subseteq {"audio", "video"}
          <6>1. {offer.medias[i] : i \in DOMAIN offer.medias} \subseteq {"audio", "video"}
            BY <4>2
          <6> QED BY <1>0, <3>2, <4>1, <6>1, Zenon DEF SetRemoteSdp, ConnTypeOK
        <5> QED BY <1>0, <3>2, <4>1, <4>2, <5>1, Zenon DEF SetRemoteSdp, ConnTypeOK
      <4>4. DtlsTypeOK'
        BY <1>0, <1>2, <3>2, <4>1, <4>2, Zenon DEF SetRemoteSdp, NewTransport, DtlsTypeOK
      <4>5. IceTypeOK'
        BY <1>0, <1>1, <3>2, <4>1, Zenon DEF SetRemoteSdp, IceStart, IceTypeOK
      <4> QED BY <4>3, <4>4, <4>5
    <3> QED BY <3>1, <3>2
  <2> QED BY <2>1, <2>3, <2>4 DEF TypeOK
<1>10. CASE RunIceState
  <2>1. UNCHANGED iceVars /\ tasks' \in Seq(Tasks)
    BY <1>0, <1>10, StartsType DEF RunIceState
  <2>2. DtlsTypeOK'
    BY <1>0, <1>10 DEF RunIceState, UpdateIceStateSync, DtlsTypeOK, TransportStates
  <2>3. ConnTypeOK' /\ told' \in Seq({"answer", "ready", "failed"}) /\ ready' \in BOOLEAN
    BY <1>0, <1>10, <2>2, UpcallType DEF RunIceState, DtlsTypeOK
  <2>4. PcTypeOK'
    BY <1>0, <1>10, <2>3 DEF RunIceState, PcTypeOK
  <2> QED BY <1>1, <2>1, <2>2, <2>3, <2>4 DEF TypeOK
<1>11. ASSUME NEW o \in DtlsOutcomes, RunDtls(o) PROVE TypeOK'
  <2>1. UNCHANGED iceVars /\ tasks' \in Seq(Tasks)
    BY <1>0, <1>11, StartsType DEF RunDtls
  <2>2. DtlsTypeOK'
    <3>1. CASE ~running \/ handshaken
      BY <1>2, <1>11, <3>1 DEF RunDtls, OnDtlsData
    <3>2. CASE ~(~running \/ handshaken)
      <4>1. tstate' \in TransportStates
        BY <1>0, <1>11, <3>2, Zenon DEF RunDtls, OnDtlsData, OnHandshakeCompleted, DtlsTypeOK, TransportStates
      <4>2. sent' \in Nat /\ alerts' \in [due : Nat, sent : Nat]
        BY <1>0, <1>11, <3>2 DEF RunDtls, OnDtlsData, DtlsTypeOK
      <4>3. handshaken' \in BOOLEAN /\ running' \in BOOLEAN /\ rtcpMux' \in BOOLEAN
        BY <1>0, <1>11, <3>2, Zenon DEF RunDtls, OnDtlsData, DtlsTypeOK
      <4> QED BY <4>1, <4>2, <4>3 DEF DtlsTypeOK
    <3> QED BY <3>1, <3>2
  <2>3. ConnTypeOK' /\ told' \in Seq({"answer", "ready", "failed"}) /\ ready' \in BOOLEAN
    BY <1>0, <1>11, <2>2, UpcallType, Zenon DEF RunDtls, DtlsTypeOK
  <2>4. PcTypeOK'
    BY <1>0, <1>11, <2>3 DEF RunDtls, PcTypeOK
  <2> QED BY <1>1, <2>1, <2>2, <2>3, <2>4 DEF TypeOK
<1>12. CASE RunMedia
  <2>1. UNCHANGED <<connVars, dtlsVars, iceVars>> /\ tasks' \in Seq(Tasks)
    BY <1>0, <1>12, StartsType DEF RunMedia
  <2>2. PcTypeOK'
    BY <1>0, <1>12, Zenon DEF RunMedia, PcTypeOK
  <2> QED BY <1>1, <1>2, <1>3, <2>1, <2>2, Zenon DEF TypeOK
<1>13. CASE RunClose
  <2>1. tasks' \in Seq(Tasks)
    BY <1>0, <1>13, StartsType DEF RunClose
  <2>2. PcTypeOK'
    BY <1>0, <1>13, Zenon DEF RunClose, PcTypeOK
  <2>3. ConnTypeOK'
    BY <1>0, <1>3, <1>13, Zenon DEF RunClose, ConnCloseBegins, ConnTypeOK
  <2>4. DtlsTypeOK'
    BY <1>0, <1>2, <1>13, Zenon DEF RunClose, TransportCloseBegins, DtlsTypeOK
  <2>5. IceTypeOK'
    BY <1>0, <1>1, <1>13, Zenon DEF RunClose, IceCloseRead, IceTypeOK
  <2> QED BY <2>1, <2>2, <2>3, <2>4, <2>5 DEF TypeOK
<1>14. CASE CloseConnection
  <2>1. tasks' \in Seq(Tasks)
    BY <1>0, <1>14 DEF CloseConnection
  <2>2. PcTypeOK'
    BY <1>0, <1>14, ZenonT(40) DEF CloseConnection, PcTypeOK
  <2>3. ConnTypeOK'
    BY <1>0, <1>3, <1>14, Zenon DEF CloseConnection, ConnCloseEnds, ConnTypeOK, GlobalStates
  <2>4. DtlsTypeOK'
    BY <1>0, <1>2, <1>14 DEF CloseConnection, TransportCloseEnds, DtlsTypeOK, TransportStates
  <2>5. IceTypeOK'
    <3>1. CASE UNCHANGED iceVars
      BY <1>1, <3>1, Zenon
    <3>2. CASE IceCloseWrite
      <4>1. closeSeen \in IceStates
        BY <1>0, <3>2 DEF IceCloseWrite, IceTypeOK
      <4> QED BY <1>0, <3>2, <4>1, CloseType DEF IceCloseWrite, IceTypeOK
    <3> QED BY <1>14, <3>1, <3>2 DEF CloseConnection
  <2> QED BY <2>1, <2>2, <2>3, <2>4, <2>5 DEF TypeOK
<1>15. CASE DestroyConnection
  <2>1. UNCHANGED <<connVars, dtlsVars>> /\ tasks' \in Seq(Tasks)
    BY <1>0, <1>15, Zenon DEF DestroyConnection
  <2>2. PcTypeOK'
    BY <1>0, <1>15 DEF DestroyConnection, PcTypeOK
  <2>3. IceTypeOK'
    <3>1. CASE UNCHANGED iceVars
      BY <1>1, <3>1
    <3>2. CASE IceDestroy
      <4>1. iceState \in IceStates
        BY <1>0 DEF IceTypeOK
      <4> QED BY <1>0, <3>2, <4>1, CloseType DEF IceDestroy, IceTypeOK
    <3> QED BY <1>15, <3>1, <3>2, Zenon DEF DestroyConnection
  <2> QED BY <1>2, <1>3, <2>1, <2>2, <2>3 DEF TypeOK
<1>16. ASSUME NEW m \in {"audio", "video"}, RunWrite(m) PROVE TypeOK'
  <2>1. UNCHANGED <<connVars, iceVars>> /\ tasks' \in Seq(Tasks)
    BY <1>0, <1>16 DEF RunWrite
  <2>2. DtlsTypeOK'
    BY <1>0, <1>2, <1>16 DEF RunWrite, Write, DtlsTypeOK
  <2>3. PcTypeOK'
    BY <1>0, <1>16 DEF RunWrite, PcTypeOK, BoundsAssumption
  <2> QED BY <1>1, <1>3, <2>1, <2>2, <2>3 DEF TypeOK
<1>17. CASE LibniceCallback
  <2>1. UNCHANGED <<pcVars, connVars, dtlsVars>> /\ tasks' \in Seq(Tasks)
    BY <1>0, <1>17 DEF LibniceCallback
  <2> DEFINE Typed == /\ io' \in IoPlaces /\ gathered' \in BOOLEAN
                      /\ candidates' \in 0 .. MaxCandidates /\ packets' \in 0 .. MaxPackets
  <2>2. Typed
    <3>1. CASE CbGatheringDone
      BY <1>0, <3>1 DEF CbGatheringDone, IceTypeOK, IoPlaces
    <3>2. CASE CbNewCandidate
      BY <1>0, <3>2 DEF CbNewCandidate, IceTypeOK, IoPlaces, BoundsAssumption
    <3>3. ASSUME NEW s \in {READY, FAILED}, CbComponentState(s)
          PROVE  Typed
      BY <1>0, <3>3 DEF CbComponentState, IceTypeOK, IoPlaces
    <3>4. CASE CbNewRemoteCandidate
      BY <1>0, <3>4, Zenon DEF CbNewRemoteCandidate, IceTypeOK, IoPlaces
    <3>5. ASSUME NEW k \in PacketKinds, CbRecv(k)
          PROVE  Typed
      BY <1>0, <3>5 DEF CbRecv, IceTypeOK, IoPlaces, BoundsAssumption
    <3> QED BY <1>17, <3>1, <3>2, <3>3, <3>4, <3>5, Zenon DEF LibniceCallback
  <2>3. IceTypeOK'
    BY <1>0, <1>17, <2>2 DEF LibniceCallback, IceTypeOK
  <2> QED BY <1>2, <1>3, <1>4, <2>1, <2>3 DEF TypeOK
<1>18. CASE IoThread
  <2>1. UNCHANGED <<pcVars, connVars, dtlsVars>> /\ IceTypeOK' /\ tasks' \in Seq(Tasks)
    BY <1>0, <1>18, IoType DEF IoThread
  <2> QED BY <1>2, <1>3, <1>4, <2>1 DEF TypeOK
<1> QED
  BY <1>5, <1>6, <1>7, <1>8, <1>9, <1>10, <1>11, <1>12, <1>13, <1>14, <1>15, <1>16, <1>17, <1>18
  DEF Next, WorkerThread

-----------------------------------------------------------------------------
(* The libnice agent. *)

(* The steps of the worker and the application that leave the ICE layer    *)
(* alone, and the worker's place in close_i.                               *)
LEMMA IceFrame ==
    ASSUME \/ UNCHANGED vars \/ Application \/ RunExpired \/ RunInit \/ RunIceState
           \/ RunCandidate \/ RunMedia
           \/ \E o \in DtlsOutcomes : RunDtls(o)
           \/ \E m \in {"audio", "video"} : RunWrite(m)
    PROVE  UNCHANGED <<iceVars, at, firstSdp>>
<1>1. CASE UNCHANGED vars
  BY <1>1 DEF vars, pcVars, connVars
<1>2. CASE Application
  BY <1>2, Zenon DEF Application, Publish, PcInit, Signalling, PublishReturns, Unpublish, ApiUnchanged, connVars
<1>3. CASE RunExpired \/ RunCandidate \/ RunMedia
  BY <1>3, ZenonT(40) DEF RunExpired, RunCandidate, RunMedia, pcVars, connVars
<1>4. CASE RunInit
  BY <1>4, Zenon DEF RunInit, NewConnection
<1>5. CASE RunIceState
  BY <1>5, Zenon DEF RunIceState, Upcall, UpdateState, connVars
<1>6. ASSUME NEW o \in DtlsOutcomes, RunDtls(o) PROVE UNCHANGED <<iceVars, at, firstSdp>>
  BY <1>6, Zenon DEF RunDtls, Upcall, UpdateState, connVars
<1>7. ASSUME NEW m \in {"audio", "video"}, RunWrite(m) PROVE UNCHANGED <<iceVars, at, firstSdp>>
  BY <1>7 DEF RunWrite, connVars
<1> QED BY <1>1, <1>2, <1>3, <1>4, <1>5, <1>6, <1>7, Zenon

LEMMA NextAgentInv == TypeOK /\ AgentInv /\ [Next]_vars => AgentInv'
<1> SUFFICES ASSUME TypeOK, AgentInv, [Next]_vars PROVE AgentInv'
  OBVIOUS
<1>0. IceTypeOK /\ firstSdp \in BOOLEAN
  BY DEF TypeOK, ConnTypeOK
<1>1. CASE UNCHANGED <<iceVars, at, firstSdp>>
  BY <1>1 DEF AgentInv, iceVars
<1>2. CASE RunOffer
  <2>1. CASE iceObj' = "alive" /\ iceObj # "alive"
    <3>1. IceStart /\ ~firstSdp /\ firstSdp' /\ at = "idle" /\ at' = "idle"
      BY <1>0, <1>2, <2>1 DEF RunOffer, SetRemoteSdp, WorkerIdle, iceVars
    <3>2. iceObj = "none"
      BY <1>0, <3>1, Zenon DEF AgentInv, IceTypeOK
    <3> QED BY <3>1, <3>2 DEF AgentInv, IceStart
  <2>2. CASE ~(iceObj' = "alive" /\ iceObj # "alive")
    <3>1. UNCHANGED <<iceVars, at>> /\ (firstSdp => firstSdp')
      <4>1. ~IceStart \/ iceObj = "alive"
        BY <2>2 DEF IceStart
      <4>2. CASE firstSdp
        BY <1>2, <4>2, Zenon DEF RunOffer, SetRemoteSdp, connVars
      <4>3. CASE ~firstSdp
        <5>1. iceObj # "alive"
          BY <4>3, Zenon DEF AgentInv
        <5> QED BY <1>2, <4>1, <4>3, <5>1 DEF RunOffer, SetRemoteSdp
      <4> QED BY <1>0, <4>2, <4>3
    <3> QED BY <3>1 DEF AgentInv, iceVars
  <2> QED BY <2>1, <2>2, Zenon
<1>3. CASE RunClose
  <2>1. UNCHANGED <<iceObj, agent, unrefs, iceState, io, firstSdp>> /\ at' = "closing"
    BY <1>3, Zenon DEF RunClose, ConnCloseBegins, IceCloseRead, connVars, iceVars
  <2>2. \/ closeSeen' = closeSeen
        \/ closeSeen' = iceState /\ iceObj = "alive"
    BY <1>3 DEF RunClose, IceCloseRead, iceVars, TransportAlive
  <2> QED BY <1>0, <2>1, <2>2, Zenon DEF AgentInv, IceTypeOK
<1>4. CASE CloseConnection
  <2>1. UNCHANGED <<iceObj, io, firstSdp>> /\ at' = "destroying" /\ at = "closing"
    BY <1>4 DEF CloseConnection, ConnCloseEnds, IceCloseWrite, connVars, iceVars
  <2>2. CASE iceObj = "alive"
    <3>1. IceCloseWrite
      BY <1>4, <2>2 DEF CloseConnection, TransportAlive
    <3>2. CASE closeSeen = FINISHED
      BY <2>1, <2>2, <3>1, <3>2, Zenon DEF IceCloseWrite, CloseEffect, AgentInv
    <3>3. CASE closeSeen # FINISHED
      BY <1>0, <2>1, <2>2, <3>1, <3>3 DEF IceCloseWrite, CloseEffect, AgentInv, IceTypeOK
    <3> QED BY <3>2, <3>3
  <2>3. CASE iceObj # "alive"
    <3>1. UNCHANGED iceVars
      BY <1>4, <2>3, Zenon DEF CloseConnection, TransportAlive
    <3>2. ~agent /\ closeSeen = NotClosing
      BY <1>0, <2>3, Zenon DEF AgentInv, IceTypeOK
    <3> QED BY <2>1, <3>1, <3>2 DEF AgentInv, iceVars
  <2> QED BY <2>2, <2>3, Zenon
<1>5. CASE DestroyConnection
  <2>1. UNCHANGED <<io, firstSdp, closeSeen>> /\ at' = "idle" /\ at = "destroying"
    BY <1>5 DEF DestroyConnection, IceDestroy, connVars, iceVars
  <2>2. ~agent /\ closeSeen = NotClosing
    BY <2>1, Zenon DEF AgentInv
  <2>3. CASE iceObj = "alive"
    <3>1. CloseEffect(iceState) /\ iceObj' = "destroyed"
      BY <1>5, <2>3 DEF DestroyConnection, IceDestroy, TransportAlive
    <3>2. ~agent' /\ unrefs' = unrefs
      BY <2>2, <3>1, Zenon DEF CloseEffect
    <3> QED BY <2>1, <2>2, <2>3, <3>1, <3>2, Zenon DEF AgentInv
  <2>4. CASE iceObj # "alive"
    BY <1>5, <2>1, <2>2, <2>4, Zenon DEF DestroyConnection, TransportAlive, AgentInv, iceVars
  <2> QED BY <2>3, <2>4
<1>6. CASE LibniceCallback
  <2>1. UNCHANGED <<iceObj, agent, unrefs, iceState, closeSeen, at, firstSdp>>
    BY <1>6, Zenon DEF LibniceCallback, pcVars, connVars
  <2>2. io'.at \in {"check", "set", "notify"} => io'.state \notin {INITIAL, FINISHED}
    BY <1>6 DEF LibniceCallback, CbGatheringDone, CbNewCandidate, CbComponentState,
                CbNewRemoteCandidate, CbRecv
  <2> QED BY <2>1, <2>2 DEF AgentInv
<1>7. CASE IoThread
  <2>1. UNCHANGED <<iceObj, closeSeen, at, firstSdp>>
    BY <1>7 DEF IoThread, IoStep, IoAbandoned, pcVars, connVars
  <2>2. io'.at \in {"check", "set", "notify"} => io'.state \notin {INITIAL, FINISHED}
    <3>1. CASE IoAbandoned
      BY <3>1, Zenon DEF IoAbandoned, Idle
    <3>2. CASE IoStep
      BY <1>0, <3>2 DEF IoStep, UpdateIceStateCheck, UpdateIceStateSet, UpdateIceStateNotify,
           GotCandidate, OnRemoteNewCandidate, OnDataRead, OnDataPost, Idle, AgentInv,
           IceTypeOK, IoPlaces
    <3> QED BY <1>7, <3>1, <3>2, Zenon DEF IoThread
  <2>3. agent' = agent /\ unrefs' = unrefs
    BY <1>0, <1>7, Zenon DEF IoThread, IoAbandoned, IoStep, UpdateIceStateCheck, UpdateIceStateSet,
         UpdateIceStateNotify, GotCandidate, OnRemoteNewCandidate, CloseEffect, OnDataRead,
         OnDataPost, IceTypeOK
  <2>4. iceState' = FINISHED => iceState = FINISHED \/ ~agent
    BY <1>7, Zenon DEF IoThread, IoAbandoned, IoStep, UpdateIceStateCheck, UpdateIceStateSet,
         UpdateIceStateNotify, GotCandidate, OnRemoteNewCandidate, OnDataRead, OnDataPost, AgentInv
  <2>5. iceObj = "none" => iceState' = iceState
    BY <1>7 DEF IoThread, IoAbandoned, IoStep
  <2> QED BY <2>1, <2>2, <2>3, <2>4, <2>5, Zenon DEF AgentInv
<1> QED BY <1>1, <1>2, <1>3, <1>4, <1>5, <1>6, <1>7, IceFrame DEF Next, WorkerThread

-----------------------------------------------------------------------------
(* The worker's queue. *)

(* After the oldest task is started the others have moved up by one. *)
LEMMA StartsShifts ==
    ASSUME NEW type, tasks \in Seq(Tasks), Starts(type)
    PROVE  /\ 1 \in DOMAIN tasks /\ tasks[1] = Head(tasks) /\ tasks[1].type = type
           /\ \A i \in DOMAIN tasks' : i + 1 \in DOMAIN tasks /\ i + 1 # 1 /\ tasks'[i] = tasks[i + 1]
<1>1. tasks # <<>> /\ Head(tasks).type = type /\ tasks' = Tail(tasks) /\ Len(tasks) \in Nat
  BY DEF Starts
<1>2. Len(tasks) > 0 /\ DOMAIN tasks = 1 .. Len(tasks)
  BY <1>1
<1>3. DOMAIN tasks' = 1 .. (Len(tasks) - 1) /\ \A i \in 1 .. (Len(tasks) - 1) : tasks'[i] = tasks[i + 1]
  BY <1>1, <1>2
<1> QED BY <1>1, <1>2, <1>3

(* A post leaves the older tasks where they are. *)
LEMMA TaskAppends ==
    ASSUME NEW t, t \in Tasks, tasks \in Seq(Tasks), Task(t)
    PROVE  \A i \in DOMAIN tasks' : \/ i \in DOMAIN tasks /\ tasks'[i] = tasks[i]
                                    \/ i \notin DOMAIN tasks /\ i = Len(tasks) + 1 /\ tasks'[i] = t
BY DEF Task

(* What the IO thread posts, and the only steps that post. *)
LEMMA IoPosts ==
    ASSUME TypeOK, IoThread
    PROVE  \/ tasks' = tasks
           \/ /\ io.at = "notify" /\ io' = Idle /\ [type |-> "ice", state |-> io.state] \in Tasks
              /\ Task([type |-> "ice", state |-> io.state])
           \/ io.at = "candidate" /\ io' = Idle /\ [type |-> "candidate"] \in Tasks /\ Task([type |-> "candidate"])
           \/ /\ io.at = "packet" /\ io' = Idle /\ [type |-> "packet", kind |-> io.kind] \in Tasks
              /\ Task([type |-> "packet", kind |-> io.kind])
<1>1. /\ [type |-> "candidate"] \in Tasks
      /\ io.at = "notify" => [type |-> "ice", state |-> io.state] \in Tasks
      /\ io.at = "packet" => [type |-> "packet", kind |-> io.kind] \in Tasks
  BY DEF TypeOK, IceTypeOK, IoPlaces, Idle, Tasks
<1>2. CASE IoAbandoned
  BY <1>2 DEF IoAbandoned
<1>3. CASE IoStep
  BY <1>1, <1>3, Zenon DEF IoStep, UpdateIceStateCheck, UpdateIceStateSet, UpdateIceStateNotify,
       GotCandidate, OnRemoteNewCandidate, OnDataRead, OnDataPost
<1> QED BY <1>2, <1>3, Zenon DEF IoThread

-----------------------------------------------------------------------------
(* The calls of the application. *)

LEMMA NextApiInv == TypeOK /\ ApiInv /\ ToldInv /\ [Next]_vars => ApiInv'
<1> SUFFICES ASSUME TypeOK, ApiInv, ToldInv, [Next]_vars PROVE ApiInv'
  OBVIOUS
<1> DEFINE Early == api \in {"none", "emplaced"} => /\ tasks = <<>> /\ iceObj = "none" /\ told = <<>>
                                                   /\ gstate = "INITIAL"
           Refs == /\ api = "none" => refs = {}
                   /\ api \in {"emplaced", "inited", "signalled"} => refs = {"map", "caller"}
                   /\ sink = ~Closed
           Place == at # "idle" => ~sink /\ ~sending
<1>0. /\ tasks \in Seq(Tasks) /\ sink \in BOOLEAN /\ sending \in BOOLEAN
      /\ api \in {"none", "emplaced", "inited", "signalled", "returned"}
  BY DEF TypeOK, PcTypeOK, ConnTypeOK
<1>a. Early /\ Refs /\ Place /\ CallTasks
  BY DEF ApiInv
<1>b. ASSUME Early', Refs', Place', CallTasks' PROVE ApiInv'
  BY <1>b, Zenon DEF ApiInv
<1> HIDE DEF Early, Refs, Place
<1>1. CASE UNCHANGED <<tasks, told, gstate, sink, api, refs, at, sending, iceObj>>
  BY <1>1, Zenon DEF ApiInv, CallTasks, Closed
<1>2. CASE Publish
  BY <1>0, <1>2, Zenon DEF Publish, ApiUnchanged, ApiInv, CallTasks, Closed, iceVars, connVars
<1>3. CASE PcInit
  <2>1. /\ api = "emplaced" /\ api' = "inited" /\ tasks = <<>> /\ tasks' = <<[type |-> "init"]>>
        /\ UNCHANGED <<told, gstate, sink, refs, at, sending>>
    BY <1>a, <1>3 DEF PcInit, Task, ApiUnchanged, connVars, Early
  <2>2. CallTasks'
    <3>1. told = <<>> /\ gstate = "INITIAL" /\ at = "idle"
      BY <1>a, <2>1, Zenon DEF Early, Refs, Place, Closed
    <3>2. \A i \in DOMAIN tasks' : i = 1 /\ tasks'[i].type = "init"
      BY <2>1
    <3> QED BY <2>1, <3>1, <3>2 DEF CallTasks
  <2> QED BY <1>a, <1>b, <2>1, <2>2, Zenon DEF Early, Refs, Place, Closed
<1>4. CASE Signalling
  <2>1. /\ api = "inited" /\ api' = "signalled" /\ Task([type |-> "offer"])
        /\ UNCHANGED <<told, gstate, sink, refs, at, sending>>
    BY <1>4 DEF Signalling, ApiUnchanged, connVars
  <2>2. [type |-> "offer"] \in Tasks
    BY Zenon DEF Tasks
  <2>3. CallTasks'
    BY <1>0, <1>a, <2>1, <2>2, TaskAppends DEF CallTasks
  <2> QED BY <1>a, <1>b, <2>1, <2>3, Zenon DEF Early, Refs, Place, Closed
<1>5. CASE PublishReturns
  BY <1>0, <1>5 DEF PublishReturns, ApiUnchanged, ApiInv, CallTasks, Closed, iceVars, connVars
<1>6. CASE Unpublish
  <2>1. /\ api = "returned" /\ api' = "returned" /\ Task([type |-> "close"])
        /\ sink' = FALSE /\ refs' = {"task"}
        /\ UNCHANGED <<told, gstate, at, sending>>
    BY <1>6 DEF Unpublish, ApiUnchanged, connVars
  <2>2. [type |-> "close"] \in Tasks
    BY Zenon DEF Tasks
  <2>3. CallTasks'
    BY <1>0, <1>a, <2>1, <2>2, TaskAppends DEF CallTasks
  <2> QED BY <1>a, <1>b, <2>1, <2>3, Zenon DEF Early, Refs, Place, Closed
<1>7. ASSUME NEW type, Starts(type), UNCHANGED <<sink, api, refs>>, Place'
      PROVE  ApiInv'
  <2>1. tasks # <<>>
    BY <1>7, Zenon DEF Starts
  <2>2. CallTasks'
    BY <1>0, <1>a, <1>7, StartsShifts DEF CallTasks
  <2> QED BY <1>a, <1>b, <1>7, <2>1, <2>2 DEF Early, Refs, Closed
<1>8. CASE RunExpired \/ RunCandidate \/ RunMedia \/ RunOffer
  <2>1. at = "idle" /\ at' = "idle" /\ UNCHANGED <<sink, api, refs>>
    BY <1>8, Zenon DEF RunExpired, RunCandidate, RunMedia, RunOffer, WorkerIdle, pcVars
  <2>2. PICK type : Starts(type)
    BY <1>8 DEF RunExpired, RunCandidate, RunMedia, RunOffer
  <2> QED BY <1>7, <2>1, <2>2, Zenon DEF Place
<1>9. CASE RunInit
  BY <1>7, <1>9, Zenon DEF RunInit, WorkerIdle, Place
<1>10. CASE RunIceState
  BY <1>7, <1>10, Zenon DEF RunIceState, WorkerIdle, Place
<1>11. ASSUME NEW o \in DtlsOutcomes, RunDtls(o) PROVE ApiInv'
  BY <1>7, <1>11 DEF RunDtls, WorkerIdle, Place
<1>12. CASE RunClose
  <2>1. Starts("close") /\ UNCHANGED <<sink, api, refs>>
    BY <1>12, Zenon DEF RunClose
  <2>2. ~sink
    BY <1>0, <1>a, <2>1, StartsShifts, Zenon DEF CallTasks
  <2>3. ~sending'
    BY <1>0, <1>12 DEF RunClose, ConnCloseBegins, connVars, ToldInv
  <2> QED BY <1>7, <2>1, <2>2, <2>3, Zenon DEF Place
<1>13. CASE CloseConnection \/ DestroyConnection
  <2>1. /\ at # "idle" /\ UNCHANGED <<tasks, sink, api, told, sending>>
        /\ ("map" \in refs' <=> "map" \in refs)
    BY <1>13, ZenonT(40) DEF CloseConnection, DestroyConnection, ConnCloseEnds, connVars
  <2>2. ~sink /\ ~sending /\ api = "returned"
    BY <1>0, <1>a, <2>1, Zenon DEF Place, Refs, Closed
  <2>3. CallTasks'
    BY <1>a, <2>1, Zenon DEF CallTasks
  <2> QED BY <1>0, <1>a, <1>b, <2>1, <2>2, <2>3, Zenon DEF Early, Refs, Place, Closed
<1>14. ASSUME NEW m \in {"audio", "video"}, RunWrite(m) PROVE ApiInv'
  BY <1>1, <1>14, Zenon DEF RunWrite, connVars, iceVars
<1>15. CASE LibniceCallback
  BY <1>1, <1>15 DEF LibniceCallback, pcVars, connVars
<1>16. CASE IoThread
  <2>1. /\ UNCHANGED <<told, gstate, sink, api, refs, at, sending, iceObj>>
        /\ iceObj # "none"
    BY <1>16 DEF IoThread, IoStep, IoAbandoned, pcVars, connVars
  <2>2. CASE tasks' = tasks
    BY <1>1, <2>1, <2>2, Zenon
  <2>3. CASE tasks' # tasks
    <3>1. PICK t \in Tasks : Task(t) /\ t.type \in {"ice", "candidate", "packet"}
      BY <1>16, <2>3, IoPosts, Zenon
    <3>2. CallTasks'
      BY <1>0, <1>a, <2>1, <3>1, TaskAppends, Zenon DEF CallTasks
    <3> QED BY <1>a, <1>b, <2>1, <3>2, Zenon DEF Early, Refs, Place, Closed
  <2> QED BY <2>2, <2>3, Zenon
<1>17. CASE UNCHANGED vars
  BY <1>1, <1>17 DEF vars, pcVars, connVars, iceVars
<1> QED
  BY <1>2, <1>3, <1>4, <1>5, <1>6, <1>8, <1>9, <1>10, <1>11, <1>12, <1>13, <1>14, <1>15, <1>16, <1>17, Zenon DEF Next, Application, WorkerThread

-----------------------------------------------------------------------------
(* The end of gathering. *)

(* The callbacks only ever add to what the application was told. *)
LEMMA ToldGrows ==
    ASSUME told \in Seq({"answer", "ready", "failed"}), Upcall
    PROVE  told' = told \/ told' # <<>>
BY DEF Upcall, NotifyEvent, CallbackFor

TaskToken(t) ==
    /\ Gathers(t) => gathered /\ told = <<>> /\ ~IoGathers
    /\ PeerNews(t) => told # <<>>
    /\ t.type = "ice" => t.state \notin {INITIAL, FINISHED}

LEMMA NextTokenInv == TypeOK /\ AgentInv /\ TokenInv /\ [Next]_vars => TokenInv'
<1> SUFFICES ASSUME TypeOK, AgentInv, TokenInv, [Next]_vars PROVE TokenInv'
  BY ZenonT(40)
<1> DEFINE Unique == \A i, j \in DOMAIN tasks : Gathers(tasks[i]) /\ Gathers(tasks[j]) => j = i
           Each == \A i \in DOMAIN tasks : TaskToken(tasks[i])
           IoToken == /\ told # <<>> => gathered
                      /\ IoGathers => gathered /\ told = <<>>
                      /\ io.at \notin {"idle", "candidate"} /\ ~IoGathers => told # <<>>
<1>0. /\ tasks \in Seq(Tasks) /\ told \in Seq({"answer", "ready", "failed"}) /\ io \in IoPlaces
  BY Zenon DEF TypeOK, PcTypeOK, IceTypeOK
<1>a. Unique /\ Each /\ IoToken
  BY Zenon DEF TokenInv, TaskToken
<1>b. ASSUME Unique', Each', IoToken' PROVE TokenInv'
  BY <1>b, Zenon DEF TokenInv, TaskToken
<1>1. CASE UNCHANGED <<tasks, told, gathered, io>>
  <2>1. UNCHANGED IoGathers
    BY <1>1, Zenon DEF IoGathers
  <2> QED BY <1>1, <2>1 DEF TokenInv, Gathers, PeerNews
(* A post of a task that is no news of the peer. *)
<1>2. ASSUME NEW t \in Tasks, Task(t), t.type \notin {"ice", "packet"},
             UNCHANGED <<told, gathered, io>>
      PROVE  TokenInv'
  <2>1. UNCHANGED IoGathers
    BY <1>2 DEF IoGathers
  <2>2. ~Gathers(t) /\ TaskToken(t)'
    BY <1>2, Zenon DEF TaskToken, Gathers, PeerNews
  <2>0. \A i \in DOMAIN tasks' : \/ i \in DOMAIN tasks /\ tasks'[i] = tasks[i]
                                 \/ i \notin DOMAIN tasks /\ i = Len(tasks) + 1 /\ tasks'[i] = t
    BY <1>0, <1>2 DEF Task
  <2>3. Unique'
    BY <1>a, <2>0, <2>2, Zenon DEF Gathers
  <2>4. Each'
    <3> SUFFICES ASSUME NEW i \in DOMAIN tasks' PROVE TaskToken(tasks[i])'
      BY Zenon
    <3>1. CASE i \in DOMAIN tasks /\ tasks'[i] = tasks[i]
      <4>1. TaskToken(tasks[i])
        BY <1>a, <3>1, Zenon
      <4> QED BY <1>2, <2>1, <3>1, <4>1, Zenon DEF TaskToken, Gathers, PeerNews
    <3>2. CASE tasks'[i] = t
      BY <2>2, <3>2, Zenon DEF TaskToken, Gathers, PeerNews
    <3> QED BY <2>0, <3>1, <3>2
  <2>5. IoToken'
    BY <1>a, <1>2, <2>1, Zenon
  <2> QED BY <1>b, <2>3, <2>4, <2>5, Zenon
(* A task that changes what the application was told was news. *)
<1>3. ASSUME NEW type, Starts(type), UNCHANGED <<gathered, io>>,
             \/ told' = told
             \/ told' # <<>> /\ (Gathers(tasks[1]) \/ PeerNews(tasks[1]))
      PROVE  TokenInv'
  <2>0. UNCHANGED IoGathers
    BY <1>3, Zenon DEF IoGathers
  <2>1. /\ 1 \in DOMAIN tasks
        /\ \A i \in DOMAIN tasks' : i + 1 \in DOMAIN tasks /\ i + 1 # 1 /\ tasks'[i] = tasks[i + 1]
    BY <1>0, <1>3, StartsShifts, Zenon
  <2>2. DOMAIN tasks \subseteq Int /\ DOMAIN tasks' \subseteq Int
    BY <1>0, <1>3, StartsType
  <2>3. Unique'
    <3> SUFFICES ASSUME NEW i \in DOMAIN tasks', NEW j \in DOMAIN tasks',
                        Gathers(tasks'[i]), Gathers(tasks'[j])
                 PROVE  j = i
      BY Zenon DEF Gathers
    <3>1. i + 1 = j + 1
      BY <1>a, <2>1
    <3> QED BY <2>2, <3>1
  <2>4. CASE told' = told
    <3>1. Each' /\ IoToken'
      BY <1>a, <1>3, <2>0, <2>1, <2>4 DEF TaskToken, Gathers, PeerNews
    <3> QED BY <1>b, <2>3, <3>1, Zenon
  <2>5. CASE told' # <<>> /\ (Gathers(tasks[1]) \/ PeerNews(tasks[1]))
    <3>1. gathered /\ ~IoGathers
      BY <1>a, <2>1, <2>5, Zenon DEF TaskToken
    <3>2. \A i \in DOMAIN tasks' : ~Gathers(tasks'[i])
      BY <1>a, <2>1, <2>5, Zenon DEF TaskToken
    <3>3. Each'
      BY <1>a, <2>1, <2>5, <3>2, Zenon DEF TaskToken, Gathers, PeerNews
    <3>4. IoToken'
      BY <1>3, <2>0, <2>5, <3>1, Zenon
    <3> QED BY <1>b, <2>3, <3>3, <3>4, Zenon
  <2> QED BY <1>3, <2>4, <2>5
<1>4. CASE Application
  <2>1. UNCHANGED <<told, gathered, io>>
    BY <1>4, Zenon DEF Application, Publish, PcInit, Signalling, PublishReturns, Unpublish, ApiUnchanged, iceVars
  <2>2. tasks' = tasks \/ \E t \in Tasks : Task(t) /\ t.type \in {"init", "offer", "close"}
    <3>1. /\ [type |-> "init"] \in Tasks /\ [type |-> "offer"] \in Tasks
          /\ [type |-> "close"] \in Tasks
      BY DEF Tasks
    <3> QED BY <1>4, <3>1, Zenon DEF Application, Publish, PcInit, Signalling, PublishReturns, Unpublish
  <2> QED BY <1>1, <1>2, <2>1, <2>2
<1>5. CASE RunExpired \/ RunInit \/ RunOffer \/ RunCandidate \/ RunMedia \/ RunClose
  <2>1. UNCHANGED <<told, gathered, io>>
    BY <1>5, Zenon DEF RunExpired, RunInit, RunOffer, RunCandidate, RunMedia, RunClose, SetRemoteSdp,
         IceStart, IceCloseRead, iceVars, pcVars
  <2>2. PICK type : Starts(type)
    BY <1>5, Zenon DEF RunExpired, RunInit, RunOffer, RunCandidate, RunMedia, RunClose
  <2> QED BY <1>3, <2>1, <2>2
<1>6. CASE RunIceState
  <2>1. Gathers(tasks[1]) \/ PeerNews(tasks[1])
    BY <1>0, <1>6, StartsShifts, Zenon DEF RunIceState, Gathers, PeerNews
  <2> QED BY <1>0, <1>3, <1>6, <2>1, ToldGrows, Zenon DEF RunIceState, iceVars
<1>7. ASSUME NEW o \in DtlsOutcomes, RunDtls(o) PROVE TokenInv'
  <2>1. PeerNews(tasks[1])
    BY <1>0, <1>7, StartsShifts, Zenon DEF RunDtls, PeerNews
  <2> QED BY <1>0, <1>3, <1>7, <2>1, ToldGrows DEF RunDtls, iceVars
<1>8. CASE CloseConnection \/ DestroyConnection
  BY <1>1, <1>8, Zenon DEF CloseConnection, DestroyConnection, IceCloseWrite, IceDestroy, iceVars
<1>9. ASSUME NEW m \in {"audio", "video"}, RunWrite(m) PROVE TokenInv'
  BY <1>1, <1>9, Zenon DEF RunWrite, iceVars
<1>10. CASE LibniceCallback
  <2>1. UNCHANGED <<tasks, told>> /\ io = Idle
    BY <1>10, Zenon DEF LibniceCallback, pcVars, CbGatheringDone, CbNewCandidate, CbComponentState,
         CbNewRemoteCandidate, CbRecv, Callback
  <2>2. Unique'
    BY <1>a, <2>1, Zenon DEF Gathers
  <2>3. CASE CbGatheringDone
    <3>1. ~gathered /\ gathered' /\ IoGathers'
      BY <2>3, Zenon DEF CbGatheringDone, IoGathers
    <3>2. told = <<>> /\ \A i \in DOMAIN tasks : ~Gathers(tasks[i])
      BY <1>a, <3>1, Zenon DEF TaskToken
    <3>3. Each' /\ IoToken'
      BY <1>a, <2>1, <3>1, <3>2, Zenon DEF TaskToken, Gathers, PeerNews
    <3> QED BY <1>b, <2>2, <3>3
  <2>4. CASE gathered' = gathered /\ ~IoGathers' /\ (told # <<>> \/ io'.at = "candidate")
    <3>1. Each' /\ IoToken'
      BY <1>a, <2>1, <2>4, Zenon DEF TaskToken, Gathers, PeerNews
    <3> QED BY <1>b, <2>2, <3>1
  <2>5. CASE CbNewCandidate
    BY <2>4, <2>5, Zenon DEF CbNewCandidate, IoGathers
  <2>6. ASSUME PeerHasAnswer, NEW st \in {READY, FAILED}, CbComponentState(st) PROVE TokenInv'
    BY <2>4, <2>6 DEF CbComponentState, IoGathers, PeerHasAnswer
  <2>7. CASE PeerHasAnswer /\ CbNewRemoteCandidate
    BY <2>4, <2>7, Zenon DEF CbNewRemoteCandidate, IoGathers, PeerHasAnswer
  <2>8. ASSUME PeerHasAnswer, NEW k \in PacketKinds, CbRecv(k) PROVE TokenInv'
    BY <2>4, <2>8, Zenon DEF CbRecv, IoGathers, PeerHasAnswer
  <2> QED BY <1>10, <2>3, <2>5, <2>6, <2>7, <2>8, Zenon DEF LibniceCallback
<1>11. CASE IoThread
  <2>0. UNCHANGED <<told, gathered>>
    BY <1>11, Zenon DEF IoThread, IoStep, IoAbandoned, pcVars
  <2>1. CASE tasks' = tasks
    <3>1. /\ IoGathers' => IoGathers
          /\ io'.at \notin {"idle", "candidate"} /\ ~IoGathers' =>
                io.at \notin {"idle", "candidate"} /\ ~IoGathers
      <4>1. CASE io' = Idle
        BY <4>1, Zenon DEF Idle, IoGathers
      <4>2. CASE io.at \in {"check", "set"} /\ io'.at \in {"set", "notify"} /\ io'.state = io.state
        BY <4>2 DEF IoGathers
      <4>3. CASE io.at = "data" /\ io'.at = "packet"
        BY <4>3 DEF IoGathers
      <4>4. /\ io.at \in {"check", "set"} => /\ [io EXCEPT !.at = "set"].at = "set"
                                             /\ [io EXCEPT !.at = "notify"].at = "notify"
                                             /\ [io EXCEPT !.at = "set"].state = io.state
                                             /\ [io EXCEPT !.at = "notify"].state = io.state
            /\ io.at = "data" => [io EXCEPT !.at = "packet"].at = "packet"
        BY <1>0 DEF IoPlaces, Idle
      <4> QED
        BY <1>11, <4>1, <4>2, <4>3, <4>4, Zenon DEF IoThread, IoStep, IoAbandoned, UpdateIceStateCheck,
          UpdateIceStateSet, UpdateIceStateNotify, GotCandidate, OnRemoteNewCandidate, OnDataRead, OnDataPost
    <3>2. Unique' /\ Each' /\ IoToken'
      BY <1>a, <2>0, <2>1, <3>1, Zenon DEF TaskToken, Gathers, PeerNews
    <3> QED BY <1>b, <3>2
  <2>2. ASSUME NEW t \in Tasks, Task(t), io' = Idle, TaskToken(t)',
               Gathers(t) => IoGathers
        PROVE  TokenInv'
    <3>1. ~IoGathers' /\ io'.at = "idle"
      BY <2>2, Zenon DEF Idle, IoGathers
    <3>0. \A i \in DOMAIN tasks' : \/ i \in DOMAIN tasks /\ tasks'[i] = tasks[i]
                                   \/ i \notin DOMAIN tasks /\ i = Len(tasks) + 1 /\ tasks'[i] = t
      BY <1>0, <2>2 DEF Task
    <3>2. Unique'
      <4>1. Gathers(t) => \A i \in DOMAIN tasks : ~Gathers(tasks[i])
        BY <1>a, <2>2, Zenon DEF TaskToken
      <4> QED BY <1>a, <3>0, <4>1, Zenon DEF Gathers
    <3>3. Each'
      <4> SUFFICES ASSUME NEW i \in DOMAIN tasks' PROVE TaskToken(tasks[i])'
        OBVIOUS
      <4>1. CASE i \in DOMAIN tasks /\ tasks'[i] = tasks[i]
        <5>1. TaskToken(tasks[i])
          BY <1>a, <4>1, Zenon
        <5> QED BY <2>0, <3>1, <4>1, <5>1, Zenon DEF TaskToken, Gathers, PeerNews
      <4>2. CASE tasks'[i] = t
        BY <2>2, <4>2, Zenon DEF TaskToken, Gathers, PeerNews
      <4> QED BY <3>0, <4>1, <4>2
    <3>4. IoToken'
      BY <1>a, <2>0, <3>1, Zenon
    <3> QED BY <1>b, <3>2, <3>3, <3>4
  <2>3. ASSUME io' = Idle PROVE ~IoGathers'
    BY <2>3, Zenon DEF Idle, IoGathers
  <2>4. CASE /\ io.at = "notify" /\ io' = Idle /\ [type |-> "ice", state |-> io.state] \in Tasks
             /\ Task([type |-> "ice", state |-> io.state])
    <3>0. PICK st : st = io.state
      BY Zenon
    <3> DEFINE t == [type |-> "ice", state |-> st]
    <3>1. t \in Tasks /\ Task(t)
      BY <2>4, <3>0, Zenon
    <3>2. st \notin {INITIAL, FINISHED}
      BY <2>4, <3>0 DEF AgentInv
    <3>3. t.type = "ice" /\ t.state = st
      BY Zenon
    <3>4. Gathers(t) => IoGathers /\ gathered /\ told = <<>>
      BY <1>a, <2>4, <3>0, <3>3, Zenon DEF Gathers, IoGathers
    <3>5. PeerNews(t) => told # <<>>
      BY <1>a, <2>4, <3>0, <3>3 DEF PeerNews, IoGathers
    <3> HIDE DEF t
    <3>6. TaskToken(t)'
      BY <2>0, <2>3, <2>4, <3>2, <3>3, <3>4, <3>5, Zenon DEF TaskToken, Gathers, PeerNews
    <3> QED BY <2>2, <2>4, <3>1, <3>4, <3>6
  <2>5. CASE io.at = "candidate" /\ io' = Idle /\ [type |-> "candidate"] \in Tasks /\ Task([type |-> "candidate"])
    BY <2>2, <2>5, Zenon DEF TaskToken, Gathers, PeerNews
  <2>6. CASE /\ io.at = "packet" /\ io' = Idle /\ [type |-> "packet", kind |-> io.kind] \in Tasks
             /\ Task([type |-> "packet", kind |-> io.kind])
    <3>1. told # <<>>
      BY <1>a, <2>6, Zenon DEF IoGathers
    <3> QED BY <2>0, <2>2, <2>6, <3>1, Zenon DEF TaskToken, Gathers, PeerNews
  <2> QED BY <1>11, <2>1, <2>4, <2>5, <2>6, IoPosts, Zenon
<1>12. CASE UNCHANGED vars
  BY <1>1, <1>12 DEF vars, pcVars, iceVars
<1> QED
  BY <1>4, <1>5, <1>6, <1>7, <1>8, <1>9, <1>10, <1>11, <1>12, Zenon DEF Next, WorkerThread

-----------------------------------------------------------------------------
(* What the application is told. *)

(* A task that can lead to an upcall, and the transport state it leaves:    *)
(* the end of gathering comes first, a failure or the end of the handshake *)
(* only after the application was told the answer.                         *)
LEMMA NewsBeforeUpcall ==
    ASSUME TypeOK, TokenInv, RunIceState \/ \E o \in DtlsOutcomes : RunDtls(o), tstate' # tstate
    PROVE  \/ tstate' = "GATHERED" /\ told = <<>>
           \/ tstate' \in {"READY", "FAILED"} /\ told # <<>>
<1>0. tasks \in Seq(Tasks)
  BY DEF TypeOK
<1>1. CASE RunIceState
  <2>1. 1 \in DOMAIN tasks /\ tasks[1] = Head(tasks) /\ tasks[1].type = "ice"
    BY <1>0, <1>1, StartsShifts, Zenon DEF RunIceState
  <2>2. tasks[1].state \in {CANDIDATES_RECEIVED, READY, FAILED}
    <3>1. tasks[1].state \in IceStates
      BY <1>0, <2>1 DEF Tasks
    <3>2. tasks[1].state \notin {INITIAL, FINISHED}
      BY <2>1, Zenon DEF TokenInv
    <3> QED BY <3>1, <3>2
  <2>3. /\ tasks[1].state = CANDIDATES_RECEIVED => told = <<>>
        /\ tasks[1].state # CANDIDATES_RECEIVED => told # <<>>
    BY <2>1 DEF TokenInv, Gathers, PeerNews
  <2>4. UpdateIceStateSync(tasks[1].state)
    BY <1>1, <2>1, Zenon DEF RunIceState
  <2> QED BY <2>2, <2>3, <2>4 DEF UpdateIceStateSync
<1>2. ASSUME NEW o \in DtlsOutcomes, RunDtls(o)
      PROVE  tstate' \in {"READY", "FAILED"} /\ told # <<>>
  <2>1. 1 \in DOMAIN tasks /\ tasks[1].type = "packet"
    BY <1>0, <1>2, StartsShifts, Zenon DEF RunDtls
  <2>2. told # <<>>
    BY <2>1, ZenonT(40) DEF TokenInv, PeerNews
  <2> QED BY <1>2, <2>2, Zenon DEF RunDtls, OnDtlsData, OnHandshakeCompleted, dtlsVars
<1> QED BY <1>1, <1>2

(* What one task does to the global state and tells the application. *)
ToldStep ==
    \/ UNCHANGED <<gstate, told, ready>>
    \/ ~sink /\ told' = told /\ gstate' # "FINISHED"
    \/ sink /\ gstate' = "GATHERED" /\ told = <<>> /\ told' = <<"answer">> /\ ready' = FALSE
    \/ sink /\ gstate' = "READY" /\ told = <<"answer">> /\ told' = <<"answer", "ready">>
    \/ sink /\ gstate' = "FAILED" /\ told = <<"answer">> /\ told' = <<"answer", "failed">>
    \/ /\ sink /\ gstate' = "FAILED" /\ told = <<"answer", "ready">>
       /\ told' = <<"answer", "ready", "failed">>

(* Appending to a tuple of one or two elements. *)
LEMMA AppendToOne ==
    ASSUME NEW S, NEW a \in S, NEW b \in S
    PROVE  Append(<<a>>, b) = <<a, b>>
<1>1. <<a>> \in Seq(S) /\ <<a, b>> \in Seq(S) /\ Len(<<a>>) = 1 /\ Len(<<a, b>>) = 2
  OBVIOUS
<1>2. Append(<<a>>, b) \in Seq(S) /\ Len(Append(<<a>>, b)) = 2
  BY <1>1
<1>3. \A i \in 1 .. 2 : Append(<<a>>, b)[i] = <<a, b>>[i]
  BY <1>1
<1> QED BY <1>1, <1>2, <1>3, SeqEqual, Zenon

LEMMA AppendToTwo ==
    ASSUME NEW S, NEW a \in S, NEW b \in S, NEW c \in S
    PROVE  Append(<<a, b>>, c) = <<a, b, c>>
<1>1. <<a, b>> \in Seq(S) /\ <<a, b, c>> \in Seq(S) /\ Len(<<a, b>>) = 2 /\ Len(<<a, b, c>>) = 3
  OBVIOUS
<1>2. Append(<<a, b>>, c) \in Seq(S) /\ Len(Append(<<a, b>>, c)) = 3
  BY <1>1
<1>3. \A i \in 1 .. 3 : Append(<<a, b>>, c)[i] = <<a, b, c>>[i]
  BY <1>1
<1> QED BY <1>1, <1>2, <1>3, SeqEqual, Zenon

(* The three ways in which the callbacks can be extended. *)
LEMMA Callbacks ==
    /\ Append(<<>>, "answer") = <<"answer">>
    /\ Append(<<"answer">>, "ready") = <<"answer", "ready">>
    /\ Append(<<"answer">>, "failed") = <<"answer", "failed">>
    /\ Append(<<"answer", "ready">>, "failed") = <<"answer", "ready", "failed">>
<1> DEFINE Said == {"answer", "ready", "failed"}
<1>1. "answer" \in Said /\ "ready" \in Said /\ "failed" \in Said
  OBVIOUS
<1>2. Append(<<>>, "answer") = <<"answer">>
  OBVIOUS
<1> QED BY <1>1, <1>2, AppendToOne, AppendToTwo, Zenon

(* A new transport state, the connection's answer to it and the callback,   *)
(* in the order in which the code makes them.                              *)
LEMMA UpcallTells ==
    ASSUME TypeOK, TokenInv, ToldInv, RunIceState \/ \E o \in DtlsOutcomes : RunDtls(o)
    PROVE  /\ ToldStep
           /\ sending' => sending /\ (gstate' # gstate => gstate' # "FAILED")
           /\ UNCHANGED <<observed, connection, sink, iceObj>>
           /\ gstate = "FAILED" => UNCHANGED <<gstate, told>>
           /\ gstate' = "FAILED" /\ gstate # "FAILED" => tstate' = "FAILED" /\ tstate # "FAILED"
<1>0. /\ gstate \in GlobalStates /\ sending \in BOOLEAN /\ sink \in BOOLEAN /\ ready \in BOOLEAN
      /\ told \in Seq({"answer", "ready", "failed"})
  BY Zenon DEF TypeOK, ConnTypeOK, PcTypeOK
<1>1. Upcall /\ UNCHANGED <<connection, sink, iceObj>> /\ iceObj = "alive"
  BY Zenon DEF RunIceState, RunDtls, iceVars, TransportAlive
<1>2. CASE tstate' = tstate
  BY <1>1, <1>2, Zenon DEF Upcall, connVars, ToldStep
<1>3. CASE tstate' # tstate
  <2>1. /\ UpdateState(tstate')
        /\ IF observed /\ gstate' # gstate THEN NotifyEvent(gstate') ELSE UNCHANGED <<told, ready>>
    BY <1>1, <1>3 DEF Upcall
  <2>2. \/ tstate' = "GATHERED" /\ told = <<>>
        \/ tstate' \in {"READY", "FAILED"} /\ told # <<>>
    BY <1>3, NewsBeforeUpcall
  <2>3. /\ gstate' = gstate \/ (gstate' = tstate' /\ gstate # "FAILED")
        /\ gstate = "FAILED" => gstate' = gstate
        /\ sending' = (sending /\ gstate' # "FAILED") /\ observed' = observed
    <3>1. gstate' = StateAfter(tstate') /\ sending' = (sending /\ gstate' # "FAILED") /\ observed' = observed
      BY <2>1 DEF UpdateState
    <3>2. gstate' = gstate \/ (gstate' = tstate' /\ gstate # "FAILED")
      BY <3>1 DEF StateAfter
    <3> QED BY <3>1, <3>2, Zenon
  <2>4. CASE gstate' = gstate
    BY <1>1, <2>1, <2>3, <2>4, Zenon DEF ToldStep
  <2>5. CASE gstate' # gstate
    <3>1. gstate' = tstate' /\ gstate # "FAILED"
      BY <2>3, <2>5
    <3>2. CASE ~sink
      <4>1. told' = told
        BY <2>1, <3>2, Zenon DEF NotifyEvent
      <4> QED BY <1>1, <1>3, <2>2, <2>3, <2>5, <3>1, <3>2, <4>1, Zenon DEF ToldStep
    <3>3. CASE sink
      <4>1. NotifyEvent(gstate')
        BY <1>1, <2>1, <2>5, <3>3 DEF ToldInv
      <4>2. CASE tstate' = "GATHERED" /\ told = <<>>
        <5>1. ready = FALSE
          <6>1. told # <<"answer">> /\ told # <<"answer", "ready">>
            BY <4>2
          <6> QED BY <1>0, <3>1, <3>3, <4>2, <6>1 DEF ToldInv, GlobalStates
        <5>2. told' = <<"answer">> /\ ready' = FALSE
          <6>1. gstate' = "GATHERED"
            BY <3>1, <4>2
          <6>2. CallbackFor(gstate') = "answer"
            BY <6>1 DEF CallbackFor
          <6>3. ready' = FALSE
            BY <4>1, <5>1, <6>1, Zenon DEF NotifyEvent
          <6> QED BY <3>3, <4>1, <4>2, <6>2, <6>3, Callbacks DEF NotifyEvent
        <5> QED BY <1>1, <1>3, <2>3, <3>1, <3>3, <4>2, <5>2, Zenon DEF ToldStep
      <4>3. CASE tstate' \in {"READY", "FAILED"} /\ told # <<>>
        <5>1. gstate \in {"GATHERED", "READY"}
          BY <1>0, <3>1, <3>3, <4>3 DEF ToldInv, GlobalStates
        <5>2. CASE tstate' = "READY"
          <6>1. told = <<"answer">> /\ ~ready
            BY <2>5, <3>1, <3>3, <5>1, <5>2, Zenon DEF ToldInv
          <6>2. told' = <<"answer", "ready">>
            <7>1. CallbackFor(gstate') = "ready"
              BY <3>1, <5>2, <6>1 DEF CallbackFor
            <7> QED BY <3>3, <4>1, <6>1, <7>1, Callbacks DEF NotifyEvent
          <6> QED BY <1>1, <1>3, <2>3, <3>1, <3>3, <5>2, <6>1, <6>2, Zenon DEF ToldStep
        <5>3. CASE tstate' = "FAILED"
          <6>1. told = <<"answer">> \/ told = <<"answer", "ready">>
            BY <3>3, <5>1 DEF ToldInv
          <6>2. told' = Append(told, "failed")
            BY <3>1, <3>3, <4>1, <5>3 DEF NotifyEvent, CallbackFor
          <6>3. /\ told = <<"answer">> => told' = <<"answer", "failed">>
                /\ told = <<"answer", "ready">> => told' = <<"answer", "ready", "failed">>
            BY <6>2, Callbacks, Zenon
          <6> QED BY <1>1, <1>3, <2>3, <3>1, <3>3, <5>3, <6>1, <6>3, Zenon DEF ToldStep
        <5> QED BY <4>3, <5>2, <5>3, Zenon
      <4> QED BY <2>2, <4>2, <4>3, Zenon
    <3> QED BY <3>2, <3>3
  <2> QED BY <2>4, <2>5
<1> QED BY <1>2, <1>3, Zenon

LEMMA NextToldInv == TypeOK /\ ApiInv /\ TokenInv /\ ToldInv /\ [Next]_vars => ToldInv'
<1> SUFFICES ASSUME TypeOK, ApiInv, TokenInv, ToldInv, [Next]_vars PROVE ToldInv'
  OBVIOUS
<1>0. sink \in BOOLEAN /\ sending \in BOOLEAN /\ told \in Seq({"answer", "ready", "failed"})
  BY Zenon DEF TypeOK, PcTypeOK, ConnTypeOK
<1>1. CASE /\ UNCHANGED <<told, iceObj, observed, connection, gstate, ready>>
           /\ (sink' => sink) /\ (sending' => sending)
  BY <1>1 DEF ToldInv
<1>2. CASE Application
  <2>1. ApiUnchanged /\ (sink' = sink \/ sink' = FALSE)
    BY <1>2, Zenon DEF Application, Publish, PcInit, Signalling, PublishReturns, Unpublish
  <2>2. UNCHANGED <<told, iceObj, observed, connection, gstate, ready, sending>>
    BY <2>1 DEF ApiUnchanged, iceVars, connVars
  <2> QED BY <1>1, <2>1, <2>2
<1>3. CASE RunExpired \/ RunCandidate \/ RunMedia
  BY <1>1, <1>3, Zenon DEF RunExpired, RunCandidate, RunMedia, pcVars, connVars, iceVars
<1>4. CASE RunInit
  BY <1>4, Zenon DEF RunInit, NewConnection, ToldInv, iceVars
<1>5. CASE RunOffer
  <2>1. /\ UNCHANGED <<told, connection, sink, ready, gstate, sending, observed>>
        /\ iceObj' = iceObj \/ (iceObj' = "alive" /\ sending)
    BY <1>5, Zenon DEF RunOffer, SetRemoteSdp, NewTransport, IceStart, connVars, iceVars
  <2> QED BY <2>1 DEF ToldInv
<1>6. CASE RunIceState \/ \E o \in DtlsOutcomes : RunDtls(o)
  <2>1. /\ ToldStep /\ (sending' => sending) /\ UNCHANGED <<observed, connection, sink, iceObj>>
        /\ iceObj = "alive"
    BY <1>6, UpcallTells, Zenon DEF RunIceState, RunDtls, TransportAlive
  <2>2. CASE UNCHANGED <<gstate, told, ready>>
    BY <1>1, <2>1, <2>2, Zenon
  <2>3. CASE ~sink
    BY <2>1, <2>3, Zenon DEF ToldInv
  <2>4. CASE sink /\ ~UNCHANGED <<gstate, told, ready>>
    BY <2>1, <2>4, Zenon DEF ToldInv, ToldStep
  <2> QED BY <2>2, <2>3, <2>4
<1>7. CASE RunClose
  <2>1. UNCHANGED <<told, iceObj, observed, connection, gstate, ready, sink>> /\ (sending' => sending)
    BY <1>7, Zenon DEF RunClose, ConnCloseBegins, IceCloseRead, connVars, iceVars
  <2> QED BY <1>1, <2>1, Zenon
<1>8. CASE CloseConnection \/ DestroyConnection
  <2>1. ~sink /\ ~sending
    BY <1>8, Zenon DEF CloseConnection, DestroyConnection, ApiInv
  <2>2. UNCHANGED <<told, sink, sending>> /\ (iceObj' = iceObj \/ iceObj' = "destroyed")
    BY <1>8, Zenon DEF CloseConnection, DestroyConnection, ConnCloseEnds, IceCloseWrite, IceDestroy, connVars, iceVars
  <2> QED BY <2>1, <2>2, Zenon DEF ToldInv
<1>9. ASSUME NEW m \in {"audio", "video"}, RunWrite(m) PROVE ToldInv'
  BY <1>1, <1>9, Zenon DEF RunWrite, connVars, iceVars
<1>10. CASE LibniceCallback \/ IoThread
  BY <1>1, <1>10, Zenon DEF LibniceCallback, IoThread, IoStep, IoAbandoned, pcVars, connVars
<1>11. CASE UNCHANGED vars
  BY <1>1, <1>11, ZenonT(40) DEF vars, pcVars, connVars, iceVars
<1> QED
  BY <1>2, <1>3, <1>4, <1>5, <1>6, <1>7, <1>8, <1>9, <1>10, <1>11, Zenon DEF Next, WorkerThread

-----------------------------------------------------------------------------
(* A failure ends the traffic. *)

(* Only an upcall that makes the connection fail says so. *)
LEMMA FailedByUpcall ==
    ASSUME ToldStep, HasFailed', ~HasFailed
    PROVE  gstate' = "FAILED" /\ told' # told
BY DEF ToldStep, HasFailed

LEMMA NextQuietInv == IInv /\ [Next]_vars => QuietInv'
<1> SUFFICES ASSUME IInv, [Next]_vars PROVE QuietInv'
  OBVIOUS
<1> USE DEF IInv
<1>0. /\ sending \in BOOLEAN /\ running \in BOOLEAN /\ handshaken \in BOOLEAN
      /\ gstate \in GlobalStates /\ tasks \in Seq(Tasks)
  BY DEF TypeOK, ConnTypeOK, DtlsTypeOK
<1>1. CASE /\ UNCHANGED <<told, gstate, iceObj, handshaken, at>>
           /\ (sending' => sending) /\ (running' => running)
  BY <1>1 DEF QuietInv, HasFailed
<1>2. CASE Application
  BY <1>1, <1>2, Zenon DEF Application, Publish, PcInit, Signalling, PublishReturns, Unpublish,
       ApiUnchanged, iceVars, connVars, dtlsVars
<1>3. CASE RunExpired \/ RunCandidate \/ RunMedia
  BY <1>1, <1>3, Zenon DEF RunExpired, RunCandidate, RunMedia, pcVars, connVars, iceVars, dtlsVars
<1>4. CASE RunInit
  <2>1. told = <<>> /\ gstate = "INITIAL"
    BY <1>0, <1>4, StartsShifts, Zenon DEF RunInit, ApiInv, CallTasks
  <2>2. told' = <<>> /\ gstate' = "INITIAL"
    BY <1>4, <2>1 DEF RunInit, NewConnection
  <2> QED BY <2>2 DEF QuietInv, HasFailed
<1>5. CASE RunOffer
  <2>1. UNCHANGED <<told, gstate, sending, at>>
    BY <1>5, Zenon DEF RunOffer, SetRemoteSdp, connVars
  <2>2. CASE sending
    <3>1. ~HasFailed' /\ gstate' # "FINISHED"
      BY <2>1, <2>2 DEF QuietInv, HasFailed
    <3> QED BY <3>1 DEF QuietInv
  <2>3. CASE ~sending
    BY <1>1, <1>5, <2>1, <2>3, Zenon DEF RunOffer, SetRemoteSdp, iceVars, dtlsVars
  <2> QED BY <2>2, <2>3
<1>6. CASE RunIceState \/ \E o \in DtlsOutcomes : RunDtls(o)
  <2>1. /\ ToldStep /\ sending' => sending
        /\ gstate = "FAILED" => UNCHANGED <<gstate, told>>
        /\ gstate' = "FAILED" /\ gstate # "FAILED" => tstate' = "FAILED" /\ tstate # "FAILED"
    BY <1>6, UpcallTells, Zenon
  <2>2. gstate # "FINISHED" /\ iceObj = "alive"
    BY <1>6 DEF RunIceState, RunDtls, TransportAlive, WorkerIdle, QuietInv
  <2>3. gstate' # "FINISHED"
    BY <1>6, <2>2, UpcallTells, Zenon DEF ToldStep
  <2>4. CASE HasFailed
    <3>1. gstate = "FAILED" /\ ~sending /\ (running => handshaken)
      BY <2>2, <2>4 DEF QuietInv
    <3>2. (running' => running) /\ handshaken' = handshaken
      BY <1>6, <3>1, Zenon DEF RunIceState, UpdateIceStateSync, RunDtls, OnDtlsData, dtlsVars
    <3>3. gstate' = "FAILED" /\ ~sending'
      BY <1>6, <2>1, <3>1, UpcallTells, Zenon
    <3> QED BY <2>3, <3>1, <3>2, <3>3 DEF QuietInv
  <2>5. CASE ~HasFailed /\ HasFailed'
    <3>1. gstate' = "FAILED" /\ told' # told
      BY <1>6, <2>5, FailedByUpcall, UpcallTells, Zenon
    <3>2. gstate # "FAILED" /\ tstate' = "FAILED" /\ tstate # "FAILED"
      BY <1>6, <3>1, UpcallTells, Zenon
    <3>3. running' => handshaken'
      <4>1. CASE RunIceState
        BY <3>2, <4>1, Zenon DEF RunIceState, UpdateIceStateSync
      <4>2. ASSUME NEW o \in DtlsOutcomes, RunDtls(o) PROVE running' => handshaken'
        BY <3>2, <4>2, Zenon DEF RunDtls, OnDtlsData, OnHandshakeCompleted, dtlsVars
      <4> QED BY <1>6, <4>1, <4>2
    <3>4. ~sending'
      BY <1>6, <3>1, <3>2, UpcallTells, Zenon
    <3> QED BY <2>3, <3>1, <3>3, <3>4, Zenon DEF QuietInv
  <2>6. CASE ~HasFailed'
    BY <2>3, <2>6 DEF QuietInv
  <2> QED BY <2>4, <2>5, <2>6, Zenon
<1>7. CASE RunClose
  <2>1. UNCHANGED <<told, gstate, iceObj, handshaken>> /\ (sending' => sending) /\ (running' => running)
    BY <1>7, Zenon DEF RunClose, ConnCloseBegins, IceCloseRead, TransportCloseBegins, connVars, iceVars, dtlsVars
  <2>2. at = "idle"
    BY <1>7 DEF RunClose, WorkerIdle
  <2> QED BY <2>1, <2>2, Zenon DEF QuietInv, HasFailed
<1>8. CASE CloseConnection
  <2>1. ~sending
    BY <1>8, Zenon DEF CloseConnection, ApiInv
  <2>2. /\ UNCHANGED <<told, sending, running, handshaken>> /\ at' = "destroying"
        /\ gstate' = gstate \/ gstate' = "FINISHED"
    BY <1>8 DEF CloseConnection, ConnCloseEnds, TransportCloseEnds, connVars, dtlsVars
  <2> QED BY <2>1, <2>2, Zenon DEF QuietInv, HasFailed
<1>9. CASE DestroyConnection
  <2>1. UNCHANGED <<told, gstate, sending, running, handshaken>> /\ iceObj' # "alive"
    BY <1>9, Zenon DEF DestroyConnection, IceDestroy, TransportAlive, iceVars, connVars, dtlsVars
  <2> QED BY <2>1, Zenon DEF QuietInv, HasFailed
<1>10. ASSUME NEW m \in {"audio", "video"}, RunWrite(m) PROVE QuietInv'
  BY <1>1, <1>10, Zenon DEF RunWrite, Write, connVars, iceVars, dtlsVars
<1>11. CASE LibniceCallback \/ IoThread
  BY <1>1, <1>11, Zenon DEF LibniceCallback, IoThread, IoStep, IoAbandoned, pcVars, connVars, dtlsVars
<1>12. CASE UNCHANGED vars
  BY <1>1, <1>12, Zenon DEF vars, pcVars, connVars, iceVars, dtlsVars
<1> QED
  BY <1>2, <1>3, <1>4, <1>5, <1>6, <1>7, <1>8, <1>9, <1>10, <1>11, <1>12, Zenon DEF Next, WorkerThread

-----------------------------------------------------------------------------
(* The invariant. *)

LEMMA InitIInv == Init => IInv
<1> SUFFICES ASSUME Init PROVE IInv
  OBVIOUS
<1> USE DEF Init, WorkerInit, IceInit, DtlsInit, ConnInit
<1>1. TypeOK
  <2>1. IceTypeOK
    <3>1. candidates \in 0 .. MaxCandidates /\ packets \in 0 .. MaxPackets
      BY BoundsAssumption DEF BoundsAssumption
    <3>2. io \in IoPlaces
      BY Zenon DEF IoPlaces
    <3>3. iceState \in IceStates
      OBVIOUS
    <3>4. unrefs \in Nat
      BY Zenon
    <3>5. closeSeen \in IceStates \cup {NotClosing}
      OBVIOUS
    <3>6. listener \in BOOLEAN /\ agent \in BOOLEAN /\ gathered \in BOOLEAN
      BY Zenon
    <3>7. iceObj \in {"none", "alive", "destroyed"}
      OBVIOUS
    <3> QED BY <3>1, <3>2, <3>3, <3>4, <3>5, <3>6, <3>7, Zenon DEF IceTypeOK
  <2>2. DtlsTypeOK /\ ConnTypeOK
    BY Zenon DEF DtlsTypeOK, ConnTypeOK, TransportStates, GlobalStates
  <2>3. PcTypeOK /\ tasks \in Seq(Tasks)
    <3>1. writes \in 0 .. MaxWrites
      BY BoundsAssumption DEF BoundsAssumption
    <3>2. told \in Seq({"answer", "ready", "failed"}) /\ tasks \in Seq(Tasks) /\ tracks \in Nat
      OBVIOUS
    <3> QED BY <3>1, <3>2, Zenon DEF PcTypeOK
  <2> QED BY <2>1, <2>2, <2>3, Zenon DEF TypeOK
<1>2. ApiInv
  <2>1. CallTasks
    BY DEF CallTasks
  <2>2. sink = TRUE /\ Closed = FALSE
    BY Zenon DEF Closed
  <2> QED BY <2>1, <2>2, Zenon DEF ApiInv
<1>3. AgentInv
  BY Zenon DEF AgentInv, Idle
<1>4. TokenInv
  <2>1. ~IoGathers /\ io.at = "idle"
    BY Zenon DEF IoGathers, Idle
  <2>2. told = <<>> /\ DOMAIN tasks = {}
    OBVIOUS
  <2> QED BY <2>1, <2>2, Zenon DEF TokenInv
<1>5. ToldInv /\ QuietInv
  BY DEF ToldInv, QuietInv, HasFailed
<1> QED BY <1>1, <1>2, <1>3, <1>4, <1>5 DEF IInv

LEMMA NextIInv == IInv /\ [Next]_vars => IInv'
BY NextTypeOK, NextApiInv, NextAgentInv, NextTokenInv, NextToldInv, NextQuietInv DEF IInv

LEMMA AlwaysIInv == Spec => []IInv
BY InitIInv, NextIInv, PTL DEF Spec

-----------------------------------------------------------------------------
(* The theorems. *)

(* The state of a peer connection is well typed; in particular its worker  *)
(* is handed only tasks it has a handler for.                              *)
THEOREM PcTypeCorrect == Spec => []TypeOK
<1>1. IInv => TypeOK
  BY DEF IInv
<1> QED BY <1>1, AlwaysIInv, PTL

(* LibNiceConnection::close and the destructors release the libnice agent  *)
(* exactly once, although ice_state_ is written by two threads without a   *)
(* common lock.                                                            *)
THEOREM AgentReleasedExactlyOnce == Spec => []AgentReleasedOnce
<1>1. IInv => AgentReleasedOnce
  <2> SUFFICES ASSUME IInv PROVE AgentReleasedOnce
    OBVIOUS
  <2>1. iceObj \in {"none", "alive", "destroyed"}
    BY DEF IInv, TypeOK, IceTypeOK
  <2>2. unrefs \in {0, 1}
    BY <2>1 DEF IInv, AgentInv
  <2> QED BY <2>2 DEF IInv, AgentInv, AgentReleasedOnce
<1> QED BY <1>1, AlwaysIInv, PTL

(* After onFailed no datagram is sent and no media reaches the tracks, for *)
(* any number of datagrams still queued on the worker.                     *)
THEOREM FailedIsQuiet == Spec => QuietAfterFailed
<1>1. IInv /\ [Next]_vars =>
         [(\E i \in DOMAIN told : told[i] = "failed") => sent' = sent /\ mediaIn' = mediaIn]_vars
  <2> SUFFICES ASSUME IInv, [Next]_vars, HasFailed PROVE sent' = sent /\ mediaIn' = mediaIn
    BY Zenon DEF HasFailed
  <2>0. gstate # "READY" /\ ~sending /\ (running => handshaken) /\ mediaIn \in BOOLEAN
    BY DEF IInv, QuietInv, TypeOK, PcTypeOK
  <2>1. CASE Application
    BY <2>1, Zenon DEF Application, Publish, PcInit, Signalling, PublishReturns, Unpublish, ApiUnchanged, dtlsVars
  <2>2. CASE RunExpired \/ RunCandidate \/ RunInit \/ RunOffer
    BY <2>2, Zenon DEF RunExpired, RunCandidate, RunInit, RunOffer, SetRemoteSdp, NewTransport, dtlsVars, pcVars
  <2>3. CASE RunIceState
    BY <2>3, Zenon DEF RunIceState, UpdateIceStateSync
  <2>4. ASSUME NEW o \in DtlsOutcomes, RunDtls(o) PROVE sent' = sent /\ mediaIn' = mediaIn
    BY <2>0, <2>4 DEF RunDtls, OnDtlsData, dtlsVars
  <2>5. CASE RunMedia
    BY <2>0, <2>5, Zenon DEF RunMedia, DeliversData, dtlsVars
  <2>6. CASE RunClose \/ CloseConnection \/ DestroyConnection
    BY <2>6, ZenonT(40) DEF RunClose, CloseConnection, DestroyConnection, TransportCloseBegins, TransportCloseEnds, dtlsVars
  <2>7. ASSUME NEW m \in {"audio", "video"}, RunWrite(m) PROVE sent' = sent /\ mediaIn' = mediaIn
    BY <2>0, <2>7, Zenon DEF RunWrite, dtlsVars
  <2>8. CASE LibniceCallback \/ IoThread
    BY <2>8, Zenon DEF LibniceCallback, IoThread, pcVars, dtlsVars
  <2>9. CASE UNCHANGED vars
    BY <2>9, Zenon DEF vars, pcVars, dtlsVars
  <2> QED
    BY <2>1, <2>2, <2>3, <2>4, <2>5, <2>6, <2>7, <2>8, <2>9, Zenon DEF Next, WorkerThread
<1> QED BY <1>1, AlwaysIInv, PTL DEF Spec, QuietAfterFailed

(* Every step of the peer connection is a step of PeerLifecycle or leaves  *)
(* what the application has been told, and whether it has closed, alone.   *)
LEMMA StepRefines == IInv /\ [Next]_vars => [Lifecycle!Next]_<<told, Closed>>
<1> SUFFICES ASSUME IInv, [Next]_vars PROVE [Lifecycle!Next]_<<told, Closed>>
  BY Zenon
<1>0. sink = ~Closed /\ told \in Seq({"answer", "ready", "failed"})
  BY DEF IInv, ApiInv, TypeOK, PcTypeOK
<1>1. CASE UNCHANGED <<told, api, refs>>
  BY <1>1, Zenon DEF Closed
<1>2. CASE Publish \/ PcInit \/ Signalling
  BY <1>2, Zenon DEF Publish, PcInit, Signalling, ApiUnchanged, Closed
<1>3. CASE PublishReturns
  <2>1. "map" \in refs
    BY <1>3, Zenon DEF PublishReturns, IInv, ApiInv
  <2> QED BY <1>3, <2>1, Zenon DEF PublishReturns, ApiUnchanged, Closed
<1>4. CASE Unpublish
  BY <1>4 DEF Unpublish, ApiUnchanged, Closed, Lifecycle!Next, Lifecycle!Close
<1>5. CASE RunIceState \/ \E o \in DtlsOutcomes : RunDtls(o)
  <2>1. ToldStep /\ UNCHANGED <<api, refs>>
    BY <1>5, UpcallTells, Zenon DEF IInv, RunIceState, RunDtls
  <2>2. Closed' = Closed
    BY <2>1 DEF Closed
  <2>3. CASE told' = told
    BY <2>2, <2>3
  <2>4. CASE told' # told
    <3>1. ~Closed
      BY <1>0, <2>1, <2>4, Zenon DEF ToldStep
    <3> QED BY <2>1, <2>2, <2>4, <3>1, Callbacks, Zenon DEF ToldStep, Lifecycle!Next, Lifecycle!Answer, Lifecycle!Ready, Lifecycle!Fail, Lifecycle!Tell
  <2> QED BY <2>3, <2>4
<1>6. CASE RunExpired \/ RunInit \/ RunOffer \/ RunCandidate \/ RunMedia \/ RunClose
  BY <1>1, <1>6, Zenon DEF RunExpired, RunInit, RunOffer, RunCandidate, RunMedia, RunClose, pcVars
<1>7. CASE CloseConnection \/ DestroyConnection
  <2>1. UNCHANGED <<told, api>> /\ ("map" \in refs' <=> "map" \in refs)
    BY <1>7 DEF CloseConnection, DestroyConnection
  <2> QED BY <2>1, Zenon DEF Closed
<1>8. ASSUME NEW m \in {"audio", "video"}, RunWrite(m) PROVE [Lifecycle!Next]_<<told, Closed>>
  BY <1>1, <1>8, Zenon DEF RunWrite
<1>9. CASE LibniceCallback \/ IoThread \/ UNCHANGED vars
  BY <1>1, <1>9, ZenonT(40) DEF LibniceCallback, IoThread, vars, pcVars
<1> QED
  BY <1>2, <1>3, <1>4, <1>5, <1>6, <1>7, <1>8, <1>9, Zenon DEF Next, Application, WorkerThread

(* The peer connection implements PeerLifecycle: one answer, then one       *)
(* onReady, one final onFailed, nothing after close(), for every offer and *)
(* every interleaving of the worker, the IO thread and the application.    *)
THEOREM ImplementsLifecycle == Spec => LifecycleKept
<1>1. Init => Lifecycle!Init
  BY DEF Init, Lifecycle!Init, Closed
<1> QED BY <1>1, StepRefines, AlwaysIInv, PTL DEF Spec, LifecycleKept, Lifecycle!Spec

-----------------------------------------------------------------------------
(* The states of the transport and of the connection. *)

(* The transport is ready or failed only after the answer, failed only with *)
(* nothing left to shake hands for, and then agrees with the connection.    *)
AgreeInv ==
    /\ iceObj = "none" => tstate = "INITIAL" /\ gstate \in {"INITIAL", "FINISHED"}
    /\ iceObj = "alive" => transport # "none"
    /\ tstate \in {"READY", "FAILED"} => told # <<>>
    /\ tstate = "FAILED" /\ running => handshaken
    /\ StatesAgree

(* What a task that changes the transport's state starts from. *)
LEMMA LeavesState ==
    ASSUME IInv, AgreeInv, RunIceState \/ \E o \in DtlsOutcomes : RunDtls(o), tstate' # tstate
    PROVE  /\ tstate # "FAILED"
           /\ tstate' \in {"GATHERED", "READY", "FAILED"}
           /\ tstate' = "GATHERED" => tstate # "READY"
           /\ tstate' \in {"READY", "FAILED"} => told # <<>>
           /\ tstate' = "FAILED" /\ running' => handshaken'
<1>1. \/ tstate' = "GATHERED" /\ told = <<>>
      \/ tstate' \in {"READY", "FAILED"} /\ told # <<>>
  BY NewsBeforeUpcall DEF IInv
<1>2. running \in BOOLEAN /\ handshaken \in BOOLEAN
  BY DEF IInv, TypeOK, DtlsTypeOK
<1>3. CASE RunIceState
  <2>1. running /\ tstate' \in {"STARTED", "GATHERED", "FAILED"}
        /\ (tstate' = "FAILED" => running' = FALSE)
    <3>1. PICK x : UpdateIceStateSync(x)
      BY <1>3, Zenon DEF RunIceState
    <3>2. running
      BY <3>1 DEF UpdateIceStateSync
    <3>3. tstate' \in {"STARTED", "GATHERED", "FAILED"}
      BY <3>1 DEF UpdateIceStateSync
    <3>4. tstate' = "FAILED" => x = FAILED
      BY <3>1 DEF UpdateIceStateSync
    <3>5. tstate' = "FAILED" => running' = FALSE
      BY <3>1, <3>4, Zenon DEF UpdateIceStateSync
    <3> QED BY <3>2, <3>3, <3>5
  <2> QED BY <1>1, <2>1 DEF AgreeInv
<1>4. ASSUME NEW o \in DtlsOutcomes, RunDtls(o)
      PROVE  running /\ ~handshaken /\ (tstate' = "FAILED" /\ running' => handshaken')
  BY <1>2, <1>4, Zenon DEF RunDtls, OnDtlsData, OnHandshakeCompleted, dtlsVars
<1> QED BY <1>1, <1>3, <1>4 DEF AgreeInv

LEMMA NextAgreeInv == IInv /\ AgreeInv /\ [Next]_vars => AgreeInv'
<1> SUFFICES ASSUME IInv, AgreeInv, [Next]_vars PROVE AgreeInv'
  OBVIOUS
<1>0. /\ sending \in BOOLEAN /\ running \in BOOLEAN /\ handshaken \in BOOLEAN
      /\ tasks \in Seq(Tasks) /\ told \in Seq({"answer", "ready", "failed"})
      /\ iceObj \in {"none", "alive", "destroyed"}
  BY Zenon DEF IInv, TypeOK, ConnTypeOK, DtlsTypeOK, PcTypeOK, IceTypeOK
<1>1. CASE /\ UNCHANGED <<told, gstate, tstate, iceObj, handshaken, at, transport, bundle, channels>>
           /\ (sending' => sending) /\ (running' => running)
  BY <1>1 DEF AgreeInv, StatesAgree, WorkerIdle, TransportAlive, AllChannels
<1>2. CASE Application
  BY <1>1, <1>2, Zenon DEF Application, Publish, PcInit, Signalling, PublishReturns, Unpublish,
       ApiUnchanged, iceVars, connVars, dtlsVars
<1>3. CASE RunExpired \/ RunCandidate \/ RunMedia
  BY <1>1, <1>3, Zenon DEF RunExpired, RunCandidate, RunMedia, pcVars, connVars, iceVars, dtlsVars
<1>4. CASE RunInit
  <2>1. gstate = "INITIAL"
    BY <1>0, <1>4, StartsShifts, Zenon DEF RunInit, IInv, ApiInv, CallTasks
  <2>2. UNCHANGED <<told, gstate, tstate, iceObj, handshaken, running, at, transport, bundle, channels>>
    BY <1>4, Zenon DEF RunInit, NewConnection, iceVars, dtlsVars
  <2> QED BY <2>1, <2>2 DEF AgreeInv, StatesAgree, WorkerIdle, TransportAlive, AllChannels
<1>5. CASE RunOffer
  <2>1. UNCHANGED <<told, gstate, tstate, handshaken, sending, at>>
    BY <1>5, Zenon DEF RunOffer, SetRemoteSdp, NewTransport, connVars, dtlsVars
  <2>2. CASE UNCHANGED <<connVars, dtlsVars, iceVars>>
    <3>1. UNCHANGED <<running, iceObj, transport, bundle, channels>>
      BY <2>2 DEF connVars, dtlsVars, iceVars
    <3> QED BY <1>1, <2>1, <3>1, Zenon
  <2>3. CASE ~UNCHANGED <<connVars, dtlsVars, iceVars>>
    <3>1. /\ sending /\ ~firstSdp
          /\ \/ iceObj' = iceObj
             \/ iceObj' = "alive" /\ transport' \in {"audio", "video"}
      BY <1>5, <2>3, Zenon DEF RunOffer, SetRemoteSdp, IceStart, iceVars
    <3>2. iceObj = "none" /\ gstate # "FINISHED"
      BY <1>0, <3>1 DEF IInv, AgentInv, QuietInv
    <3>3. tstate = "INITIAL" /\ gstate = "INITIAL"
      BY <3>2 DEF AgreeInv
    <3> QED BY <2>1, <3>1, <3>2, <3>3 DEF AgreeInv, StatesAgree
  <2> QED BY <2>2, <2>3
<1>6. CASE RunIceState \/ \E o \in DtlsOutcomes : RunDtls(o)
  <2>1. /\ Upcall /\ iceObj = "alive" /\ at = "idle"
        /\ UNCHANGED <<iceObj, at>>
    BY <1>6, Zenon DEF RunIceState, RunDtls, TransportAlive, WorkerIdle, iceVars
  <2>2. told' = told \/ told' # <<>>
    BY <1>0, <2>1, ToldGrows
  <2>3. /\ UNCHANGED <<transport, bundle, channels>> /\ (sending' => sending)
    BY <1>0, <2>1, Zenon DEF Upcall, UpdateState, connVars
  <2>4. StatesAgree /\ transport # "none"
    BY <2>1 DEF AgreeInv
  <2>5. CASE tstate' = tstate
    <3>1. UNCHANGED <<gstate, told>>
      BY <2>1, <2>5, Zenon DEF Upcall, connVars
    <3>2. tstate = "FAILED" /\ running' => handshaken'
      BY <1>0, <1>6, Zenon DEF AgreeInv, RunIceState, UpdateIceStateSync, RunDtls, OnDtlsData, dtlsVars
    <3>3. StatesAgree'
      BY <2>1, <2>3, <2>4, <2>5, <3>1 DEF StatesAgree, WorkerIdle, TransportAlive, AllChannels
    <3> QED BY <2>1, <2>3, <2>4, <2>5, <3>1, <3>2, <3>3, Zenon DEF AgreeInv
  <2>6. CASE tstate' # tstate
    <3>1. /\ tstate # "FAILED"
          /\ tstate' \in {"GATHERED", "READY", "FAILED"}
          /\ tstate' = "GATHERED" => tstate # "READY"
          /\ tstate' \in {"READY", "FAILED"} => told # <<>>
          /\ tstate' = "FAILED" /\ running' => handshaken'
      BY <1>6, <2>6, LeavesState
    <3>2. gstate' = StateAfter(tstate') /\ sending' = (sending /\ gstate' # "FAILED")
      BY <2>1, <2>6, Zenon DEF Upcall, UpdateState
    <3>3. /\ gstate # "FAILED" /\ (gstate = "READY" => tstate = "READY")
          /\ gstate \in {"GATHERED", "READY"} => (bundle \/ AllChannels)
      BY <2>1, <2>4, <3>1, Zenon DEF StatesAgree, WorkerIdle, TransportAlive
    <3>4. \/ tstate' = "FAILED" /\ gstate' = "FAILED"
          \/ tstate' # "FAILED" /\ gstate' = tstate' /\ (bundle \/ AllChannels)
          \/ tstate' # "FAILED" /\ gstate' = gstate
      BY <2>4, <3>1, <3>2, <3>3 DEF StateAfter
    <3>5. AllChannels' = AllChannels
      BY <2>3 DEF AllChannels
    <3>6. StatesAgree'
      <4>1. gstate' = "FAILED" => ~sending'
        BY <3>2, Zenon
      <4>2. gstate' = "FAILED" <=> tstate' = "FAILED"
        BY <3>3, <3>4
      <4>3. gstate' = "READY" => tstate' = "READY"
        BY <2>6, <3>1, <3>3, <3>4
      <4>4. gstate' \in {"GATHERED", "READY"} => (bundle \/ AllChannels)
        BY <3>3, <3>4
      <4> QED BY <2>3, <3>5, <4>1, <4>2, <4>3, <4>4, Zenon DEF StatesAgree
    <3> QED BY <2>1, <2>2, <2>3, <2>4, <3>1, <3>6 DEF AgreeInv
  <2> QED BY <2>5, <2>6
<1>7. CASE RunClose
  <2>1. /\ UNCHANGED <<told, gstate, tstate, iceObj, handshaken, transport>>
        /\ (running' => running) /\ at' = "closing"
    BY <1>7, Zenon DEF RunClose, ConnCloseBegins, IceCloseRead, TransportCloseBegins, connVars, iceVars, dtlsVars
  <2> QED BY <2>1 DEF AgreeInv, StatesAgree, WorkerIdle
<1>8. CASE CloseConnection
  <2>1. /\ UNCHANGED <<told, iceObj, handshaken, running, transport>> /\ at' = "destroying"
        /\ gstate' = gstate \/ gstate' = "FINISHED"
        /\ tstate' = tstate \/ (tstate' = "FINISHED" /\ iceObj = "alive")
    BY <1>8, Zenon DEF CloseConnection, ConnCloseEnds, TransportCloseEnds, IceCloseWrite, TransportAlive,
         connVars, iceVars, dtlsVars
  <2> QED BY <2>1 DEF AgreeInv, StatesAgree, WorkerIdle
<1>9. CASE DestroyConnection
  <2>1. /\ UNCHANGED <<told, gstate, tstate, handshaken, running, transport>>
        /\ iceObj' # "alive" /\ (iceObj' = "none" => iceObj = "none")
    BY <1>9, Zenon DEF DestroyConnection, IceDestroy, TransportAlive, iceVars, connVars, dtlsVars
  <2> QED BY <2>1 DEF AgreeInv, StatesAgree, TransportAlive
<1>10. ASSUME NEW m \in {"audio", "video"}, RunWrite(m) PROVE AgreeInv'
  BY <1>1, <1>10, Zenon DEF RunWrite, Write, connVars, iceVars, dtlsVars
<1>11. CASE LibniceCallback \/ IoThread
  BY <1>1, <1>11, Zenon DEF LibniceCallback, IoThread, IoStep, IoAbandoned, pcVars, connVars, dtlsVars
<1>12. CASE UNCHANGED vars
  BY <1>1, <1>12, Zenon DEF vars, pcVars, connVars, iceVars, dtlsVars
<1> QED
  BY <1>2, <1>3, <1>4, <1>5, <1>6, <1>7, <1>8, <1>9, <1>10, <1>11, <1>12, Zenon DEF Next, WorkerThread

(* Between two tasks the states of the transport and of the connection     *)
(* agree, in every order of handshake, ICE events and closes.              *)
THEOREM StatesAlwaysAgree == Spec => []StatesAgree
<1>1. Init => AgreeInv
  BY DEF Init, IceInit, DtlsInit, ConnInit, AgreeInv, StatesAgree, TransportAlive
<1>2. AgreeInv => StatesAgree
  BY DEF AgreeInv
<1> QED BY <1>1, <1>2, NextAgreeInv, AlwaysIInv, PTL DEF Spec

-----------------------------------------------------------------------------
(* The pointers of the peer connection. *)

(* init_i has run, or no longer needs to. *)
Created == connection = "live" \/ ~PcAlive

(* The init task is still queued, ahead of all others. *)
InitQueued == tasks # <<>> /\ tasks[1].type = "init"

NullInv ==
    /\ iceObj # "none" => localSdp
    /\ api = "returned" => "caller" \notin refs
    /\ api = "inited" => Created \/ InitQueued
    /\ \A i \in DOMAIN tasks : tasks[i].type = "offer" => Created \/ (InitQueued /\ i # 1)

(* A post at the end of the queue keeps the init task at its head. *)
LEMMA PostKeepsInit ==
    ASSUME NEW t \in Tasks, tasks \in Seq(Tasks), Task(t), InitQueued
    PROVE  InitQueued'
<1>1. tasks # <<>> /\ tasks[1].type = "init" /\ tasks' = Append(tasks, t)
  BY DEF Task, InitQueued
<1>2. Len(tasks) \in Nat /\ Len(tasks) > 0
  BY <1>1
<1>3. tasks' # <<>> /\ tasks'[1] = tasks[1]
  BY <1>1, <1>2
<1> QED BY <1>1, <1>3 DEF InitQueued

LEMMA NextNullInv == IInv /\ NullInv /\ [Next]_vars => NullInv'
<1> SUFFICES ASSUME IInv, NullInv, [Next]_vars PROVE NullInv'
  OBVIOUS
<1>0. /\ tasks \in Seq(Tasks) /\ localSdp \in BOOLEAN /\ refs \subseteq {"map", "caller", "task"}
      /\ api \in {"none", "emplaced", "inited", "signalled", "returned"}
  BY Zenon DEF IInv, TypeOK, PcTypeOK
<1>1. CASE UNCHANGED <<tasks, connection, refs, api, localSdp, iceObj>>
  BY <1>1, Zenon DEF NullInv, Created, InitQueued, PcAlive
<1>2. CASE Publish
  <2>1. api = "none" /\ api' = "emplaced" /\ UNCHANGED <<tasks, localSdp, iceObj>>
    BY <1>2, Zenon DEF Publish, ApiUnchanged, iceVars
  <2>2. tasks = <<>>
    BY <2>1, Zenon DEF IInv, ApiInv
  <2>3. \A i \in DOMAIN tasks' : FALSE
    BY <2>1, <2>2
  <2> QED BY <2>1, <2>3, Zenon DEF NullInv
(* A post by a step that leaves the connection alone. *)
<1>3. ASSUME NEW t \in Tasks, Task(t), UNCHANGED <<connection, localSdp, iceObj>>,
             PcAlive' = PcAlive,
             api' = "returned" => "caller" \notin refs',
             api' = "inited" => api = "inited" \/ InitQueued',
             t.type = "offer" => api = "inited"
      PROVE  NullInv'
  <2>1. InitQueued => InitQueued'
    BY <1>0, <1>3, PostKeepsInit
  <2>2. Created' = Created
    BY <1>3, Zenon DEF Created
  <2>3. \A i \in DOMAIN tasks' : \/ i \in DOMAIN tasks /\ tasks'[i] = tasks[i]
                                 \/ i \notin DOMAIN tasks /\ i = Len(tasks) + 1 /\ tasks'[i] = t
    BY <1>0, <1>3, TaskAppends, ZenonT(40)
  <2>4. ASSUME NEW i \in DOMAIN tasks', tasks'[i].type = "offer"
        PROVE  Created' \/ (InitQueued' /\ i # 1)
    <3>1. CASE i \in DOMAIN tasks /\ tasks'[i] = tasks[i]
      BY <2>1, <2>2, <2>4, <3>1, Zenon DEF NullInv
    <3>2. CASE i = Len(tasks) + 1 /\ tasks'[i] = t
      <4>1. Created \/ InitQueued
        BY <1>3, <2>4, <3>2, Zenon DEF NullInv
      <4>2. InitQueued => i # 1
        BY <1>0, <3>2 DEF InitQueued
      <4> QED BY <2>1, <2>2, <4>1, <4>2, Zenon
    <3> QED BY <2>3, <3>1, <3>2
  <2> QED BY <1>3, <2>1, <2>2, <2>4, Zenon DEF NullInv
<1>4. CASE PcInit
  <2>1. /\ api = "emplaced" /\ api' = "inited" /\ tasks = <<>> /\ Task([type |-> "init"])
        /\ UNCHANGED <<connection, localSdp, iceObj, refs>>
    BY <1>4, Zenon DEF PcInit, ApiUnchanged, IInv, ApiInv, iceVars
  <2>2. tasks' = <<[type |-> "init"]>>
    BY <2>1 DEF Task
  <2>3. InitQueued'
    BY <2>2 DEF InitQueued
  <2>4. [type |-> "init"] \in Tasks
    BY Zenon DEF Tasks
  <2> QED BY <1>3, <2>1, <2>3, <2>4 DEF PcAlive
<1>5. CASE Signalling
  <2>1. [type |-> "offer"] \in Tasks
    BY Zenon DEF Tasks
  <2>2. /\ api = "inited" /\ api' = "signalled" /\ Task([type |-> "offer"])
        /\ UNCHANGED <<connection, localSdp, iceObj, refs>>
    BY <1>5, Zenon DEF Signalling, ApiUnchanged, iceVars
  <2> QED BY <1>3, <2>1, <2>2 DEF PcAlive
<1>6. CASE PublishReturns
  <2>1. /\ api = "signalled" /\ api' = "returned" /\ refs' = refs \ {"caller"}
        /\ UNCHANGED <<tasks, connection, localSdp, iceObj>>
    BY <1>6, Zenon DEF PublishReturns, ApiUnchanged, iceVars
  <2>2. refs = {"map", "caller"}
    BY <2>1, Zenon DEF IInv, ApiInv
  <2>3. PcAlive /\ PcAlive' /\ "caller" \notin refs'
    BY <2>1, <2>2 DEF PcAlive
  <2> QED BY <2>1, <2>3, Zenon DEF NullInv, Created, InitQueued
<1>7. CASE Unpublish
  <2>1. [type |-> "close"] \in Tasks
    BY Zenon DEF Tasks
  <2>2. /\ api = "returned" /\ api' = "returned" /\ Task([type |-> "close"]) /\ refs' = {"task"}
        /\ "map" \in refs /\ UNCHANGED <<connection, localSdp, iceObj>>
    BY <1>7, Zenon DEF Unpublish, ApiUnchanged, iceVars
  <2> QED BY <1>3, <2>1, <2>2 DEF PcAlive
(* A task at the head of the queue starts. *)
<1>8. ASSUME NEW type, Starts(type), UNCHANGED <<refs, api>>,
             iceObj' # "none" => localSdp',
             type = "init" => Created',
             Created => Created'
      PROVE  NullInv'
  <2>1. /\ 1 \in DOMAIN tasks /\ tasks[1].type = type
        /\ \A i \in DOMAIN tasks' : i + 1 \in DOMAIN tasks /\ tasks'[i] = tasks[i + 1]
    BY <1>0, <1>8, StartsShifts, Zenon
  <2>2. InitQueued => Created'
    BY <1>8, <2>1, Zenon DEF InitQueued
  <2>3. \A i \in DOMAIN tasks' : tasks'[i].type = "offer" => Created'
    BY <1>8, <2>1, <2>2, Zenon DEF NullInv
  <2> QED BY <1>8, <2>2, <2>3, Zenon DEF NullInv
<1>9. CASE RunExpired
  <2>1. PICK type : Starts(type) /\ (type = "init" => ~PcAlive)
    BY <1>9 DEF RunExpired
  <2>2. UNCHANGED <<refs, api, connection, iceObj, localSdp>>
    BY <1>9, Zenon DEF RunExpired, pcVars, iceVars
  <2> QED BY <1>8, <2>1, <2>2, Zenon DEF Created, PcAlive, NullInv
<1>10. CASE RunInit
  <2>1. Starts("init") /\ connection' = "live" /\ UNCHANGED <<refs, api, iceObj, localSdp>>
    BY <1>10, Zenon DEF RunInit, iceVars
  <2> QED BY <1>8, <2>1, Zenon DEF Created, NullInv
<1>11. CASE RunOffer
  <2>1. Starts("offer") /\ UNCHANGED <<refs, api, connection>>
    BY <1>11, Zenon DEF RunOffer
  <2>2. iceObj' # "none" => localSdp'
    BY <1>0, <1>11, Zenon DEF RunOffer, NullInv, iceVars
  <2>3. Created => Created'
    BY <2>1, Zenon DEF Created, PcAlive
  <2>4. "offer" # "init"
    OBVIOUS
  <2> QED BY <1>8, <2>1, <2>2, <2>3, <2>4, Zenon
<1>12. CASE RunCandidate \/ RunMedia \/ RunIceState \/ \E o \in DtlsOutcomes : RunDtls(o)
  <2>1. PICK type \in {"candidate", "packet", "ice"} : Starts(type)
    BY <1>12 DEF RunCandidate, RunMedia, RunIceState, RunDtls
  <2>2. UNCHANGED <<refs, api, connection, iceObj, localSdp>>
    BY <1>12, Zenon DEF RunCandidate, RunMedia, RunIceState, RunDtls, pcVars, iceVars
  <2>3. type # "init"
    BY <2>1
  <2> QED BY <1>8, <2>1, <2>2, <2>3, Zenon DEF Created, PcAlive, NullInv
<1>13. CASE RunClose
  <2>1. Starts("close") /\ UNCHANGED <<refs, api, connection, iceObj, localSdp>>
    BY <1>13, Zenon DEF RunClose, IceCloseRead, iceVars
  <2>2. "close" # "init"
    OBVIOUS
  <2> QED BY <1>8, <2>1, <2>2, Zenon DEF Created, PcAlive, NullInv
<1>14. CASE CloseConnection
  <2>1. UNCHANGED <<tasks, connection, refs, api, localSdp, iceObj>>
    BY <1>14, Zenon DEF CloseConnection, IceCloseWrite, iceVars
  <2> QED BY <1>1, <2>1, Zenon
<1>15. CASE DestroyConnection
  <2>1. /\ at # "idle" /\ UNCHANGED <<tasks, api, localSdp>> /\ refs' = refs \ {"task"}
        /\ iceObj' # "none" => iceObj # "none"
    BY <1>15, Zenon DEF DestroyConnection, IceDestroy, TransportAlive, iceVars
  <2>2. api = "returned" /\ "map" \notin refs /\ "caller" \notin refs
    BY <1>0, <2>1, Zenon DEF IInv, ApiInv, Closed, NullInv
  <2>3. refs' = {}
    BY <1>0, <2>1, <2>2
  <2>4. Created'
    BY <2>3, Zenon DEF Created, PcAlive
  <2> QED BY <2>1, <2>3, <2>4, Zenon DEF NullInv
<1>16. ASSUME NEW m \in {"audio", "video"}, RunWrite(m) PROVE NullInv'
  BY <1>1, <1>16, Zenon DEF RunWrite, iceVars
<1>17. CASE LibniceCallback
  BY <1>1, <1>17, Zenon DEF LibniceCallback, pcVars
<1>18. CASE IoThread
  <2>1. UNCHANGED <<connection, refs, api, localSdp, iceObj>>
    BY <1>18, Zenon DEF IoThread, IoStep, IoAbandoned, pcVars
  <2>2. CASE tasks' = tasks
    BY <1>1, <2>1, <2>2, Zenon
  <2>3. CASE tasks' # tasks
    <3>1. PICK t \in Tasks : Task(t) /\ t.type \in {"ice", "candidate", "packet"}
      BY <1>18, <2>3, IoPosts, Zenon DEF IInv
    <3>2. t.type # "offer"
      BY <3>1
    <3> QED BY <1>3, <2>1, <3>1, <3>2, Zenon DEF PcAlive, NullInv
  <2> QED BY <2>2, <2>3, Zenon
<1>19. CASE UNCHANGED vars
  BY <1>1, <1>19, Zenon DEF vars, pcVars, iceVars
<1> QED
  BY <1>2, <1>4, <1>5, <1>6, <1>7, <1>9, <1>10, <1>11, <1>12, <1>13, <1>14, <1>15, <1>16, <1>17, <1>18, <1>19,
     Zenon DEF Next, Application, WorkerThread

(* processOffer always finds connection_, and the end of gathering finds    *)
(* local_sdp_, in whatever order the worker, the IO thread and the          *)
(* application run.                                                         *)
THEOREM NeverNull == Spec => []NoNullDereference
<1>1. Init => NullInv
  BY DEF Init, WorkerInit, IceInit, NullInv
<1>2. IInv /\ NullInv => NoNullDereference
  <2> SUFFICES ASSUME IInv, NullInv, tasks # <<>> PROVE NoNullDereference
    BY Zenon DEF NoNullDereference
  <2>1. tasks \in Seq(Tasks)
    BY DEF IInv, TypeOK
  <2>2. 1 \in DOMAIN tasks /\ Head(tasks) = tasks[1]
    BY <2>1
  <2>3. Head(tasks).type = "offer" => Created
    BY <2>2, Zenon DEF NullInv
  <2>4. TransportAlive => localSdp
    BY DEF NullInv, TransportAlive
  <2> QED BY <2>3, <2>4, Zenon DEF NoNullDereference, Created
<1> QED BY <1>1, <1>2, NextNullInv, AlwaysIInv, PTL DEF Spec

=============================================================================
