--------------------------- MODULE DtlsTransport ----------------------------
(***************************************************************************)
(* erizo::DtlsTransport in the passive (server) role, the only one the     *)
(* stack creates.  All of it runs on the worker: the ICE layer's events    *)
(* arrive as tasks.  OpenSSL is external; handling one DTLS datagram has   *)
(* one of the outcomes below.  The upcall to the connection is made by the *)
(* module that composes the two, whenever a step changes tstate.           *)
(***************************************************************************)
EXTENDS IceConnection

(* What one run of doHandshakeIteration leads to: it wants more datagrams, *)
(* it completes, it completes but the SRTP keys are refused, it completes  *)
(* without a certificate of the peer, it fails.                            *)
DtlsOutcomes == {"wantRead", "completed", "srtpRefused", "unauthenticated", "failed"}

TransportStates == {"INITIAL", "STARTED", "GATHERED", "READY", "FINISHED", "FAILED"}

VARIABLES
    tstate,     \* state_
    running,    \* running_
    rtcpMux,    \* no second DTLS context for RTCP
    handshaken, \* mHandshakeCompleted of the RTP context
    sent,       \* number of datagrams handed to libnice
    alerts      \* DTLS alerts produced by OpenSSL, and those handed to libnice

dtlsVars == <<tstate, running, rtcpMux, handshaken, sent, alerts>>

DtlsTypeOK ==
    /\ tstate \in TransportStates
    /\ running \in BOOLEAN
    /\ rtcpMux \in BOOLEAN
    /\ handshaken \in BOOLEAN
    /\ sent \in Nat
    /\ alerts \in [due : Nat, sent : Nat]

DtlsInit ==
    /\ tstate = "INITIAL"
    /\ running = FALSE
    /\ rtcpMux = FALSE
    /\ handshaken = FALSE
    /\ sent = 0
    /\ alerts = [due |-> 0, sent |-> 0]

(* The constructor. *)
NewTransport(mux) ==
    /\ running' = TRUE
    /\ rtcpMux' = mux
    /\ UNCHANGED <<tstate, handshaken, sent, alerts>>

(* updateIceStateSync.  READY starts nothing: the peer opens the handshake. *)
UpdateIceStateSync(state) ==
    /\ tstate' = CASE running /\ state = INITIAL              -> "STARTED"
                   [] running /\ state = CANDIDATES_RECEIVED  -> "GATHERED"
                   [] running /\ state = FAILED               -> "FAILED"
                   [] OTHER                                   -> tstate
    /\ running' = (running /\ state # FAILED)
    /\ UNCHANGED <<rtcpMux, handshaken, sent, alerts>>

(* onHandshakeCompleted of the RTP context: without rtcp-mux the transport *)
(* also waits for the handshake of its RTCP context.                       *)
OnHandshakeCompleted(outcome) ==
    tstate' = CASE outcome = "srtpRefused"            -> "FAILED"
                [] outcome = "completed" /\ rtcpMux   -> "READY"
                [] OTHER                              -> tstate

(* writeOnIce and sendData, with the running_ flag the step leaves. *)
Writes == running' /\ iceState = READY

(* Mutant of OnDtlsData: onHandshakeFailed leaves running_ set. *)
OnDtlsDataKeepsRunning(outcome) ==
    IF ~running \/ handshaken
    THEN UNCHANGED dtlsVars
    ELSE /\ handshaken' = (outcome \notin {"wantRead", "failed"})
         /\ running' = running
         /\ IF outcome = "failed" THEN tstate' = "FAILED"
                                  ELSE OnHandshakeCompleted(outcome)
         /\ sent' \in {sent, IF Writes THEN sent + 1 ELSE sent}
         /\ UNCHANGED <<rtcpMux, alerts>>

(* onIceData with a DTLS datagram, down to doHandshakeIteration: OpenSSL    *)
(* may leave a datagram to send, which is an alert if the handshake failed. *)
OnDtlsData(outcome) ==
    IF ~running \/ handshaken
    THEN UNCHANGED dtlsVars
    ELSE /\ handshaken' = (outcome \notin {"wantRead", "failed"})
         /\ running' = (outcome # "failed")
         /\ IF outcome = "failed" THEN tstate' = "FAILED"
                                  ELSE OnHandshakeCompleted(outcome)
         /\ \/ UNCHANGED <<sent, alerts>>
            \/ /\ sent' = IF Writes THEN sent + 1 ELSE sent
               /\ alerts' = IF outcome # "failed" THEN alerts
                            ELSE [due |-> alerts.due + 1,
                                  sent |-> alerts.sent + (IF Writes THEN 1 ELSE 0)]
         /\ UNCHANGED rtcpMux

(* onIceData with SRTP or SRTCP hands it to the connection, or drops it. *)
AcceptsMedia == running /\ tstate = "READY"

(* write: the packet is protected and sent, or dropped if that fails. *)
Write ==
    /\ \/ running /\ tstate = "READY" /\ iceState = READY /\ sent' = sent + 1
       \/ UNCHANGED sent
    /\ UNCHANGED <<tstate, running, rtcpMux, handshaken, alerts>>

(* close, up to the call of ice_->close(), and the rest of it. *)
TransportCloseBegins ==
    /\ running' = FALSE
    /\ UNCHANGED <<tstate, rtcpMux, handshaken, sent, alerts>>

TransportCloseEnds ==
    /\ tstate' = "FINISHED"
    /\ UNCHANGED <<running, rtcpMux, handshaken, sent, alerts>>

=============================================================================
