--------------------------- MODULE IceConnection ----------------------------
(***************************************************************************)
(* The ICE layer of one transport: erizo::IceConnection and its libnice    *)
(* implementation.  Two threads meet here.  The worker starts and closes   *)
(* the connection; the IO thread (the glib loop of an IOWorker) runs the   *)
(* libnice callbacks.  close() holds close_mutex_, updateIceState() holds  *)
(* nothing: on the IO thread its test of ice_state_, its assignment and    *)
(* its use of listener_ are three separate steps.                          *)
(***************************************************************************)
EXTENDS Worker

CONSTANTS
    MaxCandidates,      \* bound: local candidates libnice reports
    MaxPackets          \* bound: datagrams libnice hands over

(* enum IceState; the code compares the states with <=. *)
INITIAL             == 0
CANDIDATES_RECEIVED == 1
READY               == 2
FINISHED            == 3
FAILED              == 4

IceStates == INITIAL .. FAILED
NotClosing == -1

VARIABLES
    iceObj,     \* the LibNiceConnection: not created, alive, destroyed
    iceState,   \* ice_state_
    listener,   \* listener_ holds the transport
    agent,      \* agent_ # NULL
    unrefs,     \* number of g_object_unref(agent_) executed
    closeSeen,  \* ice_state_ as close() read it while it holds close_mutex_
    io,         \* what the IO thread is doing for this connection
    gathered,   \* libnice has signalled candidate-gathering-done
    candidates, \* local candidates reported so far
    packets     \* datagrams received so far

iceVars == <<iceObj, iceState, listener, agent, unrefs, closeSeen, io,
             gathered, candidates, packets>>

Idle == [at |-> "idle"]

PacketKinds == {"dtls", "media"}

(* Idle, inside updateIceState, gotCandidate, onRemoteNewCandidate, onData. *)
IoPlaces ==
    {Idle} \cup [at : {"check", "set", "notify"}, state : IceStates]
           \cup [at : {"candidate", "remote"}]
           \cup [at : {"data", "packet"}, kind : PacketKinds]

IceTypeOK ==
    /\ iceObj \in {"none", "alive", "destroyed"}
    /\ iceState \in IceStates
    /\ listener \in BOOLEAN
    /\ agent \in BOOLEAN
    /\ unrefs \in Nat
    /\ closeSeen \in IceStates \cup {NotClosing}
    /\ io \in IoPlaces
    /\ gathered \in BOOLEAN
    /\ candidates \in 0 .. MaxCandidates
    /\ packets \in 0 .. MaxPackets

IceInit ==
    /\ iceObj = "none"
    /\ iceState = INITIAL
    /\ listener = FALSE
    /\ agent = FALSE
    /\ unrefs = 0
    /\ closeSeen = NotClosing
    /\ io = Idle
    /\ gathered = FALSE
    /\ candidates = 0
    /\ packets = 0

-----------------------------------------------------------------------------
(* The worker's side. *)

(* The constructor, setIceListener and start: the agent exists and gathers. *)
IceStart ==
    /\ iceObj' = "alive"
    /\ listener' = TRUE
    /\ agent' = TRUE
    /\ UNCHANGED <<iceState, unrefs, closeSeen, io, gathered, candidates, packets>>

(* close() takes close_mutex_ and reads ice_state_. *)
IceCloseRead ==
    /\ closeSeen = NotClosing
    /\ closeSeen' = iceState
    /\ UNCHANGED <<iceObj, iceState, listener, agent, unrefs, io, gathered,
                   candidates, packets>>

(* Mutant of CloseEffect: agent_ is not set to NULL after the unref. *)
CloseEffectKeepsAgent(seen) ==
    IF seen = FINISHED
    THEN UNCHANGED <<iceState, listener, agent, unrefs>>
    ELSE /\ \/ seen < FINISHED /\ iceState' = FINISHED
            \/ FAILED \in {seen, iceState} /\ UNCHANGED iceState
         /\ listener' = FALSE
         /\ unrefs' = IF agent THEN unrefs + 1 ELSE unrefs
         /\ UNCHANGED agent

(* Mutant of CloseEffect: a failed connection counts as already closed. *)
CloseEffectSkipsFailed(seen) ==
    IF seen >= FINISHED
    THEN UNCHANGED <<iceState, listener, agent, unrefs>>
    ELSE /\ iceState' = FINISHED
         /\ listener' = FALSE
         /\ agent' = FALSE
         /\ unrefs' = IF agent THEN unrefs + 1 ELSE unrefs

(* What close() leaves when it read the state seen: nothing changes when it *)
(* was FINISHED.  updateIceState(FINISHED) reads the state again and does   *)
(* nothing if it is FAILED by then; it overwrites a FAILED that is assigned *)
(* between its test and its assignment.                                     *)
CloseEffect(seen) ==
    IF seen = FINISHED
    THEN UNCHANGED <<iceState, listener, agent, unrefs>>
    ELSE /\ \/ seen < FINISHED /\ iceState' = FINISHED
            \/ FAILED \in {seen, iceState} /\ UNCHANGED iceState
         /\ listener' = FALSE
         /\ agent' = FALSE
         /\ unrefs' = IF agent THEN unrefs + 1 ELSE unrefs

(* The rest of close(), up to the release of close_mutex_. *)
IceCloseWrite ==
    /\ closeSeen # NotClosing
    /\ CloseEffect(closeSeen)
    /\ closeSeen' = NotClosing
    /\ UNCHANGED <<iceObj, io, gathered, candidates, packets>>

(* ~LibNiceConnection calls close() once more. *)
IceDestroy ==
    /\ CloseEffect(iceState)
    /\ iceObj' = "destroyed"
    /\ UNCHANGED <<closeSeen, io, gathered, candidates, packets>>

-----------------------------------------------------------------------------
(* libnice calls back on the IO thread, as long as the agent is referenced. *)
Callback == io = Idle /\ agent

CbGatheringDone ==
    /\ Callback /\ ~gathered
    /\ gathered' = TRUE
    /\ io' = [at |-> "check", state |-> CANDIDATES_RECEIVED]
    /\ UNCHANGED <<candidates, packets>>

CbNewCandidate ==
    /\ Callback /\ ~gathered /\ candidates < MaxCandidates
    /\ candidates' = candidates + 1
    /\ io' = [at |-> "candidate"]
    /\ UNCHANGED <<gathered, packets>>

(* updateComponentState with the one component every transport has: a      *)
(* failure is ignored unless the connection was READY.                      *)
CbComponentState(state) ==
    /\ Callback
    /\ state = FAILED => iceState = READY
    /\ io' = [at |-> "check", state |-> state]
    /\ UNCHANGED <<gathered, candidates, packets>>

CbNewRemoteCandidate ==
    /\ Callback
    /\ io' = [at |-> "remote"]
    /\ UNCHANGED <<gathered, candidates, packets>>

CbRecv(kind) ==
    /\ Callback /\ packets < MaxPackets
    /\ packets' = packets + 1
    /\ io' = [at |-> "data", kind |-> kind]
    /\ UNCHANGED <<gathered, candidates>>

-----------------------------------------------------------------------------
(* The IO thread inside a callback. *)

(* Mutant of UpdateIceStateCheck: only a jump of two states is a change. *)
UpdateIceStateCheckOff ==
    /\ io.at = "check"
    /\ io' = IF io.state <= iceState + 1 THEN Idle ELSE [io EXCEPT !.at = "set"]
    /\ UNCHANGED <<iceState, listener, agent, unrefs, tasks>>

(* updateIceState: the test. *)
UpdateIceStateCheck ==
    /\ io.at = "check"
    /\ io' = IF io.state <= iceState THEN Idle ELSE [io EXCEPT !.at = "set"]
    /\ UNCHANGED <<iceState, listener, agent, unrefs, tasks>>

(* updateIceState: the assignment. *)
UpdateIceStateSet ==
    /\ io.at = "set"
    /\ iceState' = io.state
    /\ io' = [io EXCEPT !.at = "notify"]
    /\ UNCHANGED <<listener, agent, unrefs, tasks>>

(* updateIceState: the listener posts the new state to the worker. *)
UpdateIceStateNotify ==
    /\ io.at = "notify"
    /\ IF listener THEN Task([type |-> "ice", state |-> io.state])
                   ELSE UNCHANGED tasks
    /\ io' = Idle
    /\ UNCHANGED <<iceState, listener, agent, unrefs>>

(* gotCandidate: IPv6 candidates and those without a port are skipped. *)
GotCandidate ==
    /\ io.at = "candidate"
    /\ \/ listener /\ Task([type |-> "candidate"])
       \/ UNCHANGED tasks
    /\ io' = Idle
    /\ UNCHANGED <<iceState, listener, agent, unrefs>>

(* setRemoteCandidates on the IO thread closes when the agent is gone. *)
OnRemoteNewCandidate ==
    /\ io.at = "remote"
    /\ \/ agent /\ UNCHANGED <<iceState, listener, agent, unrefs>>
       \/ ~agent /\ closeSeen = NotClosing /\ CloseEffect(iceState)
    /\ io' = Idle
    /\ UNCHANGED tasks

(* onData: the state is read under close_mutex_, used after its release. *)
OnDataRead ==
    /\ io.at = "data"
    /\ closeSeen = NotClosing
    /\ io' = IF iceState = READY THEN [io EXCEPT !.at = "packet"] ELSE Idle
    /\ UNCHANGED <<iceState, listener, agent, unrefs, tasks>>

OnDataPost ==
    /\ io.at = "packet"
    /\ IF listener THEN Task([type |-> "packet", kind |-> io.kind])
                   ELSE UNCHANGED tasks
    /\ io' = Idle
    /\ UNCHANGED <<iceState, listener, agent, unrefs>>

IoStep ==
    /\ iceObj = "alive"
    /\ \/ UpdateIceStateCheck \/ UpdateIceStateSet \/ UpdateIceStateNotify
       \/ GotCandidate \/ OnRemoteNewCandidate \/ OnDataRead \/ OnDataPost
    /\ UNCHANGED <<iceObj, closeSeen, gathered, candidates, packets>>

(* A callback that is still running when its object is destroyed has no     *)
(* further effect that the model describes.                                 *)
IoAbandoned ==
    /\ iceObj = "destroyed" /\ io # Idle
    /\ io' = Idle
    /\ UNCHANGED <<iceObj, iceState, listener, agent, unrefs, closeSeen,
                   gathered, candidates, packets, tasks>>

=============================================================================
