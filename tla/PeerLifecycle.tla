--------------------------- MODULE PeerLifecycle ----------------------------
(***************************************************************************)
(* What one peer connection promises the application through its           *)
(* WebrtcAgentSink: at most one answer, then at most one onReady, at most  *)
(* one onFailed which ends everything, and nothing once the connection has *)
(* been closed.                                                            *)
(***************************************************************************)
EXTENDS Sequences

VARIABLES
    told,       \* the callbacks made so far, in order
    closed      \* the application has closed the connection

Init == told = <<>> /\ closed = FALSE

Tell(callback) == ~closed /\ told' = Append(told, callback) /\ UNCHANGED closed

Answer == told = <<>> /\ Tell("answer")

Ready == told = <<"answer">> /\ Tell("ready")

Fail == told \in {<<"answer">>, <<"answer", "ready">>} /\ Tell("failed")

Close == ~closed /\ closed' = TRUE /\ UNCHANGED told

Next == Answer \/ Ready \/ Fail \/ Close

Spec == Init /\ [][Next]_<<told, closed>>

=============================================================================
