------------------------------ MODULE KeyFrames ------------------------------
(***************************************************************************)
(* Video from VideoFrameConstructor to VideoFramePacketizer, and requests   *)
(* for key frames back: the gate of VideoSendAdapterImpl::onFrame, which    *)
(* drops frames until a key frame comes, and the counter that lets the      *)
(* constructor ask its sender for a key frame once instead of once per      *)
(* dropped frame.                                                           *)
(*                                                                          *)
(* The frames posted to a packetizer and the feedback posted to a           *)
(* constructor wait in queues, on the worker of the one that gets them.     *)
(* Link-ups, frames and timeouts are tasks of the publisher's worker.       *)
(*                                                                          *)
(* Every publisher has had its first packet, so that its receive adapter    *)
(* and its timer of a second exist, and request_keyframe_period_ has its    *)
(* default -1: no key frames are asked for besides.                         *)
(***************************************************************************)
EXTENDS Integers, Sequences

CONSTANTS
    Pubs, Subs,
    MaxLinks,       \* link-ups of a subscriber, a bound of the model
    Numbers,        \* frames are numbered modulo this
    TaskBound      \* bound on the queues, a limit of the model

ASSUME BoundsAssumption ==
    MaxLinks \in Nat /\ Numbers \in Nat \ {0} /\ TaskBound \in Nat \ {0}

VARIABLES
    linked,         \* publishers with the packetizer among their destinations
    source,         \* m_video_src of the packetizer
    linkups,        \* link-ups so far
    number,         \* number of the publisher's next frame
    wanted,         \* the sender has been told to send a key frame
    reqKeyFrame,    \* reqKeyFrame_ of the receive adapter
    pending,        \* pendingKeyFrameRequests_; 2 stands for 2 and more
    asks,           \* RequestKeyFrame calls since the timeout before
    feedback,       \* feedback tasks waiting for the publisher
    frames,         \* frame tasks waiting for the subscriber
    keyFrameArrived,
    offsetFrom,     \* the publisher timeStampOffset_ was computed for
    sent            \* the frame the packetizer sent last, and whether it
                    \* follows the one before

link == <<linked, source, linkups>>
recv == <<number, wanted, reqKeyFrame>>
count == <<pending, asks, feedback>>
send == <<keyFrameArrived, offsetFrom, sent>>
vars == <<link, recv, count, frames, send>>

NoSource == "none"
NoFrame == [from |-> NoSource, key |-> TRUE, number |-> 0]
Frame(p, key) == [from |-> p, key |-> key, number |-> number[p]]

Init == /\ linked = [s \in Subs |-> {}]
        /\ source = [s \in Subs |-> NoSource]
        /\ linkups = [s \in Subs |-> 0]
        /\ number = [p \in Pubs |-> 0]
        /\ wanted = [p \in Pubs |-> FALSE]
        /\ reqKeyFrame = [p \in Pubs |-> FALSE]
        /\ pending = [p \in Pubs |-> 0]
        /\ asks = [p \in Pubs |-> 0]
        /\ feedback = [p \in Pubs |-> 0]
        /\ frames = [s \in Subs |-> <<>>]
        /\ keyFrameArrived = [s \in Subs |-> FALSE]
        /\ offsetFrom = [s \in Subs |-> NoSource]
        /\ sent = [s \in Subs |-> [frame |-> NoFrame, follows |-> TRUE]]

-----------------------------------------------------------------------------

(* addVideoDestination: setVideoSource resets the send adapter. *)
Link(p, s) ==
    /\ linkups[s] < MaxLinks
    /\ linkups' = [linkups EXCEPT ![s] = @ + 1]
    /\ linked' = [linked EXCEPT ![s] = @ \cup {p}]
    /\ source' = [source EXCEPT ![s] = p]
    /\ keyFrameArrived' = [keyFrameArrived EXCEPT ![s] = FALSE]
    /\ offsetFrom' = [offsetFrom EXCEPT ![s] = NoSource]
    /\ UNCHANGED <<recv, count, frames, sent>>

(* removeVideoDestination. *)
Cut(p, s) ==
    /\ p \in linked[s]
    /\ linked' = [linked EXCEPT ![s] = @ \ {p}]
    /\ UNCHANGED <<source, linkups, recv, count, frames, send>>

(* AdapterDecoder::Decode gets the next frame and delivers it; afterwards   *)
(* reqKeyFrame_ becomes a request to the sender, which may be lost.         *)
Decode(p, key, heard) ==
    /\ \A s \in Subs : p \in linked[s] => Len(frames[s]) < TaskBound
    /\ frames' = [s \in Subs |-> IF p \in linked[s] THEN Append(frames[s], Frame(p, key))
                                 ELSE frames[s]]
    /\ number' = [number EXCEPT ![p] = (@ + 1) % Numbers]
    /\ wanted' = [wanted EXCEPT ![p] = (@ /\ ~key) \/ (reqKeyFrame[p] /\ heard)]
    /\ reqKeyFrame' = [reqKeyFrame EXCEPT ![p] = FALSE]
    /\ UNCHANGED <<link, count, send>>

(* RequestKeyFrame, if it is called. *)
RequestKeyFrame(p, called) ==
    /\ reqKeyFrame' = [reqKeyFrame EXCEPT ![p] = @ \/ called]
    /\ asks' = [asks EXCEPT ![p] = IF called THEN @ + 1 ELSE @]

(* Mutant of OnFeedback: every feedback asks for a key frame. *)
OnFeedbackEach(p) ==
    /\ feedback[p] > 0
    /\ feedback' = [feedback EXCEPT ![p] = @ - 1]
    /\ RequestKeyFrame(p, TRUE)
    /\ pending' = [pending EXCEPT ![p] = IF @ < 2 THEN @ + 1 ELSE @]
    /\ UNCHANGED <<link, number, wanted, frames, send>>

(* The task of VideoFrameConstructor::onFeedback. *)
OnFeedback(p) ==
    /\ feedback[p] > 0
    /\ feedback' = [feedback EXCEPT ![p] = @ - 1]
    /\ RequestKeyFrame(p, pending[p] = 0)
    /\ pending' = [pending EXCEPT ![p] = IF @ < 2 THEN @ + 1 ELSE @]
    /\ UNCHANGED <<link, number, wanted, frames, send>>

(* Mutant of OnTimeout: the count is left as it is. *)
OnTimeoutKeeps(p) ==
    /\ reqKeyFrame' = [reqKeyFrame EXCEPT ![p] = FALSE]
    /\ asks' = [asks EXCEPT ![p] = 0]
    /\ UNCHANGED <<link, number, wanted, pending, feedback, frames, send>>

(* onTimeout, every second. *)
OnTimeout(p) ==
    /\ reqKeyFrame' = [reqKeyFrame EXCEPT ![p] = @ \/ pending[p] > 1]
    /\ asks' = [asks EXCEPT ![p] = IF pending[p] > 1 THEN 1 ELSE 0]
    /\ pending' = [pending EXCEPT ![p] = 0]
    /\ UNCHANGED <<link, number, wanted, feedback, frames, send>>

(* A frame that follows frame f in its stream, or starts anew. *)
Follows(f, g) == g.key \/ (f.from = g.from /\ g.number = (f.number + 1) % Numbers)

(* Mutant of OnFrame: the request is sent, and the frame as well. *)
OnFrameSends(s) ==
    LET f == Head(frames[s]) IN
    /\ frames[s] # <<>>
    /\ frames' = [frames EXCEPT ![s] = Tail(@)]
    /\ keyFrameArrived' = [keyFrameArrived EXCEPT ![s] = @ \/ f.key]
    /\ offsetFrom' = [offsetFrom EXCEPT ![s] = IF keyFrameArrived[s] THEN @ ELSE f.from]
    /\ sent' = [sent EXCEPT ![s] = [frame |-> f, follows |-> Follows(@.frame, f)]]
    /\ UNCHANGED <<link, recv, count>>

(* The task of VideoFramePacketizer::onFrame and the send adapter's onFrame.*)
OnFrame(s) ==
    LET f == Head(frames[s])
        dropped == ~keyFrameArrived[s] /\ ~f.key
        p == source[s]
    IN
    /\ frames[s] # <<>>
    /\ frames' = [frames EXCEPT ![s] = Tail(@)]
    /\ IF dropped
       THEN /\ feedback[p] < TaskBound
            /\ feedback' = [feedback EXCEPT ![p] = @ + 1]
            /\ UNCHANGED send
       ELSE /\ keyFrameArrived' = [keyFrameArrived EXCEPT ![s] = TRUE]
            /\ offsetFrom' = [offsetFrom EXCEPT ![s] =
                                IF keyFrameArrived[s] THEN @ ELSE f.from]
            /\ sent' = [sent EXCEPT ![s] = [frame |-> f, follows |-> Follows(@.frame, f)]]
            /\ UNCHANGED feedback
    /\ UNCHANGED <<link, recv, pending, asks>>

-----------------------------------------------------------------------------

DecodeDelta(p) == \E heard \in BOOLEAN : Decode(p, FALSE, heard)
DecodeKey(p) == \E heard \in BOOLEAN : Decode(p, TRUE, heard)

Next == \/ \E p \in Pubs, s \in Subs : Link(p, s) \/ Cut(p, s)
        \/ \E p \in Pubs : DecodeDelta(p) \/ DecodeKey(p) \/ OnFeedback(p) \/ OnTimeout(p)
        \/ \E s \in Subs : OnFrame(s)

(* The workers run their tasks and the timer of a second fires; the sender  *)
(* goes on sending, hears a request that is repeated, and a sender that has *)
(* heard one sends a key frame.                                             *)
Fairness ==
    /\ \A s \in Subs : WF_vars(OnFrame(s))
    /\ \A p \in Pubs : /\ WF_vars(OnFeedback(p)) /\ WF_vars(OnTimeout(p))
                       /\ SF_vars(DecodeDelta(p) \/ DecodeKey(p))
                       /\ SF_vars(reqKeyFrame[p] /\ \E key \in BOOLEAN : Decode(p, key, TRUE))
                       /\ SF_vars(wanted[p] /\ DecodeKey(p))

Spec == Init /\ [][Next]_vars

LiveSpec == Spec /\ Fairness

(* An application that cuts a subscriber off before it links it up again. *)
OneLink == \A s \in Subs : \A p, q \in linked[s] : p = q

SwitchSpec == Init /\ [][Next /\ OneLink']_vars

-----------------------------------------------------------------------------

FrameSet == [from : Pubs \cup {NoSource}, key : BOOLEAN, number : 0..Numbers - 1]

(* Type correctness: a frame number wraps and the requests of a second are  *)
(* counted up to two.                                                       *)
TypeOK ==
    /\ linked \in [Subs -> SUBSET Pubs]
    /\ source \in [Subs -> Pubs \cup {NoSource}]
    /\ linkups \in [Subs -> 0..MaxLinks]
    /\ number \in [Pubs -> 0..Numbers - 1]
    /\ wanted \in [Pubs -> BOOLEAN]
    /\ reqKeyFrame \in [Pubs -> BOOLEAN]
    /\ pending \in [Pubs -> 0..2]
    /\ asks \in [Pubs -> Nat]
    /\ feedback \in [Pubs -> 0..TaskBound]
    /\ frames \in [Subs -> Seq(FrameSet)]
    /\ keyFrameArrived \in [Subs -> BOOLEAN]
    /\ offsetFrom \in [Subs -> Pubs \cup {NoSource}]
    /\ sent \in [Subs -> [frame : FrameSet, follows : BOOLEAN]]

(* What a packetizer that is linked once sends can be decoded: every frame  *)
(* is a key frame or the one after the frame sent before it, whatever was   *)
(* dropped before the key frame came and wherever posted frames wait.       *)
SentIsUnbroken == \A s \in Subs : sent[s].follows

(* However many subscribers drop frames, the sender is asked for a key      *)
(* frame at most twice between two timeouts: on the first feedback, and at  *)
(* the timeout for those that came after it.                                *)
RequestsCoalesced == \A p \in Pubs : asks[p] <= 2

(* A linked subscriber gets its key frame, even when requests to the sender *)
(* are lost, unless it is cut off.                                          *)
LinkedGetsKeyFrame ==
    \A p \in Pubs, s \in Subs :
        p \in linked[s] ~> (keyFrameArrived[s] \/ p \notin linked[s])

(* "Recalculate timestamp for stream substitution": a frame that is sent    *)
(* gets the offset computed for its own stream.                             *)
OffsetOfStream ==
    \A s \in Subs : keyFrameArrived[s] /\ sent[s].frame.from # NoSource =>
        offsetFrom[s] = sent[s].frame.from

=============================================================================
