-------------------------------- MODULE SeqNo --------------------------------
(***************************************************************************)
(* AudioSendAdapterImpl::updateSeqNo: the sequence numbers of the audio     *)
(* packets a subscriber is sent.  The publisher's packets arrive with       *)
(* losses, duplicates, reordering and changes of publisher, so any number   *)
(* may follow any other.  The number is read from the packet without        *)
(* ntohs, so on the little endian targets its two bytes are swapped.        *)
(***************************************************************************)
EXTENDS Integers

CONSTANTS
    Base,           \* values of a byte: 256
    kSeqNoStep      \* jumps up to this are kept: 10

ASSUME BaseAssumption == Base \in Nat /\ Base > 1
ASSUME StepAssumption == kSeqNoStep \in 1 .. Base - 1

UINT16_MAX == Base * Base - 1

Number == 0 .. UINT16_MAX

VARIABLES
    lastOriginSeqNo_,       \* as in the code, bytes swapped
    seqNo_,                 \* as in the code
    origin,                 \* number of the last packet, as its publisher meant it
    numbered                    \* packets sent so far: 0, 1 or 2 for more

seqVars == <<lastOriginSeqNo_, seqNo_, origin, numbered>>

SeqInit == /\ lastOriginSeqNo_ = 0 /\ seqNo_ = 0
           /\ origin = 0 /\ numbered = 0

(* A number of the network read as one of the host. *)
Swap(n) == (n % Base) * Base + n \div Base

(* Mutant of Step: the wrap is one short. *)
StepShort(originSeqNo) ==
    IF originSeqNo < lastOriginSeqNo_
    THEN UINT16_MAX - lastOriginSeqNo_ + originSeqNo
    ELSE originSeqNo - lastOriginSeqNo_

(* How far the packet is from the last one. *)
SeqStep(originSeqNo) ==
    IF originSeqNo < lastOriginSeqNo_
    THEN UINT16_MAX - lastOriginSeqNo_ + originSeqNo + 1
    ELSE originSeqNo - lastOriginSeqNo_

(* Mutant of Advance: the jump is taken from the wrong end. *)
AdvanceWrong(step) == IF step = 1 \/ step > kSeqNoStep THEN 1 ELSE kSeqNoStep - step

(* How far the number sent goes on. *)
Advance(step) == IF step = 1 \/ step > kSeqNoStep THEN 1 ELSE step

(* Nothing has been sent yet, as far as updateSeqNo can tell. *)
LooksFirst == lastOriginSeqNo_ = seqNo_ /\ seqNo_ = 0

(* updateSeqNo on a packet its publisher numbered n. *)
UpdateSeqNo(n) ==
    /\ seqNo_' = IF LooksFirst THEN seqNo_
                 ELSE (seqNo_ + Advance(SeqStep(Swap(n)))) % (UINT16_MAX + 1)
    /\ lastOriginSeqNo_' = Swap(n)
    /\ origin' = n
    /\ numbered' = IF numbered < 2 THEN numbered + 1 ELSE 2

SeqNext == \E n \in Number : UpdateSeqNo(n)

SeqSpec == SeqInit /\ [][SeqNext]_seqVars

-----------------------------------------------------------------------------

(* Type correctness. *)
SeqTypeOK == /\ lastOriginSeqNo_ \in Number /\ seqNo_ \in Number
             /\ origin \in Number /\ numbered \in 0 .. 2
             /\ numbered > 0 => lastOriginSeqNo_ = Swap(origin)

(* A packet that follows its predecessor at the publisher, over every wrap  *)
(* of a byte and of the number, follows it at the subscriber, although      *)
(* updateSeqNo compares the numbers with their bytes swapped.               *)
InOrderFollows ==
    [][ numbered > 0 /\ ~LooksFirst /\ origin' = (origin + 1) % (UINT16_MAX + 1)
          => seqNo_' = (seqNo_ + 1) % (UINT16_MAX + 1) ]_seqVars

(* A packet with a number other than the one before is sent with a number   *)
(* other than the one before, and a duplicate with the same: a subscriber   *)
(* never drops new audio as a duplicate.                                    *)
NewIsNew ==
    [][ numbered > 0 /\ ~LooksFirst => (seqNo_' = seqNo_ <=> origin' = origin) ]_seqVars

(* The number sent never goes back, and never jumps by more than            *)
(* kSeqNoStep, whichever publisher the packets come from.                   *)
SmallJumps ==
    [][ \E s \in 0 .. kSeqNoStep : seqNo_' = (seqNo_ + s) % (UINT16_MAX + 1) ]_seqVars

=============================================================================
