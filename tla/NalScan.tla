------------------------------- MODULE NalScan -------------------------------
(***************************************************************************)
(* How VideoSendAdapterImpl::onFrame cuts an H.264 frame into NAL units for *)
(* the RTP packetizer: findNALU looks for a start code and then for the     *)
(* next one, and onFrame calls it again on what is left of the buffer.      *)
(* Offsets are 0-based, as in the code.                                     *)
(***************************************************************************)
EXTENDS Integers, Sequences, FiniteSetsExt

CONSTANT Payloads       \* the frames, sequences of bytes

(* The bytes of frame p at offset k are a start code of n bytes. *)
StartCodeAt(p, k, n) ==
    /\ k + n <= Len(p)
    /\ \A j \in 1 .. n - 1 : p[k + j] = 0
    /\ p[k + n] = 1

ASSUME PayloadsAssumption == Payloads \subseteq Seq(Nat)

VARIABLES
    payload,        \* frame.payload
    buffer_start,   \* offset of the buffer given to findNALU
    i,              \* i of findNALU
    nal_start,      \* *nal_start of findNALU
    frags,          \* frag_info: a sequence of <<offset, length>>
    pc              \* "seek", "scan": the loops of findNALU; "missing": its
                    \* return of -1; "done": the loop of onFrame has ended

nalVars == <<payload, buffer_start, i, nal_start, frags, pc>>

(* buffer_length, the size findNALU is given. *)
Size == Len(payload) - buffer_start

(* buf[k] of findNALU. *)
Buf(k) == payload[buffer_start + k + 1]

NalInit == /\ payload \in Payloads
           /\ buffer_start = 0 /\ i = 0 /\ nal_start = 0
           /\ frags = << >>
           /\ pc = IF Len(payload) > 0 THEN "seek" ELSE "done"

(* next_bits(24) == {0, 0, 1} *)
Code3 == Buf(i) = 0 /\ Buf(i + 1) = 0 /\ Buf(i + 2) = 1

(* next_bits(32) == {0, 0, 0, 1} *)
Code4 == /\ Size > i + 3
         /\ Buf(i) = 0 /\ Buf(i + 1) = 0 /\ Buf(i + 2) = 0 /\ Buf(i + 3) = 1

(* The start code is found and the NAL unit begins after its n bytes. *)
Found(n) == /\ i' = i + n
            /\ nal_start' = i + n
            /\ pc' = "scan"

(* An iteration of findNALU's first loop. *)
Seek ==
    /\ pc = "seek"
    /\ \/ /\ Size < i + 3
          /\ pc' = "missing"
          /\ UNCHANGED <<i, nal_start>>
       \/ /\ Size >= i + 3 /\ Code3
          /\ Found(3)
       \/ /\ Size >= i + 3 /\ ~Code3 /\ Code4
          /\ Found(4)
       \/ /\ Size >= i + 3 /\ ~Code3 /\ ~Code4
          /\ i' = i + 1
          /\ UNCHANGED <<nal_start, pc>>
    /\ UNCHANGED <<payload, buffer_start, frags>>

(* Mutant of Scan: the second loop does not advance. *)
ScanStays == FALSE

(* An iteration of findNALU's second loop. *)
Scan ==
    /\ pc = "scan"
    /\ Size > i + 2 /\ ~Code3
    /\ i' = i + 1
    /\ UNCHANGED <<payload, buffer_start, nal_start, frags, pc>>

(* Mutant of NalEnd: the first zero of a four byte start code is kept. *)
NalEndKeepsZero == IF Size <= i + 2 THEN Size ELSE i

(* Mutant of NalEnd: the end of the buffer is where the loop stopped. *)
NalEndStops == IF Size <= i + 2 THEN i ELSE IF Buf(i - 1) = 0 THEN i - 1 ELSE i

(* *nal_end of findNALU. *)
NalEnd == IF Size <= i + 2 THEN Size ELSE IF Buf(i - 1) = 0 THEN i - 1 ELSE i

(* findNALU returns a NAL unit, and onFrame goes on with the rest. *)
CutNalu ==
    /\ pc = "scan"
    /\ Size > i + 2 => Code3
    /\ frags' = Append(frags, <<buffer_start + nal_start, NalEnd - nal_start>>)
    /\ buffer_start' = buffer_start + NalEnd
    /\ i' = 0 /\ nal_start' = 0
    /\ pc' = IF Size > NalEnd THEN "seek" ELSE "done"
    /\ UNCHANGED payload

NalNext == Seek \/ Scan \/ CutNalu

NalSpec == NalInit /\ [][NalNext]_nalVars

-----------------------------------------------------------------------------

(* Type correctness. *)
NalTypeOK == /\ payload \in Seq(Nat)
             /\ buffer_start \in 0 .. Len(payload)
             /\ i \in 0 .. Size /\ nal_start \in 0 .. i
             /\ frags \in Seq((0 .. Len(payload)) \X (0 .. Len(payload)))
             /\ pc \in {"seek", "scan", "missing", "done"}

(* The offsets of the start codes of the frame. *)
Codes == {k \in 0 .. Len(payload) - 3 : StartCodeAt(payload, k, 3)}

(* "Error, should never happen" of onFrame never happens to a frame with a *)
(* start code: every buffer findNALU is given, the rests after a cut         *)
(* included, has one.                                                        *)
NeverMissing == Codes # {} => pc # "missing"

(* The start codes after the one at k. *)
LaterCodes(k) == {c \in Codes : c > k}

(* The NAL unit after the start code at k goes up to the next start code,   *)
(* less the zero that makes that one a four byte code, or to the end.       *)
UnitEnd(k) == IF LaterCodes(k) = {} THEN Len(payload)
              ELSE IF payload[Min(LaterCodes(k))] = 0 THEN Min(LaterCodes(k)) - 1
              ELSE Min(LaterCodes(k))

NalUnit(k) == <<k + 3, UnitEnd(k) - (k + 3)>>

(* The fragments onFrame hands to the packetizer are the NAL units of the   *)
(* frame, in order, each once.                                              *)
FragsAreNalus ==
    pc \in {"done", "missing"} =>
        /\ {frags[n] : n \in DOMAIN frags} = {NalUnit(k) : k \in Codes}
        /\ \A m, n \in DOMAIN frags : m < n => frags[m][1] < frags[n][1]

(* The loops of findNALU and of onFrame end. *)
Terminates == <>(pc \in {"done", "missing"})

=============================================================================
