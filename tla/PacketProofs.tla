---------------------------- MODULE PacketProofs ----------------------------
(***************************************************************************)
(* Proofs about how packets are made of frames.                             *)
(*                                                                          *)
(* KeyFrames: that requests for key frames are coalesced between timeouts,  *)
(* and that a packetizer linked once sends an unbroken stream, for any      *)
(* publishers, subscribers and bounds; and what an application has to wait  *)
(* for so that a change of publishers keeps the timestamps right.           *)
(*                                                                          *)
(* SeqNo, for any size of a byte and any kSeqNoStep below it.               *)
(*                                                                          *)
(* PayloadTypes, for every set of types and profiles and m-lines of any     *)
(* length.  Its inductive invariant says that the maps are exactly what     *)
(* SdpInfo makes of the offer and the answered format exactly what          *)
(* filer_h264 finds in it; how far the two agree is a fact about the offer. *)
(*                                                                          *)
(* NalScan, for frames of every length.  The inductive invariant says how   *)
(* far the scan has come: the fragments so far are the NAL units of the     *)
(* start codes before the point it has reached.                             *)
(***************************************************************************)
EXTENDS KeyFrames, SeqNo, PayloadTypes, NalScan, TLAPS

(* KeyFrames. *)

LEMMA FrameType ==
  ASSUME NEW p \in Pubs, NEW key \in BOOLEAN, number \in [Pubs -> 0 .. Numbers - 1]
  PROVE  /\ Frame(p, key) \in FrameSet
         /\ Frame(p, key).from = p /\ Frame(p, key).number = number[p]
BY Zenon DEF Frame, FrameSet

LEMMA FollowsType ==
  ASSUME NEW f \in FrameSet, NEW g \in FrameSet
  PROVE  Follows(f, g) \in BOOLEAN
BY Zenon DEF Follows, FrameSet

LEMMA NoFrameType == NoFrame \in FrameSet
BY BoundsAssumption DEF NoFrame, FrameSet

LEMMA HeadTail ==
  ASSUME NEW S, NEW q \in Seq(S), q # <<>>
  PROVE  Head(q) \in S /\ Tail(q) \in Seq(S)
OBVIOUS

LEMMA AppendType ==
  ASSUME NEW S, NEW q \in Seq(S), NEW e \in S
  PROVE  Append(q, e) \in Seq(S)
OBVIOUS

(* The types of the variables of each part. *)
LinkType == /\ linked \in [Subs -> SUBSET Pubs]
            /\ source \in [Subs -> Pubs \cup {NoSource}]
            /\ linkups \in [Subs -> 0..MaxLinks]

RecvType == /\ number \in [Pubs -> 0..Numbers - 1]
            /\ wanted \in [Pubs -> BOOLEAN]
            /\ reqKeyFrame \in [Pubs -> BOOLEAN]

CountType == /\ pending \in [Pubs -> 0..2]
             /\ asks \in [Pubs -> Nat]
             /\ feedback \in [Pubs -> 0..TaskBound]

SendType == /\ keyFrameArrived \in [Subs -> BOOLEAN]
            /\ offsetFrom \in [Subs -> Pubs \cup {NoSource}]
            /\ sent \in [Subs -> [frame : FrameSet, follows : BOOLEAN]]

LEMMA TypeParts ==
  TypeOK <=> LinkType /\ RecvType /\ CountType /\ frames \in [Subs -> Seq(FrameSet)] /\ SendType
BY Zenon DEF TypeOK, LinkType, RecvType, CountType, SendType

LEMMA KeyStepType == TypeOK /\ [Next]_vars => TypeOK'
<1>. SUFFICES ASSUME TypeOK, [Next]_vars PROVE TypeOK'
  BY Zenon
<1>. USE BoundsAssumption
<1>0. LinkType /\ RecvType /\ CountType /\ frames \in [Subs -> Seq(FrameSet)] /\ SendType
  BY TypeParts, Zenon
<1>. SUFFICES LinkType' /\ RecvType' /\ CountType' /\ (frames \in [Subs -> Seq(FrameSet)])' /\ SendType'
  BY TypeParts, Zenon DEF TypeOK, LinkType, RecvType, CountType, SendType
<1>1. CASE UNCHANGED vars
  BY <1>0, <1>1, Zenon DEF vars, link, recv, count, send, LinkType, RecvType, CountType, SendType
<1>2. ASSUME NEW p \in Pubs, NEW s \in Subs, Link(p, s)
      PROVE  LinkType' /\ RecvType' /\ CountType' /\ (frames \in [Subs -> Seq(FrameSet)])' /\ SendType'
  <2>1. LinkType'  BY <1>0, <1>2 DEF Link, LinkType
  <2>2. SendType'  BY <1>0, <1>2, Zenon DEF Link, SendType
  <2>. QED  BY <1>0, <1>2, <2>1, <2>2, Zenon DEF Link, recv, count, RecvType, CountType
<1>3. ASSUME NEW p \in Pubs, NEW s \in Subs, Cut(p, s)
      PROVE  LinkType' /\ RecvType' /\ CountType' /\ (frames \in [Subs -> Seq(FrameSet)])' /\ SendType'
  <2>1. LinkType'  BY <1>0, <1>3, Zenon DEF Cut, LinkType
  <2>. QED  BY <1>0, <1>3, <2>1, Zenon DEF Cut, recv, count, send, RecvType, CountType, SendType
<1>4. ASSUME NEW p \in Pubs, NEW key \in BOOLEAN, NEW heard \in BOOLEAN, Decode(p, key, heard)
      PROVE  LinkType' /\ RecvType' /\ CountType' /\ (frames \in [Subs -> Seq(FrameSet)])' /\ SendType'
  <2>1. Frame(p, key) \in FrameSet  BY <1>0, FrameType, Zenon DEF RecvType
  <2>2. (frames \in [Subs -> Seq(FrameSet)])'
    <3>1. \A s \in Subs : Append(frames[s], Frame(p, key)) \in Seq(FrameSet)
      BY <1>0, <2>1, AppendType, Zenon
    <3>. QED  BY <1>0, <1>4, <3>1, Zenon DEF Decode
  <2>3. RecvType'
    <3>1. number' \in [Pubs -> 0..Numbers - 1]  BY <1>0, <1>4 DEF Decode, RecvType
    <3>2. wanted' \in [Pubs -> BOOLEAN] /\ reqKeyFrame' \in [Pubs -> BOOLEAN]
      BY <1>0, <1>4, Zenon DEF Decode, RecvType
    <3>. QED  BY <3>1, <3>2, Zenon DEF RecvType
  <2>. QED  BY <1>0, <1>4, <2>2, <2>3, Zenon DEF Decode, link, count, send, LinkType, CountType, SendType
<1>5. ASSUME NEW p \in Pubs, OnFeedback(p)
      PROVE  LinkType' /\ RecvType' /\ CountType' /\ (frames \in [Subs -> Seq(FrameSet)])' /\ SendType'
  <2>1. CountType'  BY <1>0, <1>5 DEF OnFeedback, RequestKeyFrame, CountType
  <2>2. reqKeyFrame' \in [Pubs -> BOOLEAN]
    BY <1>0, <1>5, Zenon DEF OnFeedback, RequestKeyFrame, RecvType
  <2>. QED  BY <1>0, <1>5, <2>1, <2>2, Zenon DEF OnFeedback, link, send, LinkType, RecvType, SendType
<1>6. ASSUME NEW p \in Pubs, OnTimeout(p)
      PROVE  LinkType' /\ RecvType' /\ CountType' /\ (frames \in [Subs -> Seq(FrameSet)])' /\ SendType'
  <2>1. CountType'  BY <1>0, <1>6 DEF OnTimeout, CountType
  <2>2. reqKeyFrame' \in [Pubs -> BOOLEAN]
    BY <1>0, <1>6, Zenon DEF OnTimeout, RecvType
  <2>. QED  BY <1>0, <1>6, <2>1, <2>2, Zenon DEF OnTimeout, link, send, LinkType, RecvType, SendType
<1>7. ASSUME NEW s \in Subs, OnFrame(s)
      PROVE  LinkType' /\ RecvType' /\ CountType' /\ (frames \in [Subs -> Seq(FrameSet)])' /\ SendType'
  <2>1. Head(frames[s]) \in FrameSet /\ Tail(frames[s]) \in Seq(FrameSet)
    BY <1>0, <1>7, HeadTail, Zenon DEF OnFrame
  <2>2. (frames \in [Subs -> Seq(FrameSet)])'  BY <1>0, <1>7, <2>1, Zenon DEF OnFrame
  <2>3. CountType'
    <3>1. \/ feedback' = feedback
          \/ feedback[source[s]] < TaskBound
             /\ feedback' = [feedback EXCEPT ![source[s]] = feedback[source[s]] + 1]
      BY <1>7, Zenon DEF OnFrame
    <3>2. feedback' \in [Pubs -> 0..TaskBound]  BY <1>0, <3>1 DEF CountType
    <3>. QED  BY <1>0, <1>7, <3>2, Zenon DEF OnFrame, CountType
  <2>4. SendType'
    <3>1. Follows(sent[s].frame, Head(frames[s])) \in BOOLEAN
      BY <1>0, <2>1, FollowsType, Zenon DEF SendType
    <3>2. Head(frames[s]).from \in Pubs \cup {NoSource}  BY <2>1, Zenon DEF FrameSet
    <3>3. CASE UNCHANGED send  BY <1>0, <3>3, Zenon DEF SendType, send
    <3>4. CASE ~UNCHANGED send
      <4>1. /\ keyFrameArrived' = [keyFrameArrived EXCEPT ![s] = TRUE]
            /\ offsetFrom' = [offsetFrom EXCEPT ![s] =
                                IF keyFrameArrived[s] THEN offsetFrom[s] ELSE Head(frames[s]).from]
            /\ sent' = [sent EXCEPT ![s] = [frame |-> Head(frames[s]),
                                            follows |-> Follows(sent[s].frame, Head(frames[s]))]]
        BY <1>7, <3>4, Zenon DEF OnFrame
      <4>2. keyFrameArrived' \in [Subs -> BOOLEAN] /\ offsetFrom' \in [Subs -> Pubs \cup {NoSource}]
        BY <1>0, <3>2, <4>1, Zenon DEF SendType
      <4>3. sent' \in [Subs -> [frame : FrameSet, follows : BOOLEAN]]
        BY <1>0, <2>1, <3>1, <4>1, Zenon DEF SendType
      <4>. QED  BY <4>2, <4>3, Zenon DEF SendType
    <3>. QED  BY <3>3, <3>4, Zenon
  <2>. QED  BY <1>0, <1>7, <2>2, <2>3, <2>4, Zenon DEF OnFrame, link, recv, LinkType, RecvType
<1>. QED  BY <1>1, <1>2, <1>3, <1>4, <1>5, <1>6, <1>7, Zenon DEF Next, DecodeDelta, DecodeKey

LEMMA KeyInitType == Init => TypeOK
BY NoFrameType, BoundsAssumption DEF Init, TypeOK

(* Type correctness, for any bounds: the counters stay within the bounds of  *)
(* the queues, and what waits for a packetizer is frames of publishers.      *)
THEOREM KeyTypeCorrect == Spec => []TypeOK
BY KeyInitType, KeyStepType, PTL DEF Spec

-----------------------------------------------------------------------------

(* A publisher has asked twice only after a feedback that a timeout has yet  *)
(* to take off the count.                                                    *)
CountInv == \A p \in Pubs : asks[p] <= 2 /\ (pending[p] = 0 => asks[p] <= 1)

LEMMA StepCount == TypeOK /\ CountInv /\ [Next]_vars => CountInv'
<1>. SUFFICES ASSUME TypeOK, CountInv, [Next]_vars PROVE CountInv'
  BY Zenon
<1>0. CountType  BY TypeParts, Zenon
<1>1. CASE UNCHANGED <<asks, pending>>
  BY <1>1, Zenon DEF CountInv
<1>2. ASSUME NEW p \in Pubs, OnFeedback(p) PROVE CountInv'
  BY <1>0, <1>2 DEF OnFeedback, RequestKeyFrame, CountInv, CountType
<1>3. ASSUME NEW p \in Pubs, OnTimeout(p) PROVE CountInv'
  BY <1>0, <1>3 DEF OnTimeout, CountInv, CountType
<1>. QED
  BY <1>1, <1>2, <1>3, Zenon
  DEF Next, vars, count, Link, Cut, DecodeDelta, DecodeKey, Decode, OnFrame

(* Between two timeouts a sender is asked for a key frame at most twice,     *)
(* however many packetizers drop frames.                                     *)
THEOREM RequestsCoalescedHolds == Spec => []RequestsCoalesced
<1>1. Init => CountInv
  <2>1. Init => \A p \in Pubs : asks[p] = 0  BY Zenon DEF Init
  <2>2. 0 <= 2 /\ 0 <= 1  OBVIOUS
  <2>. QED  BY <2>1, <2>2, Zenon DEF CountInv
<1>2. CountInv => RequestsCoalesced  BY Zenon DEF CountInv, RequestsCoalesced
<1>. QED  BY <1>1, <1>2, StepCount, KeyTypeCorrect, PTL DEF Spec

-----------------------------------------------------------------------------

(* The frames that wait for a packetizer are of its source and follow one    *)
(* another, and, once the gate is open, the frame sent last.                 *)
Line(fr, open, last, src) ==
    /\ \A m \in 1 .. Len(fr) : fr[m].from = src
    /\ \A m \in 1 .. Len(fr) - 1 : fr[m + 1].number = (fr[m].number + 1) % Numbers
    /\ open /\ fr # <<>> => fr[1].number = (last.number + 1) % Numbers
    /\ open => last.from = src

(* The frame numbered n comes next. *)
Comes(fr, open, last, n) ==
    /\ fr # <<>> => n = (fr[Len(fr)].number + 1) % Numbers
    /\ open /\ fr = <<>> => n = (last.number + 1) % Numbers

LineInv ==
    \A s \in Subs :
      /\ linked[s] \subseteq {source[s]}
      /\ linkups[s] = 0 => linked[s] = {} /\ frames[s] = <<>>
      /\ Line(frames[s], keyFrameArrived[s], sent[s].frame, source[s])
      /\ \A p \in linked[s] : Comes(frames[s], keyFrameArrived[s], sent[s].frame, number[p])

LEMMA AppendShape ==
  ASSUME NEW S, NEW q \in Seq(S), NEW e \in S
  PROVE  /\ Append(q, e) \in Seq(S) /\ Len(Append(q, e)) = Len(q) + 1
         /\ Append(q, e)[Len(q) + 1] = e
         /\ \A m \in 1 .. Len(q) : Append(q, e)[m] = q[m]
OBVIOUS

LEMMA TailShape ==
  ASSUME NEW S, NEW q \in Seq(S), q # <<>>
  PROVE  /\ Tail(q) \in Seq(S) /\ Len(Tail(q)) = Len(q) - 1 /\ Head(q) = q[1]
         /\ \A m \in 1 .. Len(q) - 1 : Tail(q)[m] = q[m + 1]
OBVIOUS

LEMMA EmptyShape ==
  ASSUME NEW S, NEW q \in Seq(S)
  PROVE  Len(q) \in Nat /\ (q = <<>> <=> Len(q) = 0)
OBVIOUS

LEMMA LineEmpty ==
  ASSUME NEW last, NEW src, NEW n
  PROVE  Line(<<>>, FALSE, last, src) /\ Comes(<<>>, FALSE, last, n)
BY DEF Line, Comes

LEMMA LineAppend ==
  ASSUME NEW fr \in Seq(FrameSet), NEW open \in BOOLEAN, NEW last, NEW src,
         NEW g \in FrameSet, g.from = src,
         Line(fr, open, last, src), Comes(fr, open, last, g.number)
  PROVE  /\ Line(Append(fr, g), open, last, src)
         /\ Comes(Append(fr, g), open, last, (g.number + 1) % Numbers)
<1>. DEFINE h == Append(fr, g)
<1>1. /\ Len(h) = Len(fr) + 1 /\ h # <<>> /\ h[Len(fr) + 1] = g
      /\ \A m \in 1 .. Len(fr) : h[m] = fr[m]
      /\ Len(fr) \in Nat /\ (fr = <<>> <=> Len(fr) = 0)
  <2>1. h \in Seq(FrameSet) /\ Len(h) = Len(fr) + 1 /\ h[Len(fr) + 1] = g
        /\ \A m \in 1 .. Len(fr) : h[m] = fr[m]
    BY AppendShape
  <2>2. Len(fr) \in Nat /\ (fr = <<>> <=> Len(fr) = 0)  BY EmptyShape, Zenon
  <2>. HIDE DEF h
  <2>3. h = <<>> <=> Len(h) = 0  BY <2>1, EmptyShape, Zenon
  <2>. QED  BY <2>1, <2>2, <2>3
<1>. HIDE DEF h
<1>2. \A m \in 1 .. Len(h) : h[m].from = src  BY <1>1 DEF Line
<1>3. ASSUME NEW m \in 1 .. Len(h) - 1
      PROVE  h[m + 1].number = (h[m].number + 1) % Numbers
  <2>1. CASE m < Len(fr)  BY <1>1, <2>1 DEF Line
  <2>2. CASE m = Len(fr)  BY <1>1, <2>2 DEF Comes
  <2>. QED  BY <1>1, <2>1, <2>2
<1>4. open => h[1].number = (last.number + 1) % Numbers
  BY <1>1 DEF Line, Comes
<1>5. Line(h, open, last, src)  BY <1>2, <1>3, <1>4, Zenon DEF Line
<1>6. Comes(h, open, last, (g.number + 1) % Numbers)  BY <1>1, Zenon DEF Comes
<1>. QED  BY <1>5, <1>6, Zenon DEF h

LEMMA LineTail ==
  ASSUME NEW fr \in Seq(FrameSet), fr # <<>>, NEW open \in BOOLEAN, NEW last, NEW src,
         Line(fr, open, last, src)
  PROVE  /\ Line(Tail(fr), TRUE, Head(fr), src)
         /\ Line(Tail(fr), FALSE, last, src)
         /\ \A n : Comes(fr, open, last, n) =>
                     Comes(Tail(fr), TRUE, Head(fr), n) /\ Comes(Tail(fr), FALSE, last, n)
<1>. DEFINE h == Tail(fr)
<1>1. /\ Len(h) = Len(fr) - 1 /\ Head(fr) = fr[1] /\ Len(fr) \in Nat /\ Len(fr) > 0
      /\ \A m \in 1 .. Len(h) : h[m] = fr[m + 1]
      /\ (h = <<>> <=> Len(fr) = 1)
  <2>1. h \in Seq(FrameSet) /\ Len(h) = Len(fr) - 1 /\ Head(fr) = fr[1]
        /\ \A m \in 1 .. Len(fr) - 1 : h[m] = fr[m + 1]
    BY TailShape, Zenon
  <2>2. Len(fr) \in Nat /\ (fr = <<>> <=> Len(fr) = 0)  BY EmptyShape, Zenon
  <2>. HIDE DEF h
  <2>3. h = <<>> <=> Len(h) = 0  BY <2>1, EmptyShape, Zenon
  <2>. QED  BY <2>1, <2>2, <2>3
<1>. HIDE DEF h
<1>2. \A m \in 1 .. Len(h) : h[m].from = src  BY <1>1 DEF Line
<1>3. \A m \in 1 .. Len(h) - 1 : h[m + 1].number = (h[m].number + 1) % Numbers
  BY <1>1 DEF Line
<1>4. fr[1].from = src  BY <1>1 DEF Line
<1>5. h # <<>> => h[1].number = (fr[1].number + 1) % Numbers  BY <1>1 DEF Line
<1>6. Line(h, TRUE, fr[1], src) /\ Line(h, FALSE, last, src)
  BY <1>2, <1>3, <1>4, <1>5, Zenon DEF Line
<1>7. ASSUME NEW n, Comes(fr, open, last, n)
      PROVE  Comes(h, TRUE, fr[1], n) /\ Comes(h, FALSE, last, n)
  BY <1>1, <1>7 DEF Comes
<1>. QED  BY <1>1, <1>6, <1>7, Zenon DEF h

(* What LineInv says of one packetizer. *)
LineOf(lk, src, ups, fr, open, last, no) ==
    /\ lk \subseteq {src}
    /\ ups = 0 => lk = {} /\ fr = <<>>
    /\ Line(fr, open, last, src)
    /\ \A p \in lk : Comes(fr, open, last, no[p])

LEMMA LineInvDef ==
  LineInv <=> \A s \in Subs : LineOf(linked[s], source[s], linkups[s], frames[s],
                                     keyFrameArrived[s], sent[s].frame, number)
BY Zenon DEF LineInv, LineOf

LEMMA LineInvDefNext ==
  LineInv' <=> \A s \in Subs : LineOf(linked'[s], source'[s], linkups'[s], frames'[s],
                                      keyFrameArrived'[s], sent'[s].frame, number')
BY Zenon DEF LineInv, LineOf

LEMMA StepLine ==
  ASSUME MaxLinks = 1, TypeOK, LineInv, SentIsUnbroken, [Next]_vars
  PROVE  LineInv' /\ SentIsUnbroken'
<1>0. LinkType /\ RecvType /\ frames \in [Subs -> Seq(FrameSet)] /\ SendType
  BY TypeParts, Zenon
<1>. DEFINE L(s) == LineOf(linked[s], source[s], linkups[s], frames[s],
                           keyFrameArrived[s], sent[s].frame, number)
            M(s) == LineOf(linked'[s], source'[s], linkups'[s], frames'[s],
                           keyFrameArrived'[s], sent'[s].frame, number')
<1>1. \A s \in Subs : L(s)  BY LineInvDef, Zenon
<1>. SUFFICES (\A s \in Subs : M(s)) /\ SentIsUnbroken'
  BY LineInvDefNext, Zenon
<1>2. CASE UNCHANGED <<link, number, frames, send>>
  BY <1>1, <1>2, Zenon DEF link, send, SentIsUnbroken
<1>3. ASSUME NEW p \in Pubs, NEW s \in Subs, Link(p, s)
      PROVE  (\A t \in Subs : M(t)) /\ SentIsUnbroken'
  <2>1. linkups[s] = 0 /\ frames' = frames /\ sent' = sent /\ number' = number
    BY <1>0, <1>3 DEF Link, LinkType, recv
  <2>2. linked[s] = {} /\ frames[s] = <<>>  BY <1>1, <2>1, Zenon DEF LineOf
  <2>3. linked'[s] = {p} /\ source'[s] = p /\ linkups'[s] = 1 /\ keyFrameArrived'[s] = FALSE
    BY <1>0, <1>3, <2>1, <2>2 DEF Link, LinkType, SendType
  <2>4. M(s)
    <3>0. 1 # 0  OBVIOUS
    <3>1. LineOf({p}, p, 1, <<>>, FALSE, sent[s].frame, number)
      BY <3>0, LineEmpty, Zenon DEF LineOf
    <3>2. frames'[s] = <<>> /\ sent'[s].frame = sent[s].frame  BY <2>1, <2>2, Zenon
    <3>. QED  BY <2>1, <2>3, <3>1, <3>2, Zenon
  <2>5. ASSUME NEW t \in Subs, t # s PROVE M(t)
    <3>1. /\ linked'[t] = linked[t] /\ source'[t] = source[t] /\ linkups'[t] = linkups[t]
          /\ keyFrameArrived'[t] = keyFrameArrived[t]
      BY <1>0, <1>3, <2>5, Zenon DEF Link, LinkType, SendType
    <3>. QED  BY <1>1, <2>1, <3>1, Zenon
  <2>. QED  BY <2>1, <2>4, <2>5, Zenon DEF SentIsUnbroken
<1>4. ASSUME NEW p \in Pubs, NEW s \in Subs, Cut(p, s)
      PROVE  (\A t \in Subs : M(t)) /\ SentIsUnbroken'
  <2>1. UNCHANGED <<source, linkups, frames, keyFrameArrived, sent, number>>
    BY <1>4, Zenon DEF Cut, recv, send
  <2>2. \A t \in Subs : linked'[t] \subseteq linked[t]
    BY <1>0, <1>4, Zenon DEF Cut, LinkType
  <2>3. ASSUME NEW t \in Subs PROVE M(t)
    BY <1>1, <2>1, <2>2, Zenon DEF LineOf
  <2>. QED  BY <2>1, <2>3, Zenon DEF SentIsUnbroken
<1>5. ASSUME NEW p \in Pubs, NEW key \in BOOLEAN, NEW heard \in BOOLEAN, Decode(p, key, heard)
      PROVE  (\A t \in Subs : M(t)) /\ SentIsUnbroken'
  <2>. DEFINE g == Frame(p, key)
  <2>1. UNCHANGED <<linked, source, linkups, keyFrameArrived, sent>>
    BY <1>5, Zenon DEF Decode, link, send
  <2>2. g \in FrameSet /\ g.from = p /\ g.number = number[p]
    BY <1>0, FrameType, Zenon DEF RecvType
  <2>3. /\ number'[p] = (g.number + 1) % Numbers
        /\ \A q \in Pubs \ {p} : number'[q] = number[q]
    BY <1>0, <1>5, <2>2, Zenon DEF Decode, RecvType
  <2>4. ASSUME NEW t \in Subs PROVE M(t)
    <3>1. linked[t] \subseteq Pubs /\ frames[t] \in Seq(FrameSet) /\ keyFrameArrived[t] \in BOOLEAN
      BY <1>0, Zenon DEF LinkType, SendType
    <3>2. CASE p \in linked[t]
      <4>1. linked[t] = {p} /\ source[t] = p /\ linkups[t] # 0  BY <1>1, <3>2, Zenon DEF LineOf
      <4>2. frames'[t] = Append(frames[t], g)  BY <1>5, <3>2, Zenon DEF Decode
      <4>3. /\ Line(frames[t], keyFrameArrived[t], sent[t].frame, p)
            /\ Comes(frames[t], keyFrameArrived[t], sent[t].frame, g.number)
        BY <1>1, <2>2, <3>2, <4>1, Zenon DEF LineOf
      <4>. HIDE DEF g
      <4>4. /\ Line(Append(frames[t], g), keyFrameArrived[t], sent[t].frame, p)
            /\ Comes(Append(frames[t], g), keyFrameArrived[t], sent[t].frame, number'[p])
        BY <2>2, <2>3, <3>1, <4>3, LineAppend, Zenon
      <4>. QED  BY <2>1, <4>1, <4>2, <4>4, Zenon DEF LineOf
    <3>3. CASE p \notin linked[t]
      <4>1. frames'[t] = frames[t]  BY <1>5, <3>3, Zenon DEF Decode
      <4>2. \A q \in linked[t] : number'[q] = number[q]  BY <2>3, <3>1, <3>3, Zenon
      <4>. QED  BY <1>1, <2>1, <4>1, <4>2, Zenon DEF LineOf
    <3>. QED  BY <3>2, <3>3, Zenon
  <2>. QED  BY <2>1, <2>4, Zenon DEF SentIsUnbroken
<1>6. ASSUME NEW s \in Subs, OnFrame(s)
      PROVE  (\A t \in Subs : M(t)) /\ SentIsUnbroken'
  <2>. DEFINE f == Head(frames[s])
  <2>1. UNCHANGED <<linked, source, linkups, number>>
    BY <1>6, Zenon DEF OnFrame, link, recv
  <2>2. frames[s] \in Seq(FrameSet) /\ frames[s] # <<>> /\ keyFrameArrived[s] \in BOOLEAN
    BY <1>0, <1>6, Zenon DEF OnFrame, SendType
  <2>3. frames'[s] = Tail(frames[s]) /\ \A t \in Subs \ {s} : frames'[t] = frames[t]
    BY <1>0, <1>6, Zenon DEF OnFrame
  <2>4. /\ Line(frames[s], keyFrameArrived[s], sent[s].frame, source[s])
        /\ \A q \in linked[s] : Comes(frames[s], keyFrameArrived[s], sent[s].frame, number[q])
        /\ linked[s] \subseteq {source[s]} /\ linkups[s] # 0
    BY <1>1, <2>2, Zenon DEF LineOf
  <2>5. CASE UNCHANGED send /\ keyFrameArrived[s] = FALSE
    <3>1. /\ Line(Tail(frames[s]), FALSE, sent[s].frame, source[s])
          /\ \A q \in linked[s] : Comes(Tail(frames[s]), FALSE, sent[s].frame, number[q])
      BY <2>2, <2>4, LineTail, Zenon
    <3>2. M(s)  BY <2>1, <2>3, <2>4, <2>5, <3>1, Zenon DEF LineOf, send
    <3>3. ASSUME NEW t \in Subs, t # s PROVE M(t)
      BY <1>1, <2>1, <2>3, <2>5, <3>3, Zenon DEF send
    <3>. QED  BY <2>5, <3>2, <3>3, Zenon DEF SentIsUnbroken, send
  <2>6. CASE /\ keyFrameArrived[s] \/ f.key
             /\ keyFrameArrived' = [keyFrameArrived EXCEPT ![s] = TRUE]
             /\ sent' = [sent EXCEPT ![s] = [frame |-> f, follows |-> Follows(sent[s].frame, f)]]
    <3>1. /\ Line(Tail(frames[s]), TRUE, f, source[s])
          /\ \A q \in linked[s] : Comes(Tail(frames[s]), TRUE, f, number[q])
      BY <2>2, <2>4, LineTail, Zenon
    <3>2. keyFrameArrived'[s] = TRUE /\ sent'[s].frame = f /\ sent'[s].follows = Follows(sent[s].frame, f)
      BY <1>0, <2>6, Zenon DEF SendType
    <3>3. M(s)  BY <2>1, <2>3, <2>4, <3>1, <3>2, Zenon DEF LineOf
    <3>4. ASSUME NEW t \in Subs, t # s PROVE M(t) /\ sent'[t] = sent[t]
      <4>1. keyFrameArrived'[t] = keyFrameArrived[t] /\ sent'[t] = sent[t]
        BY <1>0, <2>6, <3>4, Zenon DEF SendType
      <4>. QED  BY <1>1, <2>1, <2>3, <3>4, <4>1, Zenon
    <3>5. Follows(sent[s].frame, f)
      <4>1. CASE f.key  BY <4>1, Zenon DEF Follows
      <4>2. CASE keyFrameArrived[s]
        <5>1. f = frames[s][1] /\ 1 \in 1 .. Len(frames[s])  BY <2>2, TailShape, EmptyShape, SMTT(30)
        <5>2. f.from = source[s] /\ sent[s].frame.from = source[s]
              /\ f.number = (sent[s].frame.number + 1) % Numbers
          BY <2>2, <2>4, <4>2, <5>1, Zenon DEF Line
        <5>. QED  BY <5>2, Zenon DEF Follows
      <4>. QED  BY <2>6, <4>1, <4>2, Zenon
    <3>6. SentIsUnbroken'  BY <3>2, <3>4, <3>5, ZenonT(40) DEF SentIsUnbroken
    <3>. QED  BY <3>3, <3>4, <3>6, Zenon
  <2>. QED  BY <1>6, <2>2, <2>5, <2>6, Zenon DEF OnFrame
<1>. QED
  BY <1>2, <1>3, <1>4, <1>5, <1>6, Zenon
  DEF Next, vars, link, recv, count, send, DecodeDelta, DecodeKey, OnFeedback, OnTimeout

(* A packetizer linked once sends nothing its receiver cannot decode: a key  *)
(* frame, or the frame after the one sent before, whatever the gate dropped  *)
(* and however long posted frames wait.                                      *)
THEOREM SentIsUnbrokenHolds ==
  ASSUME MaxLinks = 1
  PROVE  Spec => []SentIsUnbroken
<1>1. Init => LineInv /\ SentIsUnbroken
  <2>. SUFFICES ASSUME Init PROVE LineInv /\ SentIsUnbroken
    BY Zenon
  <2>1. \A s \in Subs : /\ linked[s] = {} /\ frames[s] = <<>> /\ keyFrameArrived[s] = FALSE
                        /\ sent[s].follows = TRUE
    BY Zenon DEF Init
  <2>2. LineInv  BY <2>1, LineEmpty, Zenon DEF LineInv
  <2>. QED  BY <2>1, <2>2, Zenon DEF SentIsUnbroken
<1>2. TypeOK /\ LineInv /\ SentIsUnbroken /\ [Next]_vars => LineInv' /\ SentIsUnbroken'
  BY StepLine, Zenon
<1>. QED  BY <1>1, <1>2, KeyTypeCorrect, PTL DEF Spec

(* An application that cuts a subscriber off before it links it up again,   *)
(* as in SwitchSpec, and also waits until the subscriber has taken every    *)
(* frame posted to it.                                                      *)
Drained == \A s \in Subs : linkups'[s] # linkups[s] => frames[s] = <<>>

DrainedSpec == Init /\ [][Next /\ OneLink' /\ Drained]_vars

(* The frames that wait, and what the gate let through, are of the source.  *)
FromSource(lk, src, fr, open, offset, last) ==
    /\ lk \subseteq {src}
    /\ \A m \in 1 .. Len(fr) : fr[m].from = src
    /\ open => offset = src /\ last.from = src

SourceInv ==
    \A s \in Subs : FromSource(linked[s], source[s], frames[s],
                               keyFrameArrived[s], offsetFrom[s], sent[s].frame)

LEMMA FromAppend ==
  ASSUME NEW fr \in Seq(FrameSet), NEW g \in FrameSet, NEW lk, NEW src, NEW open, NEW offset, NEW last,
         g.from = src, FromSource(lk, src, fr, open, offset, last)
  PROVE  FromSource(lk, src, Append(fr, g), open, offset, last)
<1>. DEFINE h == Append(fr, g)
<1>1. Len(h) = Len(fr) + 1 /\ h[Len(fr) + 1] = g /\ \A m \in 1 .. Len(fr) : h[m] = fr[m]
  OBVIOUS
<1>2. Len(fr) \in Nat  BY EmptyShape, Zenon
<1>. HIDE DEF h
<1>3. \A m \in 1 .. Len(h) : m \in 1 .. Len(fr) \/ m = Len(fr) + 1  BY <1>1, <1>2
<1>4. \A m \in 1 .. Len(h) : h[m].from = src  BY <1>1, <1>3, Zenon DEF FromSource
<1>. QED  BY <1>4, Zenon DEF FromSource, h

LEMMA FromTail ==
  ASSUME NEW fr \in Seq(FrameSet), fr # <<>>, NEW lk, NEW src, NEW open, NEW offset, NEW last,
         FromSource(lk, src, fr, open, offset, last)
  PROVE  /\ Head(fr).from = src
         /\ FromSource(lk, src, Tail(fr), open, offset, last)
<1>1. /\ Len(Tail(fr)) = Len(fr) - 1 /\ Head(fr) = fr[1]
      /\ \A m \in 1 .. Len(fr) - 1 : Tail(fr)[m] = fr[m + 1]
  BY TailShape, Zenon
<1>2. Len(fr) \in Nat /\ Len(fr) # 0  BY EmptyShape, Zenon
<1>3. 1 \in 1 .. Len(fr) /\ \A m \in 1 .. Len(fr) - 1 : m + 1 \in 1 .. Len(fr)  BY <1>2
<1>4. \A m \in 1 .. Len(Tail(fr)) : Tail(fr)[m].from = src  BY <1>1, <1>3, Zenon DEF FromSource
<1>. QED  BY <1>1, <1>3, <1>4, Zenon DEF FromSource

LEMMA StepSource ==
  ASSUME TypeOK, SourceInv, [Next /\ OneLink' /\ Drained]_vars
  PROVE  SourceInv'
<1>0. LinkType /\ RecvType /\ frames \in [Subs -> Seq(FrameSet)] /\ SendType
  BY TypeParts, Zenon
<1>. DEFINE L(s) == FromSource(linked[s], source[s], frames[s],
                               keyFrameArrived[s], offsetFrom[s], sent[s].frame)
            M(s) == FromSource(linked'[s], source'[s], frames'[s],
                               keyFrameArrived'[s], offsetFrom'[s], sent'[s].frame)
<1>1. \A s \in Subs : L(s)  BY Zenon DEF SourceInv
<1>. SUFFICES \A s \in Subs : M(s)
  BY Zenon DEF SourceInv
<1>2. CASE UNCHANGED <<link, frames, send>>
  BY <1>1, <1>2, Zenon DEF link, send
<1>3. ASSUME NEW p \in Pubs, NEW s \in Subs, Link(p, s), OneLink', Drained
      PROVE  \A t \in Subs : M(t)
  <2>1. linkups'[s] # linkups[s]  BY <1>0, <1>3 DEF Link, LinkType
  <2>2. frames' = frames /\ frames[s] = <<>> /\ sent' = sent
    BY <1>3, <2>1, Zenon DEF Link, Drained
  <2>3. p \in linked'[s] /\ source'[s] = p /\ keyFrameArrived'[s] = FALSE
    BY <1>0, <1>3, Zenon DEF Link, LinkType, SendType
  <2>4. linked'[s] \subseteq {p}  BY <1>3, <2>3, Zenon DEF OneLink
  <2>5. M(s)
    <3>1. \A m \in 1 .. Len(<<>>) : <<>>[m].from = p  OBVIOUS
    <3>. QED  BY <2>2, <2>3, <2>4, <3>1, Zenon DEF FromSource
  <2>6. ASSUME NEW t \in Subs, t # s PROVE M(t)
    <3>1. /\ linked'[t] = linked[t] /\ source'[t] = source[t]
          /\ keyFrameArrived'[t] = keyFrameArrived[t] /\ offsetFrom'[t] = offsetFrom[t]
      BY <1>0, <1>3, <2>6, Zenon DEF Link, LinkType, SendType
    <3>. QED  BY <1>1, <2>2, <3>1, Zenon
  <2>. QED  BY <2>5, <2>6, Zenon
<1>4. ASSUME NEW p \in Pubs, NEW s \in Subs, Cut(p, s)
      PROVE  \A t \in Subs : M(t)
  <2>1. UNCHANGED <<source, frames, keyFrameArrived, offsetFrom, sent>>
    BY <1>4, Zenon DEF Cut, send
  <2>2. \A t \in Subs : linked'[t] \subseteq linked[t]  BY <1>0, <1>4, Zenon DEF Cut, LinkType
  <2>. QED  BY <1>1, <2>1, <2>2, Zenon DEF FromSource
<1>5. ASSUME NEW p \in Pubs, NEW key \in BOOLEAN, NEW heard \in BOOLEAN, Decode(p, key, heard)
      PROVE  \A t \in Subs : M(t)
  <2>. DEFINE g == Frame(p, key)
  <2>1. UNCHANGED <<linked, source, keyFrameArrived, offsetFrom, sent>>
    BY <1>5, Zenon DEF Decode, link, send
  <2>2. g \in FrameSet /\ g.from = p  BY <1>0, FrameType, Zenon DEF RecvType
  <2>3. ASSUME NEW t \in Subs PROVE M(t)
    <3>1. CASE p \in linked[t]
      <4>1. source[t] = p  BY <1>1, <3>1, Zenon DEF FromSource
      <4>2. frames'[t] = Append(frames[t], g)  BY <1>5, <3>1, Zenon DEF Decode
      <4>3. frames[t] \in Seq(FrameSet)  BY <1>0, Zenon
      <4>. HIDE DEF g
      <4>. QED  BY <1>1, <2>1, <2>2, <4>1, <4>2, <4>3, FromAppend, Zenon
    <3>2. CASE p \notin linked[t]
      <4>1. frames'[t] = frames[t]  BY <1>5, <3>2, Zenon DEF Decode
      <4>. QED  BY <1>1, <2>1, <4>1, Zenon
    <3>. QED  BY <3>1, <3>2, Zenon
  <2>. QED  BY <2>3, Zenon
<1>6. ASSUME NEW s \in Subs, OnFrame(s)
      PROVE  \A t \in Subs : M(t)
  <2>. DEFINE f == Head(frames[s])
  <2>1. linked' = linked /\ source' = source  BY <1>6, Zenon DEF OnFrame, link
  <2>2. frames[s] \in Seq(FrameSet) /\ frames[s] # <<>>  BY <1>0, <1>6, Zenon DEF OnFrame
  <2>3. frames'[s] = Tail(frames[s]) /\ \A t \in Subs \ {s} : frames'[t] = frames[t]
    BY <1>0, <1>6, Zenon DEF OnFrame
  <2>4. f.from = source[s] /\ FromSource(linked[s], source[s], Tail(frames[s]), keyFrameArrived[s],
                                         offsetFrom[s], sent[s].frame)
    <3>1. FromSource(linked[s], source[s], frames[s], keyFrameArrived[s],
                     offsetFrom[s], sent[s].frame)
      BY <1>1, Zenon
    <3>. QED  BY <2>2, <3>1, FromTail
  <2>5. CASE UNCHANGED send
    BY <1>1, <2>1, <2>3, <2>4, <2>5, Zenon DEF send
  <2>6. CASE /\ keyFrameArrived' = [keyFrameArrived EXCEPT ![s] = TRUE]
             /\ offsetFrom' = [offsetFrom EXCEPT ![s] =
                                 IF keyFrameArrived[s] THEN offsetFrom[s] ELSE f.from]
             /\ sent' = [sent EXCEPT ![s] = [frame |-> f, follows |-> Follows(sent[s].frame, f)]]
    <3>1. /\ sent'[s].frame = f
          /\ offsetFrom'[s] = IF keyFrameArrived[s] THEN offsetFrom[s] ELSE f.from
      BY <1>0, <2>6, Zenon DEF SendType
    <3>2. offsetFrom'[s] = source[s]  BY <2>4, <3>1, Zenon DEF FromSource
    <3>3. M(s)  BY <2>1, <2>3, <2>4, <3>1, <3>2, Zenon DEF FromSource
    <3>4. ASSUME NEW t \in Subs, t # s PROVE M(t)
      <4>1. /\ keyFrameArrived'[t] = keyFrameArrived[t] /\ sent'[t] = sent[t]
            /\ offsetFrom'[t] = offsetFrom[t]
        BY <1>0, <2>6, <3>4, Zenon DEF SendType
      <4>. QED  BY <1>1, <2>1, <2>3, <3>4, <4>1, Zenon
    <3>. QED  BY <3>3, <3>4, Zenon
  <2>. QED  BY <1>6, <2>5, <2>6, Zenon DEF OnFrame
<1>. QED
  BY <1>2, <1>3, <1>4, <1>5, <1>6, Zenon
  DEF Next, vars, link, recv, count, send, DecodeDelta, DecodeKey, OnFeedback, OnTimeout

(* Every frame is sent with the timestamp offset of its own stream, if a     *)
(* packetizer is linked to a new source only when it is cut off from the    *)
(* old one and has taken the frames the old one posted; the reset of the     *)
(* send adapter alone does not give that.                                    *)
THEOREM OffsetOfStreamIfDrained == DrainedSpec => []OffsetOfStream
<1>1. Init => SourceInv
  <2>. SUFFICES ASSUME Init PROVE SourceInv
    BY Zenon
  <2>1. \A s \in Subs : linked[s] = {} /\ frames[s] = <<>> /\ keyFrameArrived[s] = FALSE
    BY Zenon DEF Init
  <2>2. ASSUME NEW src PROVE \A m \in 1 .. Len(<<>>) : <<>>[m].from = src  OBVIOUS
  <2>. QED  BY <2>1, <2>2, Zenon DEF SourceInv, FromSource
<1>2. Init => TypeOK  BY KeyInitType, Zenon
<1>3. TypeOK /\ [Next /\ OneLink' /\ Drained]_vars => TypeOK'  BY KeyStepType, Zenon
<1>4. TypeOK /\ SourceInv /\ [Next /\ OneLink' /\ Drained]_vars => SourceInv'
  BY StepSource, Zenon
<1>5. SourceInv => OffsetOfStream  BY Zenon DEF SourceInv, FromSource, OffsetOfStream
<1>. QED  BY <1>1, <1>2, <1>3, <1>4, <1>5, PTL DEF DrainedSpec

-----------------------------------------------------------------------------
(* SeqNo. *)

LEMMA DivMod ==
  ASSUME NEW n \in Nat
  PROVE  /\ n \div Base \in Nat /\ n % Base \in 0 .. Base - 1
         /\ n = (n \div Base) * Base + (n % Base)
<1>1. Base \in Nat /\ Base > 0  BY BaseAssumption
<1>2. n % Base \in 0 .. Base - 1  BY <1>1
<1>3. n \div Base \in Int  BY <1>1
<1>4. n = Base * (n \div Base) + (n % Base)  BY <1>1
<1>5. n \div Base \in Nat  BY <1>1
<1>6. Base * (n \div Base) = (n \div Base) * Base  BY <1>1, <1>3
<1>. QED  BY <1>2, <1>4, <1>5, <1>6, Zenon

LEMMA DivModUnique ==
  ASSUME NEW q \in Nat, NEW r \in 0 .. Base - 1
  PROVE  /\ (q * Base + r) \div Base = q
         /\ (q * Base + r) % Base = r
BY BaseAssumption

LEMMA ModSmall ==
  ASSUME NEW N \in Nat, NEW x \in 0 .. N - 1, NEW a \in 0 .. N - 1
  PROVE  (x + a) % N = IF x + a < N THEN x + a ELSE x + a - N
OBVIOUS

LEMMA Digits ==
  ASSUME NEW n \in Number
  PROVE  n \div Base \in 0 .. Base - 1
BY BaseAssumption DEF Number, UINT16_MAX

Digit == 0 .. Base - 1

(* Two digits make a number. *)
LEMMA Pair ==
  ASSUME NEW q \in Digit, NEW r \in Digit
  PROVE  q * Base + r \in Number
<1>1. q * Base <= (Base - 1) * Base  BY BaseAssumption DEF Digit
<1>2. (Base - 1) * Base = Base * Base - Base  BY BaseAssumption
<1>3. q * Base \in Nat /\ Base * Base \in Nat  BY BaseAssumption DEF Digit
<1>. QED  BY <1>1, <1>2, <1>3, BaseAssumption DEF Digit, Number, UINT16_MAX

(* Reading a number with its bytes in the other order swaps its digits. *)
LEMMA SwapDigits ==
  ASSUME NEW q \in Digit, NEW r \in Digit
  PROVE  Swap(q * Base + r) = r * Base + q
BY DivModUnique, BaseAssumption DEF Swap, Digit

LEMMA HasDigits ==
  ASSUME NEW n \in Number
  PROVE  \E q, r \in Digit : n = q * Base + r
<1>1. n \in Nat  BY BaseAssumption DEF Number, UINT16_MAX
<1>2. n \div Base \in Digit /\ n % Base \in Digit  BY <1>1, DivMod, Digits, Zenon DEF Digit
<1>. QED  BY <1>1, <1>2, DivMod, Zenon

LEMMA SwapNumber ==
  ASSUME NEW n \in Number
  PROVE  Swap(n) \in Number
BY HasDigits, SwapDigits, Pair

(* No two numbers read the same. *)
LEMMA SwapInjective ==
  ASSUME NEW m \in Number, NEW n \in Number, Swap(m) = Swap(n)
  PROVE  m = n
<1>1. PICK q, r \in Digit : m = q * Base + r  BY HasDigits, Zenon
<1>2. PICK s, t \in Digit : n = s * Base + t  BY HasDigits, Zenon
<1>3. r * Base + q = t * Base + s  BY <1>1, <1>2, SwapDigits, Zenon
<1>4. r = t /\ q = s  BY <1>3, DivModUnique DEF Digit
<1>. QED  BY <1>1, <1>2, <1>4, Zenon

LEMMA NumberRange ==
  UINT16_MAX \in Nat /\ UINT16_MAX >= kSeqNoStep /\ Number = 0 .. UINT16_MAX
<1>1. Base * Base >= 2 * Base /\ Base * Base \in Nat  BY BaseAssumption
<1>. QED  BY <1>1, BaseAssumption, StepAssumption DEF Number, UINT16_MAX

(* The step is a 16-bit number, nought only for a repeated packet. *)
LEMMA StepRange ==
  ASSUME lastOriginSeqNo_ \in Number, NEW n \in Number
  PROVE  SeqStep(n) \in Number /\ (SeqStep(n) = 0 <=> n = lastOriginSeqNo_)
BY NumberRange DEF SeqStep

(* The number goes on by at most kSeqNoStep, and by nought only for a        *)
(* repeated packet.                                                          *)
LEMMA AdvanceRange ==
  ASSUME NEW s \in Number
  PROVE  Advance(s) \in 0 .. kSeqNoStep /\ (Advance(s) = 0 <=> s = 0)
BY NumberRange, StepAssumption DEF Advance

(* Going on by less than a whole turn comes back only by not moving. *)
LEMMA Plus ==
  ASSUME NEW x \in Number, NEW a \in 0 .. kSeqNoStep
  PROVE  /\ (x + a) % (UINT16_MAX + 1) \in Number
         /\ (x + a) % (UINT16_MAX + 1) = x <=> a = 0
<1>. DEFINE N == UINT16_MAX + 1
<1>1. N \in Nat /\ N > kSeqNoStep /\ Number = 0 .. N - 1  BY NumberRange, StepAssumption, BaseAssumption
<1>. HIDE DEF N
<1>2. x \in 0 .. N - 1 /\ a \in 0 .. N - 1  BY <1>1, StepAssumption, BaseAssumption
<1>3. (x + a) % N = IF x + a < N THEN x + a ELSE x + a - N  BY <1>1, <1>2, ModSmall, Zenon
<1>4. (x + a) % N \in 0 .. N - 1 /\ ((x + a) % N = x <=> a = 0)  BY <1>1, <1>2, <1>3
<1>. QED  BY <1>1, <1>4, Zenon DEF N

LEMMA StepType == SeqTypeOK /\ [SeqNext]_seqVars => SeqTypeOK'
<1>. SUFFICES ASSUME SeqTypeOK, [SeqNext]_seqVars PROVE SeqTypeOK'
  OBVIOUS
<1>1. CASE UNCHANGED seqVars
  BY <1>1, Zenon DEF SeqTypeOK, seqVars
<1>2. ASSUME NEW n \in Number, UpdateSeqNo(n) PROVE SeqTypeOK'
  <2>1. Swap(n) \in Number  BY SwapNumber, Zenon
  <2>2. Advance(SeqStep(Swap(n))) \in 0 .. kSeqNoStep
    BY <2>1, StepRange, AdvanceRange, Zenon DEF SeqTypeOK
  <2>3. (seqNo_ + Advance(SeqStep(Swap(n)))) % (UINT16_MAX + 1) \in Number
    BY <2>2, Plus, Zenon DEF SeqTypeOK
  <2>4. seqNo_' \in Number  BY <1>2, <2>3, Zenon DEF UpdateSeqNo, SeqTypeOK
  <2>5. numbered' \in 0 .. 2  BY <1>2 DEF UpdateSeqNo, SeqTypeOK
  <2>6. lastOriginSeqNo_' = Swap(n) /\ origin' = n  BY <1>2, Zenon DEF UpdateSeqNo
  <2>. QED  BY <2>1, <2>4, <2>5, <2>6, Zenon DEF SeqTypeOK
<1>. QED  BY <1>1, <1>2, Zenon DEF SeqNext

(* The sequence numbers stay in 16 bits, and the remembered number is the    *)
(* last packet's with its bytes swapped.                                     *)
THEOREM SeqTypeCorrect == SeqSpec => []SeqTypeOK
<1>1. SeqInit => SeqTypeOK  BY NumberRange DEF SeqInit, SeqTypeOK
<1>. QED  BY <1>1, StepType, PTL DEF SeqSpec

(* A packet moves the number sent on by at most kSeqNoStep, whatever its own *)
(* number is.                                                                *)
THEOREM SmallJumpsHolds == SeqSpec => SmallJumps
<1>1. SeqTypeOK /\ [SeqNext]_seqVars =>
        [\E s \in 0 .. kSeqNoStep : seqNo_' = (seqNo_ + s) % (UINT16_MAX + 1)]_seqVars
  <2>. SUFFICES ASSUME SeqTypeOK, NEW n \in Number, UpdateSeqNo(n)
       PROVE  \E s \in 0 .. kSeqNoStep : seqNo_' = (seqNo_ + s) % (UINT16_MAX + 1)
    BY Zenon DEF SeqNext
  <2>1. CASE LooksFirst
    <3>1. seqNo_' = (seqNo_ + 0) % (UINT16_MAX + 1)
      BY <2>1, NumberRange DEF UpdateSeqNo, LooksFirst
    <3>. QED  BY <3>1, StepAssumption, BaseAssumption
  <2>2. CASE ~LooksFirst
    <3>1. Advance(SeqStep(Swap(n))) \in 0 .. kSeqNoStep
      BY SwapNumber, StepRange, AdvanceRange, Zenon DEF SeqTypeOK
    <3>. QED  BY <2>2, <3>1, Zenon DEF UpdateSeqNo
  <2>. QED  BY <2>1, <2>2, Zenon
<1>. QED  BY <1>1, SeqTypeCorrect, PTL DEF SeqSpec, SmallJumps

(* A number sent twice in a row is the number of a packet received twice in  *)
(* a row.                                                                    *)
THEOREM NewIsNewHolds == SeqSpec => NewIsNew
<1>1. SeqTypeOK /\ [SeqNext]_seqVars =>
        [numbered > 0 /\ ~LooksFirst => (seqNo_' = seqNo_ <=> origin' = origin)]_seqVars
  <2>. SUFFICES ASSUME SeqTypeOK, NEW n \in Number, UpdateSeqNo(n), numbered > 0, ~LooksFirst
       PROVE  seqNo_' = seqNo_ <=> origin' = origin
    BY Zenon DEF SeqNext
  <2>. DEFINE a == Advance(SeqStep(Swap(n)))
  <2>1. a \in 0 .. kSeqNoStep /\ (a = 0 <=> Swap(n) = lastOriginSeqNo_)
    BY SwapNumber, StepRange, AdvanceRange, Zenon DEF SeqTypeOK
  <2>2. a = 0 <=> n = origin
    BY <2>1, SwapInjective, Zenon DEF SeqTypeOK
  <2>3. seqNo_' = (seqNo_ + a) % (UINT16_MAX + 1) /\ origin' = n
    BY Zenon DEF UpdateSeqNo
  <2>. HIDE DEF a
  <2>4. (seqNo_ + a) % (UINT16_MAX + 1) = seqNo_ <=> a = 0
    BY <2>1, Plus, Zenon DEF SeqTypeOK
  <2>. QED  BY <2>2, <2>3, <2>4, Zenon
<1>. QED  BY <1>1, SeqTypeCorrect, PTL DEF SeqSpec, NewIsNew

(* The step of the packet that follows: a whole digit within a byte, more    *)
(* over the wrap of the low byte, and 1 over the wrap of the number.         *)
LEMMA NextStep ==
  ASSUME NEW m \in Number, lastOriginSeqNo_ = Swap(m)
  PROVE  LET s == SeqStep(Swap((m + 1) % (UINT16_MAX + 1)))
         IN  s = 1 \/ s > kSeqNoStep
<1>1. PICK q, r \in Digit : m = q * Base + r  BY HasDigits, Zenon
<1>2. lastOriginSeqNo_ = r * Base + q  BY <1>1, SwapDigits, Zenon
<1>3. q \in Nat /\ r \in Nat /\ Base \in Nat /\ Base > kSeqNoStep /\ kSeqNoStep \in Nat /\ Base > 0
  BY BaseAssumption, StepAssumption DEF Digit
<1>4. CASE r < Base - 1
  <2>1. r + 1 \in Digit  BY <1>3, <1>4 DEF Digit
  <2>2. m + 1 = q * Base + (r + 1)  BY <1>1, <1>3
  <2>3. m + 1 \in Number  BY <2>1, <2>2, Pair, Zenon
  <2>4. (m + 1) % (UINT16_MAX + 1) = m + 1  BY <2>3, NumberRange
  <2>5. Swap(m + 1) = (r + 1) * Base + q  BY <2>1, <2>2, SwapDigits, Zenon
  <2>6. (r + 1) * Base = r * Base + Base  BY <1>3
  <2>7. r * Base \in Nat  BY <1>3
  <2>8. SeqStep(Swap(m + 1)) = Base  BY <1>2, <1>3, <2>5, <2>6, <2>7 DEF SeqStep
  <2>. QED  BY <1>3, <2>4, <2>8, Zenon
<1>5. CASE r = Base - 1 /\ q < Base - 1
  <2>1. q + 1 \in Digit /\ 0 \in Digit  BY <1>3, <1>5 DEF Digit
  <2>2. (q + 1) * Base = q * Base + Base /\ q * Base \in Nat  BY <1>3
  <2>3. m + 1 = (q + 1) * Base + 0  BY <1>1, <1>3, <1>5, <2>2
  <2>4. m + 1 \in Number  BY <2>1, <2>3, Pair, Zenon
  <2>5. (m + 1) % (UINT16_MAX + 1) = m + 1  BY <2>4, NumberRange
  <2>6. Swap(m + 1) = 0 * Base + (q + 1)  BY <2>1, <2>3, SwapDigits, Zenon
  <2>7. 0 * Base = 0  BY <1>3
  <2>8. Base * Base \in Nat /\ r * Base = Base * Base - Base  BY <1>3, <1>5
  <2>9. SeqStep(q + 1) = Base + 1
    <3>1. q + 1 < r * Base + q  BY <1>3, <1>5, BaseAssumption
    <3>. QED  BY <1>2, <1>3, <2>8, <3>1 DEF SeqStep, UINT16_MAX
  <2>. QED  BY <1>3, <2>5, <2>6, <2>7, <2>9
<1>6. CASE r = Base - 1 /\ q = Base - 1
  <2>1. Base * Base \in Nat /\ r * Base = Base * Base - Base  BY <1>3, <1>6
  <2>2. q * Base = Base * Base - Base  BY <1>6, <2>1, Zenon
  <2>3. m = UINT16_MAX /\ lastOriginSeqNo_ = UINT16_MAX
    BY <1>1, <1>2, <1>3, <1>6, <2>1, <2>2 DEF UINT16_MAX
  <2>4. (m + 1) % (UINT16_MAX + 1) = 0  BY <2>3, NumberRange
  <2>5. 0 = 0 * Base + 0 /\ 0 \in Digit  BY <1>3 DEF Digit
  <2>6. Swap(0) = 0  BY <2>5, SwapDigits, Zenon
  <2>7. UINT16_MAX > 0  BY NumberRange, StepAssumption, BaseAssumption
  <2>8. SeqStep(0) = 1  BY <2>3, <2>7, NumberRange DEF SeqStep
  <2>. QED  BY <2>4, <2>6, <2>8, Zenon
<1>. QED  BY <1>3, <1>4, <1>5, <1>6 DEF Digit

(* A packet that follows its predecessor at the publisher follows it at the  *)
(* subscriber, whatever the width of a byte, as long as kSeqNoStep is less   *)
(* than the values of a byte.                                                *)
THEOREM InOrderFollowsHolds == SeqSpec => InOrderFollows
<1>1. SeqTypeOK /\ [SeqNext]_seqVars =>
        [numbered > 0 /\ ~LooksFirst /\ origin' = (origin + 1) % (UINT16_MAX + 1)
           => seqNo_' = (seqNo_ + 1) % (UINT16_MAX + 1)]_seqVars
  <2>. SUFFICES ASSUME SeqTypeOK, NEW n \in Number, UpdateSeqNo(n), numbered > 0, ~LooksFirst,
                       origin' = (origin + 1) % (UINT16_MAX + 1)
       PROVE  seqNo_' = (seqNo_ + 1) % (UINT16_MAX + 1)
    BY Zenon DEF SeqNext
  <2>1. n = (origin + 1) % (UINT16_MAX + 1)  BY Zenon DEF UpdateSeqNo
  <2>2. SeqStep(Swap(n)) = 1 \/ SeqStep(Swap(n)) > kSeqNoStep
    BY <2>1, NextStep, Zenon DEF SeqTypeOK
  <2>3. Advance(SeqStep(Swap(n))) = 1  BY <2>2, Zenon DEF Advance
  <2>. QED  BY <2>3, Zenon DEF UpdateSeqNo
<1>. QED  BY <1>1, SeqTypeCorrect, PTL DEF SeqSpec, InOrderFollows

-----------------------------------------------------------------------------
(* PayloadTypes. *)

WF == INSTANCE WellFoundedInduction

(* A set of natural numbers with a member has a least one. *)
LEMMA LeastIn ==
  ASSUME NEW S \in SUBSET Nat, S # {}
  PROVE  Min(S) \in S /\ \A y \in S : Min(S) <= y
<1>. DEFINE R == {ss \in Nat \X Nat : ss[1] < ss[2]}
<1>1. WF!IsWellFoundedOn(R, Nat)  BY WF!NatLessThanWellFounded, Zenon DEF WF!OpToRel
<1>2. PICK x \in S : \A y \in S : ~(<<y, x>> \in R)  BY <1>1, WF!WFMin, Zenon
<1>3. \A y \in S : x <= y
  <2>. TAKE y \in S
  <2>1. <<y, x>> \in Nat \X Nat  BY Zenon
  <2>2. ~(y < x)  BY <1>2, <2>1, Zenon
  <2>. QED  BY <2>2
<1>. QED  BY <1>3, Zenon DEF Min

(* A set of natural numbers with a member and a bound has a greatest one. *)
LEMMA GreatestIn ==
  ASSUME NEW n \in Nat, NEW S \in SUBSET (0 .. n), S # {}
  PROVE  Max(S) \in S /\ \A y \in S : y <= Max(S)
<1>. DEFINE T == {n - x : x \in S}
<1>1. T \in SUBSET Nat /\ T # {}
  <2>1. \A x \in S : n - x \in Nat  OBVIOUS
  <2>. QED  BY <2>1, Zenon
<1>2. Min(T) \in T /\ \A t \in T : Min(T) <= t  BY <1>1, LeastIn, Zenon
<1>3. PICK x \in S : Min(T) = n - x  BY <1>2, Zenon
<1>4. \A y \in S : n - x <= n - y  BY <1>2, <1>3, Zenon
<1>5. \A y \in S : x >= y  BY <1>4
<1>. QED  BY <1>5, Zenon DEF Max

(* The formats of an m-line are numbered, each by a type of its own. *)
LEMMA OfferFacts ==
  ASSUME NEW s \in Offers
  PROVE  /\ s \in Seq(Format)
         /\ \E n \in Nat : DOMAIN s = 1 .. n
         /\ \A m \in DOMAIN s : s[m] \in Format /\ s[m].pt \in PTs
         /\ \A m, j \in DOMAIN s : s[m].pt = s[j].pt => m = j
<1>1. PICK n \in 1 .. MaxFormats : s \in [1 .. n -> Format]
  BY MaxFormatsAssumption, Zenon DEF Offers
<1>2. n \in Nat /\ DOMAIN s = 1 .. n  BY <1>1, MaxFormatsAssumption
<1>3. s \in Seq(Format)  BY <1>1, <1>2
<1>4. \A f \in Format : f.pt \in PTs  BY Zenon DEF Format
<1>. QED  BY <1>1, <1>2, <1>3, <1>4, Zenon DEF Offers

LEMMA TypesOfFacts ==
  ASSUME offer \in Offers, NEW c
  PROVE  /\ TypesOf(c) \subseteq PTs
         /\ \A e : e \in TypesOf(c) <=> \E m \in DOMAIN offer : offer[m].pt = e /\ offer[m].codec = c
<1>1. \A e : e \in TypesOf(c) <=> \E m \in DOMAIN offer : offer[m].pt = e /\ offer[m].codec = c
  BY Zenon DEF TypesOf, Range
<1>. QED  BY <1>1, OfferFacts

(* The format SdpInfo finds for a type is the one the peer numbered so. *)
LEMMA FormatOfType ==
  ASSUME offer \in Offers, NEW c, NEW e \in TypesOf(c)
  PROVE  (CHOOSE f \in Range(offer) : f.pt = e).codec = c
<1>1. PICK m \in DOMAIN offer : offer[m].pt = e /\ offer[m].codec = c  BY TypesOfFacts, Zenon
<1>. DEFINE g == CHOOSE f \in Range(offer) : f.pt = e
<1>2. offer[m] \in Range(offer)  BY Zenon DEF Range
<1>3. g \in Range(offer) /\ g.pt = e  BY <1>1, <1>2, Zenon
<1>. HIDE DEF g
<1>4. PICK j \in DOMAIN offer : g = offer[j]  BY <1>3, Zenon DEF Range
<1>5. m = j  BY <1>1, <1>3, <1>4, OfferFacts, Zenon
<1>6. g.codec = c  BY <1>1, <1>4, <1>5, Zenon
<1>. QED  BY <1>6, Zenon DEF g

LEMMA CodecsApart ==
  ASSUME offer \in Offers, NEW e \in TypesOf("H264")
  PROVE  e \notin TypesOf("red")
<1>. SUFFICES ASSUME e \in TypesOf("red") PROVE FALSE  BY Zenon
<1>. QED  BY FormatOfType, Zenon

(* Every offered type of H264 and of red stands for the program's own. *)
LEMMA OutInFacts ==
  ASSUME offer \in Offers
  PROVE  /\ DOMAIN OutIn = TypesOf("H264") \cup TypesOf("red")
         /\ \A e \in TypesOf("H264") : OutIn[e] = H264_90000_PT
         /\ \A e \in TypesOf("red") : OutIn[e] = RED_90000_PT
<1>1. DOMAIN OutIn = TypesOf("H264") \cup TypesOf("red")  BY Zenon DEF OutIn
<1>2. ASSUME NEW c \in {"H264", "red"}, NEW e \in TypesOf(c) PROVE OutIn[e] = Internal(c)
  <2>1. OutIn[e] = Internal((CHOOSE f \in Range(offer) : f.pt = e).codec)  BY Zenon DEF OutIn
  <2>. QED  BY <2>1, FormatOfType, Zenon
<1>. QED  BY <1>1, <1>2, Zenon DEF Internal

(* The program's own number of a codec stands for an offered type of it,    *)
(* the highest.                                                             *)
LEMMA InOutFacts ==
  ASSUME offer \in Offers
  PROVE  /\ DOMAIN InOut = {Internal(c) : c \in {d \in {"H264", "red"} : TypesOf(d) # {}}}
         /\ TypesOf("H264") # {} => H264_90000_PT \in DOMAIN InOut
                                    /\ InOut[H264_90000_PT] \in TypesOf("H264")
                                    /\ \A e \in TypesOf("H264") : e <= InOut[H264_90000_PT]
         /\ TypesOf("red") # {} => RED_90000_PT \in DOMAIN InOut
                                   /\ InOut[RED_90000_PT] \in TypesOf("red")
         /\ H264_90000_PT \in DOMAIN InOut => TypesOf("H264") # {}
         /\ RED_90000_PT \in DOMAIN InOut => TypesOf("red") # {}
<1>1. DOMAIN InOut = {Internal(c) : c \in {d \in {"H264", "red"} : TypesOf(d) # {}}}
  BY Zenon DEF InOut
<1>2. ASSUME NEW c \in {"H264", "red"}, TypesOf(c) # {}
      PROVE  /\ Internal(c) \in DOMAIN InOut /\ InOut[Internal(c)] \in TypesOf(c)
             /\ \A e \in TypesOf(c) : e <= InOut[Internal(c)]
  <2>. DEFINE S == {e \in DOMAIN OutIn : OutIn[e] = Internal(c)}
  <2>1. Internal(c) \in DOMAIN InOut  BY <1>1, <1>2, Zenon
  <2>2. InOut[Internal(c)] = Max(S)  BY <1>1, <2>1, Zenon DEF InOut
  <2>3. S = TypesOf(c)
    <3>1. CASE c = "H264"  BY <3>1, OutInFacts, CodecsApart, PTsAssumption, Zenon DEF Internal
    <3>2. CASE c = "red"  BY <3>2, OutInFacts, CodecsApart, PTsAssumption, Zenon DEF Internal
    <3>. QED  BY <3>1, <3>2, Zenon
  <2>4. S \in SUBSET (0 .. 127)
    <3>1. TypesOf(c) \subseteq PTs  BY TypesOfFacts, Zenon
    <3>2. PTs \subseteq 0 .. 127  BY PTsAssumption
    <3>. HIDE DEF S
    <3>. QED  BY <2>3, <3>1, <3>2, Zenon
  <2>5. Max(S) \in S /\ \A e \in S : e <= Max(S)  BY <1>2, <2>3, <2>4, GreatestIn
  <2>. QED  BY <2>1, <2>2, <2>3, <2>5, Zenon
<1>. QED  BY <1>1, <1>2, PTsAssumption, ZenonT(40) DEF Internal

(* filer_h264 finds a format of the wanted profile if one is offered, and   *)
(* else some H264 format if one is.                                         *)
LEMMA FilerFinds ==
  ASSUME offer \in Offers
  PROVE  LET t == filer_h264(offer, prefer) IN
         /\ t \in {0} \cup PTs
         /\ TypesOf("H264") # {} => t \in TypesOf("H264")
         /\ TypesOf("H264") = {} => t = 0
         /\ Matches(offer, prefer) # {} => \E m \in Matches(offer, prefer) : offer[m].pt = t
<1>. DEFINE M == Matches(offer, prefer)
            h264 == {m \in DOMAIN offer : IsH264(offer[m])}
            t == filer_h264(offer, prefer)
<1>1. PICK n \in Nat : DOMAIN offer = 1 .. n  BY OfferFacts, Zenon
<1>2. h264 \in SUBSET (0 .. n) /\ M \subseteq h264 /\ M \in SUBSET Nat
  BY <1>1 DEF Matches
<1>3. \A m \in h264 : offer[m].pt \in TypesOf("H264")  BY TypesOfFacts, Zenon DEF IsH264
<1>4. h264 = {} => TypesOf("H264") = {}
  <2>1. \A e \in TypesOf("H264") : \E m \in DOMAIN offer : offer[m].codec = "H264"
    BY TypesOfFacts, Zenon
  <2>. QED  BY <2>1, Zenon DEF IsH264
<1>5. t = CASE M # {} -> offer[Min(M)].pt
            [] h264 # {} /\ M = {} -> offer[Max(h264)].pt
            [] OTHER -> 0
  BY Zenon DEF filer_h264
<1>6. TypesOf("H264") \subseteq PTs  BY TypesOfFacts, Zenon
<1>. HIDE DEF M, h264, t
<1>7. CASE M # {}
  <2>1. Min(M) \in M  BY <1>2, <1>7, LeastIn, Zenon
  <2>2. t = offer[Min(M)].pt  BY <1>5, <1>7, Zenon
  <2>. QED  BY <1>2, <1>3, <1>6, <1>7, <2>1, <2>2, Zenon DEF M, t
<1>8. CASE h264 # {} /\ M = {}
  <2>1. Max(h264) \in h264  BY <1>1, <1>2, <1>8, GreatestIn, Zenon
  <2>2. t = offer[Max(h264)].pt  BY <1>5, <1>8, Zenon
  <2>. QED  BY <1>3, <1>6, <1>8, <2>1, <2>2, Zenon DEF M, t
<1>9. CASE h264 = {} /\ M = {}
  <2>1. t = 0  BY <1>5, <1>9, Zenon
  <2>. QED  BY <1>4, <1>9, <2>1, Zenon DEF M, t
<1>. QED  BY <1>7, <1>8, <1>9, Zenon

(* The inductive invariant. *)
TypesInv ==
  /\ offer \in Offers /\ prefer \in Profiles /\ negotiated \in BOOLEAN
  /\ final_format \in {-1, filer_h264(offer, prefer)}
  /\ negotiated => final_format # -1
  /\ IF negotiated THEN outInPTMap = OutIn /\ inOutPTMap = InOut
                   ELSE outInPTMap = <<>> /\ inOutPTMap = <<>>
  /\ lastSent \subseteq Packet
  /\ ReceivedAsH264 /\ SentAsH264

LEMMA TypesInitInv == TypesInit => TypesInv
BY Zenon DEF TypesInit, TypesInv, ReceivedAsH264, SentAsH264

(* The types the two maps give a packet: those of H264 for the number of    *)
(* H264, and types of 7 bits for any.                                       *)
LEMMA ExternalTypes ==
  ASSUME TypesInv, negotiated
  PROVE  /\ TypesOf("H264") # {} => getVideoExternalPT(H264_90000_PT) \in TypesOf("H264")
         /\ TypesOf("red") # {} => getVideoExternalPT(RED_90000_PT) \in TypesOf("red")
         /\ TypesOf("red") = {} => getVideoExternalPT(RED_90000_PT) = RED_90000_PT
         /\ \A b \in PTs : getVideoExternalPT(b) \in PTs
<1>1. inOutPTMap = InOut /\ offer \in Offers  BY Zenon DEF TypesInv
<1>2. TypesOf("H264") \subseteq PTs /\ TypesOf("red") \subseteq PTs  BY <1>1, TypesOfFacts, ZenonT(40)
<1>3. \A b \in DOMAIN InOut : InOut[b] \in PTs
  <2>1. \A b \in DOMAIN InOut : b \in {H264_90000_PT, RED_90000_PT}
    BY <1>1, InOutFacts DEF Internal
  <2>. QED  BY <1>1, <1>2, <2>1, InOutFacts, Zenon
<1>. QED  BY <1>1, <1>3, InOutFacts, Zenon DEF getVideoExternalPT

LEMMA SameOffer ==
  ASSUME offer' = offer
  PROVE  /\ \A c : TypesOf(c)' = TypesOf(c)
         /\ OutIn' = OutIn /\ InOut' = InOut
<1>1. \A c : TypesOf(c)' = TypesOf(c)  BY Zenon DEF TypesOf
<1>2. OutIn' = OutIn  BY DEF OutIn, TypesOf
<1>3. InOut' = InOut  BY Zenon DEF InOut, OutIn, TypesOf
<1>. QED  BY <1>1, <1>2, <1>3, Zenon

LEMMA TypesStep ==
  ASSUME TypesInv, [TypesNext]_typesVars
  PROVE  TypesInv'
<1>0. offer \in Offers /\ prefer \in Profiles /\ negotiated \in BOOLEAN  BY Zenon DEF TypesInv
<1>1. CASE ProcessOfferMedia
  BY <1>1, Zenon DEF TypesInv, ProcessOfferMedia, ReceivedAsH264, SentAsH264, TypesOf
<1>2. CASE SetRemoteSdp
  BY <1>2, SameOffer, Zenon DEF TypesInv, SetRemoteSdp, ReceivedAsH264, SentAsH264
<1>3. CASE SendPacket
  <2>. DEFINE x == getVideoExternalPT(H264_90000_PT)
              r == getVideoExternalPT(RED_90000_PT)
  <2>1. negotiated /\ offer' = offer /\ received' = received
    BY <1>3, Zenon DEF SendPacket
  <2>2. x \in PTs /\ \A b \in PTs : getVideoExternalPT(b) \in PTs
    BY <2>1, ExternalTypes, PTsAssumption, Zenon
  <2>3. \/ x = r /\ \E b \in PTs : lastSent' = {[pt |-> getVideoExternalPT(b), whole |-> FALSE]}
        \/ x # r /\ lastSent' = {[pt |-> x, whole |-> TRUE]}
    BY <1>3, Zenon DEF SendPacket
  <2>4. lastSent' \subseteq Packet
    <3>1. ASSUME NEW b \in PTs, NEW h \in BOOLEAN, lastSent' = {[pt |-> b, whole |-> h]}
          PROVE  lastSent' \subseteq Packet
      BY <3>1 DEF Packet
    <3>. HIDE DEF x, r
    <3>. QED  BY <2>2, <2>3, <3>1, Zenon
  <2>5. SentAsH264'
    <3>. SUFFICES ASSUME RED_90000_PT \in TypesOf("H264") => TypesOf("red") # {},
                         TypesOf("H264") # {}
                  PROVE  \A p \in lastSent' : p.whole /\ p.pt \in TypesOf("H264")
      BY <2>1, ZenonT(40) DEF SentAsH264, TypesOf
    <3>1. x \in TypesOf("H264")  BY <2>1, ExternalTypes, Zenon
    <3>2. x # r
      <4>1. CASE TypesOf("red") # {}
        BY <1>0, <2>1, <3>1, <4>1, ExternalTypes, CodecsApart, Zenon
      <4>2. CASE TypesOf("red") = {}
        BY <2>1, <3>1, <4>2, ExternalTypes, Zenon
      <4>. QED  BY <4>1, <4>2, Zenon
    <3>. QED  BY <2>3, <3>1, <3>2
  <2>6. ReceivedAsH264'  BY <2>1, Zenon DEF ReceivedAsH264, TypesInv
  <2>. QED
    BY <1>3, <2>4, <2>5, <2>6, SameOffer, Zenon DEF SendPacket, TypesInv
<1>4. CASE ReadPacket
  <2>1. final_format \in TypesOf("H264")
    BY <1>0, <1>4, FilerFinds, Zenon DEF ReadPacket, TypesInv
  <2>2. getVideoInternalPT(final_format) = H264_90000_PT
    BY <1>0, <1>4, <2>1, OutInFacts, Zenon DEF ReadPacket, TypesInv, getVideoInternalPT
  <2>3. ReceivedAsH264'
    BY <1>4, <2>2, PTsAssumption, Zenon DEF ReadPacket, ReceivedAsH264
  <2>. QED
    BY <1>4, <2>3, SameOffer, Zenon DEF ReadPacket, TypesInv, SentAsH264
<1>5. CASE UNCHANGED typesVars
  BY <1>5, SameOffer, ZenonT(40) DEF TypesInv, typesVars, ReceivedAsH264, SentAsH264
<1>. QED  BY <1>1, <1>2, <1>3, <1>4, <1>5, Zenon DEF TypesNext

LEMMA TypesInvHolds == TypesSpec => []TypesInv
BY TypesInitInv, TypesStep, PTL DEF TypesSpec

(* Every variable of PayloadTypes keeps its type, and what SdpInfo's two    *)
(* maps hold matches: each has exactly the entries the other leads to.      *)
THEOREM TypesTypeCorrect == TypesSpec => []TypesTypeOK
<1>1. ASSUME TypesInv PROVE TypesTypeOK
  <2>0. offer \in Offers /\ prefer \in Profiles /\ negotiated \in BOOLEAN  BY <1>1, Zenon DEF TypesInv
  <2>1. offer \in Seq(Format)  BY <2>0, OfferFacts, Zenon
  <2>2. final_format \in {-1, 0} \cup PTs  BY <1>1, <2>0, FilerFinds, ZenonT(40) DEF TypesInv
  <2>3. lastSent \subseteq Packet  BY <1>1, Zenon DEF TypesInv
  <2>4. received \subseteq Packet
    <3>1. [pt |-> H264_90000_PT, whole |-> TRUE] \in Packet  BY PTsAssumption, Zenon DEF Packet
    <3>. QED  BY <1>1, <3>1, Zenon DEF TypesInv, ReceivedAsH264
  <2>5. /\ DOMAIN inOutPTMap \subseteq {H264_90000_PT, RED_90000_PT}
        /\ Range(outInPTMap) = DOMAIN inOutPTMap
        /\ Range(inOutPTMap) \subseteq DOMAIN outInPTMap
    <3>1. CASE ~negotiated
      BY <1>1, <3>1 DEF TypesInv, Range
    <3>2. CASE negotiated
      <4>1. outInPTMap = OutIn /\ inOutPTMap = InOut  BY <1>1, <3>2, Zenon DEF TypesInv
      <4>2. \A x : x \in DOMAIN InOut <=> \/ x = H264_90000_PT /\ TypesOf("H264") # {}
                                          \/ x = RED_90000_PT /\ TypesOf("red") # {}
        BY <2>0, InOutFacts, Zenon DEF Internal
      <4>3. \A x : x \in Range(OutIn) <=> \/ x = H264_90000_PT /\ TypesOf("H264") # {}
                                          \/ x = RED_90000_PT /\ TypesOf("red") # {}
        BY <2>0, OutInFacts, Zenon DEF Range
      <4>4. \A x \in DOMAIN InOut : InOut[x] \in DOMAIN OutIn
        BY <2>0, <4>2, InOutFacts, OutInFacts, ZenonT(40)
      <4>5. Range(InOut) \subseteq DOMAIN OutIn  BY <4>4, Zenon DEF Range
      <4>6. Range(OutIn) = DOMAIN InOut  BY <4>2, <4>3, Zenon
      <4>. QED  BY <4>1, <4>2, <4>5, <4>6, Zenon
    <3>. QED  BY <2>0, <3>1, <3>2, Zenon
  <2>. QED  BY <2>0, <2>1, <2>2, <2>3, <2>4, <2>5, Zenon DEF TypesTypeOK
<1>. QED  BY <1>1, TypesInvHolds, PTL

(* filer_h264 answers with the wanted profile whenever the peer offers it   *)
(* in packetization mode 1, and with some H264 format whenever there is     *)
(* one, for m-lines of any length.                                          *)
THEOREM AnswersPreferredHolds == TypesSpec => []AnswersPreferred
<1>1. TypesInv => AnswersPreferred  BY FilerFinds, ZenonT(40) DEF TypesInv, AnswersPreferred
<1>. QED  BY <1>1, TypesInvHolds, PTL

(* A packet in the answered format is received as the program's own H264,   *)
(* payload untouched: the type filer_h264 chose from the offer is always in *)
(* the map SdpInfo made of the offer, and never under red.                  *)
THEOREM ReceivedAsH264Holds == TypesSpec => []ReceivedAsH264
<1>1. TypesInv => ReceivedAsH264  BY Zenon DEF TypesInv
<1>. QED  BY <1>1, TypesInvHolds, PTL

(* A packet is sent whole, under a type the peer gave H264, unless the peer *)
(* gave H264 the program's own number of red and offered no red.            *)
THEOREM SentAsH264Holds == TypesSpec => []SentAsH264
<1>1. TypesInv => SentAsH264  BY Zenon DEF TypesInv
<1>. QED  BY <1>1, TypesInvHolds, PTL

(* The library sends H264 under the highest of the types the peer offers.   *)
LEMMA ExternalHighest ==
  ASSUME TypesInv, negotiated, TypesOf("H264") # {}
  PROVE  /\ getVideoExternalPT(H264_90000_PT) \in TypesOf("H264")
         /\ \A e \in TypesOf("H264") : e <= getVideoExternalPT(H264_90000_PT)
<1>1. inOutPTMap = InOut /\ offer \in Offers  BY Zenon DEF TypesInv
<1>2. getVideoExternalPT(H264_90000_PT) = InOut[H264_90000_PT]
  BY <1>1, InOutFacts, Zenon DEF getVideoExternalPT
<1>. QED  BY <1>1, <1>2, InOutFacts, Zenon

HighestInv ==
  \A p \in lastSent :
    /\ negotiated
    /\ p.whole /\ TypesOf("H264") # {} => p.pt \in TypesOf("H264")
                                          /\ \A e \in TypesOf("H264") : e <= p.pt

LEMMA HighestStep ==
  ASSUME TypesInv, HighestInv, [TypesNext]_typesVars
  PROVE  HighestInv'
<1>1. CASE lastSent' = lastSent /\ offer' = offer /\ (negotiated => negotiated')
  <2>1. \A c : TypesOf(c)' = TypesOf(c)  BY <1>1, SameOffer, Zenon
  <2>. QED  BY <1>1, <2>1, Zenon DEF HighestInv
<1>2. CASE SendPacket
  <2>. DEFINE x == getVideoExternalPT(H264_90000_PT)
  <2>1. negotiated /\ negotiated' /\ offer' = offer  BY <1>2, Zenon DEF SendPacket
  <2>2. \A c : TypesOf(c)' = TypesOf(c)  BY <2>1, SameOffer, Zenon
  <2>3. \A p \in lastSent' : p.whole => p.pt = x
    <3>1. \/ \E b \in PTs : lastSent' = {[pt |-> getVideoExternalPT(b), whole |-> FALSE]}
          \/ lastSent' = {[pt |-> x, whole |-> TRUE]}
      BY <1>2, Zenon DEF SendPacket
    <3>. HIDE DEF x
    <3>. QED  BY <3>1
  <2>4. TypesOf("H264") # {} => x \in TypesOf("H264") /\ \A e \in TypesOf("H264") : e <= x
    BY <2>1, ExternalHighest, Zenon
  <2>. HIDE DEF x
  <2>. QED  BY <2>1, <2>2, <2>3, <2>4, Zenon DEF HighestInv
<1>. QED
  BY <1>1, <1>2
  DEF TypesNext, typesVars, ProcessOfferMedia, SetRemoteSdp, ReadPacket

(* The answered format is the highest H264 type of the offer, as it is when *)
(* the offer has only one.                                                  *)
AnswersHighest == \A e \in TypesOf("H264") : e <= final_format

(* What is sent whole has the payload type of the answer whenever           *)
(* filer_h264 picked the highest H264 type of the offer: SdpInfo, which     *)
(* reads the same offer on its own, keeps that one.                         *)
THEOREM SentAsAnsweredIfHighest ==
  TypesSpec => [](AnswersHighest => SentAsAnswered)
<1>1. TypesInit => HighestInv  BY Zenon DEF TypesInit, HighestInv
<1>2. TypesInv /\ HighestInv /\ [TypesNext]_typesVars => HighestInv'  BY HighestStep, Zenon
<1>3. ASSUME TypesInv, HighestInv, AnswersHighest PROVE SentAsAnswered
  <2>. SUFFICES ASSUME NEW p \in lastSent, final_format # 0, p.whole PROVE p.pt = final_format
    BY Zenon DEF SentAsAnswered
  <2>0. offer \in Offers  BY <1>3, Zenon DEF TypesInv
  <2>1. final_format = filer_h264(offer, prefer)  BY <1>3, Zenon DEF TypesInv, HighestInv
  <2>2. TypesOf("H264") # {} /\ final_format \in TypesOf("H264")  BY <2>0, <2>1, FilerFinds, Zenon
  <2>3. p.pt \in TypesOf("H264") /\ final_format <= p.pt  BY <1>3, <2>2, Zenon DEF HighestInv
  <2>4. p.pt <= final_format  BY <1>3, <2>3, Zenon DEF AnswersHighest
  <2>5. TypesOf("H264") \subseteq PTs  BY <2>0, TypesOfFacts, Zenon
  <2>6. p.pt \in PTs /\ final_format \in PTs  BY <2>2, <2>3, <2>5, Zenon
  <2>7. PTs \subseteq Nat  BY PTsAssumption
  <2>8. p.pt \in Nat /\ final_format \in Nat  BY <2>6, <2>7, Zenon
  <2>. QED  BY <2>3, <2>4, <2>8
<1>. QED  BY <1>1, <1>2, <1>3, TypesInvHolds, PTL DEF TypesSpec

-----------------------------------------------------------------------------
(* NalScan. *)

(* The fragments are the NAL units of the start codes before x, in order. *)
CutUpTo(x) ==
    /\ {frags[n] : n \in DOMAIN frags} = {NalUnit(k) : k \in {c \in Codes : c < x}}
    /\ \A m, n \in DOMAIN frags : m < n => frags[m][1] < frags[n][1]
    /\ \A n \in DOMAIN frags : frags[n][1] < x + 3

(* The start code before the NAL unit that is scanned. *)
Current == buffer_start + nal_start - 3

Inv == /\ NalTypeOK
       /\ pc = "seek" => /\ CutUpTo(buffer_start + i)
                         /\ Codes # {} => \E k \in Codes : k >= buffer_start + i
       /\ pc = "scan" => /\ nal_start >= 3
                         /\ Current \in Codes
                         /\ CutUpTo(Current)
                         /\ \A c \in Codes : c > Current => c >= buffer_start + i
       /\ pc = "done" => CutUpTo(Len(payload))
       /\ pc = "missing" => Codes = {} /\ CutUpTo(Len(payload))

(* What a start code is, byte by byte. *)
LEMMA CodeBytes ==
    ASSUME NalTypeOK, NEW k \in Int
    PROVE  k \in Codes <=> /\ k >= 0 /\ k + 3 <= Len(payload)
                           /\ payload[k + 1] = 0 /\ payload[k + 2] = 0 /\ payload[k + 3] = 1
BY DEF NalTypeOK, Codes, StartCodeAt

(* Start codes do not overlap. *)
LEMMA CodesApart ==
    ASSUME NalTypeOK, NEW k \in Codes, NEW c \in Codes, c > k
    PROVE  c >= k + 3
<1>1. k \in Int /\ c \in Int
  BY DEF Codes
<1>2. CASE c = k + 1
  <2>1. payload[k + 3] = 1 /\ payload[c + 2] = 0 /\ c + 2 = k + 3
    BY <1>1, <1>2, CodeBytes
  <2> QED
    BY <2>1
<1>3. CASE c = k + 2
  <2>1. payload[k + 3] = 1 /\ payload[c + 1] = 0 /\ c + 1 = k + 3
    BY <1>1, <1>3, CodeBytes
  <2> QED
    BY <2>1
<1> QED
  BY <1>1, <1>2, <1>3

(* findNALU sees {0, 0, 1} exactly at the start codes of the frame. *)
LEMMA Code3Codes ==
    ASSUME NalTypeOK, Size >= i + 3
    PROVE  Code3 <=> buffer_start + i \in Codes
<1>1. buffer_start + i \in Int /\ buffer_start + i >= 0 /\ buffer_start + i + 3 <= Len(payload)
  BY DEF NalTypeOK, Size
<1>2. /\ buffer_start + (i + 1) + 1 = buffer_start + i + 2
      /\ buffer_start + (i + 2) + 1 = buffer_start + i + 3
  BY DEF NalTypeOK, Size
<1> QED
  BY <1>1, <1>2, CodeBytes DEF Code3, Buf

(* The end findNALU gives a NAL unit is the one of the definition. *)
LEMMA NalEndIsEnd ==
    ASSUME Inv, pc = "scan", Size > i + 2 => Code3
    PROVE  /\ NalEnd \in nal_start .. Size
           /\ NalUnit(Current) = <<buffer_start + nal_start, NalEnd - nal_start>>
           /\ Size > i + 2 => /\ buffer_start + i \in Codes
                              /\ buffer_start + i > Current
                              /\ NalEnd \in {i - 1, i}
           /\ Size <= i + 2 => NalEnd = Size /\ \A c \in Codes : c <= Current
<1>0. /\ buffer_start \in Nat /\ i \in Nat /\ nal_start \in Nat /\ Len(payload) \in Nat
      /\ i <= Size /\ nal_start <= i /\ Size = Len(payload) - buffer_start
      /\ nal_start >= 3 /\ Current \in Codes /\ Current \in Int
      /\ \A c \in Codes : c \in Int /\ c + 3 <= Len(payload)
  BY DEF Inv, NalTypeOK, Size, Current, Codes
<1>1. CASE Size <= i + 2
  <2>1. \A c \in Codes : c <= Current
    BY <1>0, <1>1 DEF Inv
  <2>2. LaterCodes(Current) = {}
    <3>1. \A c \in Codes : ~(c > Current)
      BY <1>0, <2>1
    <3> QED
      BY <3>1, Zenon DEF LaterCodes
  <2>3. NalUnit(Current) = <<Current + 3, Len(payload) - (Current + 3)>>
    BY <2>2, Zenon DEF NalUnit, UnitEnd
  <2>4. NalEnd = Size
    BY <1>1, Zenon DEF NalEnd
  <2>5. Current + 3 = buffer_start + nal_start
    BY <1>0 DEF Current
  <2>6. NalEnd \in nal_start .. Size /\ ~(Size > i + 2)
    BY <1>0, <1>1, <2>4
  <2>7. Len(payload) - (Current + 3) = NalEnd - nal_start
    BY <1>0, <2>4, <2>5
  <2>8. NalUnit(Current) = <<buffer_start + nal_start, NalEnd - nal_start>>
    BY <2>3, <2>5, <2>7, Zenon
  <2> QED
    BY <1>1, <2>1, <2>4, <2>6, <2>8, Zenon
<1>2. CASE Size > i + 2
  <2>1. buffer_start + i \in Codes
    BY <1>0, <1>2, Code3Codes DEF Inv
  <2>2. buffer_start + i > Current
    BY <1>0 DEF Current
  <2>3. buffer_start + i \in LaterCodes(Current) /\ \A d \in LaterCodes(Current) : buffer_start + i <= d
    BY <1>0, <2>1, <2>2, Zenon DEF Inv, LaterCodes
  <2>4. Min(LaterCodes(Current)) = buffer_start + i
    <3>1. /\ Min(LaterCodes(Current)) \in LaterCodes(Current)
          /\ \A d \in LaterCodes(Current) : Min(LaterCodes(Current)) <= d
      BY <2>3, Zenon DEF Min
    <3>2. Min(LaterCodes(Current)) \in Int
      BY <1>0, <3>1, Zenon DEF LaterCodes
    <3> QED
      BY <1>0, <2>3, <3>1, <3>2
  <2>5. UnitEnd(Current) = IF payload[buffer_start + i] = 0 THEN buffer_start + i - 1
                           ELSE buffer_start + i
    <3>1. LaterCodes(Current) # {}
      BY <2>3, Zenon
    <3> QED
      BY <1>0, <2>4, <3>1 DEF UnitEnd
  <2>6. NalEnd = IF payload[buffer_start + i] = 0 THEN i - 1 ELSE i
    <3>1. buffer_start + (i - 1) + 1 = buffer_start + i
      BY <1>0
    <3> QED
      BY <1>0, <1>2, <3>1 DEF NalEnd, Buf
  <2>7. Current + 3 = buffer_start + nal_start
    BY <1>0 DEF Current
  <2>8. payload[Current + 3] = 1
    BY <1>0, CodeBytes, ZenonT(40) DEF Inv
  <2>9. payload[buffer_start + i] = 0 => nal_start <= i - 1
    <3>1. ASSUME nal_start = i, payload[buffer_start + i] = 0 PROVE FALSE
      BY <2>7, <2>8, <3>1
    <3> QED
      BY <1>0, <3>1
  <2> QED
    BY <1>0, <1>2, <2>1, <2>2, <2>5, <2>6, <2>7, <2>9 DEF NalUnit
<1> QED
  BY <1>0, <1>1, <1>2

(* A NAL unit appended to the fragments takes them past its start code. *)
LEMMA CutExtends ==
    ASSUME NalTypeOK, NEW k \in Codes, CutUpTo(k), NEW x \in Int, x > k,
           \A c \in Codes : c > k => c >= x,
           NEW u, u = NalUnit(k),
           frags' = Append(frags, u), payload' = payload
    PROVE  CutUpTo(x)'
<1>0. k \in Int /\ frags \in Seq((0 .. Len(payload)) \X (0 .. Len(payload)))
  BY DEF Codes, NalTypeOK
<1>1. Codes' = Codes /\ \A c : NalUnit(c)' = NalUnit(c)
  BY Zenon DEF Codes, NalUnit, UnitEnd, LaterCodes
<1>2. {c \in Codes : c < x} = {c \in Codes : c < k} \union {k}
  BY <1>0 DEF Codes
<1>3. /\ Len(frags) \in Nat /\ DOMAIN frags = 1 .. Len(frags)
      /\ DOMAIN frags' = 1 .. Len(frags) + 1
      /\ \A n \in 1 .. Len(frags) : frags'[n] = frags[n]
      /\ frags'[Len(frags) + 1] = u
  BY <1>0
<1>4. {frags'[n] : n \in DOMAIN frags'} = {frags[n] : n \in DOMAIN frags} \union {u}
  BY <1>3
<1>5. {NalUnit(c) : c \in {d \in Codes : d < x}}
          = {NalUnit(c) : c \in {d \in Codes : d < k}} \union {u}
  BY <1>2, Zenon
<1>6. u[1] = k + 3
  BY Zenon DEF NalUnit
<1>7. \A n \in DOMAIN frags : frags[n][1] \in Int /\ frags[n][1] < k + 3
  BY <1>0, <1>3 DEF CutUpTo
<1>8. \A m, n \in DOMAIN frags' : m < n => frags'[m][1] < frags'[n][1]
  BY <1>3, <1>6, <1>7 DEF CutUpTo
<1>9. \A n \in DOMAIN frags' : frags'[n][1] < x + 3
  BY <1>0, <1>3, <1>6, <1>7
<1>10. {NalUnit(c) : c \in {d \in Codes : d < x}}'
           = {NalUnit(c) : c \in {d \in Codes : d < x}}
  BY <1>1, Zenon
<1>11. ({frags[n] : n \in DOMAIN frags} = {NalUnit(c) : c \in {d \in Codes : d < x}})'
  BY <1>4, <1>5, <1>10, Zenon DEF CutUpTo
<1> QED
  BY <1>8, <1>9, <1>11, Zenon DEF CutUpTo

(* Between two points with no start code in between nothing is to be cut. *)
LEMMA CutSame ==
    ASSUME NalTypeOK, NEW x \in Int, NEW y \in Int, x <= y, CutUpTo(x),
           \A c \in Codes : c < x \/ c >= y
    PROVE  CutUpTo(y)
<1>1. {c \in Codes : c < x} = {c \in Codes : c < y}
  BY DEF Codes
<1>2. \A n \in DOMAIN frags : frags[n][1] < y + 3
  BY SMTT(30) DEF CutUpTo, NalTypeOK
<1> QED
  BY <1>1, <1>2, Zenon DEF CutUpTo

(* A step that leaves the frame and the fragments alone. *)
LEMMA CutKept ==
    ASSUME NEW x, UNCHANGED <<payload, frags>>
    PROVE  /\ CutUpTo(x)' <=> CutUpTo(x')
           /\ Codes' = Codes
<1>1. payload' = payload /\ frags' = frags
  BY Zenon
<1>2. Codes' = Codes
  BY <1>1, Zenon DEF Codes
<1>3. ASSUME NEW c PROVE LaterCodes(c)' = LaterCodes(c)
  BY <1>2, Zenon DEF LaterCodes
<1>4. ASSUME NEW c PROVE UnitEnd(c)' = UnitEnd(c)
  BY <1>1, <1>3, Zenon DEF UnitEnd
<1>5. ASSUME NEW c PROVE NalUnit(c)' = NalUnit(c)
  BY <1>4, Zenon DEF NalUnit
<1> QED
  BY <1>1, <1>2, <1>5, Zenon DEF CutUpTo

(* The scan goes on one byte, or finds a start code. *)
LEMMA SeekInv ==
    ASSUME Inv, Seek
    PROVE  Inv'
<1>0. /\ buffer_start \in Nat /\ i \in Nat /\ nal_start \in Nat /\ Len(payload) \in Nat
      /\ i <= Size /\ Size = Len(payload) - buffer_start /\ Size' = Size
      /\ \A c \in Codes : c \in Int /\ c + 3 <= Len(payload)
      /\ NalTypeOK /\ pc = "seek" /\ CutUpTo(buffer_start + i)
      /\ UNCHANGED <<payload, buffer_start, frags>>
  BY DEF Inv, NalTypeOK, Size, Codes, Seek
<1>1. /\ Codes' = Codes
      /\ \A x : CutUpTo(x)' <=> CutUpTo(x')
  BY <1>0, CutKept, Zenon
<1>2. CASE Size < i + 3
  <2>1. pc' = "missing" /\ i' = i /\ nal_start' = nal_start
    BY <1>0, <1>2 DEF Seek
  <2>2. Codes = {}
    BY <1>0, <1>2 DEF Inv
  <2>3. CutUpTo(Len(payload))
    BY <1>0, <2>2, CutSame
  <2>4. CutUpTo(Len(payload))'
    BY <1>0, <1>1, <2>3, Zenon
  <2>5. NalTypeOK'
    BY <1>0, <2>1, Zenon DEF NalTypeOK
  <2> QED
    BY <1>1, <2>1, <2>2, <2>4, <2>5, Zenon DEF Inv
<1>3. ASSUME NEW n \in {3, 4}, Found(n), i + n <= Size,
             buffer_start + i + n - 3 \in Codes,
             n = 4 => buffer_start + i \notin Codes
      PROVE  Inv'
  <2> DEFINE k == buffer_start + i + n - 3
  <2>1. pc' = "scan" /\ nal_start' = i + n /\ i' = i + n
    BY <1>3, Zenon DEF Found
  <2>2. Current' = k /\ k \in Int
    BY <1>0, <2>1 DEF Current
  <2>3. CutUpTo(k)
    <3>1. \A c \in Codes : c < buffer_start + i \/ c >= k
      BY <1>0, <1>3
    <3> QED
      BY <1>0, <2>2, <3>1, CutSame
  <2>4. CutUpTo(Current)'
    BY <1>1, <2>2, <2>3, Zenon DEF Current
  <2>5. \A c \in Codes : c > k => c >= buffer_start + i + n
    BY <1>0, <1>3, CodesApart
  <2>6. NalTypeOK'
    BY <1>0, <1>3, <2>1 DEF NalTypeOK
  <2>7. \A c \in Codes' : c > Current' => c >= buffer_start' + i'
    BY <1>0, <1>1, <2>1, <2>2, <2>5
  <2>8. nal_start' >= 3 /\ Current' \in Codes'
    BY <1>0, <1>1, <1>3, <2>1, <2>2
  <2> QED
    BY <2>1, <2>4, <2>6, <2>7, <2>8, Zenon DEF Inv
<1>4. CASE Size >= i + 3 /\ Code3
  BY <1>0, <1>3, <1>4, Code3Codes DEF Seek
<1>5. CASE Size >= i + 3 /\ ~Code3 /\ Code4
  <2>1. Found(4) /\ i + 4 <= Size
    BY <1>0, <1>5 DEF Seek, Code4
  <2>2. buffer_start + i \notin Codes
    BY <1>0, <1>5, Code3Codes, Zenon
  <2>3. buffer_start + i + 1 \in Codes
    BY <1>0, <1>5, CodeBytes DEF Code4, Buf
  <2> QED
    BY <1>0, <1>3, <2>1, <2>2, <2>3
<1>6. CASE Size >= i + 3 /\ ~Code3 /\ ~Code4
  <2>1. i' = i + 1 /\ nal_start' = nal_start /\ pc' = "seek"
    BY <1>0, <1>6 DEF Seek
  <2>2. buffer_start + i \notin Codes
    BY <1>0, <1>6, Code3Codes, Zenon
  <2>3. CutUpTo(buffer_start + i + 1)
    BY <1>0, <2>2, CutSame
  <2>4. CutUpTo(buffer_start + i)'
    BY <1>0, <1>1, <2>1, <2>3
  <2>5. Codes # {} => \E k \in Codes : k >= buffer_start + i + 1
    BY <1>0, <2>2 DEF Inv
  <2>6. NalTypeOK'
    BY <1>0, <1>6, <2>1 DEF NalTypeOK
  <2> QED
    BY <1>0, <1>1, <2>1, <2>4, <2>5, <2>6 DEF Inv
<1> QED
  BY <1>0, <1>2, <1>4, <1>5, <1>6

(* The scan for the end of the NAL unit goes on one byte. *)
LEMMA ScanInv ==
    ASSUME Inv, Scan
    PROVE  Inv'
<1>0. /\ buffer_start \in Nat /\ i \in Nat /\ nal_start \in Nat
      /\ Size \in Int /\ Size' = Size /\ Size > i + 2
      /\ \A c \in Codes : c \in Int
      /\ NalTypeOK /\ pc = "scan" /\ pc' = "scan" /\ i' = i + 1
      /\ UNCHANGED <<payload, buffer_start, nal_start, frags>>
  BY DEF Inv, NalTypeOK, Size, Codes, Scan
<1>1. /\ Codes' = Codes
      /\ \A x : CutUpTo(x)' <=> CutUpTo(x')
  BY <1>0, CutKept, Zenon
<1>2. Current' = Current
  BY <1>0, Zenon DEF Current
<1>3. buffer_start + i \notin Codes
  BY <1>0, Code3Codes DEF Scan
<1>4. NalTypeOK'
  BY <1>0 DEF NalTypeOK
<1>5. CutUpTo(Current)'
  BY <1>0, <1>1, <1>2, Zenon DEF Inv
<1>6. \A c \in Codes : c > Current => c >= buffer_start + i + 1
  BY <1>0, <1>3 DEF Inv
<1> QED
  BY <1>0, <1>1, <1>2, <1>4, <1>5, <1>6, SMTT(30) DEF Inv

(* findNALU returns, and onFrame goes on with the rest of the buffer. *)
LEMMA CutInv ==
    ASSUME Inv, CutNalu
    PROVE  Inv'
<1>0. /\ buffer_start \in Nat /\ i \in Nat /\ nal_start \in Nat /\ Len(payload) \in Nat
      /\ i <= Size /\ Size = Len(payload) - buffer_start
      /\ \A c \in Codes : c \in Int /\ c + 3 <= Len(payload)
      /\ NalTypeOK /\ pc = "scan" /\ Current \in Codes /\ CutUpTo(Current)
      /\ (Size > i + 2 => Code3)
      /\ payload' = payload /\ i' = 0 /\ nal_start' = 0
      /\ buffer_start' = buffer_start + NalEnd
      /\ pc' = IF Size > NalEnd THEN "seek" ELSE "done"
      /\ frags' = Append(frags, <<buffer_start + nal_start, NalEnd - nal_start>>)
  BY DEF Inv, NalTypeOK, Size, Codes, CutNalu
<1>1. /\ NalEnd \in nal_start .. Size
      /\ NalUnit(Current) = <<buffer_start + nal_start, NalEnd - nal_start>>
      /\ Size > i + 2 => /\ buffer_start + i \in Codes
                         /\ buffer_start + i > Current
                         /\ NalEnd \in {i - 1, i}
      /\ Size <= i + 2 => NalEnd = Size /\ \A c \in Codes : c <= Current
  BY <1>0, NalEndIsEnd, Zenon
<1>2. Codes' = Codes
  BY <1>0, Zenon DEF Codes
<1>3. NalTypeOK'
  <2>1. frags \in Seq((0 .. Len(payload)) \X (0 .. Len(payload)))
    BY <1>0, Zenon DEF NalTypeOK
  <2>2. <<buffer_start + nal_start, NalEnd - nal_start>>
            \in (0 .. Len(payload)) \X (0 .. Len(payload))
    <3>1. buffer_start + nal_start \in 0 .. Len(payload)
      BY <1>0, <1>1
    <3>2. NalEnd - nal_start \in 0 .. Len(payload)
      BY <1>0, <1>1
    <3> QED
      BY <3>1, <3>2, Zenon
  <2>3. frags' \in Seq((0 .. Len(payload)) \X (0 .. Len(payload)))
    BY <1>0, <2>1, <2>2
  <2>4. buffer_start' \in 0 .. Len(payload) /\ Size' \in Nat
    BY <1>0, <1>1 DEF Size
  <2> QED
    BY <1>0, <2>3, <2>4 DEF NalTypeOK
<1>4. CASE Size > i + 2
  <2>1. \A c \in Codes : c > Current => c >= buffer_start + i
    BY <1>0, Zenon DEF Inv
  <2>2. buffer_start + NalEnd > Current
    <3>1. Current = buffer_start + nal_start - 3
      BY Zenon DEF Current
    <3> QED
      BY <1>0, <1>1, <3>1
  <2>3. NalEnd \in Int /\ NalEnd <= i
    BY <1>0, <1>1, <1>4
  <2>4. \A c \in Codes : c > Current => c >= buffer_start + NalEnd
    BY <1>0, <2>1, <2>3
  <2>5. PICK x \in Int : x = buffer_start + NalEnd
    BY <1>0, <2>3
  <2>6. CutUpTo(x)'
    BY <1>0, <1>1, <2>2, <2>4, <2>5, CutExtends, Zenon
  <2>7. (buffer_start + i)' = x
    BY <1>0, <2>3, <2>5
  <2>8. CutUpTo(buffer_start + i)'
    BY <2>6, <2>7, Zenon
  <2>9. \E k \in Codes : k >= x
    BY <1>0, <1>1, <1>4, <2>3, <2>5
  <2>10. pc' = "seek"
    BY <1>0, <1>4, <2>3
  <2> QED
    BY <1>2, <1>3, <2>7, <2>8, <2>9, <2>10, Zenon DEF Inv
<1>5. CASE Size <= i + 2
  <2>1. Current < Len(payload)
    BY <1>0
  <2>2. pc' = "done"
    BY <1>0, <1>1, <1>5
  <2>3. \A c \in Codes : c > Current => c >= Len(payload)
    BY <1>0, <1>1, <1>5
  <2>4. PICK x \in Int : x = Len(payload)
    BY <1>0
  <2>5. CutUpTo(x)'
    BY <1>0, <1>1, <2>1, <2>3, <2>4, CutExtends, ZenonT(40)
  <2>6. CutUpTo(Len(payload))'
    BY <1>0, <2>4, <2>5, ZenonT(40)
  <2> QED
    BY <1>3, <2>2, <2>6, ZenonT(40) DEF Inv
<1> QED
  BY <1>0, <1>4, <1>5, SMTT(30)

(* The scan has always cut up to the point it has reached. *)
LEMMA InvHolds == NalSpec => []Inv
<1>1. NalInit => Inv
  <2> SUFFICES ASSUME NalInit PROVE Inv
    BY Zenon
  <2>1. payload \in Seq(Nat) /\ Len(payload) \in Nat
    BY PayloadsAssumption DEF NalInit
  <2>2. NalTypeOK
    BY <2>1 DEF NalInit, NalTypeOK, Size
  <2>3. frags = << >> /\ DOMAIN frags = {}
    BY DEF NalInit
  <2>4. CutUpTo(0)
    <3>1. {c \in Codes : c < 0} = {}
      BY DEF Codes
    <3> QED
      BY <2>3, <3>1, Zenon DEF CutUpTo
  <2>5. CASE Len(payload) > 0
    BY <2>2, <2>4, <2>5 DEF NalInit, Inv, Codes
  <2>6. CASE Len(payload) = 0
    BY <2>2, <2>4, <2>6 DEF NalInit, Inv
  <2> QED
    BY <2>1, <2>5, <2>6
<1>2. Inv /\ [NalNext]_nalVars => Inv'
  <2> SUFFICES ASSUME Inv, [NalNext]_nalVars PROVE Inv'
    OBVIOUS
  <2>1. CASE UNCHANGED nalVars
    <3>1. Codes' = Codes /\ Current' = Current /\ NalTypeOK'
      BY <2>1, Zenon DEF nalVars, Inv, NalTypeOK, Size, Current, Codes
    <3>2. \A x : CutUpTo(x)' <=> CutUpTo(x')
      BY <2>1, CutKept, Zenon DEF nalVars
    <3> QED
      BY <2>1, <3>1, <3>2, Zenon DEF nalVars, Inv
  <2> QED
    BY <2>1, SeekInv, ScanInv, CutInv, Zenon DEF NalNext
<1> QED
  BY <1>1, <1>2, PTL DEF NalSpec

(* Every offset and length stays within the frame: findNALU's indices, the  *)
(* rest of the buffer and the fragments.                                    *)
THEOREM NalTypeCorrect == NalSpec => []NalTypeOK
<1>1. Inv => NalTypeOK
  BY Zenon DEF Inv
<1> QED
  BY <1>1, InvHolds, PTL

(* onFrame never meets its "should never happen" in a frame with a start    *)
(* code.                                                                    *)
THEOREM NeverMissingHolds == NalSpec => []NeverMissing
<1>1. Inv => NeverMissing
  BY Zenon DEF Inv, NeverMissing
<1> QED
  BY <1>1, InvHolds, PTL

(* The fragments of a frame are its NAL units, in order, each once.         *)
THEOREM FragsAreNalusHolds == NalSpec => []FragsAreNalus
<1>1. Inv => FragsAreNalus
  <2> SUFFICES ASSUME Inv, pc \in {"done", "missing"}
               PROVE  /\ {frags[n] : n \in DOMAIN frags} = {NalUnit(k) : k \in Codes}
                      /\ \A m, n \in DOMAIN frags : m < n => frags[m][1] < frags[n][1]
    BY Zenon DEF FragsAreNalus
  <2>1. CutUpTo(Len(payload))
    BY Zenon DEF Inv
  <2>2. {c \in Codes : c < Len(payload)} = Codes
    BY DEF Codes, Inv, NalTypeOK
  <2> QED
    BY <2>1, <2>2, Zenon DEF CutUpTo
<1> QED
  BY <1>1, InvHolds, PTL

=============================================================================
