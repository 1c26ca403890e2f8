---------------------------- MODULE PayloadTypes ----------------------------
(***************************************************************************)
(* The RTP payload types of one video m-line, from the peer's offer to the *)
(* packets of the call.  Two parts of the program read the offer on their  *)
(* own.  The agent (wa/sdp_processor.cpp) picks one H264 format by its     *)
(* profile and answers with that one only.  The transport library          *)
(* (erizo/SdpInfo.cpp) gets the whole offer and pairs every offered format *)
(* it knows with the number the program uses inside: H264_90000_PT,        *)
(* RED_90000_PT.  MediaStream and WoogeenHandler rewrite each packet by    *)
(* the library's maps.                                                     *)
(***************************************************************************)
EXTENDS Integers, Sequences, FiniteSetsExt

CONSTANTS
  PTs,            \* the payload types a peer may number its formats with
  Profiles,       \* the profile-level-id values
  H264_90000_PT,  \* the number of H264 inside the program
  RED_90000_PT,   \* the number of red inside the program
  MaxFormats      \* bound: formats in one m-line

(* A payload type has 7 bits; the program takes 0 for none. *)
ASSUME PTsAssumption ==
  /\ PTs \subseteq 1 .. 127
  /\ {H264_90000_PT, RED_90000_PT} \subseteq PTs
  /\ H264_90000_PT # RED_90000_PT

ASSUME MaxFormatsAssumption == MaxFormats \in Nat

VARIABLES
  offer,         \* MediaDesc::rtp_maps_, in the order of the m-line
  prefer,        \* FormatPreference::profile_
  final_format,  \* operation::final_format_; -1 before the offer is processed
  negotiated,    \* MediaStream::setRemoteSdp has copied the library's SdpInfo
  inOutPTMap,    \* SdpInfo's map from internal to external types
  outInPTMap,    \* SdpInfo's map from external to internal types
  lastSent,      \* the last video packet put on the wire: {} or {[pt, whole]}
  received       \* the last one handed to the receive side: {} or {[pt, whole]}

typesVars == <<offer, prefer, final_format, negotiated, inOutPTMap, outInPTMap,
          lastSent, received>>

(* mode1 is packetization-mode=1; a format that is not H264 has none. *)
Format ==
  [pt : PTs, codec : {"H264"}, mode1 : BOOLEAN, profile : Profiles]
    \cup [pt : PTs, codec : {"red", "other"}]

Offers ==
  {s \in UNION {[1 .. n -> Format] : n \in 1 .. MaxFormats} :
     \A i, j \in DOMAIN s : s[i].pt = s[j].pt => i = j}

Packet == [pt : PTs, whole : BOOLEAN]

IsH264(f) == f.codec = "H264"

TypesOf(codec) == {f.pt : f \in {g \in Range(offer) : g.codec = codec}}

-----------------------------------------------------------------------------
(* The places in the offer at which the search for the profile breaks off. *)
Matches(formats, profile) ==
  {i \in DOMAIN formats : /\ IsH264(formats[i])
                          /\ formats[i].mode1
                          /\ formats[i].profile = profile}

filer_h264Last(formats, profile) ==
  LET h264 == {i \in DOMAIN formats : IsH264(formats[i])}
  IN  IF h264 = {} THEN 0 ELSE formats[Max(h264)].pt

(* The first format of the wanted profile in packetization mode 1; if there *)
(* is none, the last H264 format, of whatever mode; 0 without H264.         *)
filer_h264(formats, profile) ==
  LET h264 == {i \in DOMAIN formats : IsH264(formats[i])}
  IN  CASE Matches(formats, profile) # {} ->
             formats[Min(Matches(formats, profile))].pt
        [] h264 # {} /\ Matches(formats, profile) = {} -> formats[Max(h264)].pt
        [] OTHER -> 0

Internal(codec) == IF codec = "H264" THEN H264_90000_PT ELSE RED_90000_PT

OutInHighest ==
  [e \in {Max(TypesOf(c)) : c \in {d \in {"H264", "red"} : TypesOf(d) # {}}} |->
     Internal((CHOOSE f \in Range(offer) : f.pt = e).codec)]

(* Every offered type of a codec the program knows is taken for its own. *)
OutIn ==
  [e \in TypesOf("H264") \cup TypesOf("red") |->
     Internal((CHOOSE f \in Range(offer) : f.pt = e).codec)]

(* The offered formats are visited by ascending type and each overwrites the *)
(* entry of the one before, so the highest of a codec's types remains.       *)
InOut ==
  [i \in {Internal(c) : c \in {d \in {"H264", "red"} : TypesOf(d) # {}}} |->
     Max({e \in DOMAIN OutIn : OutIn[e] = i})]

(* getVideoExternalPT and getVideoInternalPT: a type without entry stays. *)
getVideoExternalPT(pt) ==
  IF pt \in DOMAIN inOutPTMap THEN inOutPTMap[pt] ELSE pt

getVideoInternalPT(pt) ==
  IF pt \in DOMAIN outInPTMap THEN outInPTMap[pt] ELSE pt

-----------------------------------------------------------------------------
TypesInit ==
  /\ offer \in Offers
  /\ prefer \in Profiles
  /\ final_format = -1
  /\ negotiated = FALSE
  /\ inOutPTMap = <<>> /\ outInPTMap = <<>>
  /\ lastSent = {} /\ received = {}

(* processOfferMedia picks the format, filterByPayload leaves it alone in   *)
(* the answer.  An offer without H264 is answered unfiltered.               *)
ProcessOfferMedia ==
  /\ final_format = -1
  /\ final_format' = filer_h264(offer, prefer)
  /\ UNCHANGED <<offer, prefer, negotiated, inOutPTMap, outInPTMap, lastSent, received>>

SetRemoteSdpOneWay ==
  /\ final_format # -1 /\ ~negotiated
  /\ negotiated' = TRUE
  /\ outInPTMap' = OutIn
  /\ UNCHANGED <<offer, prefer, final_format, inOutPTMap, lastSent, received>>

(* setupTransport hands the offer to the connection, unfiltered. *)
SetRemoteSdp ==
  /\ final_format # -1 /\ ~negotiated
  /\ negotiated' = TRUE
  /\ outInPTMap' = OutIn
  /\ inOutPTMap' = InOut
  /\ UNCHANGED <<offer, prefer, final_format, lastSent, received>>

SendPacketInside ==
  /\ negotiated
  /\ lastSent' = {[pt |-> H264_90000_PT, whole |-> TRUE]}
  /\ UNCHANGED <<offer, prefer, final_format, negotiated, inOutPTMap, outInPTMap, received>>

(* sendPacket numbers the send adapter's H264 packet for the peer.  Then    *)
(* WoogeenHandler::write takes a packet with the peer's number of red for   *)
(* one, and sends what follows the first payload byte under the type that   *)
(* this byte (here b) stands for.                                           *)
SendPacket ==
  /\ negotiated
  /\ LET external == getVideoExternalPT(H264_90000_PT)
     IN  lastSent' \in IF external = getVideoExternalPT(RED_90000_PT)
                   THEN {{[pt |-> getVideoExternalPT(b), whole |-> FALSE]} : b \in PTs}
                   ELSE {{[pt |-> external, whole |-> TRUE]}}
  /\ UNCHANGED <<offer, prefer, final_format, negotiated, inOutPTMap, outInPTMap, received>>

(* The peer sends what the answer allows.  WoogeenHandler::read rewrites    *)
(* the first payload byte of what it takes for red, then MediaStream::read  *)
(* numbers the packet for the inside.                                       *)
ReadPacket ==
  /\ negotiated
  /\ final_format # 0
  /\ LET internal == getVideoInternalPT(final_format)
     IN  received' = {[pt |-> internal, whole |-> internal # RED_90000_PT]}
  /\ UNCHANGED <<offer, prefer, final_format, negotiated, inOutPTMap, outInPTMap, lastSent>>

TypesNext == ProcessOfferMedia \/ SetRemoteSdp \/ SendPacket \/ ReadPacket

TypesSpec == TypesInit /\ [][TypesNext]_typesVars

-----------------------------------------------------------------------------
(* The maps only ever hold types of the offer, under the two internal       *)
(* numbers, and every packet has a type of its 7 bits.                      *)
TypesTypeOK ==
  /\ offer \in Seq(Format)
  /\ prefer \in Profiles
  /\ final_format \in {-1, 0} \cup PTs
  /\ negotiated \in BOOLEAN
  /\ DOMAIN inOutPTMap \subseteq {H264_90000_PT, RED_90000_PT}
  /\ Range(outInPTMap) = DOMAIN inOutPTMap
  /\ Range(inOutPTMap) \subseteq DOMAIN outInPTMap
  /\ lastSent \subseteq Packet /\ received \subseteq Packet

(* filer_h264 answers with the profile the application asked for whenever   *)
(* the peer offers it in packetization mode 1, wherever in the m-line that  *)
(* format stands, and with some H264 format whenever there is one.          *)
AnswersPreferred ==
  final_format # -1 =>
    /\ TypesOf("H264") # {} => final_format \in TypesOf("H264")
    /\ Matches(offer, prefer) # {} =>
         \E i \in Matches(offer, prefer) : offer[i].pt = final_format

(* Whichever format was answered, a packet the peer sends in it reaches the *)
(* receive side under the program's own number of H264 with its payload     *)
(* untouched: the library's map, made from the whole offer, always has the  *)
(* type the agent chose on its own.                                         *)
ReceivedAsH264 ==
  \A p \in received : p = [pt |-> H264_90000_PT, whole |-> TRUE]

(* A packet sent has a type the peer numbered an H264 format with, and its  *)
(* whole payload, unless the peer gave H264 the very number that stands for *)
(* red inside and offered no red.                                           *)
SentAsH264 ==
  (RED_90000_PT \in TypesOf("H264") => TypesOf("red") # {}) =>
    \A p \in lastSent : TypesOf("H264") # {} => p.whole /\ p.pt \in TypesOf("H264")

(* A video packet is sent under the payload type of the answer, the one     *)
(* filterMediaPayload returned (test/sdp_processor_ut.cpp expects 125 of    *)
(* the Chrome offer whose highest H264 type is 127).                        *)
SentAsAnswered ==
  \A p \in lastSent : final_format # 0 /\ p.whole => p.pt = final_format

=============================================================================
