-------------------------- MODULE WebRtcConnection --------------------------
(***************************************************************************)
(* erizo::WebRtcConnection: creates the transport when the first remote    *)
(* SDP is set and folds the transport's state into its own global_state_.  *)
(* The connection is given one m-line per SDP and creates transports for   *)
(* the first one only, so there is at most one transport: video_transport_ *)
(* when the SDP is bundled or the m-line is video, else audio_transport_.  *)
(* Trickle is off (the default of IceConfig), as it is in every caller.    *)
(***************************************************************************)
EXTENDS DtlsTransport

GlobalStates == {"INITIAL", "STARTED", "GATHERED", "READY", "FINISHED", "FAILED"}

VARIABLES
    gstate,     \* global_state_
    sending,    \* sending_
    observed,   \* conn_event_listener_ # nullptr
    transport,  \* which of the two transport pointers is set
    bundle,     \* bundle_
    channels,   \* the m-line types the SDP objects have seen: hasAudio, hasVideo
    firstSdp    \* first_remote_sdp_processed_

connVars == <<gstate, sending, observed, transport, bundle, channels, firstSdp>>

ConnTypeOK ==
    /\ gstate \in GlobalStates
    /\ sending \in BOOLEAN
    /\ observed \in BOOLEAN
    /\ transport \in {"none", "audio", "video"}
    /\ bundle \in BOOLEAN
    /\ channels \subseteq {"audio", "video"}
    /\ firstSdp \in BOOLEAN

ConnInit ==
    /\ gstate = "INITIAL"
    /\ sending = FALSE
    /\ observed = FALSE
    /\ transport = "none"
    /\ bundle = FALSE
    /\ channels = {}
    /\ firstSdp = FALSE

(* The constructor and init(), which only reports CONN_INITIAL. *)
NewConnection ==
    /\ sending' = TRUE
    /\ observed' = TRUE
    /\ UNCHANGED <<gstate, transport, bundle, channels, firstSdp>>

(* setRemoteSdp, once for each of the m-lines in medias and in this order. *)
(* SdpInfo never clears hasAudio and hasVideo, so they accumulate.         *)
SetRemoteSdp(medias, isBundle, mux, secure) ==
    LET first == medias[1]
        name  == IF isBundle \/ first = "video" THEN "video" ELSE "audio"
    IN  IF ~sending \/ medias = <<>> \/ firstSdp
        THEN UNCHANGED <<connVars, dtlsVars, iceVars>>
        ELSE /\ channels' = channels \cup {medias[i] : i \in DOMAIN medias}
             /\ bundle' = isBundle
             /\ firstSdp' = TRUE
             /\ UNCHANGED <<gstate, sending, observed>>
             /\ IF secure
                THEN transport' = name /\ NewTransport(mux) /\ IceStart
                ELSE UNCHANGED <<transport, dtlsVars, iceVars>>

(* The condition of updateState without bundle: each channel that the SDP  *)
(* names has a transport in the state that was just reported.              *)
AllChannels == channels \subseteq {transport}

(* Mutant of StateAfter: a failure counts only once the connection is ready. *)
StateAfterReadyOnly(s) ==
    IF /\ transport # "none" /\ gstate # "FAILED"
       /\ \/ s = "FAILED" /\ gstate = "READY"
          \/ s \in {"STARTED", "GATHERED", "READY"} /\ (bundle \/ AllChannels)
    THEN s ELSE gstate

(* updateState: the state that follows when the transport reports s. *)
StateAfter(s) ==
    IF /\ transport # "none" /\ gstate # "FAILED"
       /\ \/ s = "FAILED"
          \/ s \in {"STARTED", "GATHERED", "READY"} /\ (bundle \/ AllChannels)
    THEN s ELSE gstate

UpdateState(s) ==
    /\ gstate' = StateAfter(s)
    /\ sending' = (sending /\ gstate' # "FAILED")
    /\ UNCHANGED <<observed, transport, bundle, channels, firstSdp>>

(* onTransportData passes a packet to the media streams, or drops it. *)
DeliversData == gstate = "READY"

(* write: the transport a packet is written to. *)
RoutesTo(media) == IF bundle THEN "video" ELSE media

(* close, around the close of the transport. *)
ConnCloseBegins ==
    /\ sending' = FALSE
    /\ UNCHANGED <<gstate, observed, transport, bundle, channels, firstSdp>>

ConnCloseEnds ==
    /\ gstate' = "FINISHED"
    /\ observed' = FALSE
    /\ UNCHANGED <<sending, transport, bundle, channels, firstSdp>>

=============================================================================
