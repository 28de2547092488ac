----------------------------- MODULE WebrtcSdp ------------------------------
(***************************************************************************)
(* How an SDP offer is answered: webrtc_sdp.c.  An offer is the order of   *)
(* its media lines, and for each the payload types in the order of the m=  *)
(* line and their rtpmaps in the order of their lines.  The answer is the  *)
(* list of media lines written, each with the payload type and the codec   *)
(* of its rtpmap, and the BUNDLE group.  The line's transport, ICE and     *)
(* DTLS attributes do not depend on the offer and are left out, but for    *)
(* the role in the handshake.                                              *)
(***************************************************************************)
EXTENDS Integers, Sequences, FiniteSets

CONSTANTS
    VideoCodecs,   \* what rtpmaps of an offered video line may name
    AudioCodecs,   \* and of an audio line
    Profiles,      \* H.264 profiles: <<family, level>>
    MaxMaps        \* bound: rtpmaps per line

WebrtcSdpAssumption == MaxMaps \in Nat /\ \A p \in Profiles : p \in Seq(Int) /\ Len(p) = 2

VARIABLES
    mode,     \* "play" or "publish"
    offer,    \* [lines, video, audio, setup]
    source,   \* the stream played: [video, profile, audio]
    answer    \* what was answered, or Pending

vars == <<mode, offer, source, answer>>

Answer(state, media, bundle, setup) ==
    [state |-> state, media |-> media, bundle |-> bundle, setup |-> setup]
Pending == Answer("pending", <<>>, {}, "none")
Refused == Answer("refused", <<>>, {}, "none")
None == "none"
NoProfile == <<>>

\* An rtpmap with its fmtp; the payload type is the place in the list.
VideoMap == [codec : VideoCodecs, profile : Profiles \cup {NoProfile}, packetization : {0, 1}]
PlainMap == {[codec |-> c, profile |-> NoProfile, packetization |-> 1] : c \in VideoCodecs \ {"h264"}}
H264Map == {m \in VideoMap : m.codec = "h264"}
AudioMap == [codec : AudioCodecs]

SeqsOf(S) == UNION {[1..n -> S] : n \in 1..MaxMaps}
Orders(maps) == {[i \in DOMAIN maps |-> i], [i \in DOMAIN maps |-> Len(maps) + 1 - i]}

\* A line: its rtpmaps with the payload types of the m= line in their order
\* or the other way round.
Lines(S) == {[maps |-> m, formats |-> f] : m \in SeqsOf(S), f \in UNION {Orders(n) : n \in SeqsOf(S)}}
Line(S) == {l \in Lines(S) : l.formats \in Orders(l.maps)}
Absent == {[maps |-> <<>>, formats |-> <<>>]}

Init ==
    /\ mode \in {"play", "publish"}
    /\ \E lines \in {<<"video">>, <<"audio">>, <<"video", "audio">>, <<"audio", "video">>} :
       \E video \in IF lines = <<"audio">> THEN Absent ELSE Line(PlainMap \cup H264Map),
          audio \in IF lines = <<"video">> THEN Absent ELSE Line(AudioMap),
          setup \in IF mode = "play" THEN {"actpass"} ELSE {"actpass", "passive"} :
            offer = [lines |-> lines, video |-> video, audio |-> audio, setup |-> setup]
    /\ IF mode = "publish" THEN source = [video |-> None, profile |-> NoProfile, audio |-> None]
       ELSE \E video \in {None, "h264", "vp8", "h265"}, audio \in {None, "opus", "aac"} :
            \E profile \in IF video = "h264" THEN Profiles ELSE {NoProfile} :
                source = [video |-> video, profile |-> profile, audio |-> audio]
    /\ answer = Pending
-----------------------------------------------------------------------------
(* Negotiating a line.                                                     *)

\* webrtc_media_index, webrtc_offer_has_media
Offers(kind) == \E i \in DOMAIN offer.lines : offer.lines[i] = kind

\* webrtc_codec_from_encoding knows no retransmission or FEC format;
\* webrtc_codec_negotiable
Negotiable(codec, kind) ==
    IF kind = "video" THEN codec \in {"h264", "vp8", "vp9"} \/ (mode = "play" /\ codec \in {"h265", "av1"})
    ELSE codec = "opus"

\* webrtc_pick_rtpmap_cb
Suits(m, kind, prefer) == Negotiable(m.codec, kind)
                          /\ (mode = "play" /\ prefer # None => m.codec = prefer)

FirstOf(S) == CHOOSE i \in S : \A j \in S : i <= j

\* webrtc_negotiate_track for all but H.264 played: a player's formats are
\* gone through in the order of the m= line, a publisher's in the order of
\* the rtpmaps.
Picked(line, kind, prefer) ==
    LET suits == {i \in DOMAIN line.maps : Suits(line.maps[i], kind, prefer)}
        rank == {k \in DOMAIN line.formats : line.formats[k] \in suits}
    IN IF suits = {} THEN 0
       ELSE IF mode = "play" /\ prefer # None THEN line.formats[FirstOf(rank)]
       ELSE FirstOf(suits)

\* A bug: a profile of the family counts as much as the profile itself.
ScoreCoarse(m, want) ==
    (IF m.packetization # 1 THEN -8 ELSE 0)
    + (IF m.profile = NoProfile THEN 0 ELSE IF want # NoProfile /\ m.profile[1] = want[1] THEN 32 ELSE 1)

\* webrtc_h264_profile_score
Score(m, want) ==
    (IF m.packetization # 1 THEN -8 ELSE 0)
    + (CASE m.profile = NoProfile -> 0
         [] m.profile # NoProfile /\ m.profile = want -> 32
         [] m.profile # NoProfile /\ m.profile # want /\ want # NoProfile /\ m.profile[1] = want[1] -> 16
         [] OTHER -> 1)

\* webrtc_negotiate_h264_track: the best score, the first of equals.
PickedH264(line, want) ==
    LET h264 == {i \in DOMAIN line.maps : line.maps[i].codec = "h264"}
        best == {i \in h264 : \A j \in h264 : Score(line.maps[j], want) <= Score(line.maps[i], want)}
    IN IF h264 = {} THEN 0 ELSE FirstOf(best)

\* webrtc_prefer_video_codec
PreferVideo == IF mode = "publish" THEN None ELSE IF source.video = None THEN "h264" ELSE source.video
Want == IF source.video = None THEN NoProfile ELSE source.profile

\* webrtc_session_negotiate: the payload types agreed on, 0 for a line that
\* is rejected.  Without the video offered there is no session.
VideoPt == IF PreferVideo = "h264" THEN PickedH264(offer.video, Want)
           ELSE Picked(offer.video, "video", PreferVideo)

\* webrtc_source_audio_playable, webrtc_prefer_audio_codec
AudioPt == IF mode = "play" /\ source.audio # "opus" THEN 0 ELSE Picked(offer.audio, "audio", None)

Agreed ==
    /\ Offers("video") => VideoPt # 0
    /\ mode = "publish" /\ Offers("audio") => AudioPt # 0
-----------------------------------------------------------------------------
(* Writing the answer.                                                     *)

\* webrtc_append_video_play and webrtc_append_video_publish know three codecs.
Written(codec) == IF codec \in {"vp8", "vp9"} THEN codec ELSE "h264"

VideoLine == [kind |-> "video", pt |-> VideoPt, codec |-> Written(offer.video.maps[VideoPt].codec)]
AudioLine == IF AudioPt = 0 THEN [kind |-> "audio", pt |-> 0, codec |-> None]
             ELSE [kind |-> "audio", pt |-> AudioPt, codec |-> "opus"]

\* webrtc_session_save_layout
AudioBeforeVideo == Len(offer.lines) = 2 /\ offer.lines[1] = "audio"

\* A bug: the video line always comes first.
MediaVideoFirst ==
    (IF Offers("video") THEN <<VideoLine>> ELSE <<>>)
    \o (IF Offers("audio") THEN <<AudioLine>> ELSE <<>>)

\* webrtc_append_play_media, webrtc_append_publish_media
Media ==
    LET v == IF Offers("video") THEN <<VideoLine>> ELSE <<>>
        a == IF Offers("audio") THEN <<AudioLine>> ELSE <<>>
    IN IF AudioBeforeVideo THEN a \o v ELSE v \o a

\* webrtc_snprintf_bundle: a rejected audio line stays in the group beside
\* the video.
Bundle ==
    (IF Offers("video") THEN {"video"} ELSE {})
    \cup (IF Offers("audio") /\ (Offers("video") \/ AudioPt # 0) THEN {"audio"} ELSE {})

\* webrtc_offer_setup_passive: only a publisher's session may take the
\* client's part in the handshake.
Setup == IF mode = "publish" /\ offer.setup = "passive" THEN "active" ELSE "passive"

\* zms_webrtc_session_build_answer, zms_webrtc_session_build_publish_answer
BuildAnswer ==
    /\ answer = Pending
    /\ answer' = IF Agreed THEN Answer("given", Media, Bundle, Setup) ELSE Refused
    /\ UNCHANGED <<mode, offer, source>>

Next == BuildAnswer
Spec == Init /\ [][Next]_vars
-----------------------------------------------------------------------------
(* Properties.                                                             *)

Answered == answer.state = "given"

\* The answer has a line for every line offered, in the order offered, and
\* an accepted one uses a payload type of its own line (RFC 3264, 6).
LinesMatch == Answered =>
    /\ Len(answer.media) = Len(offer.lines)
    /\ \A i \in DOMAIN answer.media :
          LET l == answer.media[i]
              line == IF l.kind = "video" THEN offer.video ELSE offer.audio
          IN l.kind = offer.lines[i] /\ (l.pt # 0 => l.pt \in DOMAIN line.maps)

\* What the answer calls a payload type is what the offer calls it, and for
\* a player what the stream is made of.  H.265 and AV1 are left out: they
\* are negotiated, and then written as H264.
CodecsMatch == Answered => \A i \in DOMAIN answer.media :
    LET l == answer.media[i] IN
    l.pt # 0 =>
        /\ l.kind = "audio" => offer.audio.maps[l.pt].codec = l.codec
        /\ l.kind = "video" /\ offer.video.maps[l.pt].codec \notin {"h265", "av1"} =>
              /\ offer.video.maps[l.pt].codec = l.codec
              /\ mode = "play" /\ source.video # None => source.video = l.codec

\* A player whose offer has the stream's own H.264 profile in packetization
\* mode 1 is sent just that.
ProfileKept == Answered /\ mode = "play" /\ source.video = "h264" =>
    \A i \in DOMAIN answer.media :
        LET l == answer.media[i]
            exact == {j \in DOMAIN offer.video.maps :
                        /\ offer.video.maps[j].codec = "h264"
                        /\ offer.video.maps[j].profile = source.profile
                        /\ offer.video.maps[j].packetization = 1}
        IN l.kind = "video" /\ exact # {} => l.pt \in exact
=============================================================================
