----------------------------- MODULE Admission ------------------------------
(***************************************************************************)
(* Who may play what.  The publish side decides which tracks a source      *)
(* shows (codec_dispatch.c, the RTMP tag entry of stream_ingest.c); the    *)
(* dispatcher (session_dispatcher.c) lets a player in by the codec lists   *)
(* of its protocol (codec_filter.c); stream_url.c advertises the addresses *)
(* that the same lists allow.  A recorded file is let in unchecked.        *)
(*                                                                         *)
(* A source is shown with the codecs its tracks are known by, "none" for   *)
(* a track of an unknown codec; the frames that reached its ring are kept  *)
(* as the set of their codecs.                                             *)
(***************************************************************************)
EXTENDS Naturals

CONSTANTS
    Origins,        \* publish origins, a subset of {"rtmp", "rtsp", "srt", "ps", "webrtc", "file"}
    Video, Audio,   \* codecs, subsets of the ones below
    MaxInputs,      \* bound: packets of one publisher
    MaxPublishers   \* bound: publishers of the stream, one after the other

VARIABLES
    origin,   \* publish_origin of the source, "file" for a recorded file
    media,    \* the codecs the publisher has on its two tracks, "none" without a track
    have,     \* have_video_cfg, have_audio_cfg of its ingest
    src,      \* the source: tracks shown, their codecs, and the configs of its ring
    wrote,    \* codecs of the frames in its ring
    play,     \* the player: protocol, the source as it was let in, the publisher then
    inputs, publishers

vars == <<origin, media, have, src, wrote, play, inputs, publishers>>

AllVideo == {"h264", "h265", "h266", "av1", "vp8", "vp9"}
AllAudio == {"aac", "g711", "opus"}
AdmissionAssumption ==
    /\ Origins \subseteq {"rtmp", "rtsp", "srt", "ps", "webrtc", "file"}
    /\ Video \subseteq AllVideo /\ Audio \subseteq AllAudio
    /\ MaxInputs \in Nat /\ MaxPublishers \in Nat
-----------------------------------------------------------------------------
\* The codec lists; a role is a protocol, played or published.
Lists == [rtsp   |-> AllVideo \cup AllAudio,
          flv    |-> {"h264", "h265", "av1", "aac", "g711"},
          webrtc |-> {"h264", "h265", "av1", "vp8", "vp9", "opus"},
          ts     |-> {"h264", "h265", "aac", "g711"},
          hls    |-> AllVideo \cup {"aac", "opus"}]

PlayRole(protocol) ==
    CASE protocol = "rtsp" -> "rtsp"
      [] protocol = "http-flv" -> "flv"
      [] protocol \in {"http-ts", "srt"} -> "ts"
      [] protocol = "webrtc" -> "webrtc"
      [] protocol \in {"hls", "dash"} -> "hls"
      [] OTHER -> "flv"

PublishRole(o) ==
    CASE o \in {"srt", "ps"} -> "ts"
      [] o = "rtsp" -> "rtsp"
      [] o = "webrtc" -> "webrtc"
      [] OTHER -> "flv"

InList(codec, role) == codec = "none" \/ codec \in Lists[role]

\* zms_session_capability_check: some track, and none of a codec off the list.
Check(role, vc, ac, hv, ha) ==
    /\ hv \/ ha
    /\ hv => InList(vc, role)
    /\ ha => InList(ac, role)

\* The codec a track is known by: its own, or the one of the ring's config.
Known(s) == [v |-> IF s.vc # "none" THEN s.vc ELSE s.vq,
             a |-> IF s.ac # "none" THEN s.ac ELSE s.aq]

\* As CheckSource, every player going without the sound it cannot have.
CheckSourceMute(role, s, filtering) ==
    LET k == Known(s)
    IN IF ~s.hv /\ ~s.ha
       THEN origin = "webrtc" /\ publishers > 0
       ELSE Check(role, k.v, k.a, s.hv, s.ha /\ InList(k.a, role))

\* A WebRTC player does without a sound track it cannot have.
CheckSource(role, s, filtering) ==
    LET k == Known(s)
        mute == filtering /\ s.ha /\ ~InList(k.a, role)
    IN IF ~s.hv /\ ~s.ha
       THEN origin = "webrtc" /\ publishers > 0
       ELSE Check(role, k.v, k.a, s.hv, s.ha /\ ~mute)

CheckPlay(protocol) == CheckSource(PlayRole(protocol), src, protocol = "webrtc")
-----------------------------------------------------------------------------
\* What each origin's demultiplexer can bring.
Brings(o) == CASE o = "ps" -> {"h264", "h265", "aac", "g711"}
               [] o = "srt" -> {"h264", "h265", "aac"}
               [] o = "webrtc" -> Lists.webrtc
               [] OTHER -> AllVideo \cup AllAudio

Nothing == [hv |-> FALSE, ha |-> FALSE, vc |-> "none", ac |-> "none", vq |-> "none", aq |-> "none"]
NoPlayer == [protocol |-> "none", shown |-> [v |-> "none", a |-> "none"], by |-> 0]

\* A new publisher finds a source without tracks (media_source_clear) and
\* brings an ingest of its own.
Publisher(o) ==
    /\ origin' = o
    /\ media' \in [v : (Video \cap Brings(o)) \cup {"none"},
                    a : (Audio \cap Brings(o)) \cup {"none"}]
    /\ have' = [v |-> FALSE, a |-> FALSE] /\ wrote' = {} /\ inputs' = 0

\* A file shows all its tracks at once.
OfFile(m) == [Nothing EXCEPT !.hv = m.v # "none", !.vc = m.v, !.ha = m.a # "none", !.ac = m.a]

Init == /\ origin = "rtmp" /\ media = [v |-> "none", a |-> "none"]
        /\ have = [v |-> FALSE, a |-> FALSE] /\ src = Nothing /\ wrote = {}
        /\ play = NoPlayer /\ inputs = 0 /\ publishers = 0

Publish(o) ==
    /\ publishers < MaxPublishers
    /\ (origin = "file" \/ o = "file") => publishers = 0
    /\ Publisher(o)
    /\ src' = IF o = "file" THEN OfFile(media') ELSE Nothing
    /\ publishers' = publishers + 1
    /\ UNCHANGED play

Input == inputs < MaxInputs /\ inputs' = inputs + 1 /\ UNCHANGED <<origin, media, play, publishers>>

\* The other track, as the publish check is told of it.
CheckPublish(vc, ac) ==
    LET role == PublishRole(origin)
    IN Check(role, vc, ac, vc # "none", ac # "none")
OtherV == IF src.hv THEN src.vc ELSE "none"
OtherA == IF src.ha THEN src.ac ELSE "none"

\* RTSP: the SDP of ANNOUNCE shows the tracks before a frame came; the sound
\* track without its codec.
Announce ==
    /\ origin = "rtsp" /\ inputs = 0 /\ Input
    /\ src' = [src EXCEPT !.hv = @ \/ media.v # "none", !.vc = media.v,
                          !.ha = @ \/ media.a # "none"]
    /\ UNCHANGED <<have, wrote>>

\* An H.264 or H.265 frame: its parameter sets make the track known.
InputH26x(c, sets) ==
    /\ c \in {"h264", "h265"} /\ Input
    /\ IF sets /\ ~have.v
       THEN /\ have' = [have EXCEPT !.v = TRUE]
            /\ src' = [src EXCEPT !.hv = TRUE, !.vc = c, !.vq = c]
       ELSE src' = [src EXCEPT !.hv = TRUE] /\ UNCHANGED have
    /\ wrote' = wrote \cup {c}

\* The other pictures, and Opus: a track off the publish list is not shown,
\* its frames are written all the same.
InputEs(c) ==
    /\ c \in {"h266", "av1", "vp8", "vp9"} /\ Input
    /\ IF ~have.v /\ CheckPublish(c, OtherA)
       THEN have' = [have EXCEPT !.v = TRUE] /\ src' = [src EXCEPT !.hv = TRUE, !.vc = c]
       ELSE UNCHANGED <<have, src>>
    /\ wrote' = wrote \cup {c}

InputSound(c) ==
    /\ c \in AllAudio /\ Input
    /\ IF ~have.a /\ (c = "opus" => CheckPublish(OtherV, c))
       THEN /\ have' = [have EXCEPT !.a = TRUE]
            /\ src' = [src EXCEPT !.ha = TRUE, !.ac = c, !.aq = IF c = "aac" THEN c ELSE @]
       ELSE UNCHANGED <<have, src>>
    /\ wrote' = wrote \cup {c}

\* RTMP, a sequence header: a codec off the list is refused and the
\* connection goes on.
RtmpHeader(c) ==
    /\ Input
    /\ IF CheckPublish(c, OtherA)
       THEN /\ have' = [have EXCEPT !.v = TRUE]
            /\ src' = [src EXCEPT !.hv = TRUE, !.vc = c, !.vq = c]
       ELSE UNCHANGED <<have, src>>
    /\ UNCHANGED wrote

\* RTMP, a frame: written whatever was said of its header.
RtmpRaw(c) ==
    /\ Input
    /\ src' = [src EXCEPT !.hv = TRUE]
    /\ wrote' = wrote \cup {c}
    /\ UNCHANGED have

RtmpSound(c, header) ==
    /\ Input
    /\ IF c = "g711" \/ (c = "opus" /\ header) THEN UNCHANGED <<have, src, wrote>>
       ELSE IF header
       THEN /\ IF ~have.a /\ CheckPublish(OtherV, "aac")
               THEN /\ have' = [have EXCEPT !.a = TRUE]
                    /\ src' = [src EXCEPT !.ha = TRUE, !.ac = c, !.aq = c]
               ELSE UNCHANGED <<have, src>>
            /\ UNCHANGED wrote
       ELSE src' = [src EXCEPT !.ha = TRUE] /\ wrote' = wrote \cup {c} /\ UNCHANGED have

Packet ==
    \/ /\ origin \in {"rtsp", "srt", "ps", "webrtc"}
       /\ \/ \E sets \in BOOLEAN : InputH26x(media.v, sets)
          \/ InputEs(media.v) \/ InputSound(media.a)
    \/ /\ origin = "rtmp" /\ publishers > 0
       /\ \/ media.v # "none" /\ (RtmpHeader(media.v) \/ RtmpRaw(media.v))
          \/ media.a # "none" /\ \E header \in BOOLEAN : RtmpSound(media.a, header)
    \/ Announce
-----------------------------------------------------------------------------
\* register_all, and the operations each protocol came with.
Registered == {"rtmp", "rtsp", "http-flv", "http-ts", "webrtc", "rtp-ps", "srt"}
OnPlayVod == {"rtmp", "rtsp", "http-flv"}
OnPlayLive == Registered \ {"rtp-ps"}

\* Would zms_session_attach_play let the protocol in?
LetIn(protocol) ==
    IF origin = "file" THEN protocol \in OnPlayVod
    ELSE protocol \in OnPlayLive /\ CheckPlay(protocol)

AttachPlay(protocol) ==
    /\ play.protocol = "none" /\ publishers > 0 /\ LetIn(protocol)
    /\ play' = [protocol |-> protocol,
                shown |-> [v |-> IF src.hv THEN Known(src).v ELSE "none",
                           a |-> IF src.ha THEN Known(src).a ELSE "none"],
                by |-> publishers]
    /\ UNCHANGED <<origin, media, have, src, wrote, inputs, publishers>>

DetachPlay == /\ play.protocol # "none" /\ play' = NoPlayer
              /\ UNCHANGED <<origin, media, have, src, wrote, inputs, publishers>>

\* zms_media_urls_build: the protocols whose address is made known.  The
\* RTSP address of a live stream always is.
Urls == IF origin = "file" THEN {"rtmp", "rtsp", "http-flv"}
        ELSE {p \in {"rtmp", "http-flv", "http-ts"} : CheckPlay(p)} \cup {"rtsp"}

Next == \/ \E o \in Origins : Publish(o)
        \/ Packet
        \/ \E p \in Registered : AttachPlay(p)
        \/ DetachPlay

Spec == Init /\ [][Next]_vars
-----------------------------------------------------------------------------
(* Properties.                                                             *)

\* A track a live source shows is of a codec its publisher may publish,
\* whatever came in which order (ingest_publish_codec_ok is asked at some of
\* the places that show a track only).  An announced track is not asked about.
ShownIsAllowed ==
    origin # "file" => /\ InList(Known(src).v, PublishRole(origin))
                       /\ InList(Known(src).a, PublishRole(origin))

\* A frame in the ring that the player's protocol cannot carry is of a track
\* whose codec the source did not know when it let the player in, of a later
\* publisher, the sound a WebRTC player does without, or one of a recording,
\* which is not looked at.
SentIsCarried ==
    play.protocol # "none" /\ play.by = publishers /\ origin # "file" =>
        \A c \in wrote : InList(c, PlayRole(play.protocol))
                         \/ (c \in AllVideo /\ play.shown.v = "none")
                         \/ (c \in AllAudio /\ play.shown.a = "none")
                         \/ (c \in AllAudio /\ play.protocol = "webrtc")

\* An address that is advertised is one the dispatcher lets in, but for the
\* RTSP one of a live source that shows no track yet.
AdvertisedIsLetIn ==
    publishers > 0 => \A p \in Urls : LetIn(p) \/ (p = "rtsp" /\ ~src.hv /\ ~src.ha)
=============================================================================
