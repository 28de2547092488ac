------------------------------- MODULE RtpMux -------------------------------
(***************************************************************************)
(* The RTP muxer of one playing session (rtp_muxer.c, _paramsets.c) with   *)
(* the operations RTSP performs on it: PLAY of a live stream and of a      *)
(* file, PAUSE, seek, the snap of a player that lags (rtp_play_pump.c,     *)
(* rtsp_session_play.c, rtsp_session_vod.c, egress_pipeline.c).            *)
(* A frame becomes one packet; times are in milliseconds on the wire too.  *)
(***************************************************************************)
EXTENDS Integers, Sequences, FiniteSets

CONSTANTS
    Kinds,      \* "live", "file"
    Codecs,     \* "h264", "h265"
    Bases,      \* the times a seek can lead to
    MaxFrames,  \* bound: frames and changes of the source
    MaxPlays    \* bound: PLAY requests

RtpMuxAssumption ==
    /\ Kinds \subseteq {"live", "file"} /\ Codecs \subseteq {"h264", "h265"}
    /\ Bases \subseteq Nat /\ MaxFrames \in Nat /\ MaxPlays \in Nat

VARIABLES
    kind,     \* of the source
    codec,    \* of its pictures
    known,    \* the configurations the source has, of its codec and "audio"
    head,     \* the frame at the reader, or NoFrame
    made,     \* frames and changes so far
    now,      \* the source's time
    mux,      \* zms_rtp_muxer
    paused,   \* play_paused
    reached,  \* play_seek_ms: the time of the last picture
    plays,    \* the answers to PLAY
    out       \* the packets

vars == <<kind, codec, known, head, made, now, mux, paused, reached, plays, out>>

NoFrame == [what |-> "none", dts |-> 0]
NoMux == [on |-> FALSE]
Nothing == "none"

\* "sets": a key frame with its parameter sets in front; "blank": a unit
\* without a slice; "config": a frame of parameter sets alone.
Whats == {"key", "sets", "inter", "config", "blank", "audio"}
IsKey(what) == what \in {"key", "sets"}

Init ==
    /\ kind \in Kinds /\ codec \in Codecs /\ known \in SUBSET {codec, "audio"}
    /\ head = NoFrame /\ made = 0 /\ now = 0 /\ mux = NoMux
    /\ paused = FALSE /\ reached = 0 /\ plays = <<>> /\ out = <<>>
-----------------------------------------------------------------------------
(* The source.                                                             *)

Put(what, dts) == head' = [what |-> what, dts |-> dts] /\ made' = made + 1 /\ now' = dts

Arrive(what) ==
    /\ head = NoFrame /\ made < MaxFrames
    /\ Put(what, now + 1)
    /\ UNCHANGED <<kind, codec, known, mux, paused, reached, plays, out>>

\* The configuration of a live stream arrives, or another publisher takes
\* the stream over with another codec.
Learn(what) ==
    /\ kind = "live" /\ what \in {codec, "audio"} \ known /\ known' = known \cup {what}
    /\ UNCHANGED <<kind, codec, head, made, now, mux, paused, reached, plays, out>>

TakeOver(c) ==
    /\ kind = "live" /\ head = NoFrame /\ c # codec /\ made < MaxFrames
    /\ codec' = c /\ known' = known \cap {"audio"} /\ made' = made + 1
    /\ UNCHANGED <<kind, head, now, mux, paused, reached, plays, out>>
-----------------------------------------------------------------------------
(* The muxer's parts.                                                      *)

\* zms_rtp_muxer_create; extra
\* are the decoder configurations, sets the cached parameter sets, epoch -1
\* while the clock is not locked; blind is for the properties, a key frame
\* could not be packed.
NewMuxer(asc) ==
    [on |-> TRUE, vseq |-> 1, aseq |-> 1, vpay |-> Nothing, apay |-> FALSE,
     extra |-> {}, sets |-> {}, asc |-> asc,
     keyOut |-> FALSE, epoch |-> -1, seekMs |-> 0, blind |-> FALSE]

\* zms_rtp_muxer_arm_play, zms_egress_clock_arm
Armed(m) == [m EXCEPT !.keyOut = FALSE, !.epoch = -1, !.seekMs = 0]

\* zms_rtsp_session_play_mux_create, which arms the muxer at once
Created == Armed(NewMuxer("audio" \in known))

\* zms_rtsp_recreate: the payloads are lost
Recreated(m) == [m EXCEPT !.vpay = Nothing, !.apay = FALSE]

\* A bug: the sequence numbers begin anew, as zms_rtp_muxer_reset does it.
SeekBegunAnew(m, at) ==
    [Armed(Recreated(m)) EXCEPT !.sets = @ \ {"h265"}, !.vseq = 1, !.aseq = 1,
                                !.seekMs = at, !.epoch = at]

\* zms_rtp_muxer_begin_vod_seek: zms_rtsp_snapshot_seq keeps the numbers,
\* mux_hevc_cache_clear forgets the H.265 sets, the clock is locked at once.
SeekBegun(m, at) ==
    [Armed(Recreated(m)) EXCEPT !.sets = @ \ {"h265"}, !.seekMs = at, !.epoch = at]

\* zms_rtp_muxer_jump_live, zms_egress_clock_unlock, zms_rtsp_drop_video
Jumped(m) == [m EXCEPT !.keyOut = FALSE, !.epoch = -1, !.vpay = Nothing]

\* zms_rtp_muxer_send_avc_config and _hevc_config: stored, nothing is sent.
Stored(m) == [m EXCEPT !.extra = @ \cup {codec}, !.sets = @ \cup {codec}]

\* rtsp_play_send_stream_config
Configured(m) == IF codec \in known THEN Stored(m) ELSE m

\* mux_h264_cache_store, mux_hevc_refresh_params_from_au
Cached(m) == [m EXCEPT !.sets = @ \cup {codec}]

\* mux_h264_build_avcc_fallback, mux_hevc_build_hvcc_fallback
Fallback(m) == m.extra \cup (m.sets \cap {codec})

\* zms_ensure_video: another codec means a new muxer, for which the audio
\* payload has to be made again too; without a configuration there is no
\* payload.
EnsureVideo(m) ==
    IF m.vpay = codec THEN m
    ELSE LET fresh == IF m.vpay = Nothing THEN m ELSE Recreated(m)
         IN IF codec \notin Fallback(m) THEN fresh
            ELSE [fresh EXCEPT !.vpay = codec, !.extra = Fallback(m)]

\* zms_ensure_audio
EnsureAudio(m) == [m EXCEPT !.apay = m.apay \/ m.asc]

\* mux_emit
Emitted(m, track) == IF track = "video" THEN [m EXCEPT !.vseq = @ + 1] ELSE [m EXCEPT !.aseq = @ + 1]
Packet(m, track, ts, what, sets) ==
    [track |-> track, seq |-> IF track = "video" THEN m.vseq ELSE m.aseq,
     ts |-> ts, what |-> what, codec |-> codec, sets |-> sets,
     blind |-> m.blind]

\* What zms_rtp_muxer_input_slot makes of a frame: the muxer after it, the
\* packet if there is one, and its result: 1 sent, 0 skipped, -1 failed.
Skip(m) == [m |-> m, p |-> <<>>, r |-> 0]
Fail(m) == [m |-> m, p |-> <<>>, r |-> -1]
Sent(m, p) == [m |-> Emitted(m, p.track), p |-> <<p>>, r |-> 1]

PackAudio(m, f) ==
    LET e == EnsureAudio(m) IN
    IF m.epoch < 0 THEN Skip(m)
    ELSE IF e.apay THEN Sent(e, Packet(e, "audio", f.dts, "audio", FALSE)) ELSE Fail(e)

\* H.265 parameter sets are kept, those of H.264 kept and sent.
PackConfig(m, f) ==
    LET e == EnsureVideo(Cached(m)) IN
    IF codec = "h265" THEN Skip(Cached(m))
    ELSE Sent(e, Packet(e, "video", m.seekMs, "config", TRUE))

\* The clock is locked by the key frame, before it is known to be packed.
Locked(m, f) == IF m.keyOut THEN m ELSE [m EXCEPT !.epoch = f.dts]

PackPicture(m, f) ==
    LET l == Locked(m, f)
        c == IF codec = "h265" /\ f.what = "sets" THEN Cached(l) ELSE l
        e == EnsureVideo(c)
    IN IF ~m.keyOut /\ ~IsKey(f.what) THEN Skip(m)
       ELSE IF f.what = "blank" THEN Fail(c)
       ELSE IF e.vpay # codec THEN Fail([e EXCEPT !.blind = TRUE])
       ELSE Sent([e EXCEPT !.keyOut = @ \/ IsKey(f.what)],
                 Packet(e, "video", f.dts, IF IsKey(f.what) THEN "key" ELSE "inter",
                        codec = "h265" /\ IsKey(f.what) /\ codec \in c.sets))

\* mux_pack_frame
Packed(m, f) ==
    IF f.what = "audio" THEN PackAudio(m, f)
    ELSE IF f.what = "config" THEN PackConfig(m, f) ELSE PackPicture(m, f)
-----------------------------------------------------------------------------
(* The session.                                                            *)

\* zms_rtsp_play_format_rtp_info with what it is asked about.
Answer(m, at, seek) ==
    Append(plays, [at |-> Len(out), vseq |-> m.vseq, aseq |-> m.aseq, time |-> at,
                   seek |-> seek, known |-> known, codec |-> codec])

\* zms_rtp_play_vod_anchor_ms, and the live PLAY's zms_gop_reader_slot_at_read
Anchor(wanted) == IF head # NoFrame THEN head.dts ELSE wanted

\* zms_rtsp_session_handle_play of a live stream: always a new muxer.
\* zms_rtp_play_bootstrap_live
PlayLive ==
    /\ kind = "live" /\ Len(plays) < MaxPlays
    /\ mux' = Configured(Created) /\ paused' = FALSE
    /\ plays' = Answer(mux', Anchor(0), TRUE)
    /\ UNCHANGED <<kind, codec, known, head, made, now, reached, out>>

\* The first PLAY of a file and zms_rtsp_session_vod_play_continue; the kick
\* that follows the answer sends the configuration (zms_rtp_play_bootstrap_vod).
PlayFile ==
    /\ kind = "file" /\ mux = NoMux /\ Len(plays) < MaxPlays
    /\ LET m == SeekBegun(Created, Anchor(0)) IN
       mux' = Configured(m) /\ plays' = Answer(m, Anchor(0), TRUE)
    /\ paused' = FALSE
    /\ UNCHANGED <<kind, codec, known, head, made, now, reached, out>>

\* zms_rtp_play_apply_vod_seek: only a seek touches the muxer.
Applied(seek, at) == IF seek THEN SeekBegun(mux, at) ELSE mux

\* PLAY with a range: the lane is sought first, its reader has the first
\* frame from there or is empty (zms_rtsp_session_vod_play_continue).
PlaySeek(base, what) ==
    /\ kind = "file" /\ mux # NoMux /\ Len(plays) < MaxPlays /\ made < MaxFrames
    /\ \/ Put(what, base)
       \/ head' = NoFrame /\ now' = base /\ UNCHANGED made
    /\ LET m == Configured(Applied(TRUE, base)) IN
       mux' = m /\ plays' = Answer(m, base, TRUE)
    /\ paused' = FALSE /\ reached' = base /\ UNCHANGED <<kind, codec, known, out>>

\* PLAY without one goes on where the player stands.
PlayOn ==
    /\ kind = "file" /\ mux # NoMux /\ Len(plays) < MaxPlays
    /\ mux' = Applied(FALSE, reached)
    /\ plays' = Answer(mux, reached, FALSE) /\ paused' = FALSE
    /\ UNCHANGED <<kind, codec, known, head, made, now, reached, out>>

Pause ==
    /\ kind = "file" /\ mux # NoMux /\ ~paused /\ paused' = TRUE
    /\ UNCHANGED <<kind, codec, known, head, made, now, mux, reached, plays, out>>

\* on_mux_rtp: the place a player of a file has reached
Reached(it) == IF kind = "file" /\ it.p # <<>> /\ it.p[1].track = "video"
               THEN it.p[1].ts ELSE reached

\* One frame of zms_egress_pipeline_pump_live or _pump_vod: a frame that
\* cannot be packed is lost in a live stream and stays at the head of a file.
Pump ==
    /\ mux # NoMux /\ ~paused /\ head # NoFrame
    /\ LET it == Packed(mux, head) IN
       /\ mux' = it.m /\ out' = out \o it.p
       /\ head' = IF kind = "file" /\ it.r = -1 THEN head ELSE NoFrame
       /\ reached' = Reached(it)
    /\ UNCHANGED <<kind, codec, known, made, now, paused, plays>>

\* zms_egress_live_snap_gop: a clock that is locked stays so
SnapGop == IF mux.epoch >= 0 THEN mux ELSE Jumped(mux)

\* rtp_play_on_snap: the reader leaves out frames, the sound or picture it
\* had staged with them.
Snap ==
    /\ kind = "live" /\ mux # NoMux /\ head' = NoFrame /\ mux' = Configured(SnapGop)
    /\ UNCHANGED <<kind, codec, known, made, now, paused, reached, plays, out>>

Next ==
    \/ PlayLive \/ PlayFile \/ PlayOn \/ Pause \/ Pump \/ Snap
    \/ \E what \in Whats : Arrive(what) \/ \E base \in Bases : PlaySeek(base, what)
    \/ \E what \in Codecs \cup {"audio"} : Learn(what)
    \/ \E c \in Codecs : TakeOver(c)

Spec == Init /\ [][Next]_vars
-----------------------------------------------------------------------------
(* Properties.                                                             *)

TypeOK ==
    /\ kind \in Kinds /\ codec \in Codecs /\ known \subseteq {codec, "audio"}
    /\ made \in 0..MaxFrames /\ paused \in BOOLEAN
    /\ mux.on => mux.vpay \in Codecs \cup {Nothing} /\ mux.extra \subseteq Codecs

\* No PLAY of a live stream between two packets.
SameMuxer(i, j) == kind = "file" \/ \A k \in DOMAIN plays : plays[k].at \notin i..(j - 1)
FirstSince(at, j) == j > at /\ \A i \in (at + 1)..(j - 1) : out[i].track # out[j].track

\* The sequence numbers of a track have no gap and do not begin anew, not
\* when a seek or another codec makes librtsp's muxer anew.
Consecutive == \A i, j \in DOMAIN out :
    /\ i < j /\ out[i].track = out[j].track /\ SameMuxer(i, j)
    /\ \A l \in (i + 1)..(j - 1) : out[l].track # out[j].track
    => out[j].seq = out[i].seq + 1

\* RTP-Info tells the truth: the packets that come first after PLAY have the
\* numbers it names, and times not before those it names.
InfoTrue == \A k \in DOMAIN plays, j \in DOMAIN out :
    /\ FirstSince(plays[k].at, j)
    /\ \A l \in DOMAIN plays : l > k => plays[l].at >= j
    => /\ out[j].seq = (IF out[j].track = "video" THEN plays[k].vseq ELSE plays[k].aseq)
       /\ out[j].what # "config" => out[j].ts >= plays[k].time

\* The pictures of a player begin with one it can decode, also after a
\* seek, and what it hears of a live stream belongs to one it has seen,
\* unless that could not be packed.
KeyFirst == \A k \in DOMAIN plays, j \in DOMAIN out :
    /\ plays[k].seek /\ j > plays[k].at
    /\ \A l \in DOMAIN plays : l > k => plays[l].at >= j
    /\ out[j].what = "inter" \/ (kind = "live" /\ out[j].what = "audio" /\ ~out[j].blind)
    => \E i \in (plays[k].at + 1)..j : out[i].what = "key"

\* An H.265 key frame brings its parameter sets along if the source had them
\* at PLAY or one before it brought them.
SetsWithKey == \A k \in DOMAIN plays, j \in DOMAIN out :
    /\ plays[k].seek /\ j > plays[k].at /\ out[j].what = "key" /\ out[j].codec = "h265"
    /\ \A l \in DOMAIN plays : l > k /\ plays[l].seek => plays[l].at >= j
    /\ ~out[j].sets
    => /\ plays[k].codec = "h265" => "h265" \notin plays[k].known
       /\ \A i \in (plays[k].at + 1)..(j - 1) : out[i].codec = "h265" => ~out[i].sets

\* A frame a file gets stuck at has nothing to send or lacks a configuration
\* the file does not have; no seek or replay loses one.
StuckForAReason ==
    kind = "file" /\ mux.on /\ head # NoFrame /\ Packed(mux, head).r = -1 =>
        \/ head.what = "blank"
        \/ (IF head.what = "audio" THEN "audio" ELSE codec) \notin known
=============================================================================
