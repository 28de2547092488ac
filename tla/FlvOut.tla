------------------------------- MODULE FlvOut -------------------------------
(***************************************************************************)
(* What a player of HTTP-FLV receives, tag by tag: the live muxer          *)
(* (http_flv_muxer.c) and the muxer of recorded files (vod_flv_muxer.c),   *)
(* the splitting of tags that hold several AAC access units                *)
(* (flv_file_muxer.c) and the time line of the live tags                   *)
(* (zms_mux_av_timeline of media_clock.c).                                 *)
(***************************************************************************)
EXTENDS Integers, Sequences, SequencesExt

CONSTANTS
    Kinds,       \* "live", "file"
    Steps,       \* from one frame's time to the next one's
    AudioStep,   \* pend->audio_step_ms
    MaxFrames,   \* bound: frames of the source
    MaxSeeks     \* bound: seeks of a player of a file

FlvOutAssumption ==
    /\ Kinds \subseteq {"live", "file"} /\ Steps \subseteq Nat /\ AudioStep \in Nat \ {0}
    /\ MaxFrames \in Nat /\ MaxSeeks \in Nat

VARIABLES
    kind,     \* which muxer
    config,   \* the sequence headers the source has
    stage,    \* metadata, video and audio header sent: 0 to 3
    armed,    \* video_armed
    frames,   \* frames pulled so far, with their times
    origin,   \* shared_origin_ms, -1 before it is set
    last,     \* last_out_ms or vod_last_*_tag_dts_ms of each track
    pend,     \* tags of access units that wait to be sent
    seeks,
    out       \* the tags sent

vars == <<kind, config, stage, armed, frames, origin, last, pend, seeks, out>>

Tracks == {"video", "audio"}

\* A frame of sound is small, one access unit too large to be left alone
\* (over 400 bytes), or two packed into one.
Shapes == {"key", "inter", "small", "large", "packed"}
TrackOf(shape) == IF shape \in {"key", "inter"} THEN "video" ELSE "audio"
Units(shape) == IF shape = "packed" THEN 2 ELSE 1

Fresh == [t \in Tracks |-> 0]

\* zms_flv_live_muxer_create and _start, zms_vod_flv_muxer_create and _start
Init ==
    /\ kind \in Kinds /\ config \in SUBSET Tracks
    /\ stage = (IF kind = "live" THEN 1 ELSE 0) /\ armed = FALSE /\ frames = <<>>
    /\ origin = -1 /\ last = Fresh /\ pend = <<>> /\ seeks = 0 /\ out = <<>>

Source == UNCHANGED <<kind, config, frames, seeks>>

Tag(track, frame, unit, dts) == [track |-> track, frame |-> frame, unit |-> unit, dts |-> dts]

\* The headers come before all else; one that is not there when its turn
\* comes is left out for good.
Boot ==
    /\ stage < 3 /\ stage' = stage + 1
    /\ LET header == IF stage = 1 THEN "video" ELSE "audio" IN
       out' = IF stage = 0 THEN Append(out, Tag("metadata", 0, 0, 0))
              ELSE IF header \in config THEN Append(out, Tag(header, 0, 0, 0)) ELSE out
    /\ UNCHANGED <<armed, origin, last, pend>> /\ Source

\* zms_mux_av_timeline_pts once the first key frame has set the origin
TimelinePts(track, dts, from) ==
    LET rel == IF dts >= from THEN dts - from ELSE 0
    IN IF last[track] > 0 /\ rel <= last[track] THEN last[track] + 1 ELSE rel

\* A bug: the time of the tag as it is.
OutTagDtsAsIs(track, dts) == dts

\* vod_out_tag_dts_ms
OutTagDts(track, dts) ==
    IF last[track] > 0 /\ dts <= last[track]
    THEN last[track] + (IF track = "audio" THEN AudioStep ELSE 1) ELSE dts

\* flv_queue_aac_tag: one tag for each access unit
Queued(n, shape, dts) ==
    [i \in 1..Units(shape) |-> [frame |-> n, unit |-> i, dts |-> dts + (i - 1) * AudioStep]]

\* zms_flv_mux_try_split_aac_tag: a single unit is not a split, but it stays
\* in the queue.
Splits(shape) == shape = "packed"
Left(n, shape, dts) ==
    IF shape = "packed" THEN Tail(Queued(n, shape, dts))
    ELSE IF shape = "large" THEN Queued(n, shape, dts) ELSE <<>>

Send(tag) == /\ out' = Append(out, tag) /\ last' = [last EXCEPT ![tag.track] = tag.dts]

\* A waiting access unit goes out first (zms_flv_live_muxer_next,
\* vod_pull_media); in the live muxer its time has been on the time line
\* already and goes there once more.
EmitPending ==
    /\ stage = 3 /\ pend # <<>>
    /\ LET p == Head(pend)
           dts == IF kind = "live" THEN TimelinePts("audio", p.dts, origin)
                  ELSE OutTagDts("audio", p.dts)
       IN Send(Tag("audio", p.frame, p.unit, dts))
    /\ pend' = Tail(pend)
    /\ UNCHANGED <<stage, armed, origin>> /\ Source

Now == IF frames = <<>> THEN 0 ELSE Last(frames).dts

\* The next frame of the source (egress_flv_live_step, egress_flv_vod_step):
\* nothing before a key frame, which is where the time line begins.
Pull(shape, step) ==
    /\ stage = 3 /\ pend = <<>> /\ Len(frames) < MaxFrames
    /\ LET n == Len(frames) + 1
           dts == Now + step
           track == TrackOf(shape)
           skipped == ~armed /\ shape # "key"
           from == IF kind = "live" /\ ~armed /\ ~skipped THEN dts ELSE origin
           onLine == TimelinePts(track, dts, from)
           sent == IF kind = "live"
                   THEN IF Splits(shape) THEN TimelinePts(track, onLine, from) ELSE onLine
                   ELSE OutTagDts(track, dts)
       IN /\ frames' = Append(frames, [shape |-> shape, dts |-> dts])
          /\ armed' = (armed \/ ~skipped) /\ origin' = from
          /\ IF skipped THEN UNCHANGED <<out, last, pend>>
             ELSE /\ Send(Tag(track, n, 1, sent))
                  /\ pend' = Left(n, shape, IF kind = "live" THEN onLine ELSE dts)
    /\ UNCHANGED <<kind, config, stage, seeks>>

\* zms_vod_flv_muxer_seek, the file is read on from somewhere else
Seek ==
    /\ kind = "file" /\ stage = 3 /\ seeks < MaxSeeks /\ seeks' = seeks + 1
    /\ armed' = FALSE /\ last' = Fresh /\ pend' = <<>>
    /\ out' = Append(out, Tag("seek", 0, 0, 0))
    /\ UNCHANGED <<kind, config, stage, frames, origin>>

\* The publisher's headers arrive.
Configured(track) ==
    /\ track \notin config /\ config' = config \cup {track}
    /\ UNCHANGED <<kind, stage, armed, frames, origin, last, pend, seeks, out>>

Next ==
    \/ Boot \/ EmitPending \/ Seek \/ \E t \in Tracks : Configured(t)
    \/ \E shape \in Shapes, step \in Steps : Pull(shape, step)

Spec == Init /\ [][Next]_vars
-----------------------------------------------------------------------------
(* Properties.                                                             *)

TypeOK ==
    /\ kind \in Kinds /\ config \subseteq Tracks /\ stage \in 0..3 /\ armed \in BOOLEAN
    /\ \A i \in DOMAIN out : out[i].track \in Tracks \cup {"metadata", "seek"} /\ out[i].dts \in Nat
    /\ last \in [Tracks -> Nat] /\ seeks \in 0..MaxSeeks

IsMedia(i) == out[i].frame > 0
SeekBetween(i, j) == \E k \in i..j : out[k].track = "seek"

\* Nothing comes before the headers or repeats one, a picture that can be
\* decoded is the first after the headers and after each seek.
HeadersFirst == \A i, j \in DOMAIN out :
    /\ i < j /\ ~IsMedia(j) /\ out[j].track # "seek" => ~IsMedia(i) /\ out[i].track # out[j].track
    /\ i <= j /\ IsMedia(j) /\ (i = 1 \/ out[i].track = "seek") =>
          \E k \in i..j : IsMedia(k) /\ frames[out[k].frame].shape = "key"

\* The access units arrive in their order and none is missing from the first
\* key frame on, unless a seek took it; only one that is too large to be left
\* alone and yet alone arrives twice.
UnitsInOrder == \A i, j \in DOMAIN out :
    IsMedia(i) /\ IsMedia(j) /\ j = i + 1 =>
    \/ out[j].frame = out[i].frame /\ out[j].unit = out[i].unit + 1
    \/ /\ out[j].frame = out[i].frame + 1 /\ out[j].unit = 1
       /\ out[i].unit = Units(frames[out[i].frame].shape)
    \/ out[j] = [out[i] EXCEPT !.dts = out[j].dts] /\ frames[out[i].frame].shape = "large"

\* The times of a track never go back between two seeks and stand still at
\* most at zero; those of the pictures are the source's, counted from the
\* first key frame, unless they stood still.
TimesForward == \A i, j \in DOMAIN out :
    IsMedia(i) /\ IsMedia(j) /\ i < j /\ out[i].track = out[j].track /\ ~SeekBetween(i, j) =>
        out[i].dts < out[j].dts \/ out[j].dts = 0

PicturesOnTime == \A i \in DOMAIN out :
    IsMedia(i) /\ out[i].track = "video" =>
        LET dts == frames[out[i].frame].dts - (IF kind = "live" THEN origin ELSE 0) IN
        /\ out[i].dts >= dts
        /\ (\A k \in 1..(Len(frames) - 1) : frames[k].dts < frames[k + 1].dts) => out[i].dts = dts
=============================================================================
