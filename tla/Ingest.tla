------------------------------- MODULE Ingest -------------------------------
(***************************************************************************)
(* What a publisher's frames become before they enter the live queue: the  *)
(* correction of their times (zms_track_stamp and zms_media_timeline of    *)
(* media_clock.c), and the inputs of live/ingest, which gather parameter   *)
(* sets, hold a transport stream back until its first key frame and fill   *)
(* the gaps lost pictures leave.  A frame is its track and times.          *)
(***************************************************************************)
EXTENDS Integers, FiniteSets

CONSTANTS
    Inputs,      \* "rtp": corrected times; "ts": a common clock, deferred
    Codecs,      \* "h264", "h265", "other"
    MaxDelta,    \* stamp.max_delta_ms of the corrected times
    Drift,       \* ZMS_STAMP_SYNC_DRIFT_MS
    SyncInput,   \* ZMS_STAMP_SYNC_INPUT_MS
    Step,        \* the interval of pictures the declared rate stands for
    MaxGap,      \* the 750 ms of a gap that is filled
    Wrap,        \* 2^32
    Starts,      \* times of a track's first frame
    Jumps,       \* from one frame's time to the next one's
    MaxInputs    \* bound: frames and resets

IngestAssumption ==
    /\ Inputs \subseteq {"rtp", "ts"} /\ Codecs \subseteq {"h264", "h265", "other"}
    /\ {MaxDelta, Drift, SyncInput, Step, MaxGap, Wrap} \subseteq Nat \ {0}
    /\ Starts \subseteq Nat /\ Jumps \subseteq Int /\ MaxInputs \in Nat

VARIABLES
    input,    \* the way the frames come in
    codec,    \* of the pictures
    clock,    \* the time of the last frame of each track, -1 before the first
    inputs,   \* frames so far
    stamp,    \* tl.vst and tl.ast
    linked,   \* tl.stamp_linked
    cache,    \* last_*_raw_ms, last_*_pts, -1 while not valid
    origin,   \* av_origin_ms, -1 before it is set
    ps,       \* parameter sets: in hand, in the work buffer, in the queue
    au,       \* hevc_au
    lastFill, \* tl_last_v_gop_norm, -1 while not valid
    sent      \* the last frame of each track that entered the queue

tl == <<stamp, linked, cache>>
vars == <<input, codec, clock, inputs, stamp, linked, cache, origin, ps, au, lastFill, sent>>

Tracks == {"video", "audio"}
Linear == input = "ts"
Deferred == input = "ts"
Abs(x) == IF x < 0 THEN -x ELSE x

\* Parameter sets of a small picture that may be a placeholder, and real ones.
Sets == {"dummy", "real"}
Length(p) == IF p = "dummy" THEN 1 ELSE 2

\* zms_media_timeline_reset
NewStamp == [last |-> 0, delta |-> 0, rel |-> 0, in |-> 0, sync |-> 0]
NewCache == [t \in Tracks |-> [raw |-> -1, time |-> 0]]

\* have_video_cfg, video_cfg_len, gop_vcfg_applied, work_buf, the picture's
\* size and the queue's configuration with the length it was given
NoSets == [have |-> FALSE, deferred |-> 0, applied |-> FALSE, work |-> "none",
           size |-> "none", queue |-> <<"none", 0>>, changed |-> FALSE]
NoUnit == [active |-> FALSE, raw |-> 0, time |-> 0]
Nothing == [t \in Tracks |-> [raw |-> -1, time |-> 0, key |-> FALSE, lone |-> -1]]

Init ==
    /\ input \in Inputs /\ codec \in Codecs
    /\ clock = [t \in Tracks |-> -1] /\ inputs = 0
    /\ stamp = [t \in Tracks |-> NewStamp] /\ linked = FALSE /\ cache = NewCache
    /\ origin = -1 /\ ps = NoSets /\ au = NoUnit /\ lastFill = -1 /\ sent = Nothing
-----------------------------------------------------------------------------
(* The time line.                                                          *)

\* A bug: a jump is taken as it is.
DeltaUnbounded(s, raw) ==
    IF s.last = 0 THEN [s EXCEPT !.last = raw]
    ELSE [s EXCEPT !.last = raw, !.rel = @ + raw - s.last]

\* stamp_delta, in zms_track_stamp_revise: a jump counts as one more interval.
Delta(s, raw) ==
    LET d == raw - s.last
        jump == Abs(d) > MaxDelta
    IN IF s.last = 0 THEN [s EXCEPT !.last = raw]
       ELSE [s EXCEPT !.last = raw,
                      !.sync = IF jump THEN @ + 1 ELSE @,
                      !.delta = IF ~jump /\ d >= 0 THEN (IF d > 0 THEN d ELSE 1) ELSE @,
                      !.rel = @ + (IF ~jump THEN d ELSE IF s.delta > 0 THEN s.delta ELSE 1)]

Revise(s, raw) == IF s.in = raw THEN s ELSE [Delta(s, raw) EXCEPT !.in = raw]

Less(n) == IF n > 0 THEN n - 1 ELSE 0

\* stamp_sync_l, for the sound, whose master the pictures are.
Sync(s) ==
    LET a == s["audio"]
        v == s["video"]
        idle == \/ v.in = 0 \/ (a.sync = 0 /\ v.sync = 0)
                \/ Abs(a.in - v.in) >= SyncInput /\ a.sync <= 3
        kept == IF Abs(a.rel - v.rel) > Drift THEN 0 ELSE a.rel - v.rel
        target == v.rel + kept
        a1 == IF target > a.rel THEN [a EXCEPT !.rel = target, !.last = a.in] ELSE a
        v1 == IF target <= a.rel /\ target < v.rel THEN [v EXCEPT !.rel = target, !.last = v.in] ELSE v
    IN IF idle THEN s
       ELSE [t \in Tracks |-> IF t = "audio" THEN [a1 EXCEPT !.sync = Less(@)]
                              ELSE [v1 EXCEPT !.sync = Less(@)]]

\* stamp_clamp_av: whoever is too far ahead is set back to the other.
Clamp(s) ==
    LET diff == s["video"].rel - s["audio"].rel
        Back(t, u) == [s EXCEPT ![t].rel = s[u].rel, ![t].last = s[t].in]
    IN IF s["audio"].in = 0 \/ s["video"].in = 0 THEN s
       ELSE IF diff > Drift THEN Back("video", "audio")
       ELSE IF diff < -Drift THEN Back("audio", "video") ELSE s

\* zms_media_timeline_video, zms_media_timeline_audio
Timeline(t, raw) ==
    LET base == IF linked THEN stamp ELSE [stamp EXCEPT !["audio"].sync = @ + 1]
        revised == [base EXCEPT ![t] = Revise(@, raw)]
    IN Clamp(IF t = "audio" THEN Sync(revised) ELSE revised)

\* ingest_linear_ms_pts
LinearTime(raw, from) == IF from >= 0 /\ raw >= from THEN raw - from ELSE raw

\* live_ingest_video_pts and live_ingest_audio_pts: the time of a frame, the
\* last answer again for the same time.
Known(t, raw) == cache[t].raw = raw
TimeOf(t, raw, from) ==
    IF Known(t, raw) THEN cache[t].time
    ELSE IF Linear THEN LinearTime(raw, from) ELSE Timeline(t, raw)[t].rel % Wrap

TimeLineSees(t, raw, from) ==
    /\ cache' = [cache EXCEPT ![t] = [raw |-> raw, time |-> TimeOf(t, raw, from)]]
    /\ IF Linear \/ Known(t, raw) THEN UNCHANGED <<stamp, linked>>
       ELSE stamp' = Timeline(t, raw) /\ linked' = TRUE

\* Two frames of one message, one after the other, as far as Write needs it.
Write(t, raw, time, key, lone) ==
    sent' = [sent EXCEPT ![t] = [raw |-> raw, time |-> time, key |-> key, lone |-> lone]]

Heard(t, raw) ==
    /\ inputs < MaxInputs /\ inputs' = inputs + 1
    /\ raw >= 0 /\ clock' = [clock EXCEPT ![t] = raw]
    /\ UNCHANGED <<input, codec>>

Raws(t) == IF clock[t] = -1 THEN Starts ELSE {clock[t] + j : j \in Jumps}
-----------------------------------------------------------------------------
(* Parameter sets and pictures.                                            *)

\* zms_video_size_should_replace: a placeholder does not replace a real size.
Better(p) == ps.size # p /\ ~(ps.size = "real" /\ p = "dummy")

\* zms_live_ingest_set_h264_sps_pps: the first ones wait in the work buffer
\* when the queue's configuration is deferred, later ones do not.
SetParams(p) ==
    IF p = "none" \/ (ps.have /\ ~Better(p)) THEN ps
    ELSE LET held == Deferred /\ ~ps.have IN
         [ps EXCEPT !.have = TRUE, !.work = p, !.size = p,
                    !.deferred = IF held THEN Length(p) ELSE @,
                    !.queue = IF held THEN @ ELSE <<p, Length(p)>>,
                    !.changed = @ \/ (Deferred /\ ps.have) \/ (held /\ ps.applied)]

\* The first key frame lets the held configuration go: as many bytes of the
\* work buffer as there were at the time.
Released(s) == [s EXCEPT !.applied = TRUE,
                         !.queue = IF s.have /\ s.deferred > 0 THEN <<s.work, s.deferred>> ELSE @]

\* srt_protocol_on_h264_ps and the like: the demuxer found parameter sets.
Params(p) ==
    /\ codec = "h264" /\ inputs < MaxInputs /\ inputs' = inputs + 1 /\ ps' = SetParams(p)
    /\ UNCHANGED <<input, codec, clock, origin, au, lastFill, sent, tl>>

\* A bug: a gap of any size is filled.
FilledAlways(time, key) ==
    IF Linear /\ Deferred /\ ~key /\ lastFill # -1 /\ time - lastFill > 2 * Step
    THEN lastFill + Step ELSE time

\* A gap that lost pictures left behind is closed, picture by picture.
Filled(time, key) ==
    LET gap == time - lastFill IN
    IF Linear /\ Deferred /\ ~key /\ lastFill # -1 /\ gap > 2 * Step /\ gap < MaxGap
    THEN lastFill + Step ELSE time

\* zms_live_ingest_input_h264_annexb: kind "key", "inter", or "sets" for a
\* unit without a picture.
InputH264(raw, kind, p) ==
    /\ codec = "h264" /\ (kind = "sets" => p # "none") /\ Heard("video", raw)
    /\ LET given == SetParams(p)
           waits == Deferred /\ ~ps.applied
           from == IF kind = "key" /\ Linear /\ origin = -1 THEN raw ELSE origin
           time == Filled(TimeOf("video", raw, from), kind = "key")
       IN IF waits /\ kind # "key"
          THEN ps' = given /\ UNCHANGED <<origin, lastFill, sent, tl>>
          ELSE /\ ps' = IF waits THEN Released(given) ELSE given
               /\ origin' = from /\ TimeLineSees("video", raw, from)
               /\ IF kind = "sets" THEN UNCHANGED <<lastFill, sent>>
                  ELSE /\ Write("video", raw, time, kind = "key", -1)
                       /\ lastFill' = IF Linear /\ Deferred THEN time ELSE lastFill
    /\ UNCHANGED au

\* hevc_au_begin: a unit that never got a picture stays open, and the next
\* one keeps its time.
Begun(raw, time) ==
    IF au.active /\ au.raw # raw THEN au ELSE [active |-> TRUE, raw |-> raw, time |-> time]

\* zms_live_ingest_input_h265_annexb, with hevc_au_flush at its end
InputH265(raw, kind, p) ==
    /\ codec = "h265" /\ (kind = "sets" => p # "none") /\ Heard("video", raw)
    /\ LET sync == kind = "key"
           from == IF sync /\ Linear /\ origin = -1 THEN raw ELSE origin
           unit == Begun(raw, TimeOf("video", raw, from))
       IN /\ origin' = from /\ TimeLineSees("video", raw, from)
          /\ ps' = [ps EXCEPT !.applied = @ \/ (Deferred /\ sync),
                              !.work = IF ~ps.have /\ p # "none" THEN p ELSE @,
                              !.queue = IF ~ps.have /\ p # "none" THEN <<p, Length(p)>> ELSE @,
                              !.have = @ \/ p # "none"]
          /\ IF kind = "sets" THEN au' = unit /\ UNCHANGED sent
             ELSE /\ au' = [unit EXCEPT !.active = FALSE]
                  /\ Write("video", raw, unit.time, sync, IF unit.raw # raw THEN unit.raw ELSE -1)
    /\ UNCHANGED lastFill

\* ingest_codec_input_es, and a tag of RTMP (ingest_rtmp_demux_on_frame)
InputEs(raw, kind) ==
    /\ codec = "other" /\ kind # "sets" /\ Heard("video", raw)
    /\ TimeLineSees("video", raw, origin)
    /\ Write("video", raw, TimeOf("video", raw, origin), kind = "key", -1)
    /\ ps' = [ps EXCEPT !.have = TRUE]
    /\ UNCHANGED <<origin, au, lastFill>>

\* zms_live_ingest_input_aac_es, one access unit; nothing before the
\* beginning of a stream that is held back.
InputAac(raw) ==
    /\ Heard("audio", raw)
    /\ IF Deferred /\ Linear /\ origin = -1 THEN UNCHANGED <<sent, tl>>
       ELSE /\ TimeLineSees("audio", raw, origin)
            /\ Write("audio", raw, TimeOf("audio", raw, origin), FALSE, -1)
    /\ UNCHANGED <<origin, ps, au, lastFill>>

\* zms_live_ingest_reset_upstream, when a pull proxy connects again
Reset ==
    /\ input = "rtp" /\ inputs < MaxInputs /\ inputs' = inputs + 1
    /\ clock' = [t \in Tracks |-> -1]
    /\ stamp' = [t \in Tracks |-> NewStamp] /\ linked' = FALSE /\ cache' = NewCache
    /\ origin' = -1 /\ au' = NoUnit /\ lastFill' = -1 /\ sent' = Nothing
    /\ ps' = [ps EXCEPT !.have = FALSE, !.deferred = 0, !.applied = FALSE]
    /\ UNCHANGED <<input, codec>>

Next ==
    \/ \E raw \in Raws("video"), kind \in {"key", "inter", "sets"} :
          \/ \E p \in Sets \cup {"none"} : InputH264(raw, kind, p) \/ InputH265(raw, kind, p)
          \/ InputEs(raw, kind)
    \/ \E raw \in Raws("audio") : InputAac(raw)
    \/ \E p \in Sets : Params(p)
    \/ Reset

Spec == Init /\ [][Next]_vars
-----------------------------------------------------------------------------
(* Properties.                                                             *)

TypeOK ==
    /\ input \in Inputs /\ codec \in Codecs /\ clock \in [Tracks -> Nat \cup {-1}]
    /\ linked \in BOOLEAN /\ origin \in Nat \cup {-1} /\ lastFill \in Nat \cup {-1}
    /\ \A t \in Tracks : cache[t].time \in 0..(Wrap - 1) /\ stamp[t].sync \in Nat

Written(t) == sent[t].raw # -1
Heard2 == stamp["audio"].in # 0 /\ stamp["video"].in # 0

\* Corrected times: once both tracks were heard they stay together, whatever
\* their own clocks do.
AvTogether == ~Linear /\ Heard2 => Abs(stamp["video"].rel - stamp["audio"].rel) <= Drift

\* Corrected times: no jump of a publisher's clock, forwards or backwards,
\* moves a track forwards by more than an interval and the drift; a track is
\* moved backwards no further than that either, but for the moment in which
\* the other one is first heard.
StepsBoundedStep == \A t \in Tracks :
    ~Linear /\ stamp[t].in # 0 /\ stamp'[t].in # 0 =>
        /\ stamp'[t].rel - stamp[t].rel <= MaxDelta + Drift
        /\ Heard2 => stamp[t].rel - stamp'[t].rel <= MaxDelta + Drift
StepsBounded == [][StepsBoundedStep]_vars

\* media_clock.h:84 calls the pictures the master track and lets the sound
\* follow.  The code does both: sound that finds the pictures ahead of it sets
\* them back to where it is (media_clock.c:100 and 335).
PicturesSetBack(t) ==
    /\ t = "audio" /\ stamp'["audio"].rel < stamp["video"].rel
    /\ stamp'["video"].rel = stamp'["audio"].rel

\* But for that, one track's frame leaves the other track where it is; only
\* pictures that the sound is ahead of by more than the drift take it back.
PicturesLeadStep == ~Linear /\ Heard2 /\ Heard2' => \A t \in Tracks :
    LET other == IF t = "audio" THEN "video" ELSE "audio" IN
    (stamp'[t].in # stamp[t].in /\ stamp'[other].rel # stamp[other].rel) =>
        \/ PicturesSetBack(t)
        \/ t = "video" /\ stamp'["audio"].rel = stamp'["video"].rel
           /\ stamp["audio"].rel > stamp'["video"].rel + Drift
PicturesLead == [][PicturesLeadStep]_vars

\* A stream with a common clock: what enters the queue keeps its distance to
\* the first key frame to the millisecond.  A picture of H.264 may lag by
\* less than the largest gap that is filled; one of H.265 may carry the time
\* of a unit without a picture before it, or that of before the first key.
DistancesKept == Linear => \A t \in Tracks : Written(t) =>
    LET unit == IF sent[t].lone # -1 THEN sent[t].lone ELSE sent[t].raw
        due == LinearTime(unit, origin)
    IN IF t = "audio" \/ codec = "other" \/ (codec = "h264" /\ sent[t].key)
       THEN sent[t].time = due
       ELSE IF codec = "h264" THEN due - sent[t].time \in 0..(MaxGap - 1)
       ELSE sent[t].time \in {due, unit}

\* H.264 held back: nothing enters before the first key frame, and when it
\* does the configuration in the queue is a whole one, unless the sets
\* changed while they were held or came after it.
HeldBack == Deferred /\ codec = "h264" =>
    /\ (Written("video") \/ Written("audio")) => origin # -1 /\ ps.applied
    /\ ~ps.changed =>
          /\ ps.queue[2] # 0 => ps.queue = <<ps.size, Length(ps.size)>>
          /\ Written("video") /\ ps.have => ps.queue[2] # 0
=============================================================================
