---------------------------- MODULE SegmentWriter ----------------------------
(***************************************************************************)
(* The writers behind the live segmenters: what of the ring goes into      *)
(* which segment and where segments are cut.  An HLS recorder writes       *)
(* MPEG-TS or, for a source it knows to be VP8, fragmented MP4; a DASH     *)
(* recorder writes fragmented MP4 per track.  Windows, playlists and the   *)
(* recorder's life are HlsLive's, the order of the frames GopReader's.     *)
(* Source: http_hls_ts_writer.c, http_hls_fmp4_writer.c,                   *)
(* http_dash_segmenter.c; libhls and libdash are external.                 *)
(***************************************************************************)
EXTENDS Integers, SequencesExt

CONSTANTS
    Kinds,          \* subset of {"hls", "dash"}
    Streams,        \* pairs of a video and an audio codec
    Target,         \* the wanted length of a segment (2 s)
    Ahead,          \* how far sound may run ahead of the pictures (4 s)
    Budget,         \* ZMS_SEGMENT_REC_TICK_FRAMES
    Pump,           \* frames a request takes at most (SERVE_MAX_TICKS ticks)
    Starts, Steps,  \* the first time in the ring, distances of two frames
    MaxFrames       \* bound

VARIABLES
    kind, codec, acodec,
    known,      \* what source and ring know: "video", "sound", "asc"
    frames,     \* the ring's frames in reading order
    pos,        \* frames read
    rec         \* the recorder

vars == <<kind, codec, acodec, known, frames, pos, rec>>

SegmentWriterAssumption ==
    /\ Kinds \subseteq {"hls", "dash"} /\ Streams \subseteq {"h264", "vp8"} \X {"aac", "opus"}
    /\ {Target, Ahead, Budget, Pump} \subseteq Nat \ {0}
    /\ Starts \subseteq Nat \ {0} /\ Steps \subseteq Nat /\ MaxFrames \in Nat
-----------------------------------------------------------------------------
Tracks == {"video", "audio"}

\* lastMux, lastVideo and the origin of the open segment are times of the
\* muxer, lastRing is one of the ring.
NewRec == [made |-> FALSE, mode |-> "none", vtrack |-> FALSE, atrack |-> FALSE, init |-> {},
           armed |-> FALSE, origin |-> 0, last |-> [t \in Tracks |-> 0],
           lastMux |-> 0, lastVideo |-> 0, lastRing |-> 0,
           segOpen |-> FALSE, segOrigin |-> 0, closed |-> 0, units |-> <<>>]

Init == /\ kind \in Kinds
        /\ \E s \in Streams : codec = s[1] /\ acodec = s[2]
        /\ known = {} /\ frames = <<>> /\ pos = 0 /\ rec = NewRec

\* The sequence header of AAC may come after its first frame.
Learn(what) == /\ what \notin known
               /\ what = "asc" => acodec = "aac" /\ "sound" \in known
               /\ known' = known \union {what}
               /\ UNCHANGED <<kind, codec, acodec, frames, pos, rec>>

DtsOf(t) == LET s == SelectSeq(frames, LAMBDA f : f.track = t)
            IN IF s = <<>> THEN 0 ELSE Last(s).dts

\* A "sync" picture is an intra picture that is no key.
Frame(t, k, step, start) ==
    /\ Len(frames) < MaxFrames
    /\ t = "audio" => k = "inter" /\ "sound" \in known
    /\ k = "sync" => codec = "h264"
    /\ frames # <<>> => start = frames[1].dts
    /\ LET dts == IF DtsOf(t) = 0 THEN start ELSE DtsOf(t) + step
       IN frames' = Append(frames, [track |-> t, kind |-> k, dts |-> dts])
    /\ UNCHANGED <<kind, codec, acodec, known, pos, rec>>

\* use_fmp4 is settled here, by what the source knows by then.
Create ==
    /\ ~rec.made
    /\ rec' = [NewRec EXCEPT !.made = TRUE,
                  !.mode = IF kind = "dash" THEN "dash"
                           ELSE IF "video" \in known /\ codec = "vp8" THEN "fmp4" ELSE "ts"]
    /\ UNCHANGED <<kind, codec, acodec, known, frames, pos>>
-----------------------------------------------------------------------------
(* Tracks. *)

\* Whether the sound's config is there; Opus needs none.
SoundKnown == "sound" \in known /\ (acodec = "aac" => "asc" \in known)

\* hls_fmp4_maybe_init: once, with the pictures, and not before the sound if
\* the source has some.
MaybeInit(m) ==
    IF m.mode # "fmp4" \/ m.init # {} \/ ~m.vtrack \/ ("sound" \in known /\ ~m.atrack) THEN m
    ELSE [m EXCEPT !.init = {"video"} \union (IF m.atrack THEN {"audio"} ELSE {})]

AddVideo(m) == MaybeInit([m EXCEPT !.vtrack = TRUE])
AddAudio(m) == MaybeInit([m EXCEPT !.atrack = TRUE])

\* The configs a tick looks up: of H.264 for TS and DASH, of the sound for all.
Configured(m) ==
    LET v == IF ~m.vtrack /\ codec = "h264" /\ "video" \in known THEN AddVideo(m) ELSE m
    IN IF ~v.atrack /\ SoundKnown THEN AddAudio(v) ELSE v

\* VP8 takes its track from a key picture.
TrackFromKey(m, f) == IF ~m.vtrack /\ codec = "vp8" /\ f.kind = "key" THEN AddVideo(m) ELSE m

\* TS and fMP4 make the Opus track at its first frame, and TS looks for the
\* config of AAC again behind the first picture; DASH only at a tick.
TrackFromSound(m) ==
    IF m.atrack \/ m.mode = "dash" THEN m
    ELSE IF acodec = "opus" THEN AddAudio(m)
    ELSE IF m.mode = "ts" /\ m.armed /\ "asc" \in known THEN AddAudio(m)
    ELSE m
-----------------------------------------------------------------------------
(* Units and segments. *)

\* zms_mux_av_timeline_pts: since the shared origin, per track never standing.
Time(m, t, dts) == LET rel == IF dts >= m.origin THEN dts - m.origin ELSE 0
                   IN IF m.last[t] > 0 /\ rel <= m.last[t] THEN m.last[t] + 1 ELSE rel

InSegment(m, s) == SelectSeq(m.units, LAMBDA u : u.seg = s)
OpenUnits(m) == InSegment(m, m.closed + 1)

\* A segment is handed over; a flush of nothing hands over nothing.
Close(m) == [m EXCEPT !.closed = IF OpenUnits(m) = <<>> THEN @ ELSE @ + 1, !.segOpen = FALSE]

Write(m, i, t, k, time) ==
    [m EXCEPT !.last[t] = time,
              !.units = Append(@, [from |-> i, track |-> t, kind |-> k, time |-> time,
                                   seg |-> m.closed + 1])]

\* libhls cuts TS at a key once the segment is long enough.
LibCut(m, k, time) ==
    IF k = "key" /\ OpenUnits(m) # <<>> /\ time - OpenUnits(m)[1].time >= Target
    THEN Close(m) ELSE m

\* hls_ts_input without the forced flush.
TsInputNoForce(m, i, t, k, time) ==
    LET open == IF m.segOpen THEN m ELSE [m EXCEPT !.segOpen = TRUE, !.segOrigin = time]
    IN Write(LibCut(open, k, time), i, t, k, time)

\* hls_ts_input: a segment that no key has ended is flushed when it is over
\* twice as long as wanted.  Its other test, for a gap since lastMux, never
\* holds: every caller has set lastMux to this unit's time.
TsInput(m, i, t, k, time) ==
    LET gap == IF m.lastMux > 0 /\ time > m.lastMux + Target THEN Close(m) ELSE m
        forced == IF gap.segOpen /\ time > gap.segOrigin + 2 * Target THEN Close(gap) ELSE gap
        open == IF forced.segOpen THEN forced
                ELSE [forced EXCEPT !.segOpen = TRUE, !.segOrigin = time]
    IN Write(LibCut(open, k, time), i, t, k, time)

\* hls_fmp4_flush_at behind a unit: a key ends the segment it is written to.
FlushAt(m, time) == [Close(m) EXCEPT !.segOrigin = time]
Fmp4Input(m, i, t, k, time) ==
    LET w == Write(m, i, t, k, time)
    IN IF k = "key" /\ time >= m.segOrigin + Target THEN FlushAt(w, time) ELSE w

\* libdash cuts every track at a key.
DashInput(m, i, t, k, time) ==
    Write(IF k = "key" THEN Close(m) ELSE m, i, t, k, time)

Input(m, i, t, k, dts) ==
    LET time == Time(m, t, dts)
        n == [m EXCEPT !.lastMux = time,
                       !.lastVideo = IF t = "video" THEN time ELSE @,
                       !.lastRing = IF t = "video" THEN dts ELSE @]
    IN CASE m.mode = "ts" -> TsInput(n, i, t, k, time)
         [] m.mode = "fmp4" -> Fmp4Input(n, i, t, k, time)
         [] m.mode = "dash" -> DashInput(n, i, t, k, time)

\* The first picture to start from arms the recorder and is the origin of
\* both tracks; DASH starts at any intra picture of H.264.
ArmedBy(m, f) == f.kind = "key" \/ (m.mode = "dash" /\ f.kind = "sync")
Arm(m, f) == IF m.armed THEN m ELSE [m EXCEPT !.armed = TRUE, !.origin = f.dts]
FeedVideo(m0, i, f) ==
    LET m == TrackFromKey(m0, f)
    IN IF (m.mode # "ts" /\ ~m.vtrack) \/ (~m.armed /\ ~ArmedBy(m, f)) THEN m
       ELSE Input(Arm(m, f), i, "video", f.kind, f.dts)

\* Sound that runs ahead is dropped.  The fMP4 writer of HLS compares the
\* ring's time with the muxer's time of the pictures, and does so for AAC.
TooEarly(m, f) ==
    \/ m.mode = "dash" /\ m.lastRing > 0 /\ f.dts > m.lastRing + Ahead
    \/ m.mode = "fmp4" /\ acodec = "aac" /\ m.lastVideo > 0 /\ f.dts > m.lastVideo + Ahead
FeedAudio(m0, i, f) ==
    LET m == TrackFromSound(m0)
    IN IF ~m.armed \/ ~m.atrack \/ TooEarly(m, f) THEN m ELSE Input(m, i, "audio", "inter", f.dts)

Upto(n) == IF pos + n < Len(frames) THEN pos + n ELSE Len(frames)
Take(n) ==
    FoldLeft(LAMBDA m, i : IF frames[i].track = "video" THEN FeedVideo(m, i, frames[i])
                           ELSE FeedAudio(m, i, frames[i]),
             Configured(rec), [k \in 1..Upto(n) - pos |-> pos + k])

Tick == /\ rec.made
        /\ rec' = Take(Budget) /\ pos' = Upto(Budget)
        /\ UNCHANGED <<kind, codec, acodec, known, frames>>

\* A request while there is no segment at all; hls_fmp4_serve_flush.
Serve ==
    /\ rec.made /\ rec.closed = 0
    /\ LET m == Take(Pump)
       IN rec' = IF m.mode = "fmp4" /\ m.armed /\ m.closed = 0 /\ m.lastMux > m.segOrigin
                 THEN FlushAt(m, m.lastMux) ELSE m
    /\ pos' = Upto(Pump)
    /\ UNCHANGED <<kind, codec, acodec, known, frames>>

Next == \/ \E what \in {"video", "sound", "asc"} : Learn(what)
        \/ \E t \in Tracks, k \in {"key", "sync", "inter"}, step \in Steps, s \in Starts :
               Frame(t, k, step, s)
        \/ Create \/ Tick \/ Serve

Spec == Init /\ [][Next]_vars
-----------------------------------------------------------------------------
(* Properties.                                                             *)

Of(t) == SelectSeq(rec.units, LAMBDA u : u.track = t)
FirstOfSegment(s) == InSegment(rec, s)[1]

\* A player that begins with the first segment can decode it: its first unit
\* is an intra picture, and once both tracks are there, in whatever order they
\* came up, so is the init segment of HLS.
Playable ==
    /\ rec.units # <<>> => rec.units[1].kind # "inter"
    /\ rec.mode = "fmp4" /\ rec.units # <<>> /\ rec.init = {} => ~rec.atrack

\* Every segment behind the first starts with a key, so that a player may join
\* there: DASH always; TS unless no key came for twice the wanted length.
JoinAnywhere ==
    \A s \in 2..rec.closed + 1 :
        (rec.mode \in {"ts", "dash"} /\ InSegment(rec, s) # <<>>) =>
            \/ FirstOfSegment(s).kind = "key"
            \/ /\ rec.mode = "ts"
               /\ FirstOfSegment(s).time > FirstOfSegment(s - 1).time + 2 * Target

\* No unit of a TS segment lies more than twice the wanted length behind the
\* unit that opened it, keys or no keys; if that was a key on which libhls cut,
\* behind the unit after it, where the writer starts to count.
SegmentsBounded ==
    rec.mode = "ts" =>
        \A s \in 1..rec.closed + 1 : \A u \in Range(InSegment(rec, s)) :
            \/ u.time <= FirstOfSegment(s).time + 2 * Target
            \/ s > 1 /\ FirstOfSegment(s).kind = "key"
               /\ u.time <= InSegment(rec, s)[2].time + 2 * Target

\* From the first unit of a track on nothing of it is left out but sound too
\* far ahead; the times of a track move on; the AAC of fMP4 is kept only as
\* long as the ring's times are near those of the muxer.
Complete ==
    \A t \in Tracks : Of(t) # <<>> =>
        /\ \A i \in Of(t)[1].from..pos :
               frames[i].track = t =>
                   \/ \E u \in Range(Of(t)) : u.from = i
                   \/ /\ t = "audio" /\ rec.mode \in {"dash", "fmp4"}
                      /\ \E v \in Range(Of("video")) : frames[i].dts > frames[v.from].dts + Ahead
                   \/ t = "audio" /\ rec.mode = "fmp4" /\ acodec = "aac" /\ frames[i].dts > Ahead
        /\ \A i \in 1..Len(Of(t)) - 1 :
               Of(t)[i].time < Of(t)[i + 1].time \/ Of(t)[i].time = 0
=============================================================================
