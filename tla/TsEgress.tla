------------------------------ MODULE TsEgress ------------------------------
(***************************************************************************)
(* The MPEG-TS stream of one HTTP-TS or SRT player (mpegts_egress.c,       *)
(* mpegts_mux_feed.c): what of the ring reaches the multiplexer, at which  *)
(* times, and how its bytes leave in pieces.  The order in which the ring  *)
(* hands out its frames is GopReader's; libmpeg is external and writes     *)
(* some bytes for every unit it is given.                                  *)
(***************************************************************************)
EXTENDS Integers, SequencesExt

CONSTANTS
    VideoCodecs, AudioCodecs,
    Budget,     \* TS_PUMP_FRAMES
    Piece,      \* bytes handed out at once (1316)
    UnitBytes,  \* bytes libmpeg writes for a unit
    AuStep,     \* distance of the AAC units of one frame (23 ms)
    Steps,      \* distances of two frames of a track
    MaxFrames   \* bound

VARIABLES
    codec, acodec,  \* codecs of the stream
    ring,           \* what the ring and the source hold besides frames
    frames,         \* the frames in the order the reader hands them out
    pos,            \* frames read
    mux,            \* the muxer of the player
    buf, off,       \* send_buf, send_off
    out             \* bytes handed out

vars == <<codec, acodec, ring, frames, pos, mux, buf, off, out>>

TsEgressAssumption ==
    /\ VideoCodecs \subseteq {"h264", "h265", "vp8"} /\ AudioCodecs \subseteq {"aac", "g711"}
    /\ Budget \in Nat \ {0} /\ Piece \in Nat \ {0} /\ UnitBytes \in Nat \ {0}
    /\ AuStep \in Nat /\ Steps \subseteq Nat /\ MaxFrames \in Nat
-----------------------------------------------------------------------------
Tracks == {"video", "audio"}

\* zms_mpegts_egress_create: sound is muxed if the source had it by then.
NewMux == [made |-> FALSE, sound |-> FALSE, sentV |-> FALSE, sentA |-> FALSE,
           vstream |-> FALSE, astream |-> FALSE, armed |-> FALSE, origin |-> 0,
           last |-> [t \in Tracks |-> 0], units |-> <<>>]

Init == /\ codec \in VideoCodecs /\ acodec \in AudioCodecs
        /\ ring = [video |-> FALSE, audio |-> FALSE, hasAudio |-> FALSE]
        /\ frames = <<>> /\ pos = 0 /\ mux = NewMux /\ buf = <<>> /\ off = 0 /\ out = <<>>

\* The ring learns a config, or the source a sound track.
Learn(what) == /\ ~ring[what] /\ (what = "audio" => ring.hasAudio)
               /\ ring' = [ring EXCEPT ![what] = TRUE]
               /\ UNCHANGED <<codec, acodec, frames, pos, mux, buf, off, out>>

DtsOf(t) == LET s == SelectSeq(frames, LAMBDA f : f.track = t)
            IN IF s = <<>> THEN 1 ELSE Last(s).dts
Frame(t, kind, step, aus) ==
    /\ Len(frames) < MaxFrames
    /\ t = "audio" => kind = "inter" /\ ring.hasAudio
    /\ t = "video" => aus = 1
    /\ frames' = Append(frames, [track |-> t, kind |-> kind, dts |-> DtsOf(t) + step, aus |-> aus])
    /\ UNCHANGED <<codec, acodec, ring, pos, mux, buf, off, out>>

Create == /\ ~mux.made
          /\ mux' = [NewMux EXCEPT !.made = TRUE, !.sound = ring.hasAudio]
          /\ UNCHANGED <<codec, acodec, ring, frames, pos, buf, off, out>>
-----------------------------------------------------------------------------
\* feed_video_cfg: a stream is opened for H.264 and H.265.
FeedVideoCfg(m) == [m EXCEPT !.sentV = TRUE, !.vstream = codec \in {"h264", "h265"}]
\* feed_audio_cfg, for AAC.
FeedAudioCfg(m) == [m EXCEPT !.sentA = TRUE, !.astream = acodec = "aac"]

Configured(m) ==
    LET v == IF ~m.sentV /\ ring.video THEN FeedVideoCfg(m) ELSE m
    IN IF ~v.sentA /\ v.sound /\ ring.audio THEN FeedAudioCfg(v) ELSE v

\* zms_mux_av_timeline_pts with the shared origin.
Time(m, t, dts) == LET rel == IF dts >= m.origin THEN dts - m.origin ELSE 0
                   IN IF m.last[t] > 0 /\ rel <= m.last[t] THEN m.last[t] + 1 ELSE rel

\* The sink: one unit for the multiplexer.
Unit(m, i, t, kind, dts) ==
    LET time == Time(m, t, dts)
    IN [m EXCEPT !.last[t] = time,
                 !.units = Append(@, [from |-> i, track |-> t, kind |-> kind,
                                      sets |-> kind = "key" /\ m.sentV, time |-> time])]

\* pump_ring's gate and feed_h264_es, feed_h265_es: nothing before a picture
\* to start from, nor before the stream is opened; that picture arms the
\* player and is the origin of both tracks.  A key goes out with its sets.
FeedVideo(m, i, f) ==
    IF (~m.armed /\ f.kind # "key") \/ ~m.vstream THEN m
    ELSE LET armed == IF m.armed THEN m ELSE [m EXCEPT !.armed = TRUE, !.origin = f.dts]
         IN Unit(armed, i, "video", f.kind, f.dts)

\* zms_mpegts_feed_aac: the AAC units of a frame, each AuStep after the other.
AacUnits(m, i, f) ==
    FoldLeft(LAMBDA acc, k : Unit(acc, i, "audio", "inter", f.dts + (k - 1) * AuStep),
             m, [k \in 1..f.aus |-> k])

\* As FeedAudio, not waiting for the picture.
FeedAudioAtOnce(m, i, f) ==
    LET a == IF acodec = "aac" /\ ~m.astream /\ ring.audio THEN FeedAudioCfg(m) ELSE m
    IN IF ~m.sound \/ acodec # "aac" THEN m
       ELSE IF ~a.astream \/ f.dts < m.origin THEN a
       ELSE AacUnits(a, i, f)

\* feed_audio_es: sound only behind an armed picture, AAC only, not from
\* before the origin; a config that came late is looked up here too.
FeedAudio(m, i, f) ==
    LET a == IF ~m.astream /\ ring.audio THEN FeedAudioCfg(m) ELSE m
    IN IF ~m.sound \/ ~m.armed \/ acodec # "aac" THEN m
       ELSE IF ~a.astream \/ f.dts < m.origin THEN a
       ELSE AacUnits(a, i, f)

\* pump_ring: at most Budget frames.
Upto == IF pos + Budget < Len(frames) THEN pos + Budget ELSE Len(frames)
PumpRing ==
    FoldLeft(LAMBDA m, i : IF frames[i].track = "video" THEN FeedVideo(m, i, frames[i])
                           ELSE FeedAudio(m, i, frames[i]),
             Configured(mux), [k \in 1..Upto - pos |-> pos + k])

Bytes(units) == [k \in 1..Len(units) * UnitBytes |->
                    <<units[1 + (k - 1) \div UnitBytes].from, 1 + ((k - 1) % UnitBytes)>>]

\* ts_append_send: what was handed out is dropped first.
AppendSend(units) == SubSeq(buf, off + 1, Len(buf)) \o Bytes(units)

\* The bytes from o on, at most a piece.
Handed(b, o) == LET n == IF Len(b) - o < Piece THEN Len(b) - o ELSE Piece
                IN out' = out \o SubSeq(b, o + 1, o + n) /\ off' = o + n

\* zms_mpegts_egress_next: the buffer first; the ring when it is empty.
EgressNext ==
    /\ mux.made
    /\ IF off < Len(buf)
       THEN Handed(buf, off) /\ UNCHANGED <<mux, buf, pos>>
       ELSE LET m == PumpRing
                new == SubSeq(m.units, Len(mux.units) + 1, Len(m.units))
                b == IF new = <<>> THEN buf ELSE AppendSend(new)
            IN /\ mux' = m /\ pos' = Upto /\ buf' = b
               /\ Handed(b, IF new = <<>> THEN off ELSE 0)
    /\ UNCHANGED <<codec, acodec, ring, frames>>

Next == \/ \E what \in {"video", "audio", "hasAudio"} : Learn(what)
        \/ \E t \in Tracks, kind \in {"key", "inter"}, step \in Steps, aus \in 1..2 :
               Frame(t, kind, step, aus)
        \/ Create \/ EgressNext

Spec == Init /\ [][Next]_vars
-----------------------------------------------------------------------------
(* Properties.                                                             *)

Of(t) == SelectSeq(mux.units, LAMBDA u : u.track = t)

\* The stream begins with a key picture, and every key carries its sets: a
\* decoder that joins at the first byte can start.
StartsAtKey == /\ mux.units # <<>> => mux.units[1].kind = "key"
               /\ \A i \in DOMAIN mux.units : mux.units[i].kind = "key" => mux.units[i].sets

\* From the first one on no picture is left out, and from its first unit on
\* no sound, but for what is older than the first picture.
NoHoles ==
    /\ Of("video") # <<>> => \A i \in Of("video")[1].from..pos :
           frames[i].track = "video" => \E u \in Range(Of("video")) : u.from = i
    /\ Of("audio") # <<>> => \A i \in Of("audio")[1].from..pos :
           frames[i].track = "audio" /\ frames[i].dts >= mux.origin =>
               Cardinality({k \in DOMAIN Of("audio") : Of("audio")[k].from = i}) = frames[i].aus

\* The times of a track do not go back and, once past zero, move on with
\* every unit; sound and pictures keep to one origin (a unit is late only by
\* the milliseconds it was pushed behind its predecessor).
TimesForward ==
    \A t \in Tracks : \A i \in 1..Len(Of(t)) - 1 :
        \/ Of(t)[i].time < Of(t)[i + 1].time
        \/ Of(t)[i].time = 0 /\ Of(t)[i + 1].time = 0

\* The bytes the player gets are those of the units, in order, each once,
\* whatever the pieces; the buffer holds the ones still to come.
BytesAsMuxed == out \o SubSeq(buf, off + 1, Len(buf)) = Bytes(mux.units)
=============================================================================
