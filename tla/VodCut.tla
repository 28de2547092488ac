------------------------------- MODULE VodCut -------------------------------
(***************************************************************************)
(* Cutting a recorded file at its key frames: the key frame index          *)
(* (vod_flv_index.c), the view of it a player gets who joins in the        *)
(* middle, and the muxing of one HLS segment (generate_segment and the     *)
(* feed functions of vod_hls.c).  Times and sizes are counted in units;    *)
(* what a sample holds is left out but for its place in the file.          *)
(***************************************************************************)
EXTENDS Integers, Sequences, FiniteSets, SequencesExt

CONSTANTS
    Sizes,        \* estimated sizes of a tag
    Steps,        \* from one sample's time to the next one's
    Header,       \* bytes before the first media tag
    MinGap,       \* VFI_MIN_KEYFRAME_SEC
    MaxKeys,      \* VFI_MAX_KEYFRAMES
    MaxSamples    \* bound: samples of a file

VodCutAssumption ==
    /\ Sizes \subseteq Nat \ {0} /\ Steps \subseteq Nat /\ Header \in Nat
    /\ MinGap \in Nat \ {0} /\ MaxKeys \in Nat \ {0} /\ MaxSamples \in Nat

VARIABLES
    file,     \* the samples so far: their kind, time and size
    idx,      \* the index: times and estimated positions
    pos,      \* b.byte_pos
    lastKey,  \* b.last_kf_time
    seg,      \* the segment made: its number, mux.video_armed, the samples
    phase

vars == <<file, idx, pos, lastKey, seg, phase>>

Kinds == {"key", "inter", "audio"}

\* A bug: the distance is not asked for.
PushedAlways(index, t, at, last) ==
    IF Len(index) >= MaxKeys THEN index ELSE Append(index, [time |-> t, pos |-> at])

\* vfi_push_keyframe
Pushed(index, t, at, last) ==
    IF (index # <<>> /\ t - last < MinGap) \/ Len(index) >= MaxKeys THEN index
    ELSE Append(index, [time |-> t, pos |-> at])

\* The head of zms_vod_flv_index_build: an entry for the start of the file
\* comes first, whatever the first sample is.
NoSegment == [no |-> 0, armed |-> FALSE, next |-> 1, done |-> FALSE, out |-> <<>>]

Init ==
    /\ file = <<>> /\ pos = Header /\ lastKey = -MinGap
    /\ idx = Pushed(<<>>, 0, Header, -MinGap)
    /\ seg = NoSegment /\ phase = "index"

\* vfi_on_sample, for each sample of the file
OnSample(kind, step, size) ==
    /\ phase = "index" /\ Len(file) < MaxSamples
    /\ LET t == (IF file = <<>> THEN 0 ELSE Last(file).time) + step
           index == IF kind = "key" THEN Pushed(idx, t, pos, lastKey) ELSE idx
       IN /\ file' = Append(file, [kind |-> kind, time |-> t, at |-> pos])
          /\ idx' = index
          /\ lastKey' = IF kind = "key" THEN Last(index).time ELSE lastKey
    /\ pos' = pos + size
    /\ UNCHANGED <<seg, phase>>

\* zms_vod_flv_index_byte_at_ms, between two entries in proportion
ByteAt(t) ==
    LET later == {i \in 2..Len(idx) : idx[i].time > t} IN
    IF t <= idx[1].time THEN idx[1].pos
    ELSE IF later = {} THEN Last(idx).pos
    ELSE LET i == CHOOSE i \in later : \A j \in later : i <= j
             a == idx[i - 1]
             b == idx[i]
         IN IF b.time <= a.time THEN a.pos
            ELSE a.pos + ((b.pos - a.pos) * (t - a.time)) \div (b.time - a.time)

\* zms_vod_flv_index_view_create: the entries from the time on, counted from
\* the position the player joins at.
View(t) ==
    LET base == ByteAt(t)
        rest == SelectSeq(idx, LAMBDA e : e.time >= t)
    IN [size |-> IF pos > base THEN pos - base ELSE 0,
        keys |-> IF rest = <<>> THEN <<[time |-> t, pos |-> 0]>>
                 ELSE [i \in 1..Len(rest) |->
                          [rest[i] EXCEPT !.pos = IF @ > base THEN @ - base ELSE 0]]]
-----------------------------------------------------------------------------
(* A segment of the playlist.                                              *)

\* The sample a lane starts at that was asked for a time: its seek goes to
\* the last key frame not after it.
SeekTo(t) ==
    LET keys == {i \in DOMAIN file : file[i].kind = "key" /\ file[i].time <= t}
    IN IF keys = {} THEN 1 ELSE CHOOSE i \in keys : \A j \in keys : j <= i

IsLast == seg.no = Len(idx)

\* generate_segment up to its loop.  The time of the entry is kept in seconds
\* and made milliseconds again by cutting, which may lose one.
StartSegment(n) ==
    /\ phase = "index" /\ file # <<>> /\ n \in 1..Len(idx)
    /\ \E lost \in {0, 1} : seg' = [NoSegment EXCEPT !.no = n, !.next = SeekTo(idx[n].time - lost)]
    /\ phase' = "segment" /\ UNCHANGED <<file, idx, pos, lastKey>>

Written(s, i) == [s EXCEPT !.out = Append(@, i)]

\* feed_h264_video_es and feed_h265_video_es: nothing before a key frame; the
\* muxer cuts at every key frame but the first, and the first piece is kept
\* (vod_hls_segment_cb).
FeedVideo(s, i) ==
    IF ~s.armed /\ file[i].kind # "key" THEN s
    ELSE IF s.armed /\ file[i].kind = "key" THEN [s EXCEPT !.done = TRUE]
    ELSE Written([s EXCEPT !.armed = TRUE], i)

\* feed_audio_es: no sound before the picture
FeedAudio(s, i) == IF s.armed THEN Written(s, i) ELSE s

\* A bug: sound is taken at once.
FeedAudioUnarmed(s, i) == Written(s, i)

\* The loop of generate_segment, one frame of the lane's reader at a time.
\* What is fed after the cut belongs to the next piece, of the last segment
\* as well; it is thrown away.
Feed ==
    /\ phase = "segment" /\ seg.next <= Len(file) /\ (~IsLast => ~seg.done)
    /\ LET fed == IF seg.done THEN seg
                  ELSE IF file[seg.next].kind = "audio" THEN FeedAudio(seg, seg.next)
                  ELSE FeedVideo(seg, seg.next)
       IN seg' = [fed EXCEPT !.next = @ + 1]
    /\ UNCHANGED <<file, idx, pos, lastKey, phase>>

\* Its end: the rest is flushed at the end of the file, by the last segment
\* and by vod_hls_mux_free; a segment that holds nothing is refused.
EndSegment ==
    /\ phase = "segment" /\ (seg.next > Len(file) \/ (~IsLast /\ seg.done))
    /\ phase' = IF seg.armed THEN "made" ELSE "failed"
    /\ UNCHANGED <<file, idx, pos, lastKey, seg>>

Next ==
    \/ \E kind \in Kinds, step \in Steps, size \in Sizes : OnSample(kind, step, size)
    \/ \E n \in 1..MaxKeys : StartSegment(n)
    \/ Feed \/ EndSegment

Spec == Init /\ [][Next]_vars
-----------------------------------------------------------------------------
(* Properties.                                                             *)

TypeOK ==
    /\ \A i \in DOMAIN file : file[i].kind \in Kinds /\ file[i].time \in Nat
    /\ Len(idx) \in 1..MaxKeys /\ pos \in Nat /\ phase \in {"index", "segment", "made", "failed"}
    /\ \A i \in DOMAIN seg.out : seg.out[i] \in DOMAIN file

\* The entries after the first are key frames where they are in the file, in
\* order and, but for the second, MinGap apart; every key frame is listed or
\* close after one that is, or the index is full.
IndexSound ==
    /\ \A i \in 2..Len(idx) : \E k \in DOMAIN file :
          file[k].kind = "key" /\ file[k].time = idx[i].time /\ file[k].at = idx[i].pos
    /\ \A i \in 3..Len(idx) : idx[i].time - idx[i - 1].time >= MinGap
    /\ \A i \in 2..Len(idx) : idx[i].pos >= idx[i - 1].pos /\ idx[i].time >= idx[i - 1].time
    /\ Len(idx) < MaxKeys => \A k \in DOMAIN file : file[k].kind = "key" =>
          \E i \in 1..Len(idx) : file[k].time - idx[i].time \in 0..(MinGap - 1)

Times == 0..(IF file = <<>> THEN 0 ELSE Last(file).time + 1)

\* A later time is never at an earlier byte, none is outside of the file; the
\* entries of a view are ordered, inside what is left and not in the past.
ViewsSound == \A t \in Times :
    /\ ByteAt(t) \in Header..pos /\ ByteAt(t) <= ByteAt(t + 1)
    /\ LET v == View(t) IN
       /\ v.size \in 0..pos
       /\ \A i \in DOMAIN v.keys : /\ v.keys[i].time >= t /\ v.keys[i].pos <= v.size
                                   /\ i > 1 => v.keys[i - 1].pos <= v.keys[i].pos

\* A segment can be decoded by itself: it starts with a key frame, which is
\* its only one, and holds all that follows up to the next; no key frame lies
\* between it and the one its entry names.
SegmentSound == phase = "made" =>
    LET first == Head(seg.out) IN
    /\ file[first].kind = "key"
    /\ seg.out = [i \in 1..Len(seg.out) |-> first + i - 1]
    /\ \A i \in 2..Len(seg.out) : file[seg.out[i]].kind # "key"
    /\ LET end == Last(seg.out) + 1 IN end \in DOMAIN file => file[end].kind = "key"
    /\ seg.no > 1 => /\ file[first].time <= idx[seg.no].time
                      /\ \A k \in (first + 1)..Len(file) :
                            file[k].kind = "key" => file[k].time >= idx[seg.no].time
=============================================================================
