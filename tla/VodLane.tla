------------------------------ MODULE VodLane ------------------------------
(***************************************************************************)
(* One viewer's lane onto a file: the demuxer of vod/io/mp4_vod_reader.c,  *)
(* the frame FIFO of vod/io/vod_buffer.c and its one reader, as operators  *)
(* on a lane record.  VodPlay drives them.  A sample is its number in the  *)
(* file, which is its timestamp too; the content of a slot is the number   *)
(* of the sample in it.                                                    *)
(***************************************************************************)
EXTENDS Integers, SequencesExt

CONSTANTS
    N,          \* samples of the file
    Cap,        \* VOD_LANE_BUFFER_CAP
    HighWater,  \* VOD_LANE_FIFO_HW
    TargetLag,  \* target_lag of zms_vod_play_lane_demux_fill
    SyncMax     \* MP4_SEEK_SYNC_MAX

ASSUME LaneAssumption ==
    /\ N \in Nat \ {0} /\ Cap \in Nat \ {0} /\ SyncMax \in Nat \ {0}
    /\ HighWater \in 1..Cap - 1 /\ TargetLag \in 1..HighWater

Samples == 0..N - 1
Hole == -1                     \* an empty slot
SlotAt(seq) == seq % Cap

\* f: a file, [kind: Samples -> {"sync", "inter", "audio"}, box: its container]
SyncSamples(f) == {n \in Samples : f.kind[n] = "sync"}
EmptyLane == [pos |-> 0, w |-> 0, c |-> 0, r |-> 0,
              slot |-> [i \in 0..Cap-1 |-> Hole]]

Pending(l) == IF l.w > l.c THEN l.w - l.c ELSE 0
Lag(l) == IF l.w > l.r THEN l.w - l.r ELSE 0
Oldest(l) == IF l.w > Cap THEN l.w - Cap ELSE 0
-----------------------------------------------------------------------------
(* vod_buffer.c                                                            *)

\* zms_vod_buffer_write: a full FIFO refuses; afterwards the slot one capacity
\* behind the new end is emptied.
BufferWrite(l, n) ==
    IF Pending(l) >= Cap THEN l
    ELSE LET put == [l EXCEPT !.w = @ + 1, !.slot[SlotAt(l.w)] = n]
         IN  IF Oldest(put) > 0 THEN [put EXCEPT !.slot[SlotAt(Oldest(put))] = Hole] ELSE put

\* zms_vod_buffer_reset does not touch the reader.
BufferReset(l) == [l EXCEPT !.w = 0, !.c = 0, !.slot = [i \in 0..Cap-1 |-> Hole]]

\* zms_vod_buffer_reader_peek_muxed: Hole when there is nothing to read
Peek(l) == IF l.r >= l.w THEN Hole ELSE l.slot[SlotAt(l.r)]

\* zms_vod_buffer_reader_advance
Advance(l) ==
    IF l.r >= l.w THEN l
    ELSE [l EXCEPT !.r = @ + 1, !.c = IF l.r + 1 > @ THEN l.r + 1 ELSE @]

SeekBeginning(l) == [l EXCEPT !.r = Oldest(l)]

\* zms_vod_buffer_reader_seek_video_key: stays where it is when there is none
SeekVideoKey(f, l) ==
    LET keys == {q \in l.r..l.w - 1 : l.slot[SlotAt(q)] \in SyncSamples(f)}
    IN  IF keys = {} THEN l ELSE [l EXCEPT !.r = CHOOSE q \in keys : \A k \in keys : q <= k]

\* vod_lane_align_reader
\* mutant: the reader is left where it was before the seek
NoAlign(f, l) == l
Align(f, l) == SeekVideoKey(f, SeekBeginning(l))
-----------------------------------------------------------------------------
(* mp4_vod_reader.c, without the search for a sync sample (Seek below).    *)

\* mp4_pump_once: one sample, unless the FIFO is at its high-water mark or the
\* file at its end.  mutant: no high-water mark
PumpPastHighWater(l) ==
    IF l.pos >= N THEN l ELSE [BufferWrite(l, l.pos) EXCEPT !.pos = @ + 1]
PumpOnce(l) ==
    IF Pending(l) >= HighWater \/ l.pos >= N THEN l
    ELSE [BufferWrite(l, l.pos) EXCEPT !.pos = @ + 1]

Times(k) == [i \in 1..k |-> i]

\* mp4_pump and mp4_prefill: up to the mark
Pump(l) == FoldLeft(LAMBDA a, i : PumpOnce(a), l, Times(HighWater))

\* zms_vod_play_lane_demux_fill, which ignores the hold
DemuxFill(l) ==
    FoldLeft(LAMBDA a, i : IF Lag(a) >= TargetLag THEN a ELSE PumpOnce(a), l, Times(TargetLag))

\* The container's seek: where it leaves the demuxer and the position it reports.
\* MP4 (mov_reader_seek, outside src/) goes back to a sync sample; an FLV file is
\* scanned forward to a key frame or audio, and reports 0 at the end of the file.
LastOf(S) == CHOOSE n \in S : \A k \in S : k <= n
FirstOf(S) == CHOOSE n \in S : \A k \in S : n <= k
ContainerSeek(f, ms) ==
    LET back == {n \in SyncSamples(f) : n <= ms}
        ahead == {n \in Samples : n >= ms /\ f.kind[n] # "inter"}
    IN  IF f.box = "mp4"
        THEN LET p == IF back = {} THEN 0 ELSE LastOf(back) IN [pos |-> p, ms |-> p]
        ELSE IF ahead = {} THEN [pos |-> N, ms |-> 0] ELSE [pos |-> FirstOf(ahead), ms |-> ms]

\* zms_mp4_reader_seek_ms and zms_vod_play_lane_seek_ms: the FIFO is reset, samples
\* are dropped up to a sync sample; at the end of the file the demuxer goes back and
\* plays from where it is.  The lane and the position reported.
Seek(f, l, ms) ==
    LET at == ContainerSeek(f, ms)
        syncs == {n \in SyncSamples(f) : n >= at.pos /\ n - at.pos < SyncMax}
        start == CASE syncs # {} -> FirstOf(syncs)
                   [] syncs = {} /\ N - at.pos >= SyncMax -> at.pos + SyncMax
                   [] OTHER -> ContainerSeek(f, at.ms).pos
    IN  [lane |-> Align(f, Pump([BufferReset(l) EXCEPT !.pos = start])), ms |-> at.ms]
=============================================================================
