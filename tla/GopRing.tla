------------------------------ MODULE GopRing ------------------------------
(***************************************************************************)
(* The bookkeeping of the live GOP ring (engine/gop/gop_queue.c): pure     *)
(* operators on write_idx, count and the GOP index, and what the queue     *)
(* asks of a frame before it stores it: the codec table of                 *)
(* frame_codec_policy.c and the predicates of frame.c, over a handful of   *)
(* frame kinds instead of bitstreams.  GopQueue uses them one access at a  *)
(* time, GopReader one call at a time.                                     *)
(*                                                                         *)
(*   "idr"     video sync frame a decoder may always start from            *)
(*   "cra"     H.265 random access point that is sync but not an IDR       *)
(*   "inter"   any other video frame                                       *)
(*   "drop"    a video frame marked drop_able                              *)
(*   "config"  a video parameter-set frame (config_frame)                  *)
(*   "audio"   an audio frame                                              *)
(*   "empty"   an audio frame whose payload became empty after the ADTS    *)
(*             header was stripped (stream_ingest.c, zms_aac_es_to_raw)    *)
(***************************************************************************)
EXTENDS Integers, Sequences, FiniteSets

CONSTANTS
    ConfigAlwaysStored,  \* TRUE: default/H.264/H.265 row; FALSE: VP8/VP9/AV1
    Capacity,       \* ZMS_GOP_QUEUE_CAPACITY
    MaxGop,         \* ZMS_GOP_QUEUE_MAX_GOP
    TargetGops,     \* target_gops, clamped to 1..MaxGop
    CacheMs         \* cache_ms; 0 switches trimming by time off

ASSUME CapacityAssumption == Capacity \in Nat \ {0}
ASSUME GopAssumption == /\ MaxGop \in Nat /\ TargetGops \in Nat
                        /\ 1 <= TargetGops /\ TargetGops <= MaxGop
ASSUME CacheAssumption == CacheMs \in Nat

AllKinds == {"idr", "cra", "inter", "drop", "config", "audio", "empty"}

IsVideo(k) == k \notin {"audio", "empty"}

\* zms_frame_refresh_key_from_es: the key flag as the codec row sees it.
IsKey(k) == k \in {"idr", "cra"}

\* ops->gop_queue_storable(frame, cache_started, has_video)
Storable(k, cacheStarted, hasVideo) ==
    \/ cacheStarted
    \/ ~IsVideo(k) /\ ~hasVideo
    \/ IsKey(k)
    \/ k = "config" /\ ConfigAlwaysStored

\* ops->gop_queue_new_gop(frame, video_key_pos, has_video)
NewGop(k, hasVideo) == IsKey(k) \/ (~IsVideo(k) /\ ~hasVideo)

\* ring_slot_video_sync and zms_frame_is_decode_start
VideoSync(k) == IsKey(k)

\* ring_slot_is_live_idr: an IDR proper; a CRA is not one.
LiveIdr(k) == k = "idr"
-----------------------------------------------------------------------------
\* A frame: n numbers every frame ever offered (0: none), i is the absolute
\* index it was committed under.
Frame == [n : Nat, i : Nat, kind : AllKinds, dts : Nat]
NoFrame == [n |-> 0, i |-> 0, kind |-> "inter", dts |-> 0]

Gop == [start : Nat, dts : Nat]       \* gop_start[k], gop_dts[k]

\* Frame i lives in this slot.
SlotOf(i) == i % Capacity

\* oldest_idx and beginning_idx of an index g, a count c and a write_idx w
OldestOf(g, c, w) == IF g # <<>> THEN g[1].start
                     ELSE IF c > 0 THEN w - c ELSE w
BeginningOf(c, w) == IF c > 0 /\ w >= c THEN w - c ELSE 0

\* pop_front_gop: what the oldest GOP occupies, and count after dropping it.
DroppedAll(g, w) == w - g[1].start       \* mutant: forgets the next GOP
Dropped(g, w) == (IF Len(g) > 1 THEN g[2].start ELSE w) - g[1].start
CountAfterPopKept(g, c, w) == c          \* mutant: count is not adjusted
CountAfterPop(g, c, w) == IF Dropped(g, w) <= c THEN c - Dropped(g, w) ELSE 0

\* count grows until the ring is full.
CountUp(c) == IF c < Capacity THEN c + 1 ELSE c

\* The loop condition of trim_gops_for_time(r, now).
TooOld(g, now) == /\ CacheMs # 0
                  /\ Len(g) > 1
                  /\ now >= g[1].dts
                  /\ now - g[1].dts > CacheMs

\* The loop condition of on_new_gop.
NoRoomForGopLate(g, c) == Len(g) > MaxGop   \* mutant: off by one
NoRoomForGop(g, c) == \/ Len(g) >= MaxGop
                      \/ Len(g) >= TargetGops /\ c >= Capacity
=============================================================================
