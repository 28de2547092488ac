------------------------------ MODULE LivePlay ------------------------------
(***************************************************************************)
(* One player of a live stream: what egress_live_policy.c decides before   *)
(* each pump (snap, catch-up, kick), the pumps of egress_pipeline.c, and   *)
(* the tag outbox between the pump and the RTMP connection.  Three wires   *)
(* share the policy:                                                       *)
(*   "rtmp"  pump_flv_live, tags pass through the outbox                   *)
(*   "rtp"   pump_live of RTSP and WHEP; the muxer sends at once, because  *)
(*           its sender's queue is empty (RtpSender)                       *)
(*   "http"  pull_flv_live of HTTP-FLV, one tag per call, no policy        *)
(* The stream is video only: frame i is the i-th stored frame, a key frame *)
(* iff i \in keys, and every other frame needs frame i - 1 decoded.  The   *)
(* ring keeps whole GOPs (GopQueue).  A flush runs under the session's     *)
(* lock, the publisher commits frames between any two of its steps.        *)
(***************************************************************************)
EXTENDS Integers, Sequences, FiniteSetsExt

CONSTANTS
    Capacity,    \* ZMS_GOP_QUEUE_CAPACITY
    MuxCap,      \* ZMS_FRAME_MUX_CAP
    MaxLag,      \* ring_max_lag and ZMS_GOP_QUEUE_PLAY_MAX_LAG, equal by default
    CatchupLag,  \* catchup_lag
    Burst,       \* burst_budget
    LiveBudget,  \* frame_budget_live
    OutCap,      \* PLAYBACK_FLV_OUTBOX_CAP
    OutFlush,    \* PLAYBACK_FLV_OUTBOX_FLUSH
    KickLags,    \* values of slow_consumer_kick_lag, 0 switches the kick off
    Wires,       \* the wires to look at
    MaxFrames    \* bound: frames the publisher commits

LivePlayAssumption ==
    /\ Capacity \in Nat /\ MaxLag \in 1..Capacity - 1 /\ CatchupLag \in 1..MaxLag
    /\ MuxCap \in Nat \ {0} /\ OutCap \in Nat \ {0} /\ OutFlush \in Nat \ {0}
    /\ LiveBudget \in Nat \ {0} /\ Burst \in Nat /\ LiveBudget <= Burst
    /\ KickLags \subseteq Nat /\ Wires \subseteq {"rtmp", "rtp", "http"}

VARIABLES
    wire, kickLag,   \* fixed when the player comes
    w, keys,         \* write_idx; the key frames among 0..w-1
    state,           \* "new", "playing", "gone"
    idx, next,       \* read_idx; the frames next..idx-1 are staged
    wake,            \* wake_pending
    catchup,         \* *live_catchup_done
    epoch,           \* zms_egress_clock_epoch_locked
    armed,           \* *video_armed; RTP: video_key_out
    out,             \* flv_out: the tags in the outbox
    pc, left, sent,  \* the flush: where it is, its budget, "frames > 0"
    last,            \* the last frame put on the wire, -1: none
    cut              \* a frame before the one to send next was thrown away

flush == <<pc, left, sent>>
policy == <<catchup, epoch, armed>>
vars == <<wire, kickLag, w, keys, state, idx, next, wake, policy, out, flush, last, cut>>

LastKey == IF keys = {} THEN 0 ELSE Max(keys)
Oldest == Min({k \in keys : w - k < Capacity})

Init ==
    /\ wire \in Wires /\ kickLag \in KickLags
    /\ w = 0 /\ keys = {}
    /\ state = "new" /\ idx = 0 /\ next = 0 /\ wake = FALSE
    /\ catchup = FALSE /\ epoch = FALSE /\ armed = FALSE
    /\ out = <<>> /\ pc = "idle" /\ left = 0 /\ sent = FALSE
    /\ last = -1 /\ cut = FALSE
-----------------------------------------------------------------------------
(* The publisher: ring_commit_frame of a video frame.                      *)

Commit(key) ==
    /\ w < MaxFrames
    /\ key \/ (keys # {} /\ w - LastKey < Capacity - 1)
    /\ w' = w + 1
    /\ keys' = IF key THEN keys \cup {w} ELSE keys
    /\ wake' = (state = "playing")
    /\ UNCHANGED <<wire, kickLag, state, idx, next, policy, out, flush, last, cut>>
-----------------------------------------------------------------------------
(* The lag policy.                                                         *)

Lag == w - idx                       \* zms_gop_reader_lag: staged frames do not count

ShouldPumpWoken == wire = "http" \/ wake \/ ~catchup \/ ~epoch    \* mutant: lag forgotten

\* zms_egress_live_should_pump.  HTTP-FLV pulls whenever it may write.
ShouldPump == wire = "http" \/ wake \/ ~catchup \/ ~epoch \/ Lag > 0

\* zms_egress_live_pump_budget as the pumps reach it; HTTP-FLV has a skip
\* budget (frame_budget_catchup, the same number).
Budget(done, locked) == IF wire # "http" /\ done /\ locked THEN LiveBudget ELSE Burst

\* What zms_egress_live_rtsp_prep leaves: a snap cuts the lag to MaxLag.  On
\* RTMP it also disarms the player and unlocks its clock (rtmp_play_on_snap).
\* The cut of a player whose clock is not locked yet moves the cursor only.
\* The branch on RESYNC_LAG is left out: the lag is at most MaxLag there.
Snap == wire # "http" /\ Lag > MaxLag /\ (catchup \/ epoch)

PrepEpoch == epoch /\ ~(Snap /\ wire = "rtmp")
PrepArmedKept == armed                                       \* mutant: on_snap forgets armed
PrepArmed == armed /\ ~(Snap /\ wire = "rtmp")
PrepIdx == IF wire # "http" /\ Lag > MaxLag THEN w - MaxLag ELSE idx
PrepCatchup == wire # "http" /\ (catchup \/ (PrepEpoch /\ w - PrepIdx <= CatchupLag))

\* live_play_maybe_kick_slow_consumer
SlowConsumer == /\ wire # "http" /\ kickLag # 0
                /\ PrepCatchup /\ PrepEpoch /\ w - PrepIdx > kickLag

Start ==
    /\ state = "new"
    /\ state' = "playing"
    /\ idx' = LastKey /\ next' = LastKey
    /\ UNCHANGED <<wire, kickLag, w, keys, wake, policy, out, flush, last, cut>>

\* Nothing to read: only the outbox is flushed.
FlushIdle ==
    /\ state = "playing" /\ pc = "idle"
    /\ ~ShouldPump
    /\ pc' = "drain" /\ left' = OutFlush
    /\ UNCHANGED <<wire, kickLag, w, keys, state, idx, next, wake, policy, out, sent, last, cut>>

FlushBegin ==
    /\ state = "playing" /\ pc = "idle"
    /\ ShouldPump /\ ~SlowConsumer
    /\ wake' = FALSE
    /\ idx' = PrepIdx
    /\ next' = IF PrepIdx # idx THEN PrepIdx ELSE next
    /\ epoch' = PrepEpoch /\ armed' = PrepArmed /\ catchup' = PrepCatchup
    /\ cut' = (cut \/ (Snap /\ wire = "rtp"))
    /\ pc' = "pump" /\ left' = Budget(PrepCatchup, PrepEpoch) /\ sent' = FALSE
    /\ UNCHANGED <<wire, kickLag, w, keys, state, out, last>>

\* on_slow_consumer: the session tears its player down and closes.  (On RTMP
\* the pump still flushes the outbox of the pipeline just destroyed.)
Kick ==
    /\ state = "playing" /\ pc = "idle"
    /\ ShouldPump /\ SlowConsumer
    /\ state' = "gone" /\ out' = <<>>
    /\ UNCHANGED <<wire, kickLag, w, keys, idx, next, wake, policy, flush, last, cut>>
-----------------------------------------------------------------------------
(* The pump: egress_flv_live_step and the loop of pump_live.               *)

\* frame_mux_fill when nothing is staged.  A cursor behind the ring moves to
\* the last GOP.
FillFrom == IF next = idx /\ idx < w /\ idx < Oldest THEN LastKey ELSE next
FillTo == IF next # idx THEN idx
          ELSE IF w - FillFrom < MuxCap THEN w ELSE FillFrom + MuxCap
HasFrame == next < idx \/ idx < w

Paced == /\ Lag <= CatchupLag
         /\ \/ wire = "rtmp" /\ catchup /\ epoch
            \/ wire = "rtp" /\ epoch

StepEmpty ==
    /\ pc = "pump" /\ left > 0
    /\ ~HasFrame
    /\ left' = 0
    /\ UNCHANGED <<wire, kickLag, w, keys, state, idx, next, wake, policy, out, pc, sent, last, cut>>

\* The next frame is staged but not due (zms_egress_clock_media_due).
StepWait ==
    /\ pc = "pump" /\ left > 0
    /\ HasFrame /\ Paced
    /\ next' = FillFrom /\ idx' = FillTo
    /\ left' = 0
    /\ UNCHANGED <<wire, kickLag, w, keys, state, wake, policy, out, pc, sent, last, cut>>

\* egress_flv_outbox_push: a full outbox drops its oldest tag.
PushOut(f) == Append(IF Len(out) >= OutCap THEN Tail(out) ELSE out, f)

Put(f) ==
    /\ last' = f
    /\ cut' = (cut /\ f \notin keys)

\* Until a key frame came, the others are skipped.
StepSkip ==
    /\ pc = "pump" /\ left > 0
    /\ HasFrame
    /\ ~armed /\ FillFrom \notin keys
    /\ next' = FillFrom + 1 /\ idx' = FillTo
    /\ left' = left - 1
    /\ UNCHANGED <<wire, kickLag, w, keys, state, wake, policy, out, pc, sent, last, cut>>

StepSend ==
    /\ pc = "pump" /\ left > 0
    /\ HasFrame
    /\ armed \/ FillFrom \in keys
    /\ next' = FillFrom + 1 /\ idx' = FillTo
    /\ armed' = TRUE /\ epoch' = (wire # "http") /\ sent' = TRUE
    /\ IF wire = "rtmp"
       THEN /\ out' = PushOut(FillFrom)
            /\ cut' = (cut \/ Len(out) >= OutCap)
            /\ UNCHANGED last
       ELSE /\ Put(FillFrom)
            /\ UNCHANGED out
    /\ left' = IF wire = "http" THEN 0 ELSE left - 1
    /\ UNCHANGED <<wire, kickLag, w, keys, state, wake, catchup, pc>>

\* An RTMP player that is not armed and got nothing looks at the last GOP again.
PumpEnd ==
    /\ pc = "pump" /\ left = 0
    /\ IF wire = "rtmp" /\ ~armed /\ ~sent
       THEN idx' = LastKey /\ next' = LastKey
       ELSE UNCHANGED <<idx, next>>
    /\ IF wire = "rtmp" THEN pc' = "drain" /\ left' = OutFlush
                        ELSE pc' = "idle" /\ UNCHANGED left
    /\ UNCHANGED <<wire, kickLag, w, keys, state, wake, policy, out, sent, last, cut>>

\* zms_egress_pipeline_flush_flv_outbox, a tag at a time.
DrainNewest ==                               \* mutant: from the wrong end
    /\ pc = "drain"
    /\ IF left > 0 /\ out # <<>>
       THEN /\ out' = SubSeq(out, 1, Len(out) - 1) /\ Put(out[Len(out)])
            /\ left' = left - 1 /\ UNCHANGED pc
       ELSE pc' = "idle" /\ left' = 0 /\ UNCHANGED <<out, last, cut>>
    /\ UNCHANGED <<wire, kickLag, w, keys, state, idx, next, wake, policy, sent>>

Drain ==
    /\ pc = "drain"
    /\ IF left > 0 /\ out # <<>>
       THEN /\ out' = Tail(out) /\ Put(Head(out))
            /\ left' = left - 1 /\ UNCHANGED pc
       ELSE pc' = "idle" /\ left' = 0 /\ UNCHANGED <<out, last, cut>>
    /\ UNCHANGED <<wire, kickLag, w, keys, state, idx, next, wake, policy, sent>>
-----------------------------------------------------------------------------
Pump == StepEmpty \/ StepWait \/ StepSkip \/ StepSend \/ PumpEnd \/ Drain
Player == FlushIdle \/ FlushBegin \/ Kick \/ Pump

Next == (\E key \in BOOLEAN : Commit(key)) \/ Start \/ Player

Spec == Init /\ [][Next]_vars

\* The manager timer and the connection call play_flush again and again; the
\* wall clock advances, so a frame that is staged comes due (SF on StepSend).
Fairness == WF_vars(Start) /\ WF_vars(Player) /\ SF_vars(StepSend)

FairSpec == Spec /\ Fairness
-----------------------------------------------------------------------------
TypeOK ==
    /\ wire \in Wires /\ kickLag \in KickLags
    /\ w \in Nat /\ keys \subseteq 0..w-1
    /\ state \in {"new", "playing", "gone"}
    /\ idx \in 0..w /\ next \in 0..idx
    /\ {wake, catchup, epoch, armed, sent, cut} \subseteq BOOLEAN
    /\ out \in Seq(0..w-1) /\ Len(out) <= OutCap
    /\ pc \in {"idle", "pump", "drain"} /\ left \in Nat
    /\ last \in -1..w-1

\* What leaves the server decodes: a frame other than a key frame follows the
\* frame before it, unless frames in between were thrown away (a full outbox,
\* an RTP snap), and then only until the next key frame
\* (egress_pipeline.c, egress_flv_live_step and its outbox).
DecodableStep == last' # last /\ last' \notin keys => last' = last + 1 \/ cut
Decodable == [][DecodableStep]_vars

\* No frame is sent twice and none out of order, through every snap, every
\* return to the head of the GOP and a full outbox.
ForwardStep == last' >= last
Forward == [][ForwardStep]_vars

\* Every player ends up with everything that was committed on the wire, or
\* staged because it is not due; a player without a picture is one whose last
\* key frame lies further back than the policy lets it look.
CaughtUp == \/ state = "gone"
            \/ IF armed THEN Lag = 0 /\ out = <<>>
               ELSE keys = {} \/ w - LastKey > MaxLag
CatchesUp == <>[]CaughtUp
=============================================================================
