----------------------------- MODULE GopReader -----------------------------
(***************************************************************************)
(* Where a player stands in the live GOP ring and in what order it gets    *)
(* frames: attach, the seeks of engine/gop/gop_reader_seek.c, and the A/V  *)
(* staging of zms_gop_reader_read_muxed (frame_mux_fill, pick_best).       *)
(* Every call takes the queue mutex or behaves as if it did (GopQueue      *)
(* looks inside), so a commit and a seek are one step each; filling the    *)
(* staging area is one step per frame, commits may happen in between.      *)
(***************************************************************************)
EXTENDS GopRing, FiniteSetsExt, SequencesExt

CONSTANTS
    MaxLag,      \* ZMS_GOP_QUEUE_PLAY_MAX_LAG
    MuxCap,      \* ZMS_FRAME_MUX_CAP
    Readers,
    Kinds,       \* frame kinds the publisher sends
    MaxStep,     \* largest timestamp step between two frames
    MaxGopLen,   \* bound: stored frames between two GOP heads
    MaxFrames,   \* bound: frames offered
    MaxSeeks     \* bound: seeks of one reader

LagAssumption == MaxLag \in 1..Capacity - 1 /\ MuxCap \in Nat \ {0}

VARIABLES
    q,        \* the ring's bookkeeping: w, count, gops, started, hasVideo
    slots,    \* the frame in each slot
    rd,       \* the readers
    total, now, run    \* frames offered, last timestamp of each track, frames
                       \* since a GOP head

vars == <<q, slots, rd, total, now, run>>

OldestIdx == OldestOf(q.gops, q.count, q.w)
BeginningIdx == BeginningOf(q.count, q.w)
At(i) == slots[SlotOf(i)]

Tracks == {"audio", "video"}
TrackOf(k) == IF IsVideo(k) THEN "video" ELSE "audio"

\* Frames also carry ref, the number of the video frame stored before them: a
\* decoder that has not been given that one cannot decode an inter frame.
StoredFrame == [n : Nat, i : Nat, kind : AllKinds, dts : Nat, ref : Nat]
Empty == NoFrame @@ [ref |-> 0]

\* keyed: a sync frame was delivered since the reader was placed where it reads;
\* last: the last frame delivered of each track.
NewReader == [att |-> FALSE, beg |-> FALSE, idx |-> 0, filling |-> FALSE,
              stage |-> <<>>, keyed |-> FALSE,
              last |-> [t \in Tracks |-> Empty], seeks |-> 0, how |-> "none"]

Init ==
    /\ q = [w |-> 0, count |-> 0, gops |-> <<>>, started |-> FALSE, hasVideo |-> FALSE]
    /\ slots = [s \in 0..Capacity-1 |-> Empty]
    /\ rd = [r \in Readers |-> NewReader]
    /\ total = 0 /\ now = [t \in Tracks |-> 0] /\ run = 0
-----------------------------------------------------------------------------
(* The writer: ring_commit_frame as one step.                              *)

\* k calls of pop_front_gop in a row
PopN(p, k) ==
    LET dropped == (IF k < Len(p.gops) THEN p.gops[k+1].start ELSE p.w) - p.gops[1].start
    IN IF k = 0 THEN p
       ELSE [p EXCEPT !.gops = SubSeq(@, k + 1, Len(@)),
                      !.count = IF dropped <= @ THEN @ - dropped ELSE 0]

\* while (Need) pop_front_gop
PopWhile(p, Need(_)) ==
    PopN(p, CHOOSE k \in 0..Len(p.gops) :
                /\ ~Need(PopN(p, k))
                /\ \A j \in 0..k-1 : Need(PopN(p, j)))

TrimForTime(p, d) == PopWhile(p, LAMBDA x : TooOld(x.gops, d))

OnNewGop(p, d) ==
    LET head == [start |-> p.w, dts |-> d]
        room == TrimForTime(PopWhile(p, LAMBDA x : NoRoomForGop(x.gops, x.count)), d)
    IN IF ~p.started \/ p.gops = <<>> THEN [p EXCEPT !.started = TRUE, !.gops = <<head>>]
       ELSE IF p.w > Last(p.gops).start THEN [room EXCEPT !.gops = Append(@, head)]
       ELSE p

RingCommit(p, k, d) ==
    LET opened == IF NewGop(k, p.hasVideo) THEN OnNewGop(p, d) ELSE p
        room == PopWhile(opened, LAMBDA x : x.count >= Capacity /\ x.gops # <<>>)
        stored == [room EXCEPT !.w = @ + 1, !.count = CountUp(@)]
        full == stored.count >= Capacity /\ Len(stored.gops) > 1
    IN TrimForTime(IF full THEN PopN(stored, 1) ELSE stored, d)

Commit(k, step) ==
    LET p == [q EXCEPT !.hasVideo = @ \/ (IsVideo(k) /\ k # "config")]
        d == now[TrackOf(k)] + step
        videos == {f \in {slots[s] : s \in DOMAIN slots} : f.n > 0 /\ IsVideo(f.kind)}
        head == NewGop(k, p.hasVideo) IN
    /\ total < MaxFrames
    /\ head \/ run < MaxGopLen
    /\ total' = total + 1
    /\ now' = [now EXCEPT ![TrackOf(k)] = d]
    /\ IF Storable(k, p.started, p.hasVideo)
       THEN /\ q' = RingCommit(p, k, d)
            /\ slots' = [slots EXCEPT ![SlotOf(q.w)] =
                            [n |-> total + 1, i |-> q.w, kind |-> k, dts |-> d,
                             ref |-> IF videos = {} THEN 0 ELSE Max({f.n : f \in videos})]]
            /\ run' = IF head THEN 1 ELSE run + 1
       ELSE /\ q' = p
            /\ UNCHANGED <<slots, run>>
    /\ UNCHANGED rd

\* zms_gop_queue_set_video_config
SetVideoConfig ==
    /\ q' = [q EXCEPT !.started = TRUE, !.hasVideo = TRUE]
    /\ UNCHANGED <<slots, rd, total, now, run>>
-----------------------------------------------------------------------------
(* The seeks: the new read_idx of a reader that stands at i.               *)

SyncsIn(a, b) == {i \in a..b-1 : At(i) # Empty /\ VideoSync(At(i).kind)}
IdrsIn(a, b) == {i \in a..b-1 : At(i) # Empty /\ LiveIdr(At(i).kind)}

EdgePast(i) == i                              \* mutant: may stand past the edge
Edge(i) == IF q.w > 0 /\ i >= q.w THEN q.w - 1 ELSE i   \* last committed frame
Behind(i) == q.w > i /\ q.w - i > MaxLag

\* zms_gop_reader_seek_live
SeekLive(i) == Edge(IF Behind(i) THEN q.w - MaxLag ELSE i)

\* seek_clamp_lag, end = write_idx
ClampLagCut(i) == IF Behind(Edge(i)) THEN q.w - MaxLag ELSE Edge(i)   \* mutant
ClampLag(i) ==
    LET syncs == SyncsIn(q.w - MaxLag, q.w)
    IN IF Behind(Edge(i)) /\ syncs # {} THEN Min(syncs) ELSE Edge(i)

LastGop == Last(q.gops).start

\* zms_gop_reader_seek_gop_key
SeekGopKey(i) ==
    IF q.w = 0 THEN 0
    ELSE IF q.gops = <<>> THEN SeekLive(i)
    ELSE ClampLag(IF SyncsIn(LastGop, q.w) = {} THEN LastGop
                  ELSE Min(SyncsIn(LastGop, q.w)))

\* Where the other seeks start to look: the last GOP, or what is left of the
\* live window.
LookFrom == IF q.gops # <<>> THEN LastGop
            ELSE IF q.w > MaxLag THEN q.w - MaxLag ELSE 0

\* zms_gop_reader_seek_live_key
SeekLiveKey(i) ==
    IF q.w = 0 THEN 0
    ELSE IF SyncsIn(LookFrom, q.w) = {} THEN Edge(LookFrom)
    ELSE Max(SyncsIn(LookFrom, q.w))

\* seek_live_idr_apply_pick: never stay on an IDR further back than MaxLag.
NearPickFar(pick) == pick                     \* mutant: no lag limit
NearPick(pick) ==
    LET near == IF q.w - MaxLag < LookFrom THEN LookFrom ELSE q.w - MaxLag
    IN IF q.w - pick <= MaxLag THEN pick
       ELSE IF IdrsIn(near, q.w) # {} THEN Max(IdrsIn(near, q.w))
       ELSE IF SyncsIn(near, q.w) # {} THEN Max(SyncsIn(near, q.w))
       ELSE q.w - 1

\* zms_gop_reader_seek_live_idr
SeekLiveIdr(i) ==
    LET near == IF q.w > LookFrom /\ q.w - LookFrom > MaxLag THEN q.w - MaxLag ELSE LookFrom
        syncs == SyncsIn(near, q.w)
        far == SyncsIn(LookFrom, near)
    IN IF q.w = 0 THEN 0
       ELSE IF IdrsIn(LookFrom, q.w) # {} THEN NearPick(Max(IdrsIn(LookFrom, q.w)))
       ELSE IF syncs # {} THEN Max(syncs)
       ELSE IF far # {} /\ q.w - Max(far) <= MaxLag THEN Max(far)
       ELSE q.w - 1

\* zms_gop_reader_seek_rtsp_idr
SeekRtspIdr(i) ==
    IF q.w = 0 THEN 0
    ELSE IF IdrsIn(LookFrom, q.w) # {} THEN NearPick(Max(IdrsIn(LookFrom, q.w)))
    ELSE q.w - 1

\* zms_gop_reader_seek_decode_start
SeekDecodeStart(i) ==
    IF q.w = 0 \/ i >= q.w \/ SyncsIn(i, q.w) = {} THEN i ELSE Min(SyncsIn(i, q.w))

Seeks == {"live", "gop_key", "live_key", "live_idr", "rtsp_idr", "decode_start"}

SeekTo(how, i) == CASE how = "live" -> SeekLive(i)
                    [] how = "gop_key" -> SeekGopKey(i)
                    [] how = "live_key" -> SeekLiveKey(i)
                    [] how = "live_idr" -> SeekLiveIdr(i)
                    [] how = "rtsp_idr" -> SeekRtspIdr(i)
                    [] how = "decode_start" -> SeekDecodeStart(i)
-----------------------------------------------------------------------------
(* The readers.                                                            *)

\* A reader at a new place: what it has been given so far no longer counts.
Placed(reader, i) == [reader EXCEPT !.idx = i, !.stage = <<>>, !.keyed = FALSE,
                                    !.last = [t \in Tracks |-> Empty]]

Attach(r, beginning) ==
    /\ ~rd[r].att
    /\ rd' = [rd EXCEPT ![r] = Placed([NewReader EXCEPT !.att = TRUE, !.beg = beginning],
                                      IF beginning THEN BeginningIdx ELSE OldestIdx)]
    /\ UNCHANGED <<q, slots, total, now, run>>

Detach(r) ==
    /\ rd[r].att /\ ~rd[r].filling
    /\ rd' = [rd EXCEPT ![r] = NewReader]
    /\ UNCHANGED <<q, slots, total, now, run>>

\* Every seek drops the staged frames first (frame_mux_clear).
Seek(r, how) ==
    /\ rd[r].att /\ ~rd[r].filling
    /\ rd[r].seeks < MaxSeeks
    /\ rd' = [rd EXCEPT ![r] = [Placed(rd[r], SeekTo(how, rd[r].idx))
                                EXCEPT !.seeks = @ + 1, !.how = how]]
    /\ UNCHANGED <<q, slots, total, now, run>>

\* frame_mux_fill starts only when nothing is staged.
FillBegin(r) ==
    /\ rd[r].att /\ ~rd[r].filling
    /\ rd[r].stage = <<>>
    /\ rd' = [rd EXCEPT ![r].filling = TRUE]
    /\ UNCHANGED <<q, slots, total, now, run>>

\* frame_mux_fill_one_locked: a cursor behind the window moves to the last
\* GOP, to its first sync frame if there is one.
SnapToEdge(i, oldest) == q.w - 1              \* mutant: to the live edge
Snap(i, oldest) ==
    LET snap == IF q.gops # <<>> /\ LastGop >= oldest THEN LastGop ELSE oldest
    IN IF SyncsIn(snap, q.w) = {} THEN snap ELSE Min(SyncsIn(snap, q.w))

FillOne(r) ==
    LET oldest == IF rd[r].beg THEN BeginningIdx ELSE OldestIdx
        behind == rd[r].idx < oldest
        i == IF behind THEN Snap(rd[r].idx, oldest) ELSE rd[r].idx IN
    /\ rd[r].filling
    /\ Len(rd[r].stage) < MuxCap
    /\ rd[r].idx < q.w
    /\ rd' = [rd EXCEPT ![r].idx = i + 1, ![r].stage = Append(@, At(i))]
    /\ UNCHANGED <<q, slots, total, now, run>>

FillEnd(r) ==
    /\ rd[r].filling
    /\ Len(rd[r].stage) >= MuxCap \/ rd[r].idx >= q.w
    /\ rd' = [rd EXCEPT ![r].filling = FALSE]
    /\ UNCHANGED <<q, slots, total, now, run>>

\* frame_mux_pick_best.  The skew only widens a choice that is made by
\* timestamp anyway: the earliest frame, audio before video when they tie.
EarliestLast(s, K) == CHOOSE j \in K : /\ \A k \in K : s[j].dts <= s[k].dts   \* mutant
                                       /\ \A k \in K : s[k].dts = s[j].dts => j >= k
Earliest(s, K) == CHOOSE j \in K : /\ \A k \in K : s[j].dts <= s[k].dts
                                   /\ \A k \in K : s[k].dts = s[j].dts => j <= k

PickBest(s, skew) ==
    LET V == {j \in DOMAIN s : IsVideo(s[j].kind)}
        A == DOMAIN s \ V
        a == Earliest(s, A)
        v == Earliest(s, V)
    IN IF A = {} THEN v
       ELSE IF V = {} THEN a
       ELSE IF s[a].dts + skew < s[v].dts THEN a
       ELSE IF s[v].dts + skew < s[a].dts THEN v
       ELSE IF s[a].dts <= s[v].dts THEN a ELSE v

Skew == 1

\* zms_gop_reader_read_muxed with something staged
ReadMuxed(r) ==
    LET k == PickBest(rd[r].stage, Skew)
        f == rd[r].stage[k]
        track == TrackOf(f.kind) IN
    /\ rd[r].att /\ ~rd[r].filling
    /\ rd[r].stage # <<>>
    /\ rd' = [rd EXCEPT ![r].stage = RemoveAt(@, k),
                        ![r].keyed = @ \/ VideoSync(f.kind),
                        ![r].last[track] = f]
    /\ UNCHANGED <<q, slots, total, now, run>>

Reader(r) == \/ \E b \in BOOLEAN : Attach(r, b)
             \/ Detach(r)
             \/ \E how \in Seeks : Seek(r, how)
             \/ FillBegin(r) \/ FillOne(r) \/ FillEnd(r) \/ ReadMuxed(r)
-----------------------------------------------------------------------------
Next == \/ \E k \in Kinds, step \in 0..MaxStep : Commit(k, step)
        \/ SetVideoConfig
        \/ \E r \in Readers : Reader(r)

Spec == Init /\ [][Next]_vars
-----------------------------------------------------------------------------
(* Properties.                                                             *)

\* Types of the variables.
TypeOK ==
    /\ q \in [w : Nat, count : 0..Capacity, gops : Seq(Gop),
             started : BOOLEAN, hasVideo : BOOLEAN]
    /\ slots \in [0..Capacity-1 -> StoredFrame]
    /\ \A r \in Readers :
          /\ rd[r].idx \in Nat /\ rd[r].att \in BOOLEAN
          /\ Len(rd[r].stage) <= MuxCap
          /\ \A j \in DOMAIN rd[r].stage : rd[r].stage[j] \in StoredFrame
    /\ now \in [Tracks -> Nat] /\ total \in Nat /\ run \in Nat

Sought(r, hows) == rd'[r].seeks > rd[r].seeks /\ rd'[r].how \in hows

\* Every seek but decode_start (which only moves forward from where the reader
\* stands) leaves the cursor on a frame the ring still has: not at or past
\* write_idx, where the player would wait, and not on an overwritten slot.
SeekLandsInRingStep == \A r \in Readers :
    (Sought(r, Seeks \ {"decode_start"}) /\ q.w > 0)
        => rd'[r].idx \in (q.w - Capacity)..(q.w - 1)
SeekLandsInRing == [][SeekLandsInRingStep]_vars

\* A player that asks for the live edge is never more than MaxLag frames
\* behind it, whatever the GOP lengths.
LiveSeeksBoundedStep == \A r \in Readers :
    Sought(r, {"live", "live_idr", "rtsp_idr"}) => q.w - rd'[r].idx <= MaxLag
LiveSeeksBounded == [][LiveSeeksBoundedStep]_vars

\* If the last GOP has a sync frame, a player that starts at its key (or at the
\* live key) stands on a sync frame of that GOP, also after the lag clamp.
GopKeyOnSyncStep == \A r \in Readers :
    (Sought(r, {"gop_key", "live_key"}) /\ q.gops # <<>>)
        => LET syncs == SyncsIn(LastGop, q.w)
           IN syncs # {} => rd'[r].idx \in syncs
GopKeyOnSync == [][GopKeyOnSyncStep]_vars

Far(i) == q.w - i > MaxLag

\* Where the code does other than its documentation says, the last GOP being
\* longer than the live window:
\* - gop_reader_seek.c:44 has the clamp look for a sync frame in the window and
\*   else cut to the last frame; the code stays at the key frame, out of it;
GopKeyFar(r, key) == Far(key) /\ rd'[r].idx = key

\* - gop_queue.h:129 has a live player wait at the sync frame, gop_queue.h:134 an
\*   RTSP player start at the last IDR of the GOP; the code puts both of them on
\*   the last frame.
IdrFar(r, idr) == Far(idr) /\ rd'[r].idx = q.w - 1

\* But for those cases the seeks land on the frame gop_queue.h names: the key
\* frame of the last GOP, or its IDR; where it has none, a live player on the
\* sync frame, an RTSP player on the last frame.  That the documentation says
\* "first" where the code takes the last one, and the other way round, does not
\* matter: every sync frame opens a GOP, so none holds two.
LandsAsNamedStep == \A r \in Readers : q.gops # <<>> =>
    LET syncs == SyncsIn(LastGop, q.w)
        idrs == IdrsIn(LastGop, q.w)
        There(i) == ~Far(i) /\ rd'[r].idx = i
    IN /\ Cardinality(syncs) <= 1
       /\ Sought(r, {"gop_key"}) =>
              \A key \in syncs : There(key) \/ GopKeyFar(r, key)
       /\ Sought(r, {"live_idr", "rtsp_idr"}) =>
              \A idr \in idrs : There(idr) \/ IdrFar(r, idr)
       /\ Sought(r, {"live_idr"}) /\ idrs = {} =>
              \A cra \in syncs : There(cra) \/ IdrFar(r, cra)
       /\ Sought(r, {"rtsp_idr"}) /\ idrs = {} => rd'[r].idx = q.w - 1
LandsAsNamed == [][LandsAsNamedStep]_vars

Delivered(r, t) == rd'[r].last[t] # rd[r].last[t] /\ rd'[r].last[t] # Empty

\* The staging area reorders audio against video, never a track against
\* itself, not even across refills and snaps of a slow reader.
TrackOrderStep == \A r \in Readers, t \in Tracks :
    Delivered(r, t) => rd'[r].last[t].n > rd[r].last[t].n
TrackOrder == [][TrackOrderStep]_vars

\* From its first key frame on, a player is never given an inter frame whose
\* predecessor it was not given, however far it falls behind and whatever the
\* writer drops meanwhile: a slow reader resumes at a sync frame.
DecodableStep == \A r \in Readers :
    (rd[r].keyed /\ Delivered(r, "video"))
        => LET f == rd'[r].last["video"]
           IN VideoSync(f.kind) \/ f.ref = rd[r].last["video"].n
Decodable == [][DecodableStep]_vars
=============================================================================
