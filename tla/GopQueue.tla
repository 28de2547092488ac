------------------------------ MODULE GopQueue ------------------------------
(***************************************************************************)
(* The live GOP ring of engine/gop/gop_queue.c: one ingest thread commits  *)
(* frames under the queue mutex, any number of play threads take frames    *)
(* from it, most of the time without the mutex.                            *)
(*                                                                         *)
(* Frames have absolute indices; frame i lives in slot i % Capacity.  The  *)
(* window of live frames is [OldestIdx, writeIdx); it moves forward by     *)
(* whole GOPs.  A lock-free reader trusts three words published by the     *)
(* writer: writeSeq, oldestSeq and the slot's seqlock counter.  It may     *)
(* meet the writer between any two of its own steps, so a commit and a     *)
(* lock-free take are sequences of steps here, one per access the other    *)
(* side can observe.  Whatever happens with the mutex held and is          *)
(* invisible to lock-free readers is one step.                             *)
(*                                                                         *)
(* Memory is sequentially consistent: every pair of accesses whose order   *)
(* matters is separated by zms_gop_barrier() in the code.                  *)
(***************************************************************************)
EXTENDS GopRing

CONSTANTS
    Readers,        \* play sessions that may attach
    Bufs,           \* ztk_buf objects of the shared pool
    NoBuf,          \* the NULL ztk_buf pointer
    Kinds,          \* frame kinds the publisher sends
    Dts,            \* timestamps the publisher sends
    GraceGivesUp,   \* may ring_wait_quiescent run out of spins?
    MaxGopLen,      \* bound: stored frames between two GOP heads
    MaxFrames,      \* bound: frames offered to the queue
    MaxClears       \* bound: calls of zms_gop_queue_clear

ASSUME DtsAssumption == Dts \subseteq Nat
ASSUME BufAssumption == NoBuf \notin Bufs
ASSUME ReaderAssumption == IsFiniteSet(Readers)
ASSUME KindAssumption == Kinds \subseteq AllKinds
ASSUME BoundAssumption == /\ MaxGopLen \in Nat /\ MaxFrames \in Nat
                          /\ MaxClears \in Nat

VARIABLES
    writeIdx, count, gops, cacheStarted, hasVideo,  \* guarded by mu
    writeSeq, oldestSeq,                            \* read without mu
    slot,           \* slots[]: seqlock counter, buffer, public view
    refcnt, data,   \* ztk_buf: reference count, frame its payload spells
    wr,             \* the writer: program counter and locals of one commit
    rd,             \* the readers: cursor and locals of one take
    total, run, clears,  \* frames offered, frames since a GOP head, clears
    met                  \* whom a clear has met half way (history)

ringVars == <<writeIdx, count, gops, cacheStarted, hasVideo>>
bufVars  == <<refcnt, data>>
envVars  == <<total, run, clears, met>>
vars == <<ringVars, writeSeq, oldestSeq, slot, bufVars, wr, rd, envVars>>

\* Program points of ring_commit_frame at which mu is held.
LockedPcs == {"firstgop", "roomgop", "makeroom", "storebuf", "storepub",
              "stable", "grace", "advance", "trim"}
WriterPcs == LockedPcs \cup {"idle", "fill", "commit"}
MutexFree == wr.pc \notin LockedPcs

ReaderPcs == {"idle", "route", "enter", "load", "check", "ref", "recheck",
              "confirm", "locked"}
\* Program points between rd->in_cs = 1 and rd->in_cs = 0.
CsPcsTooShort == {"load", "check"}                    \* mutant: left before try_ref
CsPcsSticky == {"load", "check", "ref", "recheck", "locked"}  \* mutant: never left
CsPcs == {"load", "check", "ref", "recheck"}
InCs(r) == rd[r].pc \in CsPcs
-----------------------------------------------------------------------------
OldestIdx == OldestOf(gops, count, writeIdx)
BeginningIdx == BeginningOf(count, writeIdx)

\* pop_front_gop, with publish_oldest
PopFrontGop ==
    /\ count' = CountAfterPop(gops, count, writeIdx)
    /\ gops' = Tail(gops)
    /\ oldestSeq' = OldestOf(gops', count', writeIdx)
-----------------------------------------------------------------------------
(* Reference counts of ztk_buf (external library).                         *)

FreeBufs == {b \in Bufs : refcnt[b] = 0}
Unref(rc, b) == IF b = NoBuf THEN rc ELSE [rc EXCEPT ![b] = @ - 1]
Ref(rc, b) == [rc EXCEPT ![b] = @ + 1]

\* zms_gop_queue_alloc_write: nobody but the slot references the buffer.
ReusableShared(b) == b # NoBuf /\ refcnt[b] <= 2   \* mutant: one reader tolerated
Reusable(b) == b # NoBuf /\ refcnt[b] = 1

\* free_slot
FreeSlot(s) == [seq |-> s.seq + 2, buf |-> NoBuf, pub |-> NoFrame]
-----------------------------------------------------------------------------
Init ==
    /\ writeIdx = 0 /\ count = 0 /\ gops = <<>>
    /\ cacheStarted = FALSE /\ hasVideo = FALSE
    /\ writeSeq = 0 /\ oldestSeq = 0
    /\ slot = [s \in 0..Capacity-1 |-> [seq |-> 0, buf |-> NoBuf, pub |-> NoFrame]]
    /\ refcnt = [b \in Bufs |-> 0] /\ data = [b \in Bufs |-> 0]
    /\ wr = [pc |-> "idle", frame |-> NoFrame, buf |-> NoBuf, old |-> NoBuf]
    /\ rd = [r \in Readers |->
                [att |-> FALSE, beg |-> FALSE, idx |-> 0, pc |-> "idle", s1 |-> 0,
                 buf |-> NoBuf, pub |-> NoFrame, held |-> NoBuf, got |-> NoFrame]]
    /\ total = 0 /\ run = 0 /\ clears = 0 /\ met = {}
-----------------------------------------------------------------------------
(* The writer: zms_gop_queue_write, or zms_gop_queue_alloc_write followed  *)
(* by zms_gop_queue_write_buf (stream_ingest.c).                           *)

SlotBuf == slot[SlotOf(writeIdx)].buf

\* zms_gop_queue_alloc_write: lend the next slot's own buffer when nobody
\* else references it (and it is large enough), else allocate.
AllocWrite(k, d) ==
    /\ wr.pc = "idle"
    /\ total < MaxFrames
    /\ NewGop(k, hasVideo \/ (IsVideo(k) /\ k # "config")) \/ run < MaxGopLen
    /\ \/ /\ Reusable(SlotBuf)
          /\ wr' = [wr EXCEPT !.pc = "fill", !.buf = SlotBuf,
                              !.frame = [n |-> total + 1, i |-> 0, kind |-> k, dts |-> d]]
          /\ UNCHANGED refcnt
       \/ /\ FreeBufs # {}
          /\ LET b == CHOOSE x \in FreeBufs : TRUE
             IN /\ refcnt' = Ref(refcnt, b)
                /\ wr' = [wr EXCEPT !.pc = "fill", !.buf = b,
                                    !.frame = [n |-> total + 1, i |-> 0, kind |-> k, dts |-> d]]
    /\ total' = total + 1
    /\ UNCHANGED <<ringVars, writeSeq, oldestSeq, slot, data, rd, run, clears, met>>

\* memcpy of the payload into the buffer, outside the mutex.
FillBuf ==
    /\ wr.pc = "fill"
    /\ data' = [data EXCEPT ![wr.buf] = wr.frame.n]
    /\ wr' = [wr EXCEPT !.pc = "commit"]
    /\ UNCHANGED <<ringVars, writeSeq, oldestSeq, slot, refcnt, rd, envVars>>

\* ring_commit_frame refuses an empty payload; the caller releases the buffer.
RejectEmpty ==
    /\ wr.pc = "commit"
    /\ wr.frame.kind = "empty"
    /\ refcnt' = Unref(refcnt, wr.buf)
    /\ wr' = [wr EXCEPT !.pc = "idle", !.buf = NoBuf, !.frame = NoFrame]
    /\ UNCHANGED <<ringVars, writeSeq, oldestSeq, slot, data, rd, envVars>>

\* has_video is sticky and is set before the policy is asked.
SawVideo == hasVideo \/ (IsVideo(wr.frame.kind) /\ wr.frame.kind # "config")

\* Not storable before the cache started: the frame and its buffer are dropped.
DropFrame ==
    /\ wr.pc = "commit"
    /\ wr.frame.kind # "empty"
    /\ ~Storable(wr.frame.kind, cacheStarted, SawVideo)
    /\ hasVideo' = SawVideo
    /\ refcnt' = Unref(refcnt, wr.buf)
    /\ wr' = [wr EXCEPT !.pc = "idle", !.buf = NoBuf, !.frame = NoFrame]
    /\ UNCHANGED <<writeIdx, count, gops, cacheStarted, writeSeq, oldestSeq,
                   slot, data, rd, envVars>>

\* Take mu and find out what on_new_gop has to do.
BeginCommit ==
    LET head == NewGop(wr.frame.kind, SawVideo) IN
    /\ wr.pc = "commit"
    /\ wr.frame.kind # "empty"
    /\ Storable(wr.frame.kind, cacheStarted, SawVideo)
    /\ hasVideo' = SawVideo
    /\ run' = IF head THEN 1 ELSE run + 1
    /\ wr' = [wr EXCEPT !.frame.i = writeIdx,
                        !.pc = IF ~head THEN "makeroom"
                               ELSE IF ~cacheStarted \/ gops = <<>> THEN "firstgop"
                               ELSE IF writeIdx > gops[Len(gops)].start THEN "roomgop"
                               ELSE "makeroom"]
    /\ UNCHANGED <<writeIdx, count, gops, cacheStarted, writeSeq, oldestSeq,
                   slot, bufVars, rd, total, clears, met>>

NewHead == [start |-> writeIdx, dts |-> wr.frame.dts]

\* on_new_gop, first GOP of the index.
FirstGop ==
    /\ wr.pc = "firstgop"
    /\ cacheStarted' = TRUE
    /\ gops' = <<NewHead>>
    /\ oldestSeq' = writeIdx
    /\ wr' = [wr EXCEPT !.pc = "makeroom"]
    /\ UNCHANGED <<writeIdx, count, hasVideo, writeSeq, slot, bufVars, rd, envVars>>

\* on_new_gop, one iteration of its pop loop or of trim_gops_for_time.
RoomForGop ==
    /\ wr.pc = "roomgop"
    /\ NoRoomForGop(gops, count) \/ TooOld(gops, wr.frame.dts)
    /\ PopFrontGop
    /\ UNCHANGED <<writeIdx, cacheStarted, hasVideo, writeSeq, slot, bufVars,
                   wr, rd, envVars>>

\* on_new_gop, the new GOP is appended to the index.
AppendGop ==
    /\ wr.pc = "roomgop"
    /\ ~NoRoomForGop(gops, count)
    /\ ~TooOld(gops, wr.frame.dts)
    /\ gops' = Append(gops, NewHead)
    /\ wr' = [wr EXCEPT !.pc = "makeroom"]
    /\ UNCHANGED <<writeIdx, count, cacheStarted, hasVideo, writeSeq, oldestSeq,
                   slot, bufVars, rd, envVars>>

\* while (count >= CAPACITY && gop_count > 0) pop_front_gop
MakeRoom ==
    /\ wr.pc = "makeroom"
    /\ count >= Capacity
    /\ gops # <<>>
    /\ PopFrontGop
    /\ UNCHANGED <<writeIdx, cacheStarted, hasVideo, writeSeq, slot, bufVars,
                   wr, rd, envVars>>

\* slot_publish: the counter turns odd ...
PublishBegin ==
    /\ wr.pc = "makeroom"
    /\ count < Capacity \/ gops = <<>>
    /\ slot' = [slot EXCEPT ![SlotOf(writeIdx)].seq = @ + 1]
    /\ wr' = [wr EXCEPT !.pc = "storebuf",
                        !.old = IF SlotBuf = wr.buf THEN NoBuf ELSE SlotBuf]
    /\ UNCHANGED <<ringVars, writeSeq, oldestSeq, bufVars, rd, envVars>>

\* ... the buffer pointer and the public view change ...
StoreBuf ==
    /\ wr.pc = "storebuf"
    /\ slot' = [slot EXCEPT ![SlotOf(writeIdx)].buf = wr.buf]
    /\ wr' = [wr EXCEPT !.pc = "storepub"]
    /\ UNCHANGED <<ringVars, writeSeq, oldestSeq, bufVars, rd, envVars>>

StorePub ==
    /\ wr.pc = "storepub"
    /\ slot' = [slot EXCEPT ![SlotOf(writeIdx)].pub = wr.frame]
    /\ wr' = [wr EXCEPT !.pc = "stable"]
    /\ UNCHANGED <<ringVars, writeSeq, oldestSeq, bufVars, rd, envVars>>

\* ... and the counter turns even again.
PublishEnd ==
    /\ wr.pc = "stable"
    /\ slot' = [slot EXCEPT ![SlotOf(writeIdx)].seq = @ + 1]
    /\ wr' = [wr EXCEPT !.pc = IF wr.old = NoBuf THEN "advance" ELSE "grace"]
    /\ UNCHANGED <<ringVars, writeSeq, oldestSeq, bufVars, rd, envVars>>

\* ring_wait_quiescent, then the old buffer is released.  After four million
\* spins the wait is abandoned (GraceGivesUp).
Grace ==
    /\ wr.pc = "grace"
    /\ GraceGivesUp \/ \A r \in Readers : rd[r].att => ~InCs(r)
    /\ refcnt' = Unref(refcnt, wr.old)
    /\ wr' = [wr EXCEPT !.pc = "advance", !.old = NoBuf]
    /\ UNCHANGED <<ringVars, writeSeq, oldestSeq, slot, data, rd, envVars>>

\* write_idx++, count++ (saturating), and one GOP is dropped when the ring
\* is full and another one remains.
Advance ==
    LET c == CountUp(count)
        w == writeIdx + 1
        full == c >= Capacity /\ Len(gops) > 1 IN
    /\ wr.pc = "advance"
    /\ writeIdx' = w
    /\ count' = IF full THEN CountAfterPop(gops, c, w) ELSE c
    /\ gops' = IF full THEN Tail(gops) ELSE gops
    /\ oldestSeq' = IF full THEN OldestOf(gops', count', w) ELSE oldestSeq
    /\ wr' = [wr EXCEPT !.pc = "trim"]
    /\ UNCHANGED <<cacheStarted, hasVideo, writeSeq, slot, bufVars, rd, envVars>>

\* One iteration of trim_gops_for_time after the frame was stored.
Trim ==
    /\ wr.pc = "trim"
    /\ TooOld(gops, wr.frame.dts)
    /\ PopFrontGop
    /\ UNCHANGED <<writeIdx, cacheStarted, hasVideo, writeSeq, slot, bufVars,
                   wr, rd, envVars>>

\* write_seq is published and mu released.  The slot now owns the buffer.
EndCommit ==
    /\ wr.pc = "trim"
    /\ ~TooOld(gops, wr.frame.dts)
    /\ writeSeq' = writeIdx
    /\ wr' = [wr EXCEPT !.pc = "idle", !.buf = NoBuf, !.frame = NoFrame]
    /\ UNCHANGED <<ringVars, oldestSeq, slot, bufVars, rd, envVars>>

\* zms_gop_queue_set_video_config, by the same thread.
SetVideoConfig ==
    /\ wr.pc = "idle"
    /\ cacheStarted' = TRUE
    /\ hasVideo' = TRUE
    /\ UNCHANGED <<writeIdx, count, gops, writeSeq, oldestSeq, slot, bufVars,
                   wr, rd, envVars>>

\* zms_gop_queue_clear (with free_slot and reset_gop): a take-over or the API
\* clears the queue while its readers stay attached, and while the publisher that
\* was kicked may still be about to commit.  The buffers are released without
\* waiting for readers, the one lent to that publisher with the others.
Lent == wr.pc \in {"fill", "commit"} /\ \E s \in DOMAIN slot : slot[s].buf = wr.buf
MidTake(r) == rd[r].pc \notin {"idle", "locked"}

EmptyRingKeepsCount ==                    \* mutant: count is forgotten
    /\ writeIdx' = 0 /\ writeSeq' = 0 /\ oldestSeq' = 0 /\ UNCHANGED count
    /\ gops' = <<>> /\ cacheStarted' = FALSE /\ hasVideo' = FALSE

EmptyRing ==
    /\ writeIdx' = 0 /\ writeSeq' = 0 /\ oldestSeq' = 0 /\ count' = 0
    /\ gops' = <<>> /\ cacheStarted' = FALSE /\ hasVideo' = FALSE

Clear ==
    /\ MutexFree
    /\ clears < MaxClears
    /\ clears' = clears + 1
    /\ slot' = [s \in DOMAIN slot |-> FreeSlot(slot[s])]
    /\ refcnt' = [b \in Bufs |->
                    refcnt[b] - Cardinality({s \in DOMAIN slot : slot[s].buf = b})]
    /\ EmptyRing
    /\ run' = 0
    /\ met' = met \cup {w \in {"writer"} : Lent}
                  \cup {x \in {"reader"} : \E r \in Readers : MidTake(r)}
    /\ UNCHANGED <<data, wr, rd, total>>

Commit ==
    \/ BeginCommit \/ FirstGop \/ RoomForGop \/ AppendGop \/ MakeRoom
    \/ PublishBegin \/ StoreBuf \/ StorePub \/ PublishEnd \/ Grace
    \/ Advance \/ Trim \/ EndCommit

Writer ==
    \/ \E k \in Kinds, d \in Dts : AllocWrite(k, d)
    \/ FillBuf \/ RejectEmpty \/ DropFrame \/ Commit
-----------------------------------------------------------------------------
(* The readers.                                                            *)

readerOnly == <<ringVars, writeSeq, oldestSeq, slot, data, wr, envVars>>

\* zms_gop_reader_attach and zms_gop_reader_attach_beginning
Attach(r, beginning) ==
    /\ ~rd[r].att
    /\ MutexFree
    /\ rd' = [rd EXCEPT ![r].att = TRUE, ![r].beg = beginning, ![r].got = NoFrame,
                        ![r].idx = IF beginning THEN BeginningIdx ELSE OldestIdx]
    /\ UNCHANGED <<readerOnly, refcnt>>

\* zms_gop_reader_detach, by the thread that reads
DetachKeepsHeld(r) ==                     \* mutant: forgets reader_unref_held
    /\ rd[r].att
    /\ rd[r].pc = "idle"
    /\ MutexFree
    /\ rd' = [rd EXCEPT ![r].att = FALSE, ![r].held = NoBuf]
    /\ UNCHANGED <<readerOnly, refcnt>>

Detach(r) ==
    /\ rd[r].att
    /\ rd[r].pc = "idle"
    /\ MutexFree
    /\ refcnt' = Unref(refcnt, rd[r].held)
    /\ rd' = [rd EXCEPT ![r].att = FALSE, ![r].held = NoBuf]
    /\ UNCHANGED readerOnly

\* Top of the loop of zms_gop_reader_read, top of frame_mux_fill_one.
ReadBegin(r) ==
    /\ rd[r].att
    /\ rd[r].pc = "idle"
    /\ rd[r].idx < writeSeq
    /\ rd' = [rd EXCEPT ![r].pc = "route"]
    /\ UNCHANGED <<readerOnly, refcnt>>

ReadRoute(r) ==
    /\ rd[r].pc = "route"
    /\ rd' = [rd EXCEPT ![r].pc =
                IF rd[r].beg \/ rd[r].idx < oldestSeq THEN "locked" ELSE "enter"]
    /\ UNCHANGED <<readerOnly, refcnt>>

ReaderSlot(r) == slot[SlotOf(rd[r].idx)]

\* The reader leaves the lock-free path: its locals are dead.
Leave(r, pc) == [rd[r] EXCEPT !.pc = pc, !.s1 = 0, !.buf = NoBuf, !.pub = NoFrame]

\* reader_try_take_slot: in_cs = 1, then the first look at the counter.
TakeEnter(r) ==
    /\ rd[r].pc = "enter"
    /\ rd' = [rd EXCEPT ![r] = IF ReaderSlot(r).seq % 2 = 1 THEN Leave(r, "locked")
                               ELSE [@ EXCEPT !.s1 = ReaderSlot(r).seq, !.pc = "load"]]
    /\ UNCHANGED <<readerOnly, refcnt>>

TakeLoad(r) ==
    /\ rd[r].pc = "load"
    /\ rd' = [rd EXCEPT ![r].buf = ReaderSlot(r).buf, ![r].pub = ReaderSlot(r).pub,
                        ![r].pc = "check"]
    /\ UNCHANGED <<readerOnly, refcnt>>

\* Second look at the counter; an empty slot is skipped.
TakeCheck(r) ==
    /\ rd[r].pc = "check"
    /\ rd' = [rd EXCEPT ![r] =
                IF rd[r].s1 # ReaderSlot(r).seq THEN Leave(r, "locked")
                ELSE IF rd[r].buf = NoBuf THEN [Leave(r, "idle") EXCEPT !.idx = @ + 1]
                ELSE [@ EXCEPT !.pc = "ref"]]
    /\ UNCHANGED <<readerOnly, refcnt>>

\* ztk_buf_try_ref fails on a buffer whose count already reached zero.
TakeRef(r) ==
    /\ rd[r].pc = "ref"
    /\ IF refcnt[rd[r].buf] > 0
       THEN /\ refcnt' = Ref(refcnt, rd[r].buf)
            /\ rd' = [rd EXCEPT ![r].pc = "recheck"]
       ELSE /\ rd' = [rd EXCEPT ![r] = Leave(r, "locked")]
            /\ UNCHANGED refcnt
    /\ UNCHANGED readerOnly

TakeRecheck(r) ==
    /\ rd[r].pc = "recheck"
    /\ IF rd[r].s1 # ReaderSlot(r).seq
       THEN /\ refcnt' = Unref(refcnt, rd[r].buf)
            /\ rd' = [rd EXCEPT ![r] = Leave(r, "locked")]
       ELSE /\ rd' = [rd EXCEPT ![r].pc = "confirm"]
            /\ UNCHANGED refcnt
    /\ UNCHANGED readerOnly

\* Back in the caller: oldest_seq once more, then the frame is the reader's.
TakeConfirmBlind(r) ==                    \* mutant: oldest_seq not read again
    /\ rd[r].pc = "confirm"
    /\ refcnt' = Unref(refcnt, rd[r].held)
    /\ rd' = [rd EXCEPT ![r] = [Leave(r, "idle") EXCEPT !.idx = @ + 1,
                                 !.held = rd[r].buf, !.got = rd[r].pub]]
    /\ UNCHANGED readerOnly

TakeConfirm(r) ==
    /\ rd[r].pc = "confirm"
    /\ IF rd[r].idx < oldestSeq
       THEN /\ refcnt' = Unref(refcnt, rd[r].buf)
            /\ rd' = [rd EXCEPT ![r] = Leave(r, "locked")]
       ELSE /\ refcnt' = Unref(refcnt, rd[r].held)
            /\ rd' = [rd EXCEPT ![r] = [Leave(r, "idle") EXCEPT !.idx = @ + 1,
                                         !.held = rd[r].buf, !.got = rd[r].pub]]
    /\ UNCHANGED readerOnly

\* Where the locked path puts a cursor that fell out of the window:
\* zms_gop_reader_read clamps it to the oldest frame, ...
ClampedBack(r) == IF rd[r].beg THEN BeginningIdx ELSE OldestIdx  \* mutant
Clamped(r) == LET oldest == IF rd[r].beg THEN BeginningIdx ELSE OldestIdx
              IN IF rd[r].idx < oldest THEN oldest ELSE rd[r].idx

\* ... frame_mux_fill_one_locked snaps it to the last GOP, to its first sync
\* frame if it has one (the set has one element).
SnappedTo(r) ==
    LET oldest == IF rd[r].beg THEN BeginningIdx ELSE OldestIdx
        snap == IF gops # <<>> /\ gops[Len(gops)].start >= oldest
                THEN gops[Len(gops)].start ELSE oldest
        syncs == {i \in snap..writeIdx-1 :
                    /\ slot[SlotOf(i)].buf # NoBuf
                    /\ VideoSync(slot[SlotOf(i)].pub.kind)}
    IN IF rd[r].idx >= oldest THEN {rd[r].idx}
       ELSE IF syncs = {} THEN {snap}
       ELSE {i \in syncs : \A j \in syncs : i <= j}

\* The path under mu, taken at cursor i.
TakeLockedAt(r, i) ==
    /\ rd[r].pc = "locked"
    /\ MutexFree
    /\ \/ /\ i >= writeIdx
          /\ rd' = [rd EXCEPT ![r].pc = "idle", ![r].idx = i]
          /\ UNCHANGED refcnt
       \/ /\ i < writeIdx
          /\ slot[SlotOf(i)].buf = NoBuf
          /\ rd' = [rd EXCEPT ![r].pc = "idle", ![r].idx = i + 1]
          /\ UNCHANGED refcnt
       \/ /\ i < writeIdx
          /\ slot[SlotOf(i)].buf # NoBuf
          /\ refcnt' = Unref(Ref(refcnt, slot[SlotOf(i)].buf), rd[r].held)
          /\ rd' = [rd EXCEPT ![r].pc = "idle", ![r].idx = i + 1,
                              ![r].held = slot[SlotOf(i)].buf,
                              ![r].got = slot[SlotOf(i)].pub]
    /\ UNCHANGED readerOnly

TakeLocked(r) == \E i \in {Clamped(r)} \cup SnappedTo(r) : TakeLockedAt(r, i)

Take(r) == \/ ReadBegin(r) \/ ReadRoute(r) \/ TakeEnter(r) \/ TakeLoad(r)
           \/ TakeCheck(r) \/ TakeRef(r) \/ TakeRecheck(r) \/ TakeConfirm(r)
           \/ TakeLocked(r)

Reader(r) == \/ \E b \in BOOLEAN : Attach(r, b)
             \/ Detach(r)
             \/ Take(r)
-----------------------------------------------------------------------------
Next == \/ Writer
        \/ SetVideoConfig
        \/ Clear
        \/ \E r \in Readers : Reader(r)

Spec == Init /\ [][Next]_vars

\* A started commit runs to its end and a play thread keeps polling its
\* reader; nothing obliges a publisher to send or a player to stay.
Fairness == /\ WF_vars(FillBuf \/ RejectEmpty \/ DropFrame \/ Commit)
            /\ \A r \in Readers : WF_vars(Take(r))

FairSpec == Spec /\ Fairness
-----------------------------------------------------------------------------
(* Properties.                                                             *)

SlotType == [seq : Nat, buf : Bufs \cup {NoBuf}, pub : Frame]
WriterType == [pc : WriterPcs, frame : Frame, buf : Bufs \cup {NoBuf},
               old : Bufs \cup {NoBuf}]
ReaderType == [att : BOOLEAN, beg : BOOLEAN, idx : Nat, pc : ReaderPcs, s1 : Nat,
               buf : Bufs \cup {NoBuf}, pub : Frame, held : Bufs \cup {NoBuf},
               got : Frame]

\* Types of the variables.
TypeOK ==
    /\ writeIdx \in Nat /\ writeSeq \in Nat /\ oldestSeq \in Nat
    /\ count \in 0..Capacity
    /\ gops \in Seq(Gop)
    /\ cacheStarted \in BOOLEAN /\ hasVideo \in BOOLEAN
    /\ slot \in [0..Capacity-1 -> SlotType]
    /\ refcnt \in [Bufs -> Int] /\ data \in [Bufs -> Nat]
    /\ wr \in WriterType
    /\ rd \in [Readers -> ReaderType]
    /\ total \in Nat /\ run \in Nat /\ clears \in Nat
    /\ met \subseteq {"writer", "reader"}

\* The GOP index is a strictly increasing list of at most MaxGop committed
\* positions (gop_start has MAX_GOP entries), never ahead of the writer.
GopsOrdered ==
    /\ Len(gops) <= MaxGop
    /\ \A k \in DOMAIN gops : gops[k].start <= writeIdx
    /\ \A j, k \in DOMAIN gops : j < k => gops[j].start < gops[k].start

\* Popping GOPs never lets the window reach back behind the slots the ring
\* still has: whoever attaches or is clamped to OldestIdx under the mutex
\* finds that frame, not a younger one that overwrote it.
WindowInRing ==
    /\ writeIdx - OldestIdx <= count
    /\ count <= Capacity
    /\ count <= writeIdx

\* Every reference of a buffer has one owner: a slot, a reader, the writer
\* between allocation and publication, or the writer's old buffer.  A buffer
\* is neither leaked nor released while somebody still uses it, as long as no
\* clear came between the allocation and the commit of a frame whose buffer the
\* ring had lent: that clear frees it under the writer.
Owners(b) ==
    LET inSlots == {s \in DOMAIN slot : slot[s].buf = b}
        holding == {r \in Readers : rd[r].held = b}
        taking  == {r \in Readers : rd[r].pc \in {"recheck", "confirm"} /\ rd[r].buf = b}
    IN Cardinality(inSlots) + Cardinality(holding) + Cardinality(taking)
       + (IF wr.buf = b /\ inSlots = {} THEN 1 ELSE 0)
       + (IF wr.old = b /\ wr.pc # "storebuf" THEN 1 ELSE 0)

RefsCounted == \A b \in Bufs : refcnt[b] = Owners(b)
RefsExact == "writer" \notin met => RefsCounted

\* A payload does not change under the reader that holds the frame, as long as
\* no clear met a commit or a lock-free take half way.
HeldIntact == met = {} => \A r \in Readers :
    rd[r].held # NoBuf => data[rd[r].held] = rd[r].got.n

\* A reader between its looks at the slot touches no buffer that went back
\* to the pool: the point of in_cs and ring_wait_quiescent, which a clear does
\* not wait for.
NoTouchAfterFree == met = {} => \A r \in Readers :
    (rd[r].pc \in {"check", "ref"} /\ rd[r].buf # NoBuf) => refcnt[rd[r].buf] > 0

\* A frame that opens a GOP is in the GOP index when its commit ends: a player
\* that starts now is put on it (zms_gop_reader_seek_gop_key).
KeyIndexed ==
    (wr.pc = "trim" /\ NewGop(wr.frame.kind, hasVideo))
        => /\ gops # <<>>
           /\ gops[Len(gops)].start = wr.frame.i

\* What a reader takes is the frame committed at its cursor, never the frame
\* that later overwrote the slot, as long as no clear came between its look at
\* write_seq and its last look at oldest_seq.
TakesItsSlotStep == "reader" \notin met => \A r \in Readers :
    (rd'[r].got # rd[r].got /\ rd'[r].got # NoFrame)
        => rd'[r].idx = rd'[r].got.i + 1
TakesItsSlot == [][TakesItsSlotStep]_vars

\* A reader gets frames in the order they were committed, each at most once,
\* across slow-reader snaps and clears.
InOrderStep == \A r \in Readers :
    (rd'[r].got # rd[r].got /\ rd'[r].got # NoFrame)
        => rd'[r].got.n > rd[r].got.n
InOrder == [][InOrderStep]_vars

\* The writer waits for readers with mu held while readers on the locked path
\* wait for mu: nobody waits for ever, every commit ends.
CommitEnds == wr.pc = "fill" ~> wr.pc = "idle"

\* A player that keeps polling catches up with what was published.
ReadersCatchUp == \A r \in Readers :
    (rd[r].att /\ rd[r].idx < writeSeq) ~> (~rd[r].att \/ rd[r].idx >= writeSeq)
=============================================================================
