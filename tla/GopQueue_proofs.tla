-------------------------- MODULE GopQueue_proofs --------------------------
(***************************************************************************)
(* The GOP ring's bookkeeping stays consistent for every capacity, every   *)
(* number of GOPs, readers and buffers, every frame sequence and every     *)
(* interleaving of the writer with lock-free readers.                      *)
(***************************************************************************)
EXTENDS GopQueue, TLAPS, FiniteSetTheorems, SequenceTheorems

\* Points of a commit from PublishBegin until the frame is counted: the slot is
\* being overwritten, so the ring is not full unless its GOP index is empty.
PublishPcs == {"storebuf", "storepub", "stable", "grace", "advance"}

\* Points at which the index may already name the frame that is not yet stored.
HeadPcs == PublishPcs \cup {"makeroom"}

Increasing(g) == \A j, k \in DOMAIN g : j < k => g[j].start < g[k].start

\* The inductive invariant: TypeOK, GopsOrdered and WindowInRing, with the two
\* facts that tie the window to the writer's program counter.
RingInv ==
    /\ count <= writeIdx
    /\ Len(gops) <= MaxGop
    /\ Increasing(gops)
    /\ \A k \in DOMAIN gops : gops[k].start <= writeIdx
    /\ gops # <<>> => writeIdx - gops[1].start <= count
    /\ wr.pc \in PublishPcs => gops = <<>> \/ count < Capacity
    /\ wr.pc \notin HeadPcs => \A k \in DOMAIN gops : gops[k].start < writeIdx

IInv == TypeOK /\ RingInv
-----------------------------------------------------------------------------
(* Lemmas about the operators of GopRing.                                  *)

\* Length and elements of a GOP index.
LEMMA SeqFacts ==
  ASSUME NEW g \in Seq(Gop)
  PROVE  /\ Len(g) \in Nat
         /\ DOMAIN g = 1..Len(g)
         /\ g # <<>> <=> Len(g) >= 1
         /\ \A k \in DOMAIN g : /\ g[k] \in Gop
                               /\ g[k].start \in Nat
                               /\ g[k].dts \in Nat
<1>1. Len(g) \in Nat /\ DOMAIN g = 1..Len(g)
  BY LenProperties
<1>2. g = <<>> <=> Len(g) = 0
  BY EmptySeq
<1>3. \A k \in 1..Len(g) : g[k] \in Gop
  BY ElementOfSeq
<1> QED  BY <1>1, <1>2, <1>3 DEF Gop

\* Dropping the oldest GOP from a window that fits the ring gives a window that
\* fits the ring, and never increases the frame count.
LEMMA PopKeepsWindow ==
  ASSUME NEW g \in Seq(Gop), NEW c \in Nat, NEW w \in Nat,
         g # <<>>, Increasing(g), \A k \in DOMAIN g : g[k].start <= w,
         w - g[1].start <= c, c <= w
  PROVE  /\ CountAfterPop(g, c, w) \in 0..c
         /\ Tail(g) \in Seq(Gop)
         /\ Len(Tail(g)) = Len(g) - 1
         /\ Increasing(Tail(g))
         /\ \A k \in DOMAIN Tail(g) : k + 1 \in DOMAIN g /\ Tail(g)[k] = g[k+1]
         /\ Tail(g) # <<>> => w - Tail(g)[1].start <= CountAfterPop(g, c, w)
         /\ OldestOf(Tail(g), CountAfterPop(g, c, w), w) \in Nat
<1>1. Len(g) \in Nat /\ Len(g) >= 1 /\ DOMAIN g = 1..Len(g)
  BY SeqFacts
<1>2. \A k \in 1..Len(g) : g[k] \in Gop /\ g[k].start \in Nat
  BY <1>1, SeqFacts
<1>3. /\ Tail(g) \in Seq(Gop) /\ Len(Tail(g)) = Len(g) - 1
      /\ DOMAIN Tail(g) = 1..(Len(g) - 1)
      /\ \A k \in 1..(Len(g) - 1) : Tail(g)[k] = g[k+1]
  BY <1>1, HeadTailProperties, LenProperties
<1>4. \A k \in DOMAIN Tail(g) : k + 1 \in DOMAIN g /\ Tail(g)[k] = g[k+1]
  BY <1>1, <1>3
<1>5. Increasing(Tail(g))
  BY <1>1, <1>3, <1>4 DEF Increasing
<1>6. CASE Len(g) > 1
  <2>1. 2 \in DOMAIN g /\ 1 \in DOMAIN g /\ Tail(g)[1] = g[2] /\ Tail(g) # <<>>
    BY <1>1, <1>3, <1>6, SeqFacts
  <2>2. g[1].start < g[2].start /\ g[2].start <= w
    BY <2>1 DEF Increasing
  <2>3. Dropped(g, w) = g[2].start - g[1].start
    BY <1>6 DEF Dropped
  <2>4. CountAfterPop(g, c, w) = c - (g[2].start - g[1].start)
    BY <1>1, <1>2, <2>1, <2>2, <2>3 DEF CountAfterPop
  <2>5. OldestOf(Tail(g), CountAfterPop(g, c, w), w) = g[2].start
    BY <2>1 DEF OldestOf
  <2> QED
    BY <1>1, <1>2, <1>3, <1>4, <1>5, <2>1, <2>2, <2>4, <2>5
<1>7. CASE Len(g) = 1
  <2>1. Tail(g) = <<>>
    BY <1>3, <1>7, SeqFacts
  <2>2. 1 \in DOMAIN g /\ g[1].start <= w
    BY <1>1
  <2>3. CountAfterPop(g, c, w) = c - (w - g[1].start)
    BY <1>1, <1>2, <1>7, <2>2 DEF CountAfterPop, Dropped
  <2>4. CountAfterPop(g, c, w) \in 0..c
    BY <1>1, <1>2, <2>2, <2>3
  <2>5. OldestOf(Tail(g), CountAfterPop(g, c, w), w) \in Nat
    BY <2>1, <2>4 DEF OldestOf
  <2> QED
    BY <1>3, <1>4, <1>5, <2>1, <2>4, <2>5
<1> QED  BY <1>1, <1>6, <1>7

\* The oldest live index and the index of the oldest stored frame are naturals.
LEMMA OldestType ==
  ASSUME IInv
  PROVE  OldestIdx \in Nat /\ BeginningIdx \in Nat
<1>1. gops # <<>> => gops[1].start \in Nat
  <2>1. gops \in Seq(Gop)
    BY DEF IInv, TypeOK
  <2> QED  BY <2>1, SeqFacts
<1> QED
  BY <1>1, CapacityAssumption
  DEF IInv, TypeOK, RingInv, OldestIdx, BeginningIdx, OldestOf, BeginningOf
-----------------------------------------------------------------------------
(* The invariant holds initially and is preserved by every action.         *)

\* A frame numbered n + 1 of an allowed kind and timestamp is a frame.
LEMMA NewFrameType ==
  ASSUME NEW k \in Kinds, NEW d \in Dts, NEW n \in Nat
  PROVE  [n |-> n + 1, i |-> 0, kind |-> k, dts |-> d] \in Frame
  BY KindAssumption, DtsAssumption DEF Frame

\* No frame is a frame.
LEMMA NoFrameType == NoFrame \in Frame
  BY DEF NoFrame, Frame, AllKinds

LEMMA InitInv == Init => IInv
<1> SUFFICES ASSUME Init PROVE IInv
  OBVIOUS
<1>1. TypeOK
  <2>1. slot \in [0..Capacity-1 -> SlotType]
    BY NoFrameType DEF Init, SlotType
  <2>2. wr \in WriterType
    BY NoFrameType DEF Init, WriterType, WriterPcs
  <2>3. rd \in [Readers -> ReaderType]
    BY NoFrameType DEF Init, ReaderType, ReaderPcs
  <2>4. gops \in Seq(Gop)
    BY EmptySeq DEF Init
  <2>5. refcnt \in [Bufs -> Int] /\ data \in [Bufs -> Nat]
    BY DEF Init
  <2>6. writeIdx \in Nat /\ writeSeq \in Nat /\ oldestSeq \in Nat
        /\ count \in 0..Capacity /\ total \in Nat /\ run \in Nat /\ clears \in Nat
        /\ met \subseteq {"writer", "reader"}
    BY CapacityAssumption DEF Init
  <2>7. cacheStarted \in BOOLEAN /\ hasVideo \in BOOLEAN
    BY Zenon DEF Init
  <2> QED
    BY <2>1, <2>2, <2>3, <2>4, <2>5, <2>6, <2>7 DEF TypeOK
<1>2. RingInv
  BY GopAssumption, EmptySeq DEF Init, RingInv, Increasing, PublishPcs, HeadPcs
<1> QED  BY <1>1, <1>2 DEF IInv

\* Reference counts stay integers.
LEMMA RefType ==
  ASSUME NEW rc \in [Bufs -> Int], NEW b \in Bufs \cup {NoBuf}
  PROVE  Unref(rc, b) \in [Bufs -> Int] /\ Ref(rc, b) \in [Bufs -> Int]
<1>1. CASE b \in Bufs
  <2>1. [rc EXCEPT ![b] = @ - 1] \in [Bufs -> Int]
    BY <1>1
  <2>2. [rc EXCEPT ![b] = @ + 1] \in [Bufs -> Int]
    BY <1>1
  <2> QED  BY <2>1, <2>2 DEF Unref, Ref
<1>2. CASE b \notin Bufs
  <2>1. \A e : [rc EXCEPT ![b] = e] \in [Bufs -> Int]
    BY <1>2
  <2> QED  BY <2>1, <1>2 DEF Unref, Ref
<1> QED  BY <1>1, <1>2

\* Every absolute index has a slot.
LEMMA SlotOfType ==
  ASSUME NEW i \in Nat
  PROVE  SlotOf(i) \in 0..Capacity-1
  BY CapacityAssumption DEF SlotOf

\* Fields of the writer, the slots and the readers.
LEMMA FieldTypes ==
  ASSUME TypeOK
  PROVE  /\ wr.buf \in Bufs \cup {NoBuf} /\ wr.old \in Bufs \cup {NoBuf}
         /\ wr.frame \in Frame /\ wr.frame.n \in Nat /\ wr.frame.dts \in Nat
         /\ SlotOf(writeIdx) \in 0..Capacity-1
         /\ slot[SlotOf(writeIdx)] \in SlotType
         /\ SlotBuf \in Bufs \cup {NoBuf}
<1>1. SlotOf(writeIdx) \in 0..Capacity-1
  BY SlotOfType DEF TypeOK
<1>2. slot[SlotOf(writeIdx)] \in SlotType
  BY <1>1 DEF TypeOK
<1>3. wr \in WriterType
  BY DEF TypeOK
<1> QED  BY <1>1, <1>2, <1>3 DEF SlotType, WriterType, Frame, SlotBuf

\* The buffer of the next frame: the slot's own, or one from the pool.
LEMMA AllocPicks ==
  ASSUME TypeOK, NEW k \in Kinds, NEW d \in Dts, AllocWrite(k, d)
  PROVE  /\ wr.pc = "idle"
         /\ \E b \in Bufs :
              /\ wr' = [wr EXCEPT !.pc = "fill", !.buf = b,
                                  !.frame = [n |-> total + 1, i |-> 0, kind |-> k, dts |-> d]]
              /\ \/ Reusable(SlotBuf) /\ b = SlotBuf /\ refcnt' = refcnt
                 \/ refcnt[b] = 0 /\ refcnt' = Ref(refcnt, b)
<1>1. wr.pc = "idle"
  BY DEF AllocWrite
<1> DEFINE f == [n |-> total + 1, i |-> 0, kind |-> k, dts |-> d]
<1>2. CASE Reusable(SlotBuf) /\ UNCHANGED refcnt
            /\ wr' = [wr EXCEPT !.pc = "fill", !.buf = SlotBuf, !.frame = f]
  <2>1. SlotBuf \in Bufs
    BY <1>2, FieldTypes DEF Reusable
  <2> QED  BY <1>1, <1>2, <2>1
<1>3. CASE ~(Reusable(SlotBuf) /\ UNCHANGED refcnt
            /\ wr' = [wr EXCEPT !.pc = "fill", !.buf = SlotBuf, !.frame = f])
  <2> DEFINE b == CHOOSE x \in FreeBufs : TRUE
  <2>1. /\ FreeBufs # {} /\ refcnt' = Ref(refcnt, b)
        /\ wr' = [wr EXCEPT !.pc = "fill", !.buf = b, !.frame = f]
    BY <1>3 DEF AllocWrite
  <2>2. b \in FreeBufs
    BY <2>1
  <2> HIDE DEF b
  <2>3. b \in Bufs /\ refcnt[b] = 0
    BY <2>2 DEF FreeBufs
  <2> QED  BY <1>1, <2>1, <2>3
<1> QED  BY <1>2, <1>3

\* Taking a buffer for the next frame.
LEMMA AllocWriteInv ==
  ASSUME IInv, NEW k \in Kinds, NEW d \in Dts, AllocWrite(k, d)
  PROVE  IInv'
<1>1. TypeOK /\ RingInv
  BY DEF IInv
<1>2. PICK b \in Bufs :
        /\ wr' = [wr EXCEPT !.pc = "fill", !.buf = b,
                            !.frame = [n |-> total + 1, i |-> 0, kind |-> k, dts |-> d]]
        /\ refcnt' = refcnt \/ refcnt' = Ref(refcnt, b)
  BY <1>1, AllocPicks
<1>3. /\ wr' \in WriterType /\ wr'.pc = "fill"
      /\ refcnt' \in [Bufs -> Int]
  <2>1. [n |-> total + 1, i |-> 0, kind |-> k, dts |-> d] \in Frame
    BY <1>1, NewFrameType DEF TypeOK
  <2>2. wr \in WriterType
    BY <1>1 DEF TypeOK
  <2>3. wr' \in WriterType /\ wr'.pc = "fill"
    BY <1>2, <2>1, <2>2 DEF WriterType, WriterPcs
  <2> QED  BY <1>1, <1>2, <2>3, RefType DEF TypeOK
<1>4. TypeOK'
  BY <1>1, <1>2, <1>3 DEF TypeOK, AllocWrite, ringVars
<1>5. RingInv'
  BY <1>1, <1>2 DEF RingInv, Increasing, AllocWrite, ringVars, PublishPcs, HeadPcs
<1> QED  BY <1>4, <1>5 DEF IInv

\* The steps of the writer that only move buffers about.
LEMMA BufferStepInv ==
  ASSUME IInv, FillBuf \/ RejectEmpty \/ DropFrame
  PROVE  IInv'
<1>1. TypeOK /\ RingInv
  BY DEF IInv
<1>2. wr' \in WriterType /\ wr'.pc \in {"idle", "commit"} /\ wr.pc \in {"fill", "commit"}
  BY <1>1, NoFrameType, FieldTypes
  DEF TypeOK, FillBuf, RejectEmpty, DropFrame, WriterType, WriterPcs
<1>3. refcnt' \in [Bufs -> Int] /\ data' \in [Bufs -> Nat]
  <2>1. refcnt \in [Bufs -> Int] /\ data \in [Bufs -> Nat] /\ wr \in WriterType
    BY <1>1 DEF TypeOK
  <2>2. wr.frame.n \in Nat
    BY <1>1, FieldTypes
  <2>3. CASE FillBuf
    BY <2>1, <2>2, <2>3 DEF FillBuf
  <2>4. CASE RejectEmpty \/ DropFrame
    BY <1>1, <2>1, <2>4, RefType, FieldTypes DEF RejectEmpty, DropFrame
  <2> QED  BY <2>3, <2>4
<1>4. hasVideo' \in BOOLEAN
  BY <1>1 DEF TypeOK, FillBuf, RejectEmpty, DropFrame, ringVars, SawVideo
<1>5. TypeOK'
  BY <1>1, <1>2, <1>3, <1>4
  DEF TypeOK, FillBuf, RejectEmpty, DropFrame, ringVars, envVars
<1>6. RingInv'
  BY <1>1, <1>2
  DEF RingInv, Increasing, FillBuf, RejectEmpty, DropFrame, ringVars, PublishPcs, HeadPcs
<1> QED  BY <1>5, <1>6 DEF IInv

\* BeginCommit only decides where the commit goes.
LEMMA BeginCommitInv ==
  ASSUME IInv, BeginCommit
  PROVE  IInv'
<1>1. TypeOK /\ RingInv /\ wr.pc = "commit"
  BY DEF IInv, BeginCommit
<1>2. /\ wr' \in WriterType
      /\ wr'.pc \in {"makeroom", "firstgop", "roomgop"}
  <2>1. wr \in WriterType /\ writeIdx \in Nat
    BY <1>1 DEF TypeOK
  <2> QED  BY <2>1 DEF BeginCommit, WriterType, WriterPcs, LockedPcs, Frame
<1>3. hasVideo' \in BOOLEAN /\ run' \in Nat
  <2>1. hasVideo' \in BOOLEAN
    BY <1>1, Zenon DEF BeginCommit, SawVideo, TypeOK
  <2>2. run' \in Nat
    BY <1>1 DEF BeginCommit, TypeOK
  <2> QED  BY <2>1, <2>2
<1>4. TypeOK'
  BY <1>1, <1>2, <1>3 DEF TypeOK, BeginCommit, bufVars
<1>5. RingInv'
  BY <1>1, <1>2 DEF RingInv, Increasing, BeginCommit, PublishPcs, HeadPcs
<1> QED  BY <1>4, <1>5 DEF IInv

\* The first GOP of the index starts at write_idx.
LEMMA FirstGopInv ==
  ASSUME IInv, FirstGop
  PROVE  IInv'
<1>1. TypeOK /\ RingInv /\ wr.pc = "firstgop"
  BY DEF IInv, FirstGop
<1>2. wr' \in WriterType /\ wr'.pc = "makeroom"
  BY <1>1 DEF FirstGop, TypeOK, WriterType, WriterPcs, LockedPcs
<1>3. NewHead \in Gop /\ NewHead.start = writeIdx
  BY <1>1, FieldTypes DEF TypeOK, NewHead, Gop
<1>4. gops' = <<NewHead>> /\ gops' \in Seq(Gop) /\ Len(gops') = 1 /\ gops'[1] = NewHead
      /\ DOMAIN gops' = 1..1
  BY <1>3 DEF FirstGop
<1>5. TypeOK'
  BY <1>1, <1>2, <1>4 DEF TypeOK, FirstGop, bufVars, envVars
<1>6. RingInv'
  BY <1>1, <1>2, <1>3, <1>4, GopAssumption
  DEF RingInv, Increasing, FirstGop, TypeOK, PublishPcs, HeadPcs
<1> QED  BY <1>5, <1>6 DEF IInv

\* A step that pops the oldest GOP and changes nothing else keeps the invariant,
\* where the popped index is known to be non-empty.
LEMMA PopInv ==
  ASSUME IInv, PopFrontGop, gops # <<>>,
         wr.pc \in {"roomgop", "makeroom", "trim"},
         UNCHANGED <<writeIdx, cacheStarted, hasVideo, writeSeq, slot, bufVars,
                     wr, rd, envVars>>
  PROVE  IInv'
<1>1. TypeOK /\ RingInv
  BY DEF IInv
<1> DEFINE c == CountAfterPop(gops, count, writeIdx)
<1>2. /\ c \in 0..count
      /\ Tail(gops) \in Seq(Gop)
      /\ Len(Tail(gops)) = Len(gops) - 1
      /\ Increasing(Tail(gops))
      /\ \A k \in DOMAIN Tail(gops) : k + 1 \in DOMAIN gops /\ Tail(gops)[k] = gops[k+1]
      /\ Tail(gops) # <<>> => writeIdx - Tail(gops)[1].start <= c
      /\ OldestOf(Tail(gops), c, writeIdx) \in Nat
  BY <1>1, PopKeepsWindow, CapacityAssumption DEF TypeOK, RingInv
<1>3. /\ count' = c /\ gops' = Tail(gops)
      /\ oldestSeq' = OldestOf(Tail(gops), c, writeIdx)
  BY DEF PopFrontGop
<1> HIDE DEF c
<1>4. count \in 0..Capacity /\ Capacity \in Nat /\ Len(gops) \in Nat
  BY <1>1, SeqFacts, CapacityAssumption DEF TypeOK
<1>5. TypeOK'
  BY <1>1, <1>2, <1>3, <1>4 DEF TypeOK, bufVars, envVars
<1>6. RingInv'
  <2>1. Increasing(gops')
    BY <1>2, <1>3
  <2>2. Len(gops') <= MaxGop /\ count' <= writeIdx'
    BY <1>1, <1>2, <1>3, <1>4, GopAssumption DEF RingInv, TypeOK
  <2>3. \A k \in DOMAIN gops' : gops'[k].start <= writeIdx'
    BY <1>1, <1>2, <1>3 DEF RingInv
  <2>4. wr'.pc \notin HeadPcs => \A k \in DOMAIN gops' : gops'[k].start < writeIdx'
    BY <1>1, <1>2, <1>3 DEF RingInv
  <2>5. gops' # <<>> => writeIdx' - gops'[1].start <= count'
    BY <1>2, <1>3
  <2>6. wr'.pc \notin PublishPcs
    BY DEF PublishPcs
  <2> QED  BY <2>1, <2>2, <2>3, <2>4, <2>5, <2>6 DEF RingInv, Increasing
<1> QED  BY <1>5, <1>6 DEF IInv

\* The pops of on_new_gop, ring_commit_frame and trim_gops_for_time.
LEMMA PopStepInv ==
  ASSUME IInv, RoomForGop \/ MakeRoom \/ Trim
  PROVE  IInv'
<1>1. gops \in Seq(Gop)
  BY DEF IInv, TypeOK
<1>2. CASE RoomForGop
  <2>1. Len(gops) >= 1
    BY <1>1, <1>2, SeqFacts, GopAssumption DEF RoomForGop, NoRoomForGop, TooOld
  <2> QED  BY <1>1, <1>2, <2>1, PopInv, SeqFacts DEF RoomForGop
<1>3. CASE MakeRoom
  BY <1>3, PopInv DEF MakeRoom
<1>4. CASE Trim
  <2>1. Len(gops) >= 1
    BY <1>1, <1>4, SeqFacts DEF Trim, TooOld
  <2> QED  BY <1>1, <1>4, <2>1, PopInv, SeqFacts DEF Trim
<1> QED  BY <1>2, <1>3, <1>4

\* A new GOP goes to the end of the index, behind all earlier ones, and there
\* is an entry left for it.
LEMMA AppendGopInv ==
  ASSUME IInv, AppendGop
  PROVE  IInv'
<1>1. TypeOK /\ RingInv /\ wr.pc = "roomgop"
  BY DEF IInv, AppendGop
<1>2. wr' \in WriterType /\ wr'.pc = "makeroom"
  BY <1>1 DEF AppendGop, TypeOK, WriterType, WriterPcs, LockedPcs
<1>3. NewHead \in Gop /\ NewHead.start = writeIdx
  BY <1>1, FieldTypes DEF TypeOK, NewHead, Gop
<1>4. gops \in Seq(Gop) /\ Len(gops) \in Nat /\ DOMAIN gops = 1..Len(gops)
      /\ (gops # <<>> <=> Len(gops) >= 1)
  BY <1>1, SeqFacts DEF TypeOK
<1>5. /\ gops' \in Seq(Gop) /\ Len(gops') = Len(gops) + 1
      /\ DOMAIN gops' = 1..(Len(gops) + 1)
      /\ \A k \in 1..Len(gops) : gops'[k] = gops[k]
      /\ gops'[Len(gops) + 1] = NewHead
  BY <1>3, <1>4, AppendProperties, LenProperties DEF AppendGop
<1>6. TypeOK'
  BY <1>1, <1>2, <1>5 DEF TypeOK, AppendGop, bufVars, envVars
<1>7. RingInv'
  <2>1. \A k \in DOMAIN gops : gops[k].start \in Nat /\ gops[k].start < writeIdx
    BY <1>1, <1>4, SeqFacts DEF RingInv, HeadPcs, PublishPcs
  <2>2. Increasing(gops)'
    BY <1>1, <1>3, <1>4, <1>5, <2>1 DEF RingInv, Increasing
  <2>3. Len(gops') <= MaxGop
    BY <1>4, <1>5, GopAssumption DEF AppendGop, NoRoomForGop
  <2>4. \A k \in DOMAIN gops' : gops'[k].start <= writeIdx
    BY <1>1, <1>3, <1>4, <1>5, <2>1 DEF TypeOK
  <2>5. writeIdx - gops'[1].start <= count
    BY <1>1, <1>3, <1>4, <1>5 DEF RingInv, TypeOK
  <2> QED
    BY <1>1, <1>2, <2>2, <2>3, <2>4, <2>5
    DEF RingInv, AppendGop, PublishPcs, HeadPcs
<1> QED  BY <1>6, <1>7 DEF IInv

\* Overwriting the slot: MakeRoom has dropped GOPs until the ring has room or
\* its index is empty.
LEMMA PublishInv ==
  ASSUME IInv, PublishBegin \/ StoreBuf \/ StorePub \/ PublishEnd \/ Grace
  PROVE  IInv'
<1>1. TypeOK /\ RingInv
  BY DEF IInv
<1>2. /\ wr' \in WriterType /\ wr'.pc \in PublishPcs
      /\ wr.pc \in HeadPcs
      /\ wr.pc = "makeroom" => count < Capacity \/ gops = <<>>
  BY <1>1, FieldTypes
  DEF TypeOK, PublishBegin, StoreBuf, StorePub, PublishEnd, Grace, WriterType,
      WriterPcs, LockedPcs, PublishPcs, HeadPcs
<1>3. slot' \in [0..Capacity-1 -> SlotType]
  <2>1. slot \in [0..Capacity-1 -> SlotType]
    BY <1>1 DEF TypeOK
  <2> DEFINE s == SlotOf(writeIdx)
  <2>2. /\ s \in 0..Capacity-1 /\ slot[s] \in SlotType
        /\ wr.buf \in Bufs \cup {NoBuf} /\ wr.frame \in Frame
    BY <1>1, FieldTypes
  <2> HIDE DEF s
  <2>3. /\ [slot EXCEPT ![s].seq = @ + 1] \in [0..Capacity-1 -> SlotType]
        /\ [slot EXCEPT ![s].buf = wr.buf] \in [0..Capacity-1 -> SlotType]
        /\ [slot EXCEPT ![s].pub = wr.frame] \in [0..Capacity-1 -> SlotType]
    BY <2>1, <2>2 DEF SlotType
  <2>4. \/ slot' = [slot EXCEPT ![s].seq = @ + 1]
        \/ slot' = [slot EXCEPT ![s].buf = wr.buf]
        \/ slot' = [slot EXCEPT ![s].pub = wr.frame]
        \/ slot' = slot
    BY DEF PublishBegin, StoreBuf, StorePub, PublishEnd, Grace, s
  <2> QED  BY <2>1, <2>3, <2>4
<1>4. refcnt' \in [Bufs -> Int]
  <2>1. refcnt' = refcnt \/ refcnt' = Unref(refcnt, wr.old)
    BY DEF PublishBegin, StoreBuf, StorePub, PublishEnd, Grace, bufVars
  <2>2. refcnt \in [Bufs -> Int] /\ wr.old \in Bufs \cup {NoBuf}
    BY <1>1, FieldTypes DEF TypeOK
  <2> QED  BY <2>1, <2>2, RefType
<1>5. UNCHANGED <<ringVars, writeSeq, oldestSeq, data, rd, envVars>>
  BY DEF PublishBegin, StoreBuf, StorePub, PublishEnd, Grace, bufVars
<1>6. TypeOK'
  BY <1>1, <1>2, <1>3, <1>4, <1>5 DEF TypeOK, ringVars, envVars
<1>7. RingInv'
  BY <1>1, <1>2, <1>5 DEF RingInv, Increasing, ringVars, PublishPcs, HeadPcs
<1> QED  BY <1>6, <1>7 DEF IInv

\* The frame is counted; a full ring with more than one GOP drops its oldest.
LEMMA AdvanceInv ==
  ASSUME IInv, Advance
  PROVE  IInv'
<1>1. TypeOK /\ RingInv /\ wr.pc = "advance"
  BY DEF IInv, Advance
<1> DEFINE c == CountUp(count)
           w == writeIdx + 1
<1>2. wr' \in WriterType /\ wr'.pc = "trim"
  BY <1>1 DEF Advance, TypeOK, WriterType, WriterPcs, LockedPcs
<1>3. /\ count \in 0..Capacity /\ Capacity \in Nat /\ writeIdx \in Nat
      /\ gops \in Seq(Gop) /\ Len(gops) \in Nat
      /\ DOMAIN gops = 1..Len(gops) /\ (gops # <<>> <=> Len(gops) >= 1)
      /\ \A k \in DOMAIN gops : gops[k].start \in Nat
  BY <1>1, SeqFacts, CapacityAssumption DEF TypeOK
<1>4. /\ c \in 0..Capacity /\ w \in Nat /\ c <= w
      /\ \A k \in DOMAIN gops : gops[k].start < w
      /\ gops # <<>> => w - gops[1].start <= c
  <2>1. c \in 0..Capacity /\ w \in Nat /\ c <= w
    BY <1>1, <1>3 DEF CountUp, RingInv
  <2>2. \A k \in DOMAIN gops : gops[k].start < w
    BY <1>1, <1>3 DEF RingInv
  <2>3. gops # <<>> => w - gops[1].start <= c
    <3> SUFFICES ASSUME gops # <<>> PROVE w - gops[1].start <= c
      OBVIOUS
    <3>1. count < Capacity /\ writeIdx - gops[1].start <= count
      BY <1>1 DEF RingInv, PublishPcs
    <3> QED  BY <1>3, <3>1 DEF CountUp
  <2> QED  BY <2>1, <2>2, <2>3
<1> HIDE DEF c, w
<1>5. UNCHANGED <<cacheStarted, hasVideo, writeSeq, slot, refcnt, data, rd,
                  total, run, clears, met>> /\ writeIdx' = w
  BY DEF Advance, bufVars, envVars, w
<1>6. CASE c >= Capacity /\ Len(gops) > 1
  <2>1. count' = CountAfterPop(gops, c, w) /\ gops' = Tail(gops)
        /\ oldestSeq' = OldestOf(Tail(gops), CountAfterPop(gops, c, w), w)
    BY <1>6 DEF Advance, c, w
  <2>2. /\ gops # <<>> /\ Increasing(gops) /\ \A k \in DOMAIN gops : gops[k].start <= w
        /\ c \in Nat /\ w \in Nat /\ c <= w /\ w - gops[1].start <= c
        /\ gops \in Seq(Gop)
    BY <1>1, <1>3, <1>4, <1>6 DEF RingInv
  <2>3. /\ CountAfterPop(gops, c, w) \in 0..c
        /\ Tail(gops) \in Seq(Gop)
        /\ Len(Tail(gops)) = Len(gops) - 1
        /\ Increasing(Tail(gops))
        /\ \A k \in DOMAIN Tail(gops) : k + 1 \in DOMAIN gops /\ Tail(gops)[k] = gops[k+1]
        /\ Tail(gops) # <<>> => w - Tail(gops)[1].start <= CountAfterPop(gops, c, w)
        /\ OldestOf(Tail(gops), CountAfterPop(gops, c, w), w) \in Nat
    BY <2>2, PopKeepsWindow
  <2>4. TypeOK'
    BY <1>1, <1>2, <1>3, <1>4, <1>5, <2>1, <2>3 DEF TypeOK
  <2>5. Len(gops') <= MaxGop /\ count' <= writeIdx'
    BY <1>1, <1>3, <1>4, <1>5, <2>1, <2>3, GopAssumption DEF RingInv
  <2>6. \A k \in DOMAIN gops' : gops'[k].start < writeIdx' /\ gops'[k].start \in Nat
    BY <1>3, <1>4, <1>5, <2>1, <2>3
  <2>7. RingInv'
    BY <1>2, <1>4, <1>5, <2>1, <2>3, <2>5, <2>6
    DEF RingInv, Increasing, PublishPcs
  <2> QED  BY <2>4, <2>7 DEF IInv
<1>7. CASE ~(c >= Capacity /\ Len(gops) > 1)
  <2>1. count' = c /\ gops' = gops /\ oldestSeq' = oldestSeq
    BY <1>7 DEF Advance, c
  <2>2. TypeOK'
    BY <1>1, <1>2, <1>4, <1>5, <2>1 DEF TypeOK
  <2>3. RingInv'
    BY <1>1, <1>2, <1>3, <1>4, <1>5, <2>1 DEF RingInv, Increasing, PublishPcs
  <2> QED  BY <2>2, <2>3 DEF IInv
<1> QED  BY <1>6, <1>7

\* The end of a commit, and a configuration frame.
LEMMA EndCommitInv ==
  ASSUME IInv, EndCommit \/ SetVideoConfig
  PROVE  IInv'
<1>1. TypeOK /\ RingInv /\ wr.pc \in {"trim", "idle"}
  BY DEF IInv, EndCommit, SetVideoConfig
<1>2. wr' \in WriterType /\ wr'.pc = "idle"
  BY <1>1, NoFrameType DEF EndCommit, SetVideoConfig, TypeOK, WriterType, WriterPcs
<1>3. cacheStarted' \in BOOLEAN /\ hasVideo' \in BOOLEAN
  <2>1. cacheStarted \in BOOLEAN /\ hasVideo \in BOOLEAN
    BY <1>1 DEF TypeOK
  <2>2. CASE EndCommit
    <3>1. cacheStarted' = cacheStarted /\ hasVideo' = hasVideo
      BY <2>2 DEF EndCommit, ringVars
    <3> QED  BY <2>1, <3>1
  <2>3. CASE SetVideoConfig
    <3>1. cacheStarted' /\ hasVideo' /\ cacheStarted' = TRUE /\ hasVideo' = TRUE
      BY <2>3 DEF SetVideoConfig
    <3> QED  BY <3>1, Zenon
  <2> QED  BY <2>2, <2>3
<1>4. UNCHANGED <<writeIdx, count, gops, oldestSeq, slot, refcnt, data, rd, total,
                  run, clears, met>> /\ writeSeq' \in {writeSeq, writeIdx}
  BY DEF EndCommit, SetVideoConfig, ringVars, bufVars, envVars
<1>5. TypeOK'
  BY <1>1, <1>2, <1>3, <1>4 DEF TypeOK
<1>6. RingInv'
  BY <1>1, <1>2, <1>4 DEF RingInv, Increasing, PublishPcs, HeadPcs
<1> QED  BY <1>5, <1>6 DEF IInv

\* A cleared ring is empty.
LEMMA ClearInv ==
  ASSUME IInv, Clear
  PROVE  IInv'
<1>1. TypeOK /\ RingInv /\ wr.pc \notin LockedPcs
  BY DEF IInv, Clear, MutexFree
<1>2. slot' \in [0..Capacity-1 -> SlotType]
  <2>1. slot \in [0..Capacity-1 -> SlotType]
    BY <1>1 DEF TypeOK
  <2>2. \A s \in 0..Capacity-1 : FreeSlot(slot[s]) \in SlotType
    BY <2>1, NoFrameType DEF FreeSlot, SlotType
  <2> QED  BY <2>1, <2>2 DEF Clear, EmptyRing
<1>3. refcnt' \in [Bufs -> Int]
  <2>1. \A b \in Bufs : Cardinality({s \in DOMAIN slot : slot[s].buf = b}) \in Nat
    <3>1. IsFiniteSet(0..Capacity-1)
      BY CapacityAssumption, FS_Interval
    <3>2. DOMAIN slot = 0..Capacity-1
      BY <1>1 DEF TypeOK
    <3> QED  BY <3>1, <3>2, FS_Subset, FS_CardinalityType
  <2>2. refcnt \in [Bufs -> Int]
    BY <1>1 DEF TypeOK
  <2> QED  BY <2>1, <2>2 DEF Clear, EmptyRing
<1>4. cacheStarted' \in BOOLEAN /\ hasVideo' \in BOOLEAN
  BY Zenon DEF Clear, EmptyRing
<1>5. /\ writeIdx' = 0 /\ writeSeq' = 0 /\ oldestSeq' = 0 /\ count' = 0 /\ run' = 0
      /\ gops' = <<>> /\ clears' = clears + 1
      /\ UNCHANGED <<data, wr, rd, total>>
      /\ met' \subseteq met \cup {"writer", "reader"}
  BY DEF Clear, EmptyRing
<1>6. gops' \in Seq(Gop) /\ Len(gops') = 0 /\ DOMAIN gops' = {}
  BY <1>5, EmptySeq
<1>7. TypeOK'
  BY <1>1, <1>2, <1>3, <1>4, <1>5, <1>6, CapacityAssumption DEF TypeOK
<1>8. RingInv'
  BY <1>1, <1>5, <1>6, GopAssumption DEF RingInv, Increasing, PublishPcs, LockedPcs
<1> QED  BY <1>7, <1>8 DEF IInv

\* A step that changes only one reader and reference counts keeps the invariant
\* if it keeps their types.
LEMMA ReaderFrame ==
  ASSUME IInv, NEW r \in Readers,
         UNCHANGED readerOnly,
         refcnt' \in [Bufs -> Int],
         rd' \in [Readers -> ReaderType]
  PROVE  IInv'
<1>1. UNCHANGED <<writeIdx, count, gops, cacheStarted, hasVideo, writeSeq, oldestSeq,
                  slot, data, wr, total, run, clears, met>>
  BY DEF readerOnly, ringVars, envVars
<1>2. TypeOK'
  BY <1>1 DEF IInv, TypeOK
<1>3. RingInv'
  BY <1>1 DEF IInv, RingInv, Increasing
<1> QED  BY <1>2, <1>3 DEF IInv

\* Fields of a reader and of the slot it looks at.
LEMMA ReaderFields ==
  ASSUME TypeOK, NEW r \in Readers
  PROVE  /\ rd \in [Readers -> ReaderType] /\ refcnt \in [Bufs -> Int]
         /\ rd[r] \in ReaderType
         /\ rd[r].idx \in Nat
         /\ rd[r].buf \in Bufs \cup {NoBuf} /\ rd[r].held \in Bufs \cup {NoBuf}
         /\ rd[r].pub \in Frame
         /\ ReaderSlot(r) \in SlotType
<1>1. rd \in [Readers -> ReaderType] /\ refcnt \in [Bufs -> Int] /\ rd[r] \in ReaderType
  BY DEF TypeOK
<1>2. rd[r].idx \in Nat
  BY <1>1 DEF ReaderType
<1>3. ReaderSlot(r) \in SlotType
  BY <1>2, SlotOfType DEF TypeOK, ReaderSlot
<1> QED  BY <1>1, <1>2, <1>3 DEF ReaderType

\* A reader that leaves the lock-free path is still a reader.
LEMMA LeaveType ==
  ASSUME TypeOK, NEW r \in Readers, NEW pc \in ReaderPcs
  PROVE  Leave(r, pc) \in ReaderType
  BY ReaderFields, NoFrameType DEF Leave, ReaderType

\* A reader put at another index, or given a frame, is still a reader.
LEMMA GivenType ==
  ASSUME NEW x \in ReaderType, NEW i \in Nat, NEW b \in Bufs \cup {NoBuf},
         NEW f \in Frame, NEW y \in BOOLEAN
  PROVE  /\ [x EXCEPT !.idx = i, !.held = b, !.got = f] \in ReaderType
         /\ [x EXCEPT !.pc = "idle", !.idx = i, !.held = b, !.got = f] \in ReaderType
         /\ [x EXCEPT !.pc = "idle", !.idx = i] \in ReaderType
         /\ [x EXCEPT !.att = TRUE, !.beg = y, !.got = f, !.idx = i] \in ReaderType
<1>1. [x EXCEPT !.idx = i, !.held = b, !.got = f] \in ReaderType
  BY DEF ReaderType
<1>2. [x EXCEPT !.pc = "idle", !.idx = i, !.held = b, !.got = f] \in ReaderType
  BY DEF ReaderType, ReaderPcs
<1>3. [x EXCEPT !.pc = "idle", !.idx = i] \in ReaderType
  BY DEF ReaderType, ReaderPcs
<1>4. [x EXCEPT !.att = TRUE, !.beg = y, !.got = f, !.idx = i] \in ReaderType
  BY DEF ReaderType
<1> QED  BY <1>1, <1>2, <1>3, <1>4

\* Attaching and detaching.
LEMMA AttachInv ==
  ASSUME IInv, NEW r \in Readers, (\E b \in BOOLEAN : Attach(r, b)) \/ Detach(r)
  PROVE  IInv'
<1>1. TypeOK
  BY DEF IInv
<1>2. CASE \E b \in BOOLEAN : Attach(r, b)
  <2>1. PICK b \in BOOLEAN : Attach(r, b)
    BY <1>2
  <2>2. PICK i \in Nat : rd' = [rd EXCEPT ![r].att = TRUE, ![r].beg = b,
                                         ![r].got = NoFrame, ![r].idx = i]
    BY <2>1, OldestType DEF Attach
  <2>3. rd' \in [Readers -> ReaderType]
    <3>1. /\ rd \in [Readers -> ReaderType] /\ rd[r] \in ReaderType
          /\ NoBuf \in Bufs \cup {NoBuf}
      BY <1>1, ReaderFields
    <3>2. [rd[r] EXCEPT !.att = TRUE, !.beg = b, !.got = NoFrame, !.idx = i] \in ReaderType
      BY <3>1, GivenType, NoFrameType
    <3>3. rd' = [rd EXCEPT ![r] = [rd[r] EXCEPT !.att = TRUE, !.beg = b,
                                               !.got = NoFrame, !.idx = i]]
      BY <2>2, <3>1
    <3> QED  BY <3>1, <3>2, <3>3
  <2>4. refcnt' \in [Bufs -> Int] /\ UNCHANGED readerOnly
    BY <1>1, <2>1 DEF Attach, TypeOK
  <2> QED  BY <2>3, <2>4, ReaderFrame
<1>3. CASE Detach(r)
  <2>1. rd' \in [Readers -> ReaderType]
    BY <1>1, <1>3, ReaderFields DEF Detach, ReaderType
  <2>2. refcnt' \in [Bufs -> Int] /\ UNCHANGED readerOnly
    BY <1>1, <1>3, ReaderFields, RefType DEF Detach
  <2> QED  BY <2>1, <2>2, ReaderFrame
<1> QED  BY <1>2, <1>3

\* The first looks at a slot, up to the second check of its counter.
LEMMA LookInv ==
  ASSUME IInv, NEW r \in Readers,
         ReadBegin(r) \/ ReadRoute(r) \/ TakeEnter(r) \/ TakeLoad(r) \/ TakeCheck(r)
  PROVE  IInv'
<1>1. TypeOK
  BY DEF IInv
<1>2. /\ rd \in [Readers -> ReaderType] /\ rd[r] \in ReaderType
      /\ ReaderSlot(r) \in SlotType /\ refcnt \in [Bufs -> Int]
  BY <1>1, ReaderFields
<1>3. Leave(r, "locked") \in ReaderType /\ Leave(r, "idle") \in ReaderType
  BY <1>1, LeaveType DEF ReaderPcs
<1>4. refcnt' \in [Bufs -> Int] /\ UNCHANGED readerOnly
  BY <1>2 DEF ReadBegin, ReadRoute, TakeEnter, TakeLoad, TakeCheck
<1>5. PICK x : rd' = [rd EXCEPT ![r] = x] /\ x \in ReaderType
  <2>1. CASE ReadBegin(r)
    <3>1. [rd[r] EXCEPT !.pc = "route"] \in ReaderType
      BY <1>2 DEF ReaderType, ReaderPcs
    <3>2. rd' = [rd EXCEPT ![r] = [rd[r] EXCEPT !.pc = "route"]]
      BY <1>2, <2>1 DEF ReadBegin
    <3> QED  BY <3>1, <3>2
  <2>2. CASE ReadRoute(r)
    <3>1. /\ [rd[r] EXCEPT !.pc = "locked"] \in ReaderType
          /\ [rd[r] EXCEPT !.pc = "enter"] \in ReaderType
      BY <1>2 DEF ReaderType, ReaderPcs
    <3>2. \/ rd' = [rd EXCEPT ![r] = [rd[r] EXCEPT !.pc = "locked"]]
          \/ rd' = [rd EXCEPT ![r] = [rd[r] EXCEPT !.pc = "enter"]]
      BY <1>2, <2>2 DEF ReadRoute
    <3> QED  BY <3>1, <3>2
  <2>3. CASE TakeEnter(r)
    <3>1. [rd[r] EXCEPT !.s1 = ReaderSlot(r).seq, !.pc = "load"] \in ReaderType
      BY <1>2 DEF ReaderType, ReaderPcs, SlotType
    <3>2. \/ rd' = [rd EXCEPT ![r] = Leave(r, "locked")]
          \/ rd' = [rd EXCEPT ![r] =
                      [rd[r] EXCEPT !.s1 = ReaderSlot(r).seq, !.pc = "load"]]
      BY <1>2, <2>3 DEF TakeEnter
    <3> QED  BY <1>3, <3>1, <3>2
  <2>4. CASE TakeLoad(r)
    <3> DEFINE x == [rd[r] EXCEPT !.buf = ReaderSlot(r).buf, !.pub = ReaderSlot(r).pub,
                                  !.pc = "check"]
    <3>1. x \in ReaderType
      BY <1>2 DEF ReaderType, ReaderPcs, SlotType
    <3>2. rd' = [rd EXCEPT ![r] = x]
      BY <1>2, <2>4 DEF TakeLoad
    <3> QED  BY <3>1, <3>2
  <2>5. CASE TakeCheck(r)
    <3>1. /\ [rd[r] EXCEPT !.pc = "ref"] \in ReaderType
          /\ [Leave(r, "idle") EXCEPT !.idx = @ + 1] \in ReaderType
      BY <1>2, <1>3 DEF ReaderType, ReaderPcs
    <3>2. \/ rd' = [rd EXCEPT ![r] = Leave(r, "locked")]
          \/ rd' = [rd EXCEPT ![r] = [Leave(r, "idle") EXCEPT !.idx = @ + 1]]
          \/ rd' = [rd EXCEPT ![r] = [rd[r] EXCEPT !.pc = "ref"]]
      BY <1>2, <2>5 DEF TakeCheck
    <3> QED  BY <1>3, <3>1, <3>2
  <2> QED  BY <2>1, <2>2, <2>3, <2>4, <2>5
<1>6. rd' \in [Readers -> ReaderType]
  BY <1>2, <1>5
<1> QED  BY <1>4, <1>6, ReaderFrame

\* Taking the reference, the last looks, and the path under the mutex.
LEMMA TakeInv ==
  ASSUME IInv, NEW r \in Readers,
         TakeRef(r) \/ TakeRecheck(r) \/ TakeConfirm(r) \/ TakeLocked(r)
  PROVE  IInv'
<1>1. TypeOK
  BY DEF IInv
<1>2. /\ rd \in [Readers -> ReaderType] /\ rd[r] \in ReaderType
      /\ refcnt \in [Bufs -> Int] /\ rd[r].pub \in Frame
      /\ rd[r].buf \in Bufs \cup {NoBuf} /\ rd[r].held \in Bufs \cup {NoBuf}
  BY <1>1, ReaderFields
<1>3. Leave(r, "locked") \in ReaderType /\ Leave(r, "idle") \in ReaderType
  BY <1>1, LeaveType DEF ReaderPcs
<1>4. UNCHANGED readerOnly
  BY DEF TakeRef, TakeRecheck, TakeConfirm, TakeLocked, TakeLockedAt
<1>5. CASE TakeRef(r) \/ TakeRecheck(r)
  <2>1. refcnt' \in {refcnt, Ref(refcnt, rd[r].buf), Unref(refcnt, rd[r].buf)}
    BY <1>5 DEF TakeRef, TakeRecheck
  <2>2. refcnt' \in [Bufs -> Int]
    BY <1>2, <2>1, RefType
  <2>3. /\ [rd[r] EXCEPT !.pc = "recheck"] \in ReaderType
        /\ [rd[r] EXCEPT !.pc = "confirm"] \in ReaderType
    BY <1>2 DEF ReaderType, ReaderPcs
  <2>4. \/ rd' = [rd EXCEPT ![r] = Leave(r, "locked")]
        \/ rd' = [rd EXCEPT ![r] = [rd[r] EXCEPT !.pc = "recheck"]]
        \/ rd' = [rd EXCEPT ![r] = [rd[r] EXCEPT !.pc = "confirm"]]
    BY <1>2, <1>5 DEF TakeRef, TakeRecheck
  <2>5. rd' \in [Readers -> ReaderType]
    BY <1>2, <1>3, <2>3, <2>4
  <2> QED  BY <1>4, <2>2, <2>5, ReaderFrame
<1>6. CASE TakeConfirm(r)
  <2> DEFINE x == [Leave(r, "idle") EXCEPT !.idx = @ + 1, !.held = rd[r].buf,
                                           !.got = rd[r].pub]
  <2>1. x \in ReaderType
    <3>1. Leave(r, "idle").idx + 1 \in Nat
      BY <1>3 DEF ReaderType
    <3> QED  BY <1>2, <1>3, <3>1, GivenType
  <2>2. rd' = [rd EXCEPT ![r] = Leave(r, "locked")] \/ rd' = [rd EXCEPT ![r] = x]
    BY <1>2, <1>6 DEF TakeConfirm
  <2>3. rd' \in [Readers -> ReaderType]
    BY <1>2, <1>3, <2>1, <2>2
  <2>4. refcnt' \in [Bufs -> Int]
    BY <1>2, <1>6, RefType DEF TakeConfirm
  <2> QED  BY <1>4, <2>3, <2>4, ReaderFrame
<1>7. CASE TakeLocked(r)
  <2>1. PICK i \in Nat : TakeLockedAt(r, i)
    <3>1. OldestIdx \in Nat /\ BeginningIdx \in Nat
      BY OldestType
    <3>2. gops # <<>> => gops[Len(gops)].start \in Nat
      BY <1>1, SeqFacts DEF TypeOK
    <3>3. Clamped(r) \in Nat
      BY <1>1, <3>1, ReaderFields DEF Clamped
    <3>4. SnappedTo(r) \subseteq Nat
      BY <1>1, <3>1, <3>2, ReaderFields DEF SnappedTo, TypeOK
    <3> QED  BY <1>7, <3>3, <3>4 DEF TakeLocked
  <2> DEFINE s == slot[SlotOf(i)]
  <2>2. s \in SlotType
    BY <1>1, <2>1, SlotOfType DEF TypeOK
  <2>3. refcnt' = refcnt \/ refcnt' = Unref(Ref(refcnt, s.buf), rd[r].held)
    BY <2>1 DEF TakeLockedAt
  <2>4. refcnt' \in [Bufs -> Int]
    <3>1. s.buf \in Bufs \cup {NoBuf}
      BY <2>2 DEF SlotType
    <3>2. Ref(refcnt, s.buf) \in [Bufs -> Int]
      BY <1>2, <3>1, RefType
    <3> QED  BY <1>2, <2>3, <3>2, RefType
  <2>5. \/ rd' = [rd EXCEPT ![r] = [rd[r] EXCEPT !.pc = "idle", !.idx = i]]
        \/ rd' = [rd EXCEPT ![r] = [rd[r] EXCEPT !.pc = "idle", !.idx = i + 1]]
        \/ rd' = [rd EXCEPT ![r] = [rd[r] EXCEPT !.pc = "idle", !.idx = i + 1,
                                                !.held = s.buf, !.got = s.pub]]
    BY <1>2, <2>1 DEF TakeLockedAt
  <2>6. /\ [rd[r] EXCEPT !.pc = "idle", !.idx = i] \in ReaderType
        /\ [rd[r] EXCEPT !.pc = "idle", !.idx = i + 1] \in ReaderType
        /\ [rd[r] EXCEPT !.pc = "idle", !.idx = i + 1, !.held = s.buf, !.got = s.pub]
              \in ReaderType
    <3>1. s.buf \in Bufs \cup {NoBuf} /\ s.pub \in Frame /\ i + 1 \in Nat
      BY <2>1, <2>2 DEF SlotType
    <3> HIDE DEF s
    <3> QED  BY <1>2, <2>1, <3>1, GivenType
  <2> HIDE DEF s
  <2>7. rd' \in [Readers -> ReaderType]
    BY <1>2, <2>5, <2>6
  <2> QED  BY <1>4, <2>4, <2>7, ReaderFrame
<1> QED  BY <1>5, <1>6, <1>7

\* Nothing changes.
LEMMA StutterInv ==
  ASSUME IInv, UNCHANGED vars
  PROVE  IInv'
<1>1. UNCHANGED <<ringVars, writeSeq, oldestSeq, slot, bufVars, wr, rd, envVars>>
  BY DEF vars
<1>2. TypeOK'
  BY <1>1 DEF IInv, TypeOK, ringVars, bufVars, envVars
<1>3. RingInv'
  BY <1>1 DEF IInv, RingInv, Increasing, ringVars
<1> QED  BY <1>2, <1>3 DEF IInv
-----------------------------------------------------------------------------
(* The theorems.                                                           *)

\* Every action of the writer and the readers preserves the invariant.
LEMMA NextInv == IInv /\ [Next]_vars => IInv'
<1> SUFFICES ASSUME IInv, [Next]_vars PROVE IInv'
  OBVIOUS
<1>1. CASE Writer
  <2>1. CASE \E k \in Kinds, d \in Dts : AllocWrite(k, d)
    BY <2>1, AllocWriteInv
  <2>2. CASE FillBuf \/ RejectEmpty \/ DropFrame
    BY <2>2, BufferStepInv
  <2>3. CASE Commit
    BY <2>3, BeginCommitInv, FirstGopInv, PopStepInv, AppendGopInv, PublishInv,
       AdvanceInv, EndCommitInv DEF Commit
  <2> QED  BY <1>1, <2>1, <2>2, <2>3 DEF Writer
<1>2. CASE SetVideoConfig
  BY <1>2, EndCommitInv
<1>3. CASE Clear
  BY <1>3, ClearInv
<1>4. ASSUME NEW r \in Readers, Reader(r) PROVE IInv'
  BY <1>4, AttachInv, LookInv, TakeInv DEF Reader, Take
<1>5. CASE UNCHANGED vars
  BY <1>5, StutterInv
<1> QED  BY <1>1, <1>2, <1>3, <1>4, <1>5 DEF Next

\* The invariant holds in every reachable state of the ring.
THEOREM RingInvariant == Spec => []IInv
  BY InitInv, NextInv, PTL DEF Spec

\* Every variable keeps its type: in particular count never exceeds the
\* capacity of ring_commit_frame's slots and no index underflows.
THEOREM TypeCorrect == Spec => []TypeOK
<1>1. IInv => TypeOK
  BY DEF IInv
<1> QED  BY <1>1, RingInvariant, PTL

\* gop_start[] never overflows its ZMS_GOP_QUEUE_MAX_GOP entries and stays
\* strictly increasing, however pops, trims and appends interleave.
THEOREM IndexOrdered == Spec => []GopsOrdered
<1>1. IInv => GopsOrdered
  BY DEF IInv, RingInv, GopsOrdered, Increasing
<1> QED  BY <1>1, RingInvariant, PTL

\* The window of live frames never reaches behind the slots the ring still has:
\* the frame a reader is put on under the mutex has not been overwritten.
THEOREM WindowStored == Spec => []WindowInRing
<1>1. IInv => WindowInRing
  <2> SUFFICES ASSUME IInv PROVE WindowInRing
    OBVIOUS
  <2>1. writeIdx \in Nat /\ count \in 0..Capacity /\ Capacity \in Nat
    BY CapacityAssumption DEF IInv, TypeOK
  <2>2. writeIdx - OldestIdx <= count
    BY <2>1 DEF IInv, RingInv, OldestIdx, OldestOf
  <2> QED  BY <2>1, <2>2 DEF IInv, RingInv, WindowInRing
<1> QED  BY <1>1, RingInvariant, PTL
-----------------------------------------------------------------------------
(* GOPs that are short against the ring.  A GOP of more than half the ring *)
(* may be dropped while it is still being written (run gop_long_payload    *)
(* shows what follows); what is proved from here on is about the others.   *)

ShortGops == MaxGopLen >= 1 /\ 2 * MaxGopLen < Capacity

\* Points at which on_new_gop has not yet entered the new GOP.
Deciding == {"firstgop", "roomgop"}

\* The frame that run counts and write_idx does not yet.
InFlight == IF wr.pc \in LockedPcs \ {"trim"} THEN 1 ELSE 0

\* run counts the frames since the last head, the bound on it is respected by
\* the frame in the publisher's hand, and a frame is committed at write_idx.
RunInv ==
    /\ run <= MaxGopLen
    /\ wr.pc \in LockedPcs => run >= 1
    /\ wr.pc \in {"fill", "commit"} =>
          NewGop(wr.frame.kind, SawVideo) \/ run < MaxGopLen
    /\ wr.pc \in LockedPcs \ {"trim"} => wr.frame.i = writeIdx
    /\ wr.pc = "trim" => wr.frame.i + 1 = writeIdx

\* The youngest GOP of the index began at most run frames ago ...
LastGopInv ==
    gops # <<>> =>
      /\ writeIdx - gops[Len(gops)].start <= MaxGopLen
      /\ wr.pc \notin Deciding => writeIdx + InFlight - gops[Len(gops)].start <= run

\* ... at most MaxGopLen frames of count lie before the oldest one, so that the
\* ring is never full, ...
RoomInv ==
    /\ count < Capacity
    /\ gops = <<>> => /\ count <= MaxGopLen
                      /\ wr.pc \notin Deciding => count + InFlight <= run
    /\ gops # <<>> => count - (writeIdx - gops[1].start) <= MaxGopLen
    /\ writeIdx - oldestSeq <= count

\* ... and a head stays in the index until its commit ends.
HeadInv ==
    /\ ~cacheStarted => gops = <<>>
    /\ wr.pc = "firstgop" => gops = <<>>
    /\ wr.pc = "roomgop" => cacheStarted
    /\ (wr.pc \in LockedPcs \ Deciding /\ NewGop(wr.frame.kind, hasVideo))
         => gops # <<>> /\ gops[Len(gops)].start = wr.frame.i

WInv == RunInv /\ LastGopInv /\ RoomInv /\ HeadInv

\* What the steps below need of the types.
LEMMA WFacts ==
  ASSUME IInv, ShortGops
  PROVE  /\ writeIdx \in Nat /\ oldestSeq \in Nat /\ run \in Nat
         /\ count \in Nat /\ count <= Capacity
         /\ Capacity \in Nat /\ MaxGopLen \in Nat
         /\ gops \in Seq(Gop) /\ Len(gops) \in Nat
         /\ DOMAIN gops = 1..Len(gops)
         /\ gops # <<>> <=> Len(gops) >= 1
         /\ \A k \in DOMAIN gops : gops[k].start \in Nat /\ gops[k].start <= writeIdx
         /\ wr.frame.i \in Nat
         /\ InFlight \in {0, 1}
<1>1. gops \in Seq(Gop)
  BY DEF IInv, TypeOK
<1>2. wr.frame.i \in Nat
  BY DEF IInv, TypeOK, WriterType, Frame
<1>3. InFlight \in {0, 1}
  BY DEF InFlight
<1> QED
  BY <1>1, <1>2, <1>3, SeqFacts, CapacityAssumption, BoundAssumption
  DEF IInv, TypeOK, RingInv

\* Dropping the oldest of several GOPs keeps the youngest one.
LEMMA TailKeepsLast ==
  ASSUME NEW g \in Seq(Gop), Len(g) > 1
  PROVE  /\ Tail(g) # <<>>
         /\ Tail(g)[Len(Tail(g))] = g[Len(g)]
         /\ Tail(g)[1] = g[2]
<1>1. Len(g) \in Nat /\ g # <<>>
  BY SeqFacts
<1>2. /\ Tail(g) \in Seq(Gop) /\ Len(Tail(g)) = Len(g) - 1
      /\ \A k \in 1..(Len(g) - 1) : Tail(g)[k] = g[k+1]
  BY <1>1, HeadTailProperties
<1>3. Tail(g) # <<>>
  <2> DEFINE t == Tail(g)
  <2>1. t \in Seq(Gop) /\ Len(t) >= 1
    BY <1>1, <1>2
  <2> HIDE DEF t
  <2>2. t # <<>>
    BY <2>1, SeqFacts
  <2> QED  BY <2>2 DEF t
<1>4. 1 \in 1..(Len(g) - 1) /\ Len(g) - 1 \in 1..(Len(g) - 1) /\ (Len(g) - 1) + 1 = Len(g)
  BY <1>1
<1> QED  BY <1>2, <1>3, <1>4

\* The first state.
LEMMA InitWInv == ASSUME Init, ShortGops PROVE WInv
  BY EmptySeq, CapacityAssumption, BoundAssumption
  DEF Init, ShortGops, WInv, RunInv, LastGopInv, RoomInv, HeadInv, InFlight, Deciding,
      LockedPcs

\* Before a commit takes the mutex nothing of this changes.
LEMMA UnlockedWInv ==
  ASSUME IInv, WInv, ShortGops,
         (\E k \in Kinds, d \in Dts : AllocWrite(k, d))
            \/ FillBuf \/ RejectEmpty \/ DropFrame \/ SetVideoConfig
  PROVE  WInv'
<1>1. /\ UNCHANGED <<writeIdx, count, gops, oldestSeq, run>>
      /\ wr.pc \notin LockedPcs /\ wr'.pc \notin LockedPcs
      /\ cacheStarted' = cacheStarted \/ cacheStarted'
  <2>0. wr \in WriterType
    BY DEF IInv, TypeOK
  <2>1. CASE \E k \in Kinds, d \in Dts : AllocWrite(k, d)
    <3>1. PICK k \in Kinds, d \in Dts : AllocWrite(k, d)
      BY <2>1
    <3>2. wr.pc = "idle" /\ wr'.pc = "fill"
      BY <2>0, <3>1, AllocPicks DEF IInv, WriterType
    <3> QED  BY <3>1, <3>2 DEF AllocWrite, ringVars, LockedPcs
  <2>2. CASE FillBuf
    BY <2>0, <2>2 DEF FillBuf, ringVars, envVars, LockedPcs, WriterType
  <2>3. CASE RejectEmpty
    BY <2>0, <2>3 DEF RejectEmpty, ringVars, envVars, LockedPcs, WriterType
  <2>4. CASE DropFrame
    BY <2>0, <2>4 DEF DropFrame, envVars, LockedPcs, WriterType
  <2>5. CASE SetVideoConfig
    BY <2>0, <2>5 DEF SetVideoConfig, envVars, LockedPcs, WriterType
  <2> QED  BY <2>1, <2>2, <2>3, <2>4, <2>5
<1>2. RunInv'
  <2>1. CASE \E k \in Kinds, d \in Dts : AllocWrite(k, d)
    <3>1. PICK k \in Kinds, d \in Dts : AllocWrite(k, d)
      BY <2>1
    <3>2. wr \in WriterType
      BY DEF IInv, TypeOK
    <3>3. wr'.pc = "fill" /\ wr'.frame.kind = k
      <4>1. PICK b \in Bufs :
              wr' = [wr EXCEPT !.pc = "fill", !.buf = b,
                     !.frame = [n |-> total + 1, i |-> 0, kind |-> k, dts |-> d]]
        BY <3>1, AllocPicks DEF IInv
      <4> QED  BY <3>2, <4>1 DEF WriterType
    <3>4. hasVideo' = hasVideo
      BY <3>1 DEF AllocWrite, ringVars
    <3>5. NewGop(k, hasVideo \/ (IsVideo(k) /\ k # "config")) \/ run < MaxGopLen
      BY <3>1 DEF AllocWrite
    <3>6. NewGop(wr.frame.kind, SawVideo)' \/ run < MaxGopLen
      BY <3>3, <3>4, <3>5 DEF SawVideo
    <3> QED  BY <1>1, <3>3, <3>6 DEF WInv, RunInv, LockedPcs
  <2>2. CASE FillBuf
    <3>1. wr'.pc = "commit" /\ wr'.frame = wr.frame /\ hasVideo' = hasVideo /\ wr.pc = "fill"
      BY <2>2 DEF IInv, TypeOK, WriterType, FillBuf, ringVars
    <3> QED  BY <1>1, <3>1 DEF WInv, RunInv, SawVideo, LockedPcs
  <2>3. CASE RejectEmpty \/ DropFrame \/ SetVideoConfig
    <3>1. wr'.pc = "idle"
      BY <2>3 DEF IInv, TypeOK, WriterType, RejectEmpty, DropFrame, SetVideoConfig
    <3> QED  BY <1>1, <3>1 DEF WInv, RunInv, LockedPcs
  <2> QED  BY <2>1, <2>2, <2>3
<1>3. InFlight' = 0 /\ InFlight = 0
  BY <1>1 DEF InFlight
<1>4. wr.pc \notin Deciding /\ wr'.pc \notin Deciding
  BY <1>1 DEF Deciding, LockedPcs
<1>5. LastGopInv' /\ RoomInv'
  BY <1>1, <1>3, <1>4 DEF WInv, LastGopInv, RoomInv
<1>6. HeadInv'
  BY <1>1, <1>4 DEF WInv, HeadInv, LockedPcs
<1> QED  BY <1>2, <1>5, <1>6 DEF WInv

\* BeginCommit counts the frame in run and sends a head to on_new_gop.
LEMMA BeginCommitWInv ==
  ASSUME IInv, WInv, ShortGops, BeginCommit
  PROVE  WInv'
<1> DEFINE head == NewGop(wr.frame.kind, SawVideo)
<1>1. /\ wr \in WriterType /\ wr.pc = "commit" /\ wr.frame \in Frame
      /\ UNCHANGED <<writeIdx, count, gops, cacheStarted, oldestSeq>>
      /\ run' = IF head THEN 1 ELSE run + 1
      /\ hasVideo' = SawVideo
  BY DEF IInv, TypeOK, WriterType, BeginCommit
<1>2. /\ wr'.frame.i = writeIdx /\ wr'.frame.kind = wr.frame.kind
      /\ wr'.pc = IF ~head THEN "makeroom"
                  ELSE IF ~cacheStarted \/ gops = <<>> THEN "firstgop"
                  ELSE IF writeIdx > gops[Len(gops)].start THEN "roomgop"
                  ELSE "makeroom"
  BY <1>1 DEF BeginCommit, WriterType, Frame
<1> HIDE DEF head
<1>3. NewGop(wr'.frame.kind, hasVideo') = head
  BY <1>1, <1>2 DEF head
<1>4. /\ writeIdx \in Nat /\ run \in Nat /\ count \in Nat /\ MaxGopLen \in Nat
      /\ gops # <<>> => /\ Len(gops) \in DOMAIN gops
                        /\ gops[Len(gops)].start \in Nat
                        /\ gops[Len(gops)].start < writeIdx
  BY <1>1, WFacts DEF IInv, RingInv, HeadPcs, PublishPcs
<1>5. wr'.pc = IF ~head THEN "makeroom"
               ELSE IF gops = <<>> THEN "firstgop" ELSE "roomgop"
  BY <1>2, <1>4 DEF WInv, HeadInv
<1>6. run' <= MaxGopLen /\ (~head => run < MaxGopLen)
  BY <1>1, <1>4 DEF WInv, RunInv, ShortGops, head
<1>7. InFlight = 0 /\ InFlight' = 1
  BY <1>1, <1>5 DEF InFlight, LockedPcs
<1>8. RunInv'
  BY <1>1, <1>2, <1>4, <1>5, <1>6 DEF RunInv, LockedPcs
<1>9. LastGopInv'
  BY <1>1, <1>4, <1>5, <1>6, <1>7 DEF WInv, LastGopInv, Deciding, RunInv
<1>10. RoomInv'
  BY <1>1, <1>4, <1>5, <1>6, <1>7 DEF WInv, RoomInv, Deciding
<1>11. HeadInv'
  BY <1>1, <1>2, <1>3, <1>5 DEF WInv, HeadInv, Deciding, LockedPcs
<1> QED  BY <1>8, <1>9, <1>10, <1>11 DEF WInv

\* The new GOP enters the index, alone or behind the others.
LEMMA NewHeadWInv ==
  ASSUME IInv, WInv, ShortGops, FirstGop \/ AppendGop
  PROVE  WInv'
<1>1. /\ wr \in WriterType /\ wr.pc \in {"firstgop", "roomgop"}
      /\ wr'.pc = "makeroom" /\ wr'.frame = wr.frame
      /\ UNCHANGED <<writeIdx, count, hasVideo, run>>
  BY DEF IInv, TypeOK, WriterType, FirstGop, AppendGop, envVars
<1>2. /\ writeIdx \in Nat /\ run \in Nat /\ count \in Nat /\ MaxGopLen \in Nat
      /\ oldestSeq \in Nat /\ gops \in Seq(Gop) /\ Len(gops) \in Nat
      /\ gops # <<>> <=> Len(gops) >= 1
      /\ wr.frame.i = writeIdx
  BY <1>1, WFacts DEF WInv, RunInv, LockedPcs
<1>3. NewHead.start = writeIdx /\ NewHead \in Gop
  BY <1>2, FieldTypes DEF NewHead, Gop, IInv
<1>4. /\ gops' # <<>> /\ gops'[Len(gops')].start = writeIdx
      /\ IF gops = <<>> THEN gops'[1].start = writeIdx ELSE gops'[1] = gops[1]
      /\ wr.pc = "firstgop" => oldestSeq' = writeIdx
      /\ wr.pc = "roomgop" => oldestSeq' = oldestSeq
  <2>1. CASE FirstGop
    <3>1. gops = <<>> /\ gops' = <<NewHead>> /\ Len(gops') = 1 /\ wr.pc = "firstgop"
      BY <2>1 DEF FirstGop, WInv, HeadInv
    <3> QED  BY <1>3, <2>1, <3>1 DEF FirstGop
  <2>2. CASE AppendGop
    <3>1. /\ gops' = Append(gops, NewHead) /\ wr.pc = "roomgop" /\ oldestSeq' = oldestSeq
      BY <2>2 DEF AppendGop
    <3>2. /\ Len(gops') = Len(gops) + 1 /\ gops' \in Seq(Gop)
          /\ \A k \in 1..Len(gops) : gops'[k] = gops[k]
          /\ gops'[Len(gops) + 1] = NewHead
      BY <1>2, <1>3, <3>1, AppendProperties, LenProperties
    <3>3. gops' # <<>>
      BY <1>2, <3>2, SeqFacts
    <3> QED  BY <1>2, <1>3, <3>1, <3>2, <3>3
  <2> QED  BY <2>1, <2>2
<1>5. InFlight = 1 /\ InFlight' = 1
  BY <1>1 DEF InFlight, LockedPcs
<1>6. RunInv'
  BY <1>1 DEF WInv, RunInv, LockedPcs
<1>7. LastGopInv'
  BY <1>1, <1>2, <1>4, <1>5 DEF WInv, RunInv, LastGopInv, LockedPcs
<1>8. RoomInv'
  BY <1>1, <1>2, <1>4 DEF WInv, RoomInv
<1>9. HeadInv'
  <2>1. cacheStarted'
    BY DEF FirstGop, AppendGop, WInv, HeadInv
  <2> QED  BY <1>1, <1>2, <1>4, <2>1 DEF HeadInv
<1> QED  BY <1>6, <1>7, <1>8, <1>9 DEF WInv

\* The arithmetic of a pop: a window of n frames before w whose two oldest GOPs start
\* at a and b keeps the frames from b on.
LEMMA PopWindow ==
  ASSUME NEW n \in Nat, NEW w \in Nat, NEW a \in Nat, NEW b \in Nat, NEW m \in Nat,
         a < b, b <= w, w - a <= n, n - (w - a) <= m
  PROVE  /\ n - (b - a) \in Nat /\ n - (b - a) < n
         /\ n - (b - a) - (w - b) <= m
         /\ w - b <= n - (b - a)
  OBVIOUS

\* What a pop does to the window of a ring whose GOPs are short.
LEMMA PopFacts ==
  ASSUME IInv, ShortGops, gops # <<>>, count - (writeIdx - gops[1].start) <= MaxGopLen
  PROVE  LET c == CountAfterPop(gops, count, writeIdx)
             g == Tail(gops)
         IN /\ c \in Nat /\ c <= count
            /\ g \in Seq(Gop)
            /\ g = <<>> => c <= MaxGopLen
            /\ g # <<>> => /\ Len(gops) > 1
                           /\ g[1].start \in Nat
                           /\ c - (writeIdx - g[1].start) <= MaxGopLen
                           /\ g[Len(g)] = gops[Len(gops)]
            /\ writeIdx - OldestOf(g, c, writeIdx) <= c
            /\ Len(gops) > 1 => c < count
<1>1. /\ writeIdx \in Nat /\ count \in Nat /\ MaxGopLen \in Nat
      /\ gops \in Seq(Gop) /\ Len(gops) \in Nat /\ Len(gops) >= 1
      /\ DOMAIN gops = 1..Len(gops)
      /\ \A k \in 1..Len(gops) : gops[k].start \in Nat /\ gops[k].start <= writeIdx
      /\ count <= writeIdx /\ writeIdx - gops[1].start <= count
      /\ Increasing(gops)
  BY WFacts DEF IInv, RingInv
<1>2. CASE Len(gops) > 1
  <2>1. /\ Tail(gops) # <<>> /\ Tail(gops)[1] = gops[2]
        /\ Tail(gops)[Len(Tail(gops))] = gops[Len(gops)]
        /\ Tail(gops) \in Seq(Gop)
    BY <1>1, <1>2, TailKeepsLast, HeadTailProperties
  <2>2. gops[1].start < gops[2].start /\ gops[2].start <= writeIdx
    BY <1>1, <1>2 DEF Increasing
  <2>3. CountAfterPop(gops, count, writeIdx) = count - (gops[2].start - gops[1].start)
    BY <1>1, <1>2, <2>2 DEF CountAfterPop, Dropped
  <2>4. OldestOf(Tail(gops), CountAfterPop(gops, count, writeIdx), writeIdx) = gops[2].start
    BY <2>1 DEF OldestOf
  <2> DEFINE c == CountAfterPop(gops, count, writeIdx)
             g == Tail(gops)
  <2>5. gops[1].start \in Nat /\ gops[2].start \in Nat
    BY <1>1, <1>2
  <2>6. /\ c \in Nat /\ c < count
        /\ c - (writeIdx - gops[2].start) <= MaxGopLen
        /\ writeIdx - gops[2].start <= c
    <3>1. LET d == count - (gops[2].start - gops[1].start)
          IN /\ d \in Nat /\ d < count
             /\ d - (writeIdx - gops[2].start) <= MaxGopLen
             /\ writeIdx - gops[2].start <= d
      BY <1>1, <2>2, <2>5, PopWindow
    <3> QED  BY <2>3, <3>1
  <2>7. g # <<>> /\ g \in Seq(Gop) /\ g[1].start = gops[2].start
        /\ g[Len(g)] = gops[Len(gops)] /\ OldestOf(g, c, writeIdx) = gops[2].start
    BY <2>1, <2>4
  <2>8. c <= count
    BY <1>1, <2>6
  <2> HIDE DEF c, g
  <2>9. /\ g # <<>> => /\ Len(gops) > 1
                      /\ g[1].start \in Nat
                      /\ c - (writeIdx - g[1].start) <= MaxGopLen
                      /\ g[Len(g)] = gops[Len(gops)]
        /\ writeIdx - OldestOf(g, c, writeIdx) <= c
    BY <1>2, <2>5, <2>6, <2>7
  <2> USE DEF c, g
  <2> QED  BY <1>2, <2>6, <2>7, <2>8, <2>9
<1>3. CASE Len(gops) = 1
  <2>1. Tail(gops) = <<>> /\ Tail(gops) \in Seq(Gop)
    <3>1. Tail(gops) \in Seq(Gop) /\ Len(Tail(gops)) = 0
      BY <1>1, <1>3, HeadTailProperties
    <3> QED  BY <3>1, SeqFacts
  <2>2. CountAfterPop(gops, count, writeIdx) = count - (writeIdx - gops[1].start)
    BY <1>1, <1>3 DEF CountAfterPop, Dropped
  <2> QED  BY <1>1, <1>3, <2>1, <2>2 DEF OldestOf
<1> QED  BY <1>1, <1>2, <1>3

\* The pops: only on_new_gop drops the youngest GOP, before the new one enters.
LEMMA PopWInv ==
  ASSUME IInv, WInv, ShortGops, RoomForGop \/ MakeRoom \/ Trim
  PROVE  WInv'
<1>1. ~MakeRoom
  BY WFacts DEF MakeRoom, WInv, RoomInv
<1>2. /\ PopFrontGop /\ UNCHANGED <<writeIdx, cacheStarted, hasVideo, wr, run>>
      /\ wr.pc \in {"roomgop", "trim"}
      /\ wr.pc = "trim" => Len(gops) > 1
  BY <1>1 DEF RoomForGop, Trim, TooOld, envVars
<1>3. gops # <<>>
  <2>1. Len(gops) >= 1
    BY <1>1, WFacts, GopAssumption DEF RoomForGop, Trim, NoRoomForGop, TooOld
  <2> QED  BY <2>1, WFacts
<1> DEFINE c == CountAfterPop(gops, count, writeIdx)
           g == Tail(gops)
<1>4. /\ c \in Nat /\ c <= count
      /\ g = <<>> => c <= MaxGopLen
      /\ g # <<>> => /\ Len(gops) > 1
                     /\ g[1].start \in Nat
                     /\ c - (writeIdx - g[1].start) <= MaxGopLen
                     /\ g[Len(g)] = gops[Len(gops)]
      /\ writeIdx - OldestOf(g, c, writeIdx) <= c
  BY <1>3, PopFacts DEF WInv, RoomInv
<1>5. wr.pc = "trim" => g # <<>>
  BY <1>2, WFacts, TailKeepsLast
<1>6. count' = c /\ gops' = g /\ oldestSeq' = OldestOf(g, c, writeIdx)
  BY <1>2 DEF PopFrontGop
<1> HIDE DEF c, g
<1>7. InFlight' = InFlight
  BY <1>2 DEF InFlight
<1>8. RunInv'
  BY <1>2 DEF WInv, RunInv, SawVideo
<1>9. LastGopInv'
  BY <1>2, <1>3, <1>4, <1>6, <1>7 DEF WInv, LastGopInv
<1>10. RoomInv'
  BY <1>2, <1>4, <1>5, <1>6, WFacts DEF WInv, RoomInv, Deciding
<1>11. HeadInv'
  BY <1>2, <1>3, <1>4, <1>5, <1>6 DEF WInv, HeadInv, Deciding
<1> QED  BY <1>8, <1>9, <1>10, <1>11 DEF WInv

\* Writing the slot moves nothing but the program counter.
LEMMA PublishWInv ==
  ASSUME IInv, WInv, ShortGops,
         PublishBegin \/ StoreBuf \/ StorePub \/ PublishEnd \/ Grace
  PROVE  WInv'
<1>1. /\ UNCHANGED <<writeIdx, count, gops, cacheStarted, hasVideo, oldestSeq, run>>
      /\ wr.pc \in LockedPcs \ (Deciding \cup {"trim"})
      /\ wr'.pc \in LockedPcs \ (Deciding \cup {"trim"})
      /\ wr'.frame = wr.frame
  <2>1. wr \in WriterType
    BY DEF IInv, TypeOK
  <2>2. CASE PublishBegin \/ StoreBuf \/ StorePub
    BY <2>1, <2>2
    DEF PublishBegin, StoreBuf, StorePub, ringVars, envVars, LockedPcs, Deciding, WriterType
  <2>3. CASE PublishEnd \/ Grace
    BY <2>1, <2>3
    DEF PublishEnd, Grace, ringVars, envVars, LockedPcs, Deciding, WriterType
  <2> QED  BY <2>2, <2>3
<1>2. InFlight' = InFlight
  BY <1>1 DEF InFlight
<1>3. wr.pc \notin {"fill", "commit"} /\ wr'.pc \notin {"fill", "commit"}
  BY <1>1 DEF LockedPcs
<1>4. RunInv'
  BY <1>1, <1>3 DEF WInv, RunInv
<1>5. LastGopInv'
  BY <1>1, <1>2 DEF WInv, LastGopInv
<1>6. RoomInv'
  BY <1>1, <1>2 DEF WInv, RoomInv
<1>7. HeadInv'
  BY <1>1 DEF WInv, HeadInv, Deciding
<1> QED  BY <1>4, <1>5, <1>6, <1>7 DEF WInv

\* The frame is counted.  The ring stays below its capacity: with one GOP its
\* count is at most twice MaxGopLen, with more the oldest is dropped.
LEMMA AdvanceWInv ==
  ASSUME IInv, WInv, ShortGops, Advance
  PROVE  WInv'
<1>1. /\ wr \in WriterType /\ wr.pc = "advance" /\ wr'.pc = "trim" /\ wr'.frame = wr.frame
      /\ UNCHANGED <<cacheStarted, hasVideo, run>>
      /\ writeIdx' = writeIdx + 1
  BY DEF IInv, TypeOK, WriterType, Advance, envVars
<1>2. /\ writeIdx \in Nat /\ count \in Nat /\ Capacity \in Nat /\ MaxGopLen \in Nat
      /\ oldestSeq \in Nat /\ run \in Nat /\ count <= writeIdx
      /\ gops \in Seq(Gop) /\ Len(gops) \in Nat /\ (gops # <<>> <=> Len(gops) >= 1)
      /\ DOMAIN gops = 1..Len(gops)
      /\ \A k \in DOMAIN gops : gops[k].start \in Nat /\ gops[k].start <= writeIdx
      /\ gops # <<>> => writeIdx - gops[1].start <= count
      /\ Increasing(gops)
  BY WFacts DEF IInv, RingInv
<1>3. /\ count < Capacity /\ CountUp(count) = count + 1 /\ 2 * MaxGopLen < Capacity
      /\ run <= MaxGopLen /\ wr.frame.i = writeIdx
      /\ InFlight = 1 /\ InFlight' = 0
  BY <1>1, <1>2
  DEF WInv, RoomInv, RunInv, CountUp, ShortGops, InFlight, LockedPcs
<1>4. /\ gops = <<>> => count + 1 <= run
      /\ gops # <<>> => /\ writeIdx + 1 - gops[Len(gops)].start <= run
                        /\ count - (writeIdx - gops[1].start) <= MaxGopLen
      /\ writeIdx - oldestSeq <= count
  BY <1>1, <1>3 DEF WInv, RoomInv, LastGopInv, Deciding
<1> DEFINE c == count + 1
           w == writeIdx + 1
<1>5. CASE c >= Capacity /\ Len(gops) > 1
  <2>1. /\ count' = CountAfterPop(gops, c, w) /\ gops' = Tail(gops)
        /\ oldestSeq' = OldestOf(Tail(gops), CountAfterPop(gops, c, w), w)
    BY <1>3, <1>5 DEF Advance
  <2>2. /\ Tail(gops) # <<>> /\ Tail(gops)[1] = gops[2]
        /\ Tail(gops)[Len(Tail(gops))] = gops[Len(gops)]
    BY <1>2, <1>5, TailKeepsLast
  <2>3. 1 \in DOMAIN gops /\ 2 \in DOMAIN gops /\ Len(gops) \in DOMAIN gops
    BY <1>2, <1>5
  <2>4. gops[1].start < gops[2].start /\ gops[2].start <= writeIdx
    BY <1>2, <2>3 DEF Increasing
  <2>5. CountAfterPop(gops, c, w) = c - (gops[2].start - gops[1].start)
    BY <1>2, <1>5, <2>3, <2>4 DEF CountAfterPop, Dropped
  <2>6. oldestSeq' = gops[2].start
    BY <2>1, <2>2 DEF OldestOf
  <2>7. /\ gops # <<>> /\ gops[1].start \in Nat /\ gops[2].start \in Nat
        /\ gops[Len(gops)].start \in Nat /\ gops[1].start <= writeIdx
    BY <1>2, <1>5, <2>3
  <2>8. RoomInv'
    <3>1. /\ count' < Capacity /\ count' - (writeIdx' - gops[2].start) <= MaxGopLen
          /\ writeIdx' - oldestSeq' <= count'
      <4>1. count' = c - (gops[2].start - gops[1].start)
        BY <2>1, <2>5
      <4>2. c = count + 1 /\ count - (writeIdx - gops[1].start) <= MaxGopLen
        BY <1>4, <2>7
      <4> HIDE DEF c
      <4>3. gops[2].start - gops[1].start >= 1
        BY <2>4, <2>7
      <4>4. writeIdx - gops[1].start <= count
        BY <1>2, <2>7
      <4>5. writeIdx' = writeIdx + 1 /\ oldestSeq' = gops[2].start /\ count < Capacity
            /\ writeIdx \in Nat /\ count \in Nat /\ Capacity \in Nat
        BY <1>1, <1>2, <1>3, <2>6
      <4>6. count' < Capacity
        BY <2>7, <4>1, <4>2, <4>3, <4>5
      <4>7. count' - (writeIdx' - gops[2].start) <= MaxGopLen
        BY <1>2, <2>7, <4>1, <4>2, <4>5
      <4> QED  BY <2>7, <4>1, <4>2, <4>4, <4>5, <4>6, <4>7
    <3> QED  BY <2>1, <2>2, <3>1 DEF RoomInv
  <2>10. LastGopInv'
    <3>1. /\ writeIdx' - gops[Len(gops)].start <= MaxGopLen
          /\ writeIdx' + InFlight' - gops[Len(gops)].start <= run'
      BY <1>1, <1>2, <1>3, <1>4, <2>7
    <3> QED  BY <2>1, <2>2, <3>1 DEF LastGopInv
  <2>9. HeadInv'
    BY <1>1, <1>2, <1>5, <2>1, <2>2 DEF WInv, HeadInv, Deciding, LockedPcs
  <2> QED  BY <1>1, <1>3, <2>8, <2>9, <2>10 DEF WInv, RunInv, LockedPcs
<1>6. CASE ~(c >= Capacity /\ Len(gops) > 1)
  <2>1. count' = c /\ gops' = gops /\ oldestSeq' = oldestSeq
    BY <1>3, <1>6 DEF Advance
  <2>2. c < Capacity
    <3>1. CASE gops = <<>>
      BY <1>2, <1>3, <1>4, <3>1
    <3>2. CASE gops # <<>>
      <4>1. Len(gops) = 1 \/ c < Capacity
        BY <1>2, <1>6, <3>2
      <4>2. CASE Len(gops) = 1
        <5>1. gops[1].start \in Nat /\ writeIdx + 1 - gops[1].start <= run
          BY <1>2, <1>4, <3>2, <4>2
        <5> QED  BY <1>2, <1>3, <1>4, <3>2, <5>1
      <4> QED  BY <4>1, <4>2
    <3> QED  BY <3>1, <3>2
  <2>3. RoomInv'
    BY <1>1, <1>2, <1>3, <1>4, <2>1, <2>2 DEF RoomInv
  <2>4. LastGopInv'
    BY <1>1, <1>2, <1>3, <1>4, <2>1 DEF LastGopInv
  <2>5. HeadInv'
    BY <1>1, <2>1 DEF WInv, HeadInv, Deciding, LockedPcs
  <2> QED  BY <1>1, <1>3, <2>3, <2>4, <2>5 DEF WInv, RunInv, LockedPcs
<1> QED  BY <1>5, <1>6

\* The end of a commit, and a cleared ring.
LEMMA EndWInv ==
  ASSUME IInv, WInv, ShortGops, EndCommit \/ Clear
  PROVE  WInv'
<1>1. wr'.pc \in {"idle", "fill", "commit"}
  BY DEF IInv, TypeOK, WriterType, WriterPcs, EndCommit, Clear, MutexFree
<1>2. CASE EndCommit
  <2>1. /\ UNCHANGED <<writeIdx, count, gops, cacheStarted, hasVideo, oldestSeq, run>>
        /\ wr.pc = "trim" /\ wr'.pc = "idle"
    BY <1>2 DEF EndCommit, ringVars, envVars, IInv, TypeOK, WriterType
  <2>2. InFlight = 0 /\ InFlight' = 0
    BY <2>1 DEF InFlight, LockedPcs
  <2> QED
    BY <1>1, <2>1, <2>2
    DEF WInv, RunInv, LastGopInv, RoomInv, HeadInv, LockedPcs, Deciding
<1>3. CASE Clear
  <2>1. /\ writeIdx' = 0 /\ count' = 0 /\ gops' = <<>> /\ oldestSeq' = 0 /\ run' = 0
    BY <1>3 DEF Clear, EmptyRing
  <2>2. InFlight' = 0
    BY <1>1 DEF InFlight, LockedPcs
  <2> QED
    BY <1>1, <2>1, <2>2, WFacts
    DEF ShortGops, WInv, RunInv, LastGopInv, RoomInv, HeadInv, LockedPcs, Deciding
<1> QED  BY <1>2, <1>3

\* Readers change none of it.
LEMMA QuietWInv ==
  ASSUME IInv, WInv, UNCHANGED <<ringVars, oldestSeq, wr, run>>
  PROVE  WInv'
BY DEF ringVars, WInv, RunInv, LastGopInv, RoomInv, HeadInv, InFlight, SawVideo

\* No step of the writer or of a reader loses the frames of the GOP being written.
LEMMA NextWInv == ASSUME IInv, WInv, ShortGops, [Next]_vars PROVE WInv'
<1>1. CASE Writer
  BY <1>1, UnlockedWInv, BeginCommitWInv, NewHeadWInv, PopWInv, PublishWInv,
     AdvanceWInv, EndWInv DEF Writer, Commit
<1>2. CASE SetVideoConfig \/ Clear
  BY <1>2, UnlockedWInv, EndWInv
<1>3. ASSUME NEW r \in Readers, Reader(r) PROVE WInv'
  <2>1. UNCHANGED readerOnly
    BY <1>3
    DEF Reader, Take, Attach, Detach, ReadBegin, ReadRoute, TakeEnter, TakeLoad,
        TakeCheck, TakeRef, TakeRecheck, TakeConfirm, TakeLocked, TakeLockedAt
  <2> QED  BY <2>1, QuietWInv DEF readerOnly, envVars
<1>4. CASE UNCHANGED vars
  BY <1>4, QuietWInv DEF vars, envVars
<1> QED  BY <1>1, <1>2, <1>3, <1>4 DEF Next

\* While GOPs are short, the frames written since the last head are all in the window
\* and their GOP is the last of the index: on_new_gop and the pops for room leave it.
THEOREM WindowInvariant == ASSUME ShortGops PROVE Spec => [](IInv /\ WInv)
<1>1. Init => IInv /\ WInv
  BY InitInv, InitWInv
<1>2. (IInv /\ WInv) /\ [Next]_vars => (IInv /\ WInv)'
  BY NextInv, NextWInv
<1> QED  BY <1>1, <1>2, PTL DEF Spec

\* A frame that opens a GOP is in the GOP index when its commit ends, whatever
\* was popped for want of room or for its age while it was being committed.
THEOREM HeadIndexed == ASSUME ShortGops PROVE Spec => []KeyIndexed
<1>1. IInv /\ WInv => KeyIndexed
  BY DEF WInv, HeadInv, KeyIndexed, LockedPcs, Deciding
<1> QED  BY <1>1, WindowInvariant, PTL

-----------------------------------------------------------------------------
(***************************************************************************)
(* What a lock-free reader gets from the GOP ring: frames in the order     *)
(* they were committed, each at most once, and the frame of its cursor     *)
(* rather than the one that overwrote the slot.  Proved for every number   *)
(* of readers, every capacity and every GOP length below half of it.       *)
(***************************************************************************)

Slots == 0..Capacity-1

\* Points of a commit at which the slot's counter is odd ...
Odd == {"storebuf", "storepub", "stable"}
\* ... at which the frame in the writer's hand is in no slot yet ...
Before == {"fill", "commit", "firstgop", "roomgop", "makeroom", "storebuf", "storepub"}
\* ... and at which it is in its slot but not yet counted.
Stored == {"stable", "grace", "advance"}

Filled(s) == slot[s].pub.n > 0

\* The counter is odd just while its slot is overwritten; write_seq is what
\* the last commit published.
SeqOk ==
    /\ \A s \in Slots :
          slot[s].seq % 2 = 1 <=> (s = SlotOf(writeIdx) /\ wr.pc \in Odd)
    /\ writeSeq + (IF wr.pc = "trim" THEN 1 ELSE 0) = writeIdx

\* A slot shows a frame of its own, younger frames have higher indices, and
\* index j is lost only to a frame of a later lap.
PubOk ==
    /\ \A s \in Slots : Filled(s) =>
          /\ SlotOf(slot[s].pub.i) = s
          /\ slot[s].pub.i < writeIdx + (IF wr.pc \in Stored THEN 1 ELSE 0)
          /\ \A t \in Slots : Filled(t) /\ slot[s].pub.i < slot[t].pub.i
                                 => slot[s].pub.n < slot[t].pub.n
    /\ \A j \in 0..writeIdx-1 : Filled(SlotOf(j)) /\ slot[SlotOf(j)].pub.i >= j
    /\ wr.pc \in Stored => slot[SlotOf(writeIdx)].pub = wr.frame
    /\ \A s \in Slots : slot[s].buf # NoBuf =>
          Filled(s) \/ (s = SlotOf(writeIdx) /\ wr.pc = "storepub")

\* Frames are numbered as they are offered.
NumOk ==
    /\ wr.pc # "idle" => wr.frame.n = total /\ total > 0
    /\ \A s \in Slots : /\ slot[s].pub.n <= total
                        /\ wr.pc \in Before => slot[s].pub.n < total

\* Between commits the ring holds a frame as soon as one was committed.
SomeOk == wr.pc \notin LockedPcs \ {"trim"} => count > 0 \/ writeIdx = 0

StoreInv == SeqOk /\ PubOk /\ NumOk /\ SomeOk
-----------------------------------------------------------------------------
(* Lemmas about slots.                                                     *)

\* Two indices that share a slot are a whole lap apart.
LEMMA LapApart ==
  ASSUME NEW p \in Nat, NEW i \in Nat, SlotOf(p) = SlotOf(i), p > i
  PROVE  p >= i + Capacity
<1> DEFINE a == p \div Capacity
           b == i \div Capacity
<1>1. p = Capacity * a + (p % Capacity) /\ a \in Nat
  BY CapacityAssumption
<1>2. i = Capacity * b + (i % Capacity) /\ b \in Nat
  BY CapacityAssumption
<1> HIDE DEF a, b
<1>3. p - i = Capacity * (a - b) /\ Capacity \in Nat /\ Capacity > 0
  BY <1>1, <1>2, CapacityAssumption DEF SlotOf
<1>4. a - b >= 1
  BY <1>1, <1>2, <1>3
<1>5. Capacity * (a - b) >= Capacity
  BY <1>1, <1>2, <1>3, <1>4
<1> QED  BY <1>3, <1>5

\* The slots and their fields.
LEMMA SlotFields ==
  ASSUME TypeOK
  PROVE  /\ SlotOf(writeIdx) \in Slots /\ DOMAIN slot = Slots
         /\ \A s \in Slots : /\ slot[s] \in SlotType
                             /\ slot[s].seq \in Nat /\ slot[s].buf \in Bufs \cup {NoBuf}
                             /\ slot[s].pub \in Frame
                             /\ slot[s].pub.n \in Nat /\ slot[s].pub.i \in Nat
         /\ \A j \in 0..writeIdx-1 : SlotOf(j) \in Slots
<1>1. \A s \in Slots : slot[s] \in SlotType
  BY DEF TypeOK, Slots
<1>2. \A s \in Slots : /\ slot[s].seq \in Nat /\ slot[s].buf \in Bufs \cup {NoBuf}
                       /\ slot[s].pub \in Frame
  BY <1>1 DEF SlotType
<1>3. \A s \in Slots : slot[s].pub.n \in Nat /\ slot[s].pub.i \in Nat
  BY <1>2 DEF Frame
<1>4. SlotOf(writeIdx) \in Slots /\ \A j \in 0..writeIdx-1 : SlotOf(j) \in Slots
  BY SlotOfType DEF TypeOK, Slots
<1>5. DOMAIN slot = Slots
  BY DEF TypeOK, Slots
<1> QED  BY <1>1, <1>2, <1>3, <1>4, <1>5

\* What the four steps of slot_publish do to the slots.
LEMMA SlotSteps ==
  ASSUME TypeOK
  PROVE  /\ PublishBegin \/ PublishEnd => \A s \in Slots :
              /\ slot'[s].buf = slot[s].buf /\ slot'[s].pub = slot[s].pub
              /\ slot'[s].seq = slot[s].seq + (IF s = SlotOf(writeIdx) THEN 1 ELSE 0)
         /\ StoreBuf => \A s \in Slots :
              /\ slot'[s].seq = slot[s].seq /\ slot'[s].pub = slot[s].pub
              /\ slot'[s].buf = IF s = SlotOf(writeIdx) THEN wr.buf ELSE slot[s].buf
         /\ StorePub => \A s \in Slots :
              /\ slot'[s].seq = slot[s].seq /\ slot'[s].buf = slot[s].buf
              /\ slot'[s].pub = IF s = SlotOf(writeIdx) THEN wr.frame ELSE slot[s].pub
         /\ Clear => \A s \in Slots :
              /\ slot'[s].seq = slot[s].seq + 2 /\ slot'[s].buf = NoBuf
              /\ slot'[s].pub = NoFrame
<1> DEFINE w == SlotOf(writeIdx)
<1>1. /\ w \in Slots /\ DOMAIN slot = Slots
      /\ \A s \in Slots : slot[s] \in SlotType
  BY SlotFields
<1> HIDE DEF w
<1>2. ASSUME PublishBegin \/ PublishEnd, NEW s \in Slots
      PROVE  /\ slot'[s].buf = slot[s].buf /\ slot'[s].pub = slot[s].pub
             /\ slot'[s].seq = slot[s].seq + (IF s = w THEN 1 ELSE 0)
  <2>1. slot' = [slot EXCEPT ![w].seq = @ + 1]
    BY <1>2 DEF PublishBegin, PublishEnd, w
  <2> QED  BY <1>1, <2>1 DEF SlotType
<1>3. ASSUME StoreBuf, NEW s \in Slots
      PROVE  /\ slot'[s].seq = slot[s].seq /\ slot'[s].pub = slot[s].pub
             /\ slot'[s].buf = IF s = w THEN wr.buf ELSE slot[s].buf
  <2>1. slot' = [slot EXCEPT ![w].buf = wr.buf]
    BY <1>3 DEF StoreBuf, w
  <2> QED  BY <1>1, <2>1 DEF SlotType
<1>4. ASSUME StorePub, NEW s \in Slots
      PROVE  /\ slot'[s].seq = slot[s].seq /\ slot'[s].buf = slot[s].buf
             /\ slot'[s].pub = IF s = w THEN wr.frame ELSE slot[s].pub
  <2>1. slot' = [slot EXCEPT ![w].pub = wr.frame]
    BY <1>4 DEF StorePub, w
  <2> QED  BY <1>1, <2>1 DEF SlotType
<1>5. ASSUME Clear, NEW s \in Slots
      PROVE  /\ slot'[s].seq = slot[s].seq + 2 /\ slot'[s].buf = NoBuf
             /\ slot'[s].pub = NoFrame
  BY <1>1, <1>5 DEF Clear, EmptyRing, FreeSlot
<1> QED  BY <1>2, <1>3, <1>4, <1>5 DEF w

\* The steps of the writer that leave slots and positions alone.
Quiet == \/ FillBuf \/ RejectEmpty \/ DropFrame \/ BeginCommit \/ FirstGop
         \/ RoomForGop \/ AppendGop \/ MakeRoom \/ Grace \/ Trim \/ SetVideoConfig

\* They never bring a frame back to a point it has passed.
LEMMA QuietSteps ==
  ASSUME TypeOK, Quiet
  PROVE  /\ UNCHANGED <<slot, writeIdx, writeSeq, total, rd, clears>>
         /\ wr.pc \notin Odd /\ wr'.pc \notin Odd
         /\ wr'.pc \in Before => wr.pc \in Before
         /\ wr'.pc \in Stored <=> wr.pc \in Stored
         /\ wr'.pc = "trim" <=> wr.pc = "trim"
         /\ wr'.pc # "idle" => wr.pc # "idle" /\ wr'.frame.n = wr.frame.n
         /\ wr'.pc \in Stored => wr'.frame = wr.frame
<1>1. wr \in WriterType /\ wr.frame \in Frame
  BY DEF TypeOK, WriterType
<1>2. CASE FillBuf \/ RejectEmpty \/ DropFrame
  BY <1>1, <1>2
  DEF FillBuf, RejectEmpty, DropFrame, WriterType, ringVars, envVars, Odd, Before, Stored
<1>3. CASE BeginCommit
  <2>1. wr.pc = "commit" /\ wr'.frame.n = wr.frame.n
        /\ wr'.pc \in {"makeroom", "firstgop", "roomgop"}
    BY <1>1, <1>3 DEF BeginCommit, WriterType, Frame
  <2>2. UNCHANGED <<slot, writeIdx, writeSeq, total, rd, clears>>
    BY <1>3 DEF BeginCommit
  <2> QED  BY <2>1, <2>2 DEF Odd, Before, Stored
<1>4. CASE FirstGop \/ AppendGop
  BY <1>1, <1>4
  DEF FirstGop, AppendGop, WriterType, envVars, Odd, Before, Stored
<1>5. CASE RoomForGop \/ MakeRoom \/ Trim
  <2>1. wr' = wr /\ wr.pc \in {"roomgop", "makeroom", "trim"}
    BY <1>5 DEF RoomForGop, MakeRoom, Trim
  <2>2. UNCHANGED <<slot, writeIdx, writeSeq, total, rd, clears>>
    BY <1>5 DEF RoomForGop, MakeRoom, Trim, envVars
  <2> QED  BY <2>1, <2>2 DEF Odd, Before, Stored
<1>6. CASE Grace
  BY <1>1, <1>6
  DEF Grace, WriterType, ringVars, envVars, Odd, Before, Stored
<1>7. CASE SetVideoConfig
  BY <1>1, <1>7 DEF SetVideoConfig, envVars, Odd, Before, Stored
<1> QED  BY <1>2, <1>3, <1>4, <1>5, <1>6, <1>7 DEF Quiet

\* The other steps of the writer.
LEMMA LoudSteps ==
  ASSUME TypeOK
  PROVE  /\ (\E k \in Kinds, d \in Dts : AllocWrite(k, d)) =>
              /\ wr.pc = "idle" /\ wr'.pc = "fill" /\ wr'.frame.n = total + 1
              /\ total' = total + 1
              /\ UNCHANGED <<slot, writeIdx, writeSeq, count, rd, clears>>
         /\ PublishBegin => wr.pc = "makeroom" /\ wr'.pc = "storebuf"
         /\ StoreBuf => wr.pc = "storebuf" /\ wr'.pc = "storepub"
         /\ StorePub => wr.pc = "storepub" /\ wr'.pc = "stable"
         /\ PublishEnd => wr.pc = "stable" /\ wr'.pc \in {"grace", "advance"}
         /\ PublishBegin \/ StoreBuf \/ StorePub \/ PublishEnd =>
              /\ wr'.frame = wr.frame
              /\ UNCHANGED <<writeIdx, writeSeq, total, count, rd, clears>>
         /\ Advance => /\ wr.pc = "advance" /\ wr'.pc = "trim" /\ wr'.frame = wr.frame
                       /\ writeIdx' = writeIdx + 1
                       /\ UNCHANGED <<slot, writeSeq, total, rd, clears>>
         /\ EndCommit => /\ wr.pc = "trim" /\ wr'.pc = "idle" /\ writeSeq' = writeIdx
                         /\ UNCHANGED <<slot, writeIdx, total, count, rd, clears>>
         /\ Clear => /\ wr.pc \in {"idle", "fill", "commit"} /\ wr' = wr
                     /\ writeIdx' = 0 /\ writeSeq' = 0 /\ UNCHANGED <<total, rd>>
<1>1. wr \in WriterType /\ wr.frame \in Frame
  BY DEF TypeOK, WriterType
<1>2. ASSUME NEW k \in Kinds, NEW d \in Dts, AllocWrite(k, d)
      PROVE  /\ wr.pc = "idle" /\ wr'.pc = "fill" /\ wr'.frame.n = total + 1
             /\ total' = total + 1
             /\ UNCHANGED <<slot, writeIdx, writeSeq, count, rd, clears>>
  <2>1. wr.pc = "idle" /\ wr'.pc = "fill" /\ wr'.frame.n = total + 1
    <3>1. PICK b \in Bufs :
            wr' = [wr EXCEPT !.pc = "fill", !.buf = b,
                   !.frame = [n |-> total + 1, i |-> 0, kind |-> k, dts |-> d]]
      BY <1>2, AllocPicks
    <3> QED  BY <1>1, <1>2, <3>1 DEF WriterType, AllocWrite
  <2> QED  BY <1>2, <2>1 DEF AllocWrite, ringVars
<1>3. CASE PublishBegin
  BY <1>1, <1>3 DEF PublishBegin, StoreBuf, StorePub, PublishEnd, Advance, EndCommit,
                    Clear, EmptyRing, AllocWrite, ringVars, envVars, WriterType
<1>4. CASE StoreBuf
  BY <1>1, <1>4 DEF PublishBegin, StoreBuf, StorePub, PublishEnd, Advance, EndCommit,
                    Clear, EmptyRing, AllocWrite, ringVars, envVars, WriterType
<1>5. CASE StorePub
  BY <1>1, <1>5 DEF PublishBegin, StoreBuf, StorePub, PublishEnd, Advance, EndCommit,
                    Clear, EmptyRing, AllocWrite, ringVars, envVars, WriterType
<1>6. CASE PublishEnd
  BY <1>1, <1>6 DEF PublishBegin, StoreBuf, StorePub, PublishEnd, Advance, EndCommit,
                    Clear, EmptyRing, AllocWrite, ringVars, envVars, WriterType
<1>7. CASE Advance
  BY <1>1, <1>7 DEF PublishBegin, StoreBuf, StorePub, PublishEnd, Advance, EndCommit,
                    Clear, EmptyRing, AllocWrite, envVars, WriterType
<1>8. CASE EndCommit
  BY <1>1, <1>8 DEF PublishBegin, StoreBuf, StorePub, PublishEnd, Advance, EndCommit,
                    Clear, EmptyRing, AllocWrite, ringVars, envVars, WriterType
<1>9. CASE Clear
  BY <1>1, <1>9 DEF PublishBegin, StoreBuf, StorePub, PublishEnd, Advance, EndCommit,
                    Clear, EmptyRing, AllocWrite, WriterType, MutexFree, WriterPcs
<1> QED  BY <1>2, <1>3, <1>4, <1>5, <1>6, <1>7, <1>8, <1>9
-----------------------------------------------------------------------------
(* The writer's part of the invariant.                                     *)

LEMMA InitStore == Init => StoreInv
<1> SUFFICES ASSUME Init PROVE StoreInv
  OBVIOUS
<1>1. \A s \in Slots : slot[s].seq = 0 /\ slot[s].buf = NoBuf /\ slot[s].pub.n = 0
  BY DEF Init, Slots, NoFrame
<1>2. /\ wr.pc = "idle" /\ writeIdx = 0 /\ writeSeq = 0 /\ total = 0
      /\ 0..writeIdx-1 = {}
  BY DEF Init
<1>3. SeqOk
  BY <1>1, <1>2 DEF SeqOk, Odd
<1>4. PubOk
  BY <1>1, <1>2 DEF PubOk, Filled, Stored
<1>5. NumOk
  BY <1>1, <1>2 DEF NumOk, Before
<1>6. SomeOk
  BY <1>2 DEF SomeOk
<1> QED  BY <1>3, <1>4, <1>5, <1>6 DEF StoreInv

\* What the invariant speaks of, for steps that change none of it but the
\* writer's program counter.
LEMMA QuietStore ==
  ASSUME IInv, IInv', StoreInv, Quiet
  PROVE  SeqOk' /\ PubOk' /\ NumOk'
<1>1. /\ UNCHANGED <<slot, writeIdx, writeSeq, total>>
      /\ wr.pc \notin Odd /\ wr'.pc \notin Odd
      /\ wr'.pc \in Before => wr.pc \in Before
      /\ wr'.pc \in Stored <=> wr.pc \in Stored
      /\ wr'.pc = "trim" <=> wr.pc = "trim"
      /\ wr'.pc # "idle" => wr.pc # "idle" /\ wr'.frame.n = wr.frame.n
      /\ wr'.pc \in Stored => wr'.frame = wr.frame
  BY QuietSteps DEF IInv
<1>2. SeqOk'
  BY <1>1 DEF StoreInv, SeqOk
<1>3. PubOk'
  <2>1. wr.pc # "storepub" /\ wr'.pc # "storepub"
    BY <1>1 DEF Odd
  <2> QED  BY <1>1, <2>1 DEF StoreInv, PubOk, Filled
<1>4. NumOk'
  BY <1>1 DEF StoreInv, NumOk
<1> QED  BY <1>2, <1>3, <1>4

\* A new frame is offered, the slot is overwritten.
LEMMA AllocStore ==
  ASSUME IInv, StoreInv, \E k \in Kinds, d \in Dts : AllocWrite(k, d)
  PROVE  SeqOk' /\ PubOk' /\ NumOk'
<1>1. /\ wr.pc = "idle" /\ wr'.pc = "fill" /\ wr'.frame.n = total + 1
      /\ total' = total + 1 /\ total \in Nat
      /\ UNCHANGED <<slot, writeIdx, writeSeq>>
  BY LoudSteps DEF IInv, TypeOK
<1>2. \A s \in Slots : slot[s].pub.n \in Nat
  BY SlotFields DEF IInv
<1>3. SeqOk'
  BY <1>1 DEF StoreInv, SeqOk, Odd
<1>4. PubOk'
  BY <1>1 DEF StoreInv, PubOk, Filled, Stored
<1>5. NumOk'
  BY <1>1, <1>2 DEF StoreInv, NumOk
<1> QED  BY <1>3, <1>4, <1>5

LEMMA PublishStore ==
  ASSUME IInv, StoreInv, PublishBegin \/ StoreBuf \/ PublishEnd
  PROVE  SeqOk' /\ PubOk' /\ NumOk'
<1>1. /\ SlotOf(writeIdx) \in Slots
      /\ \A s \in Slots : slot[s].seq \in Nat
  BY SlotFields DEF IInv
<1>2. /\ UNCHANGED <<writeIdx, writeSeq, total>> /\ wr'.frame = wr.frame
      /\ wr.pc # "trim" /\ wr'.pc # "trim" /\ wr.pc # "idle"
      /\ wr'.pc \in Before => wr.pc \in Before
      /\ wr'.pc \in Stored <=> wr.pc \in Stored
      /\ wr.pc # "storepub"
  BY LoudSteps DEF IInv, Before, Stored
<1>3. \A s \in Slots : slot'[s].pub = slot[s].pub
  BY SlotSteps DEF IInv
<1>4. SeqOk'
  <2>1. CASE PublishBegin
    <3>1. wr.pc \notin Odd /\ wr'.pc \in Odd
      BY <2>1, LoudSteps DEF IInv, Odd
    <3>2. \A s \in Slots :
             slot'[s].seq = slot[s].seq + (IF s = SlotOf(writeIdx) THEN 1 ELSE 0)
      BY <2>1, SlotSteps DEF IInv
    <3> QED  BY <1>1, <1>2, <3>1, <3>2 DEF StoreInv, SeqOk
  <2>2. CASE StoreBuf
    <3>1. wr.pc \in Odd /\ wr'.pc \in Odd
      BY <2>2, LoudSteps DEF IInv, Odd
    <3>2. \A s \in Slots : slot'[s].seq = slot[s].seq
      BY <2>2, SlotSteps DEF IInv
    <3> QED  BY <1>1, <1>2, <3>1, <3>2 DEF StoreInv, SeqOk
  <2>3. CASE PublishEnd
    <3>1. wr.pc \in Odd /\ wr'.pc \notin Odd
      BY <2>3, LoudSteps DEF IInv, Odd
    <3>2. \A s \in Slots :
             slot'[s].seq = slot[s].seq + (IF s = SlotOf(writeIdx) THEN 1 ELSE 0)
      BY <2>3, SlotSteps DEF IInv
    <3> QED  BY <1>1, <1>2, <3>1, <3>2 DEF StoreInv, SeqOk
  <2> QED  BY <2>1, <2>2, <2>3
<1>5. PubOk'
  <2>1. \A s \in Slots : Filled(s)' <=> Filled(s)
    BY <1>3 DEF Filled
  <2>2. \A j \in 0..writeIdx-1 : SlotOf(j) \in Slots
    BY SlotFields DEF IInv
  <2>3. \A s \in Slots : slot'[s].buf # NoBuf =>
           Filled(s) \/ (s = SlotOf(writeIdx) /\ wr'.pc = "storepub")
    <3>1. CASE PublishBegin \/ PublishEnd
      <4>1. \A s \in Slots : slot'[s].buf = slot[s].buf
        BY <3>1, SlotSteps DEF IInv
      <4> QED  BY <1>2, <4>1 DEF StoreInv, PubOk
    <3>2. CASE StoreBuf
      <4>1. /\ \A s \in Slots :
                  slot'[s].buf = IF s = SlotOf(writeIdx) THEN wr.buf ELSE slot[s].buf
            /\ wr'.pc = "storepub"
        BY <3>2, SlotSteps, LoudSteps DEF IInv
      <4> QED  BY <1>2, <4>1 DEF StoreInv, PubOk
    <3> QED  BY <3>1, <3>2
  <2>4. \A s \in Slots : Filled(s) =>
          /\ SlotOf(slot'[s].pub.i) = s
          /\ slot'[s].pub.i < writeIdx' + (IF wr'.pc \in Stored THEN 1 ELSE 0)
          /\ \A t \in Slots : Filled(t) /\ slot'[s].pub.i < slot'[t].pub.i
                                 => slot'[s].pub.n < slot'[t].pub.n
    BY <1>2, <1>3 DEF StoreInv, PubOk
  <2>5. \A j \in 0..writeIdx-1 : Filled(SlotOf(j)) /\ slot'[SlotOf(j)].pub.i >= j
    BY <1>3, <2>2 DEF StoreInv, PubOk
  <2>6. wr'.pc \in Stored => slot'[SlotOf(writeIdx)].pub = wr'.frame
    BY <1>1, <1>2, <1>3 DEF StoreInv, PubOk
  <2> QED  BY <1>2, <2>1, <2>2, <2>3, <2>4, <2>5, <2>6 DEF PubOk
<1>6. NumOk'
  BY <1>2, <1>3 DEF StoreInv, NumOk
<1> QED  BY <1>4, <1>5, <1>6

\* The public view of the new frame takes the place of the old one, which had
\* a lower index and a lower number.
LEMMA StorePubStore ==
  ASSUME IInv, RunInv, StoreInv, StorePub
  PROVE  SeqOk' /\ PubOk' /\ NumOk'
<1> DEFINE w == SlotOf(writeIdx)
<1>1. /\ w \in Slots /\ writeIdx \in Nat /\ total \in Nat
      /\ \A s \in Slots : /\ slot[s].seq \in Nat /\ slot[s].pub.n \in Nat
                          /\ slot[s].pub.i \in Nat
      /\ \A j \in 0..writeIdx-1 : SlotOf(j) \in Slots
  BY SlotFields DEF IInv, TypeOK
<1>2. /\ wr.pc = "storepub" /\ wr'.pc = "stable" /\ wr'.frame = wr.frame
      /\ UNCHANGED <<writeIdx, writeSeq, total>>
  BY LoudSteps DEF IInv
<1>3. \A s \in Slots :
        /\ slot'[s].seq = slot[s].seq /\ slot'[s].buf = slot[s].buf
        /\ slot'[s].pub = IF s = w THEN wr.frame ELSE slot[s].pub
  BY SlotSteps DEF IInv
<1>4. wr.frame.i = writeIdx /\ wr.frame.n = total /\ total > 0
  BY <1>2 DEF RunInv, StoreInv, NumOk, LockedPcs
<1>5. \A s \in Slots : /\ slot[s].pub.n < total
                       /\ Filled(s) => slot[s].pub.i < writeIdx
  BY <1>1, <1>2 DEF StoreInv, NumOk, PubOk, Before, Stored
<1>6. SeqOk'
  BY <1>1, <1>2, <1>3 DEF StoreInv, SeqOk, Odd
<1>7. PubOk'
  <2>1. \A s \in Slots : Filled(s)' <=> Filled(s) \/ s = w
    BY <1>3, <1>4 DEF Filled
  <2>2. ASSUME NEW s \in Slots, Filled(s)'
        PROVE  /\ SlotOf(slot'[s].pub.i) = s
               /\ slot'[s].pub.i < writeIdx' + 1
               /\ \A t \in Slots : Filled(t)' /\ slot'[s].pub.i < slot'[t].pub.i
                                     => slot'[s].pub.n < slot'[t].pub.n
    <3>1. CASE s = w
      BY <1>1, <1>2, <1>3, <1>4, <1>5, <2>1, <3>1
    <3>2. CASE s # w
      <4>1. Filled(s) /\ slot'[s].pub = slot[s].pub
        BY <1>3, <2>1, <2>2, <3>2
      <4>2. SlotOf(slot[s].pub.i) = s /\ slot[s].pub.i < writeIdx
        BY <1>5, <4>1 DEF StoreInv, PubOk
      <4>3. \A t \in Slots : Filled(t) /\ slot[s].pub.i < slot[t].pub.i
                               => slot[s].pub.n < slot[t].pub.n
        BY <4>1 DEF StoreInv, PubOk
      <4>4. ASSUME NEW t \in Slots, Filled(t)', slot'[s].pub.i < slot'[t].pub.i
            PROVE  slot'[s].pub.n < slot'[t].pub.n
        BY <1>3, <1>4, <1>5, <2>1, <4>1, <4>3, <4>4
      <4> QED  BY <1>1, <1>2, <4>1, <4>2, <4>4
    <3> QED  BY <3>1, <3>2
  <2>3. \A j \in 0..writeIdx-1 : Filled(SlotOf(j))' /\ slot'[SlotOf(j)].pub.i >= j
    BY <1>1, <1>3, <1>4, <2>1 DEF StoreInv, PubOk
  <2>4. slot'[w].pub = wr'.frame
    BY <1>1, <1>2, <1>3
  <2>5. \A s \in Slots : slot'[s].buf # NoBuf => Filled(s)'
    BY <1>2, <1>3, <2>1 DEF StoreInv, PubOk
  <2> HIDE DEF w
  <2>6. w' = w
    BY <1>2 DEF w
  <2> QED  BY <1>1, <1>2, <2>2, <2>3, <2>4, <2>5 DEF PubOk, Stored, w
<1>8. NumOk'
  <2>1. \A s \in Slots : slot'[s].pub.n <= total
    BY <1>1, <1>3, <1>4, <1>5
  <2> QED  BY <1>2, <1>4, <2>1 DEF NumOk, Before
<1> QED  BY <1>6, <1>7, <1>8

\* The stored frame is counted, then published.
LEMMA CountedStore ==
  ASSUME IInv, RunInv, StoreInv, Advance \/ EndCommit
  PROVE  SeqOk' /\ PubOk' /\ NumOk'
<1>1. /\ writeIdx \in Nat /\ writeSeq \in Nat
      /\ \A s \in Slots : slot[s].pub.i \in Nat
      /\ SlotOf(writeIdx) \in Slots
  BY SlotFields DEF IInv, TypeOK
<1>2. CASE Advance
  <2>1. /\ wr.pc = "advance" /\ wr'.pc = "trim" /\ wr'.frame = wr.frame
        /\ writeIdx' = writeIdx + 1 /\ UNCHANGED <<slot, writeSeq, total>>
    BY <1>2, LoudSteps DEF IInv
  <2>2. slot[SlotOf(writeIdx)].pub = wr.frame /\ wr.frame.i = writeIdx /\ wr.frame.n > 0
    BY <2>1 DEF StoreInv, PubOk, NumOk, RunInv, Stored, LockedPcs
  <2>3. SeqOk'
    BY <1>1, <2>1 DEF StoreInv, SeqOk, Odd
  <2>4. \A j \in 0..writeIdx'-1 : Filled(SlotOf(j)) /\ slot[SlotOf(j)].pub.i >= j
    BY <1>1, <2>1, <2>2 DEF StoreInv, PubOk, Filled
  <2>5. PubOk'
    BY <1>1, <2>1, <2>4 DEF StoreInv, PubOk, Filled, Stored
  <2>6. NumOk'
    BY <2>1 DEF StoreInv, NumOk, Before
  <2> QED  BY <2>3, <2>5, <2>6
<1>3. CASE EndCommit
  <2>1. /\ wr.pc = "trim" /\ wr'.pc = "idle" /\ writeSeq' = writeIdx
        /\ UNCHANGED <<slot, writeIdx, total>>
    BY <1>3, LoudSteps DEF IInv
  <2>2. SeqOk'
    BY <1>1, <2>1 DEF StoreInv, SeqOk, Odd
  <2>3. PubOk'
    BY <2>1 DEF StoreInv, PubOk, Filled, Stored
  <2>4. NumOk'
    BY <2>1 DEF StoreInv, NumOk, Before
  <2> QED  BY <2>2, <2>3, <2>4
<1> QED  BY <1>2, <1>3

\* A cleared ring shows nothing.
LEMMA ClearStore ==
  ASSUME IInv, StoreInv, Clear
  PROVE  SeqOk' /\ PubOk' /\ NumOk'
<1>1. /\ wr.pc \in {"idle", "fill", "commit"} /\ wr' = wr /\ writeIdx' = 0 /\ writeSeq' = 0
      /\ UNCHANGED total /\ total \in Nat
  BY LoudSteps DEF IInv, TypeOK
<1>2. \A s \in Slots : /\ slot[s].seq \in Nat
                       /\ slot'[s].seq = slot[s].seq + 2 /\ slot'[s].buf = NoBuf
                       /\ slot'[s].pub.n = 0
  BY SlotSteps, SlotFields DEF IInv, NoFrame
<1>3. \A s \in Slots : slot'[s].seq % 2 # 1
  BY <1>1, <1>2 DEF StoreInv, SeqOk, Odd
<1>4. SeqOk'
  BY <1>1, <1>3 DEF SeqOk, Odd
<1>5. PubOk'
  BY <1>1, <1>2 DEF PubOk, Filled, Stored
<1>6. NumOk'
  BY <1>1, <1>2 DEF StoreInv, NumOk, Before
<1> QED  BY <1>4, <1>5, <1>6

\* A stored frame is counted: time may drop older GOPs, not the one it is in.
LEMMA SomeStore ==
  ASSUME IInv, IInv', StoreInv,
         \/ \E k \in Kinds, d \in Dts : AllocWrite(k, d)
         \/ Quiet
         \/ PublishBegin \/ StoreBuf \/ StorePub \/ PublishEnd
         \/ Advance \/ EndCommit \/ Clear
  PROVE  SomeOk'
<1>1. wr \in WriterType /\ Capacity \in Nat \ {0}
  BY CapacityAssumption DEF IInv, TypeOK
<1>2. CASE /\ writeIdx' = writeIdx /\ count' = count
           /\ wr'.pc \notin LockedPcs \ {"trim"} => wr.pc \notin LockedPcs \ {"trim"}
  BY <1>2 DEF StoreInv, SomeOk
<1>3. ASSUME wr'.pc = "trim", gops' # <<>> PROVE SomeOk'
  <2>1. /\ gops' \in Seq(Gop) /\ writeIdx' \in Nat /\ count' \in Nat
        /\ writeIdx' - gops'[1].start <= count'
        /\ \A k \in DOMAIN gops' : gops'[k].start < writeIdx'
    BY <1>1, <1>3 DEF IInv, TypeOK, RingInv, HeadPcs, PublishPcs
  <2>2. 1 \in DOMAIN gops' /\ gops'[1].start \in Nat
    <3> DEFINE g == gops'
    <3>1. g \in Seq(Gop) /\ g # <<>>
      BY <1>3, <2>1
    <3> HIDE DEF g
    <3>2. 1 \in DOMAIN g /\ g[1].start \in Nat
      BY <3>1, SeqFacts
    <3> QED  BY <3>2 DEF g
  <2>3. count' > 0
    BY <2>1, <2>2
  <2> QED  BY <2>3 DEF SomeOk
<1>4. CASE \E k \in Kinds, d \in Dts : AllocWrite(k, d)
  <2>1. wr.pc = "idle" /\ wr'.pc = "fill" /\ writeIdx' = writeIdx /\ count' = count
    BY <1>4, LoudSteps DEF IInv
  <2> QED  BY <1>2, <2>1 DEF LockedPcs
<1>5. CASE PublishBegin \/ StoreBuf \/ StorePub \/ PublishEnd
  <2>1. wr'.pc \in LockedPcs \ {"trim"}
    BY <1>5, LoudSteps DEF IInv, LockedPcs
  <2> QED  BY <2>1 DEF SomeOk
<1>6. CASE EndCommit \/ Clear
  BY <1>1, <1>6, LoudSteps DEF IInv, StoreInv, SomeOk, LockedPcs
<1>7. CASE Advance
  <2>1. wr'.pc = "trim" /\ count \in Nat /\ gops \in Seq(Gop)
    BY <1>7, LoudSteps, CapacityAssumption DEF IInv, TypeOK
  <2>2. CASE CountUp(count) >= Capacity /\ Len(gops) > 1
    <3>1. gops' = Tail(gops)
      BY <1>7, <2>2 DEF Advance
    <3> QED  BY <1>3, <2>1, <2>2, <3>1, TailKeepsLast
  <2>3. CASE ~(CountUp(count) >= Capacity /\ Len(gops) > 1)
    <3>1. count' = CountUp(count)
      BY <1>7, <2>3 DEF Advance
    <3> QED  BY <1>1, <2>1, <3>1 DEF CountUp, SomeOk
  <2> QED  BY <2>2, <2>3
<1>8. CASE Quiet
  <2>1. CASE Trim
    <3>1. wr'.pc = "trim" /\ gops' = Tail(gops) /\ Len(gops) > 1 /\ gops \in Seq(Gop)
      BY <2>1 DEF Trim, TooOld, PopFrontGop, IInv, TypeOK
    <3> QED  BY <1>3, <3>1, TailKeepsLast
  <2>2. CASE FillBuf \/ RejectEmpty \/ DropFrame \/ SetVideoConfig
    <3>1. wr.pc \in {"idle", "fill", "commit"} /\ UNCHANGED <<writeIdx, count>>
      BY <2>2 DEF FillBuf, RejectEmpty, DropFrame, SetVideoConfig, ringVars
    <3> QED  BY <1>2, <3>1 DEF LockedPcs
  <2>3. CASE BeginCommit \/ FirstGop \/ RoomForGop \/ AppendGop \/ MakeRoom \/ Grace
    <3>1. wr'.pc \in LockedPcs \ {"trim"}
      <4>1. CASE BeginCommit
        BY <1>1, <4>1 DEF BeginCommit, WriterType, LockedPcs, Frame
      <4>2. CASE FirstGop \/ RoomForGop \/ AppendGop \/ MakeRoom \/ Grace
        BY <1>1, <4>2
        DEF FirstGop, RoomForGop, AppendGop, MakeRoom, Grace, WriterType, LockedPcs
      <4> QED  BY <2>3, <4>1, <4>2
    <3> QED  BY <3>1 DEF SomeOk
  <2> QED  BY <1>8, <2>1, <2>2, <2>3 DEF Quiet
<1> QED  BY <1>4, <1>5, <1>6, <1>7, <1>8

\* The steps of the writer, one by one.
WriterStep ==
    \/ \E k \in Kinds, d \in Dts : AllocWrite(k, d)
    \/ Quiet
    \/ PublishBegin \/ StoreBuf \/ StorePub \/ PublishEnd
    \/ Advance \/ EndCommit \/ Clear

LEMMA WriterSteps == Writer \/ SetVideoConfig \/ Clear => WriterStep
  BY DEF Writer, Commit, WriterStep, Quiet

LEMMA WriterStore ==
  ASSUME IInv, IInv', RunInv, StoreInv, WriterStep
  PROVE  StoreInv'
<1>1. SeqOk' /\ PubOk' /\ NumOk'
  BY QuietStore, AllocStore, PublishStore, StorePubStore, CountedStore, ClearStore
  DEF WriterStep
<1>2. SomeOk'
  BY SomeStore DEF WriterStep
<1> QED  BY <1>1, <1>2 DEF StoreInv

LEMMA IdleStore ==
  ASSUME StoreInv, UNCHANGED <<slot, wr, writeIdx, writeSeq, count, total>>
  PROVE  StoreInv'
BY DEF StoreInv, SeqOk, PubOk, NumOk, SomeOk, Filled
-----------------------------------------------------------------------------
(* A reader's part of the invariant.                                       *)

Looking == {"load", "check", "ref", "recheck"}
Loaded == {"check", "ref", "recheck"}

\* Between its looks at the counter a reader remembers an even value.  While
\* it still is the counter's, what was loaded is what the slot has.
LookOk(r) ==
    /\ rd[r].pc # "idle" => rd[r].att
    /\ rd[r].pc \in Looking => rd[r].s1 % 2 = 0 /\ rd[r].s1 <= ReaderSlot(r).seq
    /\ rd[r].pc \in Loaded /\ rd[r].s1 = ReaderSlot(r).seq =>
          rd[r].buf = ReaderSlot(r).buf /\ rd[r].pub = ReaderSlot(r).pub
    /\ rd[r].pc \in {"ref", "recheck", "confirm"} => rd[r].buf # NoBuf

\* A reader has no frame that was not offered.
KnownOk(r) ==
    /\ rd[r].got.n <= total /\ rd[r].pub.n <= total
    /\ wr.pc \in Before => rd[r].got.n < total /\ rd[r].pub.n < total

\* Every frame the slots show is younger than the reader's last one, or the
\* reader's cursor is past it.  A frame about to be confirmed is younger than
\* the last one, and older than all the reader may still meet, unless the
\* writer has lapped the cursor (and oldest_seq tells so).
NewOk(r) ==
    /\ \A s \in Slots : Filled(s) =>
          rd[r].got.n < slot[s].pub.n \/ slot[s].pub.i < rd[r].idx
    /\ rd[r].pc \in {"route", "enter"} \cup Looking =>
          \/ rd[r].idx < writeSeq
          \/ \A s \in Slots : Filled(s) => rd[r].got.n < slot[s].pub.n
    /\ rd[r].pc = "confirm" =>
          /\ rd[r].pub.n > rd[r].got.n
          /\ \/ rd[r].idx + Capacity <= writeIdx
             \/ \A s \in Slots : Filled(s) =>
                   rd[r].pub.n < slot[s].pub.n \/ slot[s].pub.i <= rd[r].idx

ReadInv == \A r \in Readers : LookOk(r) /\ KnownOk(r) /\ NewOk(r)

\* The numbers a reader holds.
LEMMA ReaderNumbers ==
  ASSUME TypeOK, NEW r \in Readers
  PROVE  /\ rd[r] \in ReaderType
         /\ rd[r].idx \in Nat /\ rd[r].s1 \in Nat
         /\ rd[r].got \in Frame /\ rd[r].got.n \in Nat
         /\ rd[r].pub \in Frame /\ rd[r].pub.n \in Nat /\ rd[r].pub.i \in Nat
         /\ SlotOf(rd[r].idx) \in Slots
         /\ ReaderSlot(r) = slot[SlotOf(rd[r].idx)]
<1>1. rd[r] \in ReaderType
  BY DEF TypeOK
<1>2. /\ rd[r].idx \in Nat /\ rd[r].s1 \in Nat /\ rd[r].got \in Frame
      /\ rd[r].pub \in Frame
  BY <1>1 DEF ReaderType
<1>3. SlotOf(rd[r].idx) \in Slots
  BY <1>2, SlotOfType DEF Slots
<1> QED  BY <1>1, <1>2, <1>3 DEF Frame, ReaderSlot

LEMMA InitRead == Init => ReadInv
<1> SUFFICES ASSUME Init, NEW r \in Readers PROVE LookOk(r) /\ KnownOk(r) /\ NewOk(r)
  BY DEF ReadInv
<1>1. /\ rd[r].pc = "idle" /\ rd[r].got.n = 0 /\ rd[r].pub.n = 0
      /\ wr.pc = "idle" /\ total = 0
  BY DEF Init, NoFrame
<1>2. \A s \in Slots : slot[s].pub.n = 0
  BY DEF Init, Slots, NoFrame
<1> QED  BY <1>1, <1>2 DEF LookOk, KnownOk, NewOk, Looking, Loaded, Before, Filled

\* While the writer is in the slot its counter is not the reader's even one.
LEMMA WriterLook ==
  ASSUME IInv, StoreInv, WriterStep, NEW r \in Readers, LookOk(r)
  PROVE  LookOk(r)'
<1> DEFINE s == SlotOf(rd[r].idx)
<1>1. s \in Slots /\ ReaderSlot(r) = slot[s] /\ rd[r].s1 \in Nat /\ slot[s].seq \in Nat
  BY ReaderNumbers, SlotFields DEF IInv
<1>2. rd' = rd
  BY QuietSteps, LoudSteps DEF IInv, WriterStep
<1>3. s' = s /\ ReaderSlot(r)' = slot'[s]
  BY <1>2 DEF ReaderSlot
<1> HIDE DEF s
<1>4. CASE slot'[s] = slot[s]
  BY <1>1, <1>2, <1>3, <1>4 DEF LookOk
<1>5. CASE slot'[s].seq > slot[s].seq
  <2>1. slot'[s].seq \in Int
    <3>1. slot'[s].seq = slot[s].seq + 1 \/ slot'[s].seq = slot[s].seq + 2
          \/ slot'[s].seq = slot[s].seq + 0 \/ slot'[s] = slot[s]
      BY <1>1, QuietSteps, LoudSteps, SlotSteps DEF IInv, WriterStep
    <3> QED  BY <1>1, <3>1
  <2> QED  BY <1>1, <1>2, <1>3, <1>5, <2>1 DEF LookOk, Looking, Loaded
<1>6. CASE slot'[s].seq = slot[s].seq /\ slot[s].seq % 2 = 1
  BY <1>1, <1>2, <1>3, <1>6 DEF LookOk, Looking, Loaded
<1>7. CASE /\ slot'[s].seq = slot[s].seq /\ slot'[s].buf = slot[s].buf
           /\ slot'[s].pub = slot[s].pub
  BY <1>1, <1>2, <1>3, <1>7 DEF LookOk
<1>8. CASE PublishBegin \/ PublishEnd \/ Clear
  BY <1>1, <1>5, <1>7, <1>8, SlotSteps DEF IInv
<1>9. CASE StoreBuf \/ StorePub
  <2>1. wr.pc \in Odd
    BY <1>9, LoudSteps DEF IInv, Odd
  <2>2. s = SlotOf(writeIdx) => slot[s].seq % 2 = 1
    BY <1>1, <2>1 DEF StoreInv, SeqOk
  <2> QED  BY <1>1, <1>6, <1>7, <1>9, <2>2, SlotSteps DEF IInv
<1>10. CASE slot' = slot
  BY <1>4, <1>10
<1> QED  BY <1>8, <1>9, <1>10, QuietSteps, LoudSteps DEF IInv, WriterStep

LEMMA WriterKnown ==
  ASSUME IInv, StoreInv, WriterStep, NEW r \in Readers, KnownOk(r)
  PROVE  KnownOk(r)'
<1>1. rd[r].got.n \in Nat /\ rd[r].pub.n \in Nat /\ total \in Nat
  BY ReaderNumbers DEF IInv, TypeOK
<1>2. rd' = rd
  BY QuietSteps, LoudSteps DEF IInv, WriterStep
<1>3. CASE \E k \in Kinds, d \in Dts : AllocWrite(k, d)
  <2>1. total' = total + 1
    BY <1>3, LoudSteps DEF IInv
  <2> QED  BY <1>1, <1>2, <2>1 DEF KnownOk
<1>4. CASE ~\E k \in Kinds, d \in Dts : AllocWrite(k, d)
  <2>1. total' = total /\ (wr'.pc \in Before => wr.pc \in Before)
    BY <1>4, QuietSteps, LoudSteps DEF IInv, WriterStep, Before
  <2> QED  BY <1>2, <2>1 DEF KnownOk
<1> QED  BY <1>3, <1>4

LEMMA WriterNew ==
  ASSUME IInv, StoreInv, WriterStep, NEW r \in Readers, KnownOk(r), NewOk(r)
  PROVE  NewOk(r)'
<1>1. /\ rd[r].got.n \in Nat /\ rd[r].pub.n \in Nat /\ rd[r].idx \in Nat
      /\ total \in Nat /\ writeIdx \in Nat /\ writeSeq \in Nat /\ Capacity \in Nat
      /\ \A s \in Slots : slot[s].pub.n \in Nat /\ slot[s].pub.i \in Nat
  BY ReaderNumbers, SlotFields, CapacityAssumption DEF IInv, TypeOK
<1>2. rd' = rd
  BY QuietSteps, LoudSteps DEF IInv, WriterStep
<1>3. CASE /\ \A s \in Slots : slot'[s].pub = slot[s].pub
           /\ writeIdx' \in Nat /\ writeIdx <= writeIdx'
           /\ writeSeq' \in Nat /\ writeSeq <= writeSeq'
  <2>1. \A s \in Slots : Filled(s)' <=> Filled(s)
    BY <1>3 DEF Filled
  <2>2. \A s \in Slots : Filled(s)' =>
           rd'[r].got.n < slot'[s].pub.n \/ slot'[s].pub.i < rd'[r].idx
    BY <1>2, <1>3, <2>1 DEF NewOk
  <2>3. rd'[r].pc \in {"route", "enter"} \cup Looking =>
          \/ rd'[r].idx < writeSeq'
          \/ \A s \in Slots : Filled(s)' => rd'[r].got.n < slot'[s].pub.n
    BY <1>1, <1>2, <1>3, <2>1 DEF NewOk
  <2>4. rd'[r].pc = "confirm" =>
          /\ rd'[r].pub.n > rd'[r].got.n
          /\ \/ rd'[r].idx + Capacity <= writeIdx'
             \/ \A s \in Slots : Filled(s)' =>
                   rd'[r].pub.n < slot'[s].pub.n \/ slot'[s].pub.i <= rd'[r].idx
    BY <1>1, <1>2, <1>3, <2>1 DEF NewOk
  <2> QED  BY <2>2, <2>3, <2>4 DEF NewOk
<1>4. CASE StorePub
  <2>1. /\ UNCHANGED <<writeIdx, writeSeq>> /\ wr.pc = "storepub"
        /\ \A s \in Slots :
              slot'[s].pub = IF s = SlotOf(writeIdx) THEN wr.frame ELSE slot[s].pub
    BY <1>4, LoudSteps, SlotSteps DEF IInv
  <2>2. rd[r].got.n < wr.frame.n /\ rd[r].pub.n < wr.frame.n
    BY <2>1 DEF StoreInv, NumOk, KnownOk, Before
  <2>3. \A s \in Slots : Filled(s)' =>
          \/ slot'[s].pub = wr.frame
          \/ Filled(s) /\ slot'[s].pub = slot[s].pub
    BY <2>1 DEF Filled
  <2>4. \A s \in Slots : Filled(s)' =>
           rd'[r].got.n < slot'[s].pub.n \/ slot'[s].pub.i < rd'[r].idx
    BY <1>2, <2>2, <2>3 DEF NewOk
  <2>5. rd'[r].pc \in {"route", "enter"} \cup Looking =>
          \/ rd'[r].idx < writeSeq'
          \/ \A s \in Slots : Filled(s)' => rd'[r].got.n < slot'[s].pub.n
    BY <1>2, <2>1, <2>2, <2>3 DEF NewOk
  <2>6. rd'[r].pc = "confirm" =>
          /\ rd'[r].pub.n > rd'[r].got.n
          /\ \/ rd'[r].idx + Capacity <= writeIdx'
             \/ \A s \in Slots : Filled(s)' =>
                   rd'[r].pub.n < slot'[s].pub.n \/ slot'[s].pub.i <= rd'[r].idx
    BY <1>2, <2>1, <2>2, <2>3 DEF NewOk
  <2> QED  BY <2>4, <2>5, <2>6 DEF NewOk
<1>5. CASE Clear
  <2>1. \A s \in Slots : ~Filled(s)'
    BY <1>5, SlotSteps DEF IInv, Filled, NoFrame
  <2> QED  BY <1>2, <2>1 DEF NewOk
<1>6. CASE (\E k \in Kinds, d \in Dts : AllocWrite(k, d)) \/ Quiet
  BY <1>1, <1>3, <1>6, LoudSteps, QuietSteps DEF IInv
<1>7. CASE PublishBegin \/ StoreBuf \/ PublishEnd
  BY <1>1, <1>3, <1>7, LoudSteps, SlotSteps DEF IInv
<1>8. CASE Advance \/ EndCommit
  <2>1. CASE Advance
    BY <1>1, <1>3, <2>1, LoudSteps DEF IInv
  <2>2. CASE EndCommit
    <3>1. /\ wr.pc = "trim" /\ UNCHANGED <<slot, writeIdx>> /\ writeSeq' = writeIdx
      BY <2>2, LoudSteps DEF IInv
    <3>2. writeSeq + 1 = writeIdx
      BY <3>1 DEF StoreInv, SeqOk
    <3> QED  BY <1>1, <1>3, <3>1, <3>2
  <2> QED  BY <1>8, <2>1, <2>2
<1> QED  BY <1>4, <1>5, <1>6, <1>7, <1>8 DEF WriterStep

\* A reader's step concerns no other reader, and nothing of the writer's.
LEMMA OneReader ==
  ASSUME TypeOK, NEW r \in Readers, Reader(r)
  PROVE  /\ UNCHANGED readerOnly
         /\ \A q \in Readers \ {r} : rd'[q] = rd[q]
<1>1. rd \in [Readers -> ReaderType]
  BY DEF TypeOK
<1>2. CASE (\E b \in BOOLEAN : Attach(r, b)) \/ Detach(r)
  BY <1>1, <1>2 DEF Attach, Detach
<1>3. CASE ReadBegin(r) \/ ReadRoute(r) \/ TakeEnter(r) \/ TakeLoad(r) \/ TakeCheck(r)
  BY <1>1, <1>3 DEF ReadBegin, ReadRoute, TakeEnter, TakeLoad, TakeCheck
<1>4. CASE TakeRef(r) \/ TakeRecheck(r) \/ TakeConfirm(r) \/ TakeLocked(r)
  BY <1>1, <1>4 DEF TakeRef, TakeRecheck, TakeConfirm, TakeLocked, TakeLockedAt
<1> QED  BY <1>2, <1>3, <1>4 DEF Reader, Take

\* What each step does to the reader's record.
LEMMA AttachStep ==
  ASSUME TypeOK, NEW r \in Readers
  PROVE  /\ (\E b \in BOOLEAN : Attach(r, b)) =>
              /\ ~rd[r].att /\ rd'[r].att /\ wr.pc \notin LockedPcs
              /\ rd'[r].idx \in {OldestIdx, BeginningIdx}
              /\ rd'[r].got = NoFrame /\ refcnt' = refcnt
              /\ rd'[r].pc = rd[r].pc /\ rd'[r].s1 = rd[r].s1 /\ rd'[r].buf = rd[r].buf
              /\ rd'[r].pub = rd[r].pub /\ rd'[r].held = rd[r].held
         /\ Detach(r) =>
              /\ rd[r].pc = "idle" /\ refcnt' = Unref(refcnt, rd[r].held)
              /\ rd'[r].idx = rd[r].idx /\ rd'[r].got = rd[r].got
              /\ rd'[r].pc = rd[r].pc /\ rd'[r].s1 = rd[r].s1 /\ rd'[r].buf = rd[r].buf
              /\ rd'[r].pub = rd[r].pub /\ rd'[r].held = NoBuf
              /\ ~rd'[r].att
<1>1. rd \in [Readers -> ReaderType] /\ rd[r] \in ReaderType
  BY DEF TypeOK
<1>2. ASSUME NEW b \in BOOLEAN, Attach(r, b)
      PROVE  /\ ~rd[r].att /\ rd'[r].att /\ wr.pc \notin LockedPcs
             /\ rd'[r].idx \in {OldestIdx, BeginningIdx}
             /\ rd'[r].got = NoFrame /\ refcnt' = refcnt
             /\ rd'[r].pc = rd[r].pc /\ rd'[r].s1 = rd[r].s1 /\ rd'[r].buf = rd[r].buf
             /\ rd'[r].pub = rd[r].pub /\ rd'[r].held = rd[r].held
  BY <1>1, <1>2 DEF Attach, ReaderType, MutexFree
<1>3. CASE Detach(r)
  BY <1>1, <1>3 DEF Detach, ReaderType, Attach
<1> QED  BY <1>2, <1>3

LEMMA LookStep ==
  ASSUME TypeOK, NEW r \in Readers
  PROVE  /\ ReadBegin(r) =>
              /\ rd[r].att /\ rd[r].pc = "idle" /\ rd'[r].pc = "route"
              /\ rd[r].idx < writeSeq
         /\ ReadRoute(r) => rd[r].pc = "route" /\ rd'[r].pc \in {"locked", "enter"}
         /\ TakeEnter(r) =>
              /\ rd[r].pc = "enter"
              /\ \/ rd'[r].pc = "locked"
                 \/ /\ rd'[r].pc = "load" /\ rd'[r].s1 = ReaderSlot(r).seq
                    /\ ReaderSlot(r).seq % 2 # 1
         /\ TakeLoad(r) =>
              /\ rd[r].pc = "load" /\ rd'[r].pc = "check" /\ rd'[r].s1 = rd[r].s1
              /\ rd'[r].buf = ReaderSlot(r).buf /\ rd'[r].pub = ReaderSlot(r).pub
         /\ TakeCheck(r) =>
              /\ rd[r].pc = "check"
              /\ \/ rd'[r].pc = "locked"
                 \/ rd'[r].pc = "idle" /\ rd[r].s1 = ReaderSlot(r).seq /\ rd[r].buf = NoBuf
                 \/ /\ rd'[r].pc = "ref" /\ rd[r].buf # NoBuf
                    /\ rd'[r].s1 = rd[r].s1 /\ rd'[r].buf = rd[r].buf
                    /\ rd'[r].pub = rd[r].pub
         /\ (ReadBegin(r) \/ ReadRoute(r) \/ TakeEnter(r) \/ TakeLoad(r) \/ TakeCheck(r)) =>
              /\ rd'[r].att = rd[r].att
              /\ rd'[r].got = rd[r].got /\ rd'[r].held = rd[r].held /\ refcnt' = refcnt
              /\ rd'[r].idx = rd[r].idx \/ (rd'[r].idx = rd[r].idx + 1 /\ rd'[r].pc = "idle")
              /\ rd'[r].pub \in {rd[r].pub, ReaderSlot(r).pub, NoFrame}
              /\ rd'[r].buf \in {rd[r].buf, ReaderSlot(r).buf, NoBuf}
<1>1. rd \in [Readers -> ReaderType] /\ rd[r] \in ReaderType
  BY DEF TypeOK
<1> DEFINE Common == /\ rd'[r].att = rd[r].att
                     /\ rd'[r].got = rd[r].got /\ rd'[r].held = rd[r].held
                     /\ refcnt' = refcnt
                     /\ \/ rd'[r].idx = rd[r].idx
                        \/ rd'[r].idx = rd[r].idx + 1 /\ rd'[r].pc = "idle"
                     /\ rd'[r].pub \in {rd[r].pub, ReaderSlot(r).pub, NoFrame}
                     /\ rd'[r].buf \in {rd[r].buf, ReaderSlot(r).buf, NoBuf}
<1>2. ASSUME ReadBegin(r)
      PROVE  Common /\ rd'[r].pc = "route"
  <2>1. rd'[r] = [rd[r] EXCEPT !.pc = "route"] /\ refcnt' = refcnt
    BY <1>1, <1>2 DEF ReadBegin
  <2> QED  BY <1>1, <2>1 DEF ReaderType
<1>3. ASSUME ReadRoute(r)
      PROVE  Common /\ rd'[r].pc \in {"locked", "enter"}
  <2>1. \/ rd'[r] = [rd[r] EXCEPT !.pc = "locked"] /\ refcnt' = refcnt
        \/ rd'[r] = [rd[r] EXCEPT !.pc = "enter"] /\ refcnt' = refcnt
    BY <1>1, <1>3 DEF ReadRoute
  <2> QED  BY <1>1, <2>1 DEF ReaderType
<1> DEFINE gone == [rd[r] EXCEPT !.pc = "locked", !.s1 = 0, !.buf = NoBuf, !.pub = NoFrame]
           past == [rd[r] EXCEPT !.pc = "idle", !.s1 = 0, !.buf = NoBuf, !.pub = NoFrame,
                                 !.idx = @ + 1]
<1>4. ASSUME TakeEnter(r)
      PROVE  /\ Common
             /\ \/ rd'[r].pc = "locked"
                \/ /\ rd'[r].pc = "load" /\ rd'[r].s1 = ReaderSlot(r).seq
                   /\ ReaderSlot(r).seq % 2 # 1
  <2>1. /\ refcnt' = refcnt
        /\ \/ rd'[r] = gone
           \/ /\ rd'[r] = [rd[r] EXCEPT !.s1 = ReaderSlot(r).seq, !.pc = "load"]
              /\ ReaderSlot(r).seq % 2 # 1
    BY <1>1, <1>4 DEF TakeEnter, Leave
  <2> QED  BY <1>1, <2>1 DEF ReaderType
<1>5. ASSUME TakeLoad(r)
      PROVE  /\ Common /\ rd'[r].pc = "check" /\ rd'[r].s1 = rd[r].s1
             /\ rd'[r].buf = ReaderSlot(r).buf /\ rd'[r].pub = ReaderSlot(r).pub
  BY <1>1, <1>5 DEF TakeLoad, ReaderType
<1>6. ASSUME TakeCheck(r)
      PROVE  /\ Common
             /\ \/ rd'[r].pc = "locked"
                \/ rd'[r].pc = "idle" /\ rd[r].s1 = ReaderSlot(r).seq /\ rd[r].buf = NoBuf
                \/ /\ rd'[r].pc = "ref" /\ rd[r].buf # NoBuf
                   /\ rd'[r].s1 = rd[r].s1 /\ rd'[r].buf = rd[r].buf
                   /\ rd'[r].pub = rd[r].pub
  <2>1. /\ refcnt' = refcnt
        /\ \/ rd'[r] = gone
           \/ rd'[r] = past /\ rd[r].s1 = ReaderSlot(r).seq /\ rd[r].buf = NoBuf
           \/ rd'[r] = [rd[r] EXCEPT !.pc = "ref"] /\ rd[r].buf # NoBuf
    BY <1>1, <1>6 DEF TakeCheck, Leave, ReaderType
  <2> QED  BY <1>1, <2>1 DEF ReaderType
<1>7. /\ ReadBegin(r) => rd[r].att /\ rd[r].pc = "idle" /\ rd[r].idx < writeSeq
      /\ ReadRoute(r) => rd[r].pc = "route"
      /\ TakeEnter(r) => rd[r].pc = "enter"
      /\ TakeLoad(r) => rd[r].pc = "load"
      /\ TakeCheck(r) => rd[r].pc = "check"
  BY Zenon DEF ReadBegin, ReadRoute, TakeEnter, TakeLoad, TakeCheck
<1> HIDE DEF Common
<1>8. Common => /\ rd'[r].att = rd[r].att
                /\ rd'[r].got = rd[r].got /\ rd'[r].held = rd[r].held /\ refcnt' = refcnt
                /\ rd'[r].idx = rd[r].idx \/ (rd'[r].idx = rd[r].idx + 1 /\ rd'[r].pc = "idle")
                /\ rd'[r].pub \in {rd[r].pub, ReaderSlot(r).pub, NoFrame}
                /\ rd'[r].buf \in {rd[r].buf, ReaderSlot(r).buf, NoBuf}
  BY DEF Common
<1> QED  BY <1>2, <1>3, <1>4, <1>5, <1>6, <1>7, <1>8

LEMMA TakeStep ==
  ASSUME TypeOK, NEW r \in Readers
  PROVE  /\ TakeRef(r) =>
              /\ rd[r].pc = "ref" /\ rd'[r].got = rd[r].got /\ rd'[r].held = rd[r].held
              /\ rd'[r].idx = rd[r].idx
              /\ \/ /\ rd'[r].pc = "recheck" /\ rd'[r].s1 = rd[r].s1
                    /\ rd'[r].buf = rd[r].buf /\ rd'[r].pub = rd[r].pub
                    /\ refcnt[rd[r].buf] > 0 /\ refcnt' = Ref(refcnt, rd[r].buf)
                 \/ /\ rd'[r].pc = "locked" /\ refcnt' = refcnt
                    /\ rd'[r].pub = NoFrame /\ rd'[r].buf = NoBuf
         /\ TakeRecheck(r) =>
              /\ rd[r].pc = "recheck" /\ rd'[r].got = rd[r].got /\ rd'[r].held = rd[r].held
              /\ rd'[r].idx = rd[r].idx
              /\ \/ /\ rd'[r].pc = "confirm" /\ rd[r].s1 = ReaderSlot(r).seq
                    /\ rd'[r].buf = rd[r].buf /\ rd'[r].pub = rd[r].pub
                    /\ refcnt' = refcnt
                 \/ /\ rd'[r].pc = "locked" /\ refcnt' = Unref(refcnt, rd[r].buf)
                    /\ rd'[r].pub = NoFrame /\ rd'[r].buf = NoBuf
         /\ TakeConfirm(r) =>
              /\ rd[r].pc = "confirm" /\ rd'[r].pub = NoFrame /\ rd'[r].buf = NoBuf
              /\ \/ /\ rd'[r].pc = "locked" /\ refcnt' = Unref(refcnt, rd[r].buf)
                    /\ rd'[r].got = rd[r].got /\ rd'[r].held = rd[r].held
                    /\ rd'[r].idx = rd[r].idx
                 \/ /\ rd'[r].pc = "idle" /\ refcnt' = Unref(refcnt, rd[r].held)
                    /\ rd'[r].got = rd[r].pub /\ rd'[r].held = rd[r].buf
                    /\ rd'[r].idx = rd[r].idx + 1 /\ rd[r].idx >= oldestSeq
         /\ (TakeRef(r) \/ TakeRecheck(r) \/ TakeConfirm(r)) => rd'[r].att = rd[r].att
<1>1. /\ rd \in [Readers -> ReaderType] /\ rd[r] \in ReaderType
      /\ oldestSeq \in Nat /\ rd[r].idx \in Nat
  BY DEF TypeOK, ReaderType
<1> DEFINE gone == [rd[r] EXCEPT !.pc = "locked", !.s1 = 0, !.buf = NoBuf, !.pub = NoFrame]
           given == [rd[r] EXCEPT !.pc = "idle", !.s1 = 0, !.buf = NoBuf, !.pub = NoFrame,
                                  !.idx = @ + 1, !.held = rd[r].buf, !.got = rd[r].pub]
<1>2. ASSUME TakeRef(r)
      PROVE  /\ rd'[r].att = rd[r].att /\ rd[r].pc = "ref" /\ rd'[r].got = rd[r].got
             /\ rd'[r].held = rd[r].held /\ rd'[r].idx = rd[r].idx
             /\ \/ /\ rd'[r].pc = "recheck" /\ rd'[r].s1 = rd[r].s1
                   /\ rd'[r].buf = rd[r].buf /\ rd'[r].pub = rd[r].pub
                   /\ refcnt[rd[r].buf] > 0 /\ refcnt' = Ref(refcnt, rd[r].buf)
                \/ /\ rd'[r].pc = "locked" /\ refcnt' = refcnt
                   /\ rd'[r].pub = NoFrame /\ rd'[r].buf = NoBuf
  <2>1. /\ rd[r].pc = "ref"
        /\ \/ /\ refcnt[rd[r].buf] > 0 /\ refcnt' = Ref(refcnt, rd[r].buf)
              /\ rd'[r] = [rd[r] EXCEPT !.pc = "recheck"]
           \/ rd'[r] = gone /\ refcnt' = refcnt
    BY <1>1, <1>2 DEF TakeRef, Leave
  <2> QED  BY <1>1, <2>1 DEF ReaderType
<1>3. ASSUME TakeRecheck(r)
      PROVE  /\ rd'[r].att = rd[r].att /\ rd[r].pc = "recheck" /\ rd'[r].got = rd[r].got
             /\ rd'[r].held = rd[r].held /\ rd'[r].idx = rd[r].idx
             /\ \/ /\ rd'[r].pc = "confirm" /\ rd[r].s1 = ReaderSlot(r).seq
                   /\ rd'[r].buf = rd[r].buf /\ rd'[r].pub = rd[r].pub
                   /\ refcnt' = refcnt
                \/ /\ rd'[r].pc = "locked" /\ refcnt' = Unref(refcnt, rd[r].buf)
                   /\ rd'[r].pub = NoFrame /\ rd'[r].buf = NoBuf
  <2>1. /\ rd[r].pc = "recheck"
        /\ \/ /\ rd[r].s1 = ReaderSlot(r).seq /\ refcnt' = refcnt
              /\ rd'[r] = [rd[r] EXCEPT !.pc = "confirm"]
           \/ rd'[r] = gone /\ refcnt' = Unref(refcnt, rd[r].buf)
    BY <1>1, <1>3 DEF TakeRecheck, Leave
  <2> QED  BY <1>1, <2>1 DEF ReaderType
<1>4. ASSUME TakeConfirm(r)
      PROVE  /\ rd'[r].att = rd[r].att
             /\ rd[r].pc = "confirm" /\ rd'[r].pub = NoFrame /\ rd'[r].buf = NoBuf
             /\ \/ /\ rd'[r].pc = "locked" /\ refcnt' = Unref(refcnt, rd[r].buf)
                   /\ rd'[r].got = rd[r].got /\ rd'[r].held = rd[r].held
                   /\ rd'[r].idx = rd[r].idx
                \/ /\ rd'[r].pc = "idle" /\ refcnt' = Unref(refcnt, rd[r].held)
                   /\ rd'[r].got = rd[r].pub /\ rd'[r].held = rd[r].buf
                   /\ rd'[r].idx = rd[r].idx + 1 /\ rd[r].idx >= oldestSeq
  <2>1. /\ rd[r].pc = "confirm"
        /\ \/ rd'[r] = gone /\ refcnt' = Unref(refcnt, rd[r].buf)
           \/ /\ rd[r].idx >= oldestSeq /\ refcnt' = Unref(refcnt, rd[r].held)
              /\ rd'[r] = given
    BY <1>1, <1>4 DEF TakeConfirm, Leave, ReaderType
  <2> QED  BY <1>1, <2>1 DEF ReaderType
<1> QED  BY <1>2, <1>3, <1>4

\* The path under the mutex ends at an index the ring still has, not before
\* the cursor.
LEMMA LockedStep ==
  ASSUME IInv, StoreInv, NEW r \in Readers, TakeLocked(r)
  PROVE  /\ rd[r].pc = "locked" /\ wr.pc \notin LockedPcs
         /\ rd'[r].att = rd[r].att /\ rd'[r].pc = "idle"
         /\ rd'[r].s1 = rd[r].s1 /\ rd'[r].buf = rd[r].buf /\ rd'[r].pub = rd[r].pub
         /\ \E i \in Nat :
              /\ i >= rd[r].idx /\ i >= writeIdx - count
              /\ \/ /\ rd'[r].idx \in {i, i + 1} /\ refcnt' = refcnt
                    /\ rd'[r].got = rd[r].got /\ rd'[r].held = rd[r].held
                 \/ /\ i < writeIdx /\ rd'[r].idx = i + 1
                    /\ slot[SlotOf(i)].buf # NoBuf
                    /\ refcnt' = Unref(Ref(refcnt, slot[SlotOf(i)].buf), rd[r].held)
                    /\ rd'[r].held = slot[SlotOf(i)].buf
                    /\ rd'[r].got = slot[SlotOf(i)].pub
<1>1. /\ rd \in [Readers -> ReaderType] /\ rd[r] \in ReaderType /\ rd[r].idx \in Nat
      /\ writeIdx \in Nat /\ count \in Nat /\ count <= writeIdx
      /\ OldestIdx \in Nat /\ BeginningIdx \in Nat
  BY ReaderNumbers, OldestType, CapacityAssumption DEF IInv, TypeOK, RingInv
<1>2. PICK i \in {Clamped(r)} \cup SnappedTo(r) : TakeLockedAt(r, i)
  BY DEF TakeLocked
<1>3. wr.pc \notin LockedPcs
  BY <1>2 DEF TakeLockedAt, MutexFree
<1> DEFINE oldest == IF rd[r].beg THEN BeginningIdx ELSE OldestIdx
<1>4. oldest \in Nat /\ oldest >= writeIdx - count
  <2>1. count > 0 \/ writeIdx = 0
    BY <1>3 DEF StoreInv, SomeOk
  <2>2. BeginningIdx >= writeIdx - count
    BY <1>1, <2>1 DEF BeginningIdx, BeginningOf
  <2>3. OldestIdx >= writeIdx - count
    <3>1. gops # <<>> => gops[1].start \in Nat /\ writeIdx - gops[1].start <= count
      <4>1. gops \in Seq(Gop)
        BY DEF IInv, TypeOK
      <4> QED  BY <4>1, SeqFacts DEF IInv, RingInv
    <3> QED  BY <1>1, <3>1 DEF OldestIdx, OldestOf
  <2> QED  BY <1>1, <2>2, <2>3
<1>5. i \in Nat /\ i >= rd[r].idx /\ i >= oldest
  <2>1. CASE i = Clamped(r)
    <3>1. i = IF rd[r].idx < oldest THEN oldest ELSE rd[r].idx
      BY <2>1 DEF Clamped
    <3> HIDE DEF oldest
    <3>2. CASE rd[r].idx < oldest
      BY <1>1, <1>4, <3>1, <3>2
    <3>3. CASE ~(rd[r].idx < oldest)
      BY <1>1, <1>4, <3>1, <3>3
    <3> QED  BY <3>2, <3>3
  <2>2. CASE i \in SnappedTo(r)
    <3> DEFINE snap == IF gops # <<>> /\ gops[Len(gops)].start >= oldest
                       THEN gops[Len(gops)].start ELSE oldest
               syncs == {j \in snap..writeIdx-1 :
                           /\ slot[SlotOf(j)].buf # NoBuf
                           /\ VideoSync(slot[SlotOf(j)].pub.kind)}
    <3>1. i \in (IF rd[r].idx >= oldest THEN {rd[r].idx}
                 ELSE IF syncs = {} THEN {snap}
                 ELSE {k \in syncs : \A j \in syncs : k <= j})
      BY <2>2 DEF SnappedTo
    <3>2. \/ rd[r].idx >= oldest /\ i = rd[r].idx
          \/ ~(rd[r].idx >= oldest) /\ (i = snap \/ i \in snap..writeIdx-1)
      <4>1. CASE rd[r].idx >= oldest
        BY <3>1, <4>1
      <4>2. CASE ~(rd[r].idx >= oldest)
        <5>1. i = snap \/ i \in syncs
          BY <3>1, <4>2
        <5> QED  BY <4>2, <5>1
      <4> QED  BY <4>1, <4>2
    <3>3. snap \in Nat /\ snap >= oldest
      <4>1. gops # <<>> => gops[Len(gops)].start \in Nat
        <5>1. gops \in Seq(Gop)
          BY DEF IInv, TypeOK
        <5> QED  BY <5>1, SeqFacts
      <4> HIDE DEF oldest
      <4> QED  BY <1>4, <4>1
    <3> HIDE DEF snap, oldest
    <3> QED  BY <1>1, <1>4, <3>2, <3>3
  <2> QED  BY <1>2, <2>1, <2>2
<1> HIDE DEF oldest
<1>6. i >= writeIdx - count
  BY <1>1, <1>4, <1>5
<1>7. /\ rd[r].pc = "locked" /\ rd'[r].att = rd[r].att /\ rd'[r].pc = "idle"
      /\ rd'[r].s1 = rd[r].s1 /\ rd'[r].buf = rd[r].buf /\ rd'[r].pub = rd[r].pub
      /\ \/ /\ rd'[r].idx \in {i, i + 1} /\ refcnt' = refcnt
            /\ rd'[r].got = rd[r].got /\ rd'[r].held = rd[r].held
         \/ /\ i < writeIdx /\ rd'[r].idx = i + 1
            /\ slot[SlotOf(i)].buf # NoBuf
            /\ refcnt' = Unref(Ref(refcnt, slot[SlotOf(i)].buf), rd[r].held)
            /\ rd'[r].held = slot[SlotOf(i)].buf
            /\ rd'[r].got = slot[SlotOf(i)].pub
  <2>1. CASE /\ rd' = [rd EXCEPT ![r].pc = "idle", ![r].idx = i] /\ UNCHANGED refcnt
    BY <1>1, <1>2, <2>1 DEF TakeLockedAt, ReaderType
  <2>2. CASE /\ rd' = [rd EXCEPT ![r].pc = "idle", ![r].idx = i + 1] /\ UNCHANGED refcnt
    BY <1>1, <1>2, <2>2 DEF TakeLockedAt, ReaderType
  <2>3. CASE /\ i < writeIdx /\ slot[SlotOf(i)].buf # NoBuf
             /\ refcnt' = Unref(Ref(refcnt, slot[SlotOf(i)].buf), rd[r].held)
             /\ rd' = [rd EXCEPT ![r].pc = "idle", ![r].idx = i + 1,
                                 ![r].held = slot[SlotOf(i)].buf,
                                 ![r].got = slot[SlotOf(i)].pub]
    BY <1>1, <1>2, <2>3 DEF TakeLockedAt, ReaderType
  <2> QED  BY <1>2, <2>1, <2>2, <2>3 DEF TakeLockedAt
<1> QED  BY <1>3, <1>5, <1>6, <1>7

\* A reader's own steps.
LEMMA OwnLook ==
  ASSUME IInv, StoreInv, NEW r \in Readers, LookOk(r), Reader(r)
  PROVE  LookOk(r)'
<1> DEFINE S == slot[SlotOf(rd'[r].idx)]
<1>1. TypeOK /\ slot' = slot
  BY OneReader DEF IInv, readerOnly
<1>2. /\ ReaderSlot(r)' = S /\ rd[r].s1 \in Nat /\ ReaderSlot(r).seq \in Nat
      /\ ReaderSlot(r) = slot[SlotOf(rd[r].idx)]
  BY <1>1, ReaderNumbers, SlotFields DEF ReaderSlot
<1> HIDE DEF S
<1>3. rd'[r].idx = rd[r].idx => S = ReaderSlot(r)
  BY <1>2 DEF S
<1>4. CASE rd'[r].pc \in {"idle", "route", "enter", "locked"} /\ (rd'[r].pc # "idle" => rd'[r].att)
  BY <1>4 DEF LookOk, Looking, Loaded
<1>5. CASE (\E b \in BOOLEAN : Attach(r, b)) \/ Detach(r)
  BY <1>1, <1>4, <1>5, AttachStep DEF LookOk
<1>6. CASE ReadBegin(r) \/ ReadRoute(r)
  BY <1>1, <1>4, <1>6, LookStep DEF LookOk
<1>7. CASE TakeEnter(r)
  BY <1>1, <1>2, <1>3, <1>4, <1>7, LookStep DEF LookOk, Looking, Loaded
<1>8. CASE TakeLoad(r)
  BY <1>1, <1>2, <1>3, <1>8, LookStep DEF LookOk, Looking, Loaded
<1>9. CASE TakeCheck(r)
  BY <1>1, <1>2, <1>3, <1>4, <1>9, LookStep DEF LookOk, Looking, Loaded
<1>10. CASE TakeRef(r)
  BY <1>1, <1>2, <1>3, <1>4, <1>10, TakeStep DEF LookOk, Looking, Loaded
<1>11. CASE TakeRecheck(r)
  BY <1>1, <1>2, <1>3, <1>4, <1>11, TakeStep DEF LookOk, Looking, Loaded
<1>12. CASE TakeConfirm(r)
  BY <1>1, <1>4, <1>12, TakeStep DEF LookOk
<1>13. CASE TakeLocked(r)
  BY <1>4, <1>13, LockedStep
<1> QED
  BY <1>5, <1>6, <1>7, <1>8, <1>9, <1>10, <1>11, <1>12, <1>13 DEF Reader, Take

LEMMA OwnKnown ==
  ASSUME IInv, StoreInv, NEW r \in Readers, KnownOk(r), Reader(r)
  PROVE  KnownOk(r)'
<1> DEFINE Old(f) == \/ f = rd[r].got \/ f = rd[r].pub \/ f = NoFrame
                    \/ \E s \in Slots : f = slot[s].pub
<1>1. TypeOK /\ UNCHANGED <<wr, total>> /\ total \in Nat
  BY OneReader DEF IInv, readerOnly, envVars, TypeOK
<1>2. wr.pc \in Before => total > 0
  BY DEF StoreInv, NumOk, Before
<1>3. ASSUME NEW f, Old(f) PROVE f.n <= total /\ (wr.pc \in Before => f.n < total)
  BY <1>1, <1>2, <1>3 DEF StoreInv, NumOk, KnownOk, NoFrame
<1>4. \E s \in Slots : ReaderSlot(r).pub = slot[s].pub
  BY <1>1, ReaderNumbers
<1>5. Old(rd'[r].got) /\ Old(rd'[r].pub)
  <2>1. CASE (\E b \in BOOLEAN : Attach(r, b)) \/ Detach(r)
    BY <1>1, <2>1, AttachStep
  <2>2. CASE ReadBegin(r) \/ ReadRoute(r) \/ TakeEnter(r) \/ TakeLoad(r) \/ TakeCheck(r)
    BY <1>1, <1>4, <2>2, LookStep
  <2>3. CASE TakeRef(r) \/ TakeRecheck(r) \/ TakeConfirm(r)
    BY <1>1, <2>3, TakeStep
  <2>4. CASE TakeLocked(r)
    <3>1. /\ rd'[r].pub = rd[r].pub
          /\ \/ rd'[r].got = rd[r].got
             \/ \E i \in Nat : rd'[r].got = slot[SlotOf(i)].pub
      BY <2>4, LockedStep
    <3>2. \A i \in Nat : SlotOf(i) \in Slots
      BY SlotOfType DEF Slots
    <3> QED  BY <3>1, <3>2
  <2> QED  BY <2>1, <2>2, <2>3, <2>4 DEF Reader, Take
<1> HIDE DEF Old
<1> QED  BY <1>1, <1>3, <1>5 DEF KnownOk

\* The frame of an index the ring still has is the one in its slot.
LEMMA StillThere ==
  ASSUME IInv, StoreInv, NEW i \in Nat, i < writeIdx, writeIdx < i + Capacity,
         wr.pc \notin Stored
  PROVE  Filled(SlotOf(i)) /\ slot[SlotOf(i)].pub.i = i
<1>1. writeIdx \in Nat /\ SlotOf(i) \in Slots /\ slot[SlotOf(i)].pub.i \in Nat
      /\ Capacity \in Nat
  BY SlotFields, SlotOfType, CapacityAssumption DEF IInv, TypeOK, Slots
<1>2. Filled(SlotOf(i)) /\ slot[SlotOf(i)].pub.i >= i
  BY <1>1 DEF StoreInv, PubOk
<1>3. SlotOf(slot[SlotOf(i)].pub.i) = SlotOf(i) /\ slot[SlotOf(i)].pub.i < writeIdx
  BY <1>1, <1>2 DEF StoreInv, PubOk
<1>4. ~(slot[SlotOf(i)].pub.i > i)
  BY <1>1, <1>3, LapApart
<1> QED  BY <1>1, <1>2, <1>4

\* The frame a reader found under an unchanged counter is the slot's, and the
\* writer is not in the slot.
LEMMA RecheckFound ==
  ASSUME IInv, StoreInv, NEW r \in Readers, LookOk(r), TakeRecheck(r),
         rd'[r].pc = "confirm"
  PROVE  LET s == SlotOf(rd[r].idx)
             p == slot[s].pub
         IN /\ rd[r].pc = "recheck" /\ rd'[r].got = rd[r].got /\ rd'[r].idx = rd[r].idx
            /\ rd'[r].pub = p /\ s \in Slots /\ Filled(s)
            /\ p.n \in Nat /\ p.i \in Nat /\ p.i < writeIdx + 1
            /\ \A t \in Slots : Filled(t) /\ p.i < slot[t].pub.i => p.n < slot[t].pub.n
            /\ p.i > rd[r].idx => p.i >= rd[r].idx + Capacity
            /\ rd[r].idx < writeSeq => p.i >= rd[r].idx
<1> DEFINE s == SlotOf(rd[r].idx)
           p == slot[s].pub
<1>1. TypeOK
  BY DEF IInv
<1>2. /\ rd[r].pc = "recheck" /\ rd'[r].got = rd[r].got /\ rd'[r].idx = rd[r].idx
      /\ rd[r].s1 = slot[s].seq /\ rd'[r].pub = rd[r].pub
  BY <1>1, TakeStep, ReaderNumbers
<1>3. /\ s \in Slots /\ rd[r].idx \in Nat
      /\ writeIdx \in Nat /\ writeSeq \in Nat /\ Capacity \in Nat
      /\ p.n \in Nat /\ p.i \in Nat
      /\ ReaderSlot(r) = slot[s]
  BY <1>1, ReaderNumbers, SlotFields, CapacityAssumption DEF TypeOK
<1>4. rd[r].pub = p /\ slot[s].buf # NoBuf /\ slot[s].seq % 2 = 0
  BY <1>2, <1>3 DEF LookOk, Looking, Loaded
<1>5. Filled(s)
  <2>1. ~(s = SlotOf(writeIdx) /\ wr.pc = "storepub")
    BY <1>3, <1>4 DEF StoreInv, SeqOk, Odd
  <2> QED  BY <1>3, <1>4, <2>1 DEF StoreInv, PubOk
<1>6. /\ SlotOf(p.i) = s /\ p.i < writeIdx + 1
      /\ \A t \in Slots : Filled(t) /\ p.i < slot[t].pub.i => p.n < slot[t].pub.n
  BY <1>3, <1>5 DEF StoreInv, PubOk
<1>7. writeSeq <= writeIdx
  BY <1>3 DEF StoreInv, SeqOk
<1>8. rd[r].idx < writeSeq => p.i >= rd[r].idx
  BY <1>3, <1>7 DEF StoreInv, PubOk
<1>9. p.i > rd[r].idx => p.i >= rd[r].idx + Capacity
  BY <1>3, <1>6, LapApart
<1> QED  BY <1>2, <1>3, <1>4, <1>5, <1>6, <1>8, <1>9

\* It is younger than the reader's last one, and older than what the slots show
\* behind the cursor.
LEMMA RecheckNew ==
  ASSUME IInv, StoreInv, NEW r \in Readers, LookOk(r), NewOk(r), TakeRecheck(r),
         rd'[r].pc = "confirm"
  PROVE  NewOk(r)'
<1> DEFINE s == SlotOf(rd[r].idx)
           p == slot[s].pub
<1>1. TypeOK /\ UNCHANGED <<slot, wr, writeIdx, writeSeq>>
  BY DEF IInv, TakeRecheck, readerOnly, ringVars
<1>2. /\ rd[r].pc = "recheck" /\ rd'[r].got = rd[r].got /\ rd'[r].idx = rd[r].idx
      /\ rd'[r].pub = p /\ s \in Slots /\ Filled(s)
      /\ p.n \in Nat /\ p.i \in Nat /\ p.i < writeIdx + 1
      /\ \A t \in Slots : Filled(t) /\ p.i < slot[t].pub.i => p.n < slot[t].pub.n
      /\ p.i > rd[r].idx => p.i >= rd[r].idx + Capacity
      /\ rd[r].idx < writeSeq => p.i >= rd[r].idx
  BY RecheckFound
<1>3. /\ rd[r].idx \in Nat /\ rd[r].got.n \in Nat
      /\ writeIdx \in Nat /\ Capacity \in Nat
      /\ \A t \in Slots : slot[t].pub.n \in Nat /\ slot[t].pub.i \in Nat
  BY <1>1, ReaderNumbers, SlotFields, CapacityAssumption DEF TypeOK
<1>4. p.n > rd[r].got.n
  BY <1>2, <1>3 DEF NewOk, Looking
<1>5. \/ rd[r].idx + Capacity <= writeIdx
      \/ \A t \in Slots : Filled(t) =>
             p.n < slot[t].pub.n \/ slot[t].pub.i <= rd[r].idx
  <2>1. CASE p.i > rd[r].idx
    BY <1>2, <1>3, <2>1
  <2>2. CASE ~(p.i > rd[r].idx)
    BY <1>2, <1>3, <2>2
  <2> QED  BY <2>1, <2>2
<1> HIDE DEF p, s
<1>6. \A t \in Slots : Filled(t)' <=> Filled(t)
  BY <1>1 DEF Filled
<1>7. \A t \in Slots : Filled(t)' =>
          rd'[r].got.n < slot'[t].pub.n \/ slot'[t].pub.i < rd'[r].idx
  BY <1>1, <1>2, <1>6 DEF NewOk
<1> QED  BY <1>1, <1>2, <1>4, <1>5, <1>6, <1>7 DEF NewOk, Looking

\* The frame is the reader's: what the slots still show is younger or passed.
LEMMA GivenNew ==
  ASSUME IInv, RoomInv, StoreInv, NEW r \in Readers, NewOk(r),
         TakeConfirm(r) \/ TakeLocked(r)
  PROVE  NewOk(r)'
<1>1. TypeOK /\ UNCHANGED <<slot, wr, writeIdx, writeSeq>>
  BY DEF IInv, TakeConfirm, TakeLocked, TakeLockedAt, readerOnly, ringVars
<1>2. /\ rd[r].idx \in Nat /\ rd[r].got.n \in Nat /\ rd[r].pub.n \in Nat
      /\ writeIdx \in Nat /\ count \in Nat /\ oldestSeq \in Nat /\ Capacity \in Nat
      /\ count < Capacity /\ writeIdx - oldestSeq <= count
      /\ \A t \in Slots : slot[t].pub.n \in Nat /\ slot[t].pub.i \in Nat
  BY <1>1, ReaderNumbers, SlotFields, CapacityAssumption DEF TypeOK, RoomInv
<1>3. \A t \in Slots : Filled(t)' <=> Filled(t)
  BY <1>1 DEF Filled
<1>4. rd'[r].pc \in {"idle", "locked"}
  BY <1>1, TakeStep, LockedStep
<1>5. ASSUME NEW t \in Slots, Filled(t)
      PROVE  rd'[r].got.n < slot[t].pub.n \/ slot[t].pub.i < rd'[r].idx
  <2>1. rd[r].got.n < slot[t].pub.n \/ slot[t].pub.i < rd[r].idx
    BY <1>5 DEF NewOk
  <2>2. CASE rd'[r].got = rd[r].got /\ rd'[r].idx = rd[r].idx
    BY <2>1, <2>2
  <2>3. CASE TakeConfirm(r)
    <3>1. CASE rd'[r].got = rd[r].pub /\ rd'[r].idx = rd[r].idx + 1
               /\ rd[r].idx >= oldestSeq /\ rd[r].pc = "confirm"
      <4>1. rd[r].idx + Capacity > writeIdx
        BY <1>2, <3>1
      <4>2. rd[r].pub.n < slot[t].pub.n \/ slot[t].pub.i <= rd[r].idx
        BY <1>2, <1>5, <3>1, <4>1 DEF NewOk
      <4> QED  BY <1>2, <3>1, <4>2
    <3> QED  BY <1>1, <2>2, <2>3, <3>1, TakeStep
  <2>4. CASE TakeLocked(r)
    <3>1. PICK i \in Nat :
            /\ i >= rd[r].idx /\ i >= writeIdx - count
            /\ \/ /\ rd'[r].idx \in {i, i + 1} /\ rd'[r].got = rd[r].got
               \/ /\ i < writeIdx /\ rd'[r].idx = i + 1
                  /\ rd'[r].got = slot[SlotOf(i)].pub
      BY <2>4, LockedStep
    <3>2. CASE rd'[r].idx \in {i, i + 1} /\ rd'[r].got = rd[r].got
      BY <1>2, <2>1, <3>1, <3>2
    <3>3. CASE /\ i < writeIdx /\ rd'[r].idx = i + 1
               /\ rd'[r].got = slot[SlotOf(i)].pub
      <4>1. wr.pc \notin Stored
        BY <2>4, LockedStep DEF Stored, LockedPcs
      <4>2. Filled(SlotOf(i)) /\ slot[SlotOf(i)].pub.i = i /\ SlotOf(i) \in Slots
        BY <1>2, <3>1, <3>3, <4>1, StillThere, SlotOfType DEF Slots
      <4>3. slot[t].pub.i > i => slot[SlotOf(i)].pub.n < slot[t].pub.n
        BY <1>5, <4>2 DEF StoreInv, PubOk
      <4> QED  BY <1>2, <3>1, <3>3, <4>3
    <3> QED  BY <3>1, <3>2, <3>3
  <2> QED  BY <2>3, <2>4
<1> QED  BY <1>1, <1>3, <1>4, <1>5 DEF NewOk, Looking

LEMMA OwnNew ==
  ASSUME IInv, RoomInv, StoreInv, NEW r \in Readers, LookOk(r), NewOk(r), Reader(r)
  PROVE  NewOk(r)'
<1>1. TypeOK /\ UNCHANGED <<slot, wr, writeIdx, writeSeq>>
  BY OneReader DEF IInv, readerOnly, ringVars
<1>2. /\ rd[r].idx \in Nat /\ rd[r].got.n \in Nat
      /\ \A t \in Slots : slot[t].pub.n \in Nat /\ slot[t].pub.i \in Nat
  BY <1>1, ReaderNumbers, SlotFields
<1>3. \A t \in Slots : Filled(t)' <=> Filled(t)
  BY <1>1 DEF Filled
<1>4. CASE (\E b \in BOOLEAN : Attach(r, b)) \/ Detach(r)
  <2>1. /\ rd'[r].pc = "idle"
        /\ \/ rd'[r].got = NoFrame
           \/ rd'[r].got = rd[r].got /\ rd'[r].idx = rd[r].idx
    BY <1>1, <1>4, AttachStep DEF LookOk
  <2>2. \A t \in Slots : Filled(t) =>
          rd'[r].got.n < slot[t].pub.n \/ slot[t].pub.i < rd'[r].idx
    BY <2>1 DEF NewOk, NoFrame, Filled
  <2> QED  BY <1>1, <1>3, <2>1, <2>2 DEF NewOk, Looking
<1>5. CASE \/ ReadBegin(r) \/ ReadRoute(r) \/ TakeEnter(r) \/ TakeLoad(r) \/ TakeCheck(r)
           \/ TakeRef(r) \/ (TakeRecheck(r) /\ rd'[r].pc # "confirm")
  <2>1. /\ rd'[r].got = rd[r].got
        /\ \/ rd'[r].idx = rd[r].idx
           \/ rd'[r].idx = rd[r].idx + 1 /\ rd'[r].pc = "idle"
        /\ rd'[r].pc # "confirm"
        /\ rd'[r].pc \in {"route", "enter"} \cup Looking =>
              /\ rd'[r].idx = rd[r].idx
              /\ \/ rd[r].pc \in {"route", "enter"} \cup Looking
                 \/ rd[r].idx < writeSeq
    BY <1>1, <1>5, LookStep, TakeStep DEF Looking
  <2>2. \A t \in Slots : Filled(t) =>
          rd'[r].got.n < slot[t].pub.n \/ slot[t].pub.i < rd'[r].idx
    BY <1>2, <2>1 DEF NewOk
  <2> QED  BY <1>1, <1>3, <2>1, <2>2 DEF NewOk
<1>6. CASE TakeRecheck(r) /\ rd'[r].pc = "confirm"
  BY <1>6, RecheckNew
<1>7. CASE TakeConfirm(r) \/ TakeLocked(r)
  BY <1>7, GivenNew
<1> QED  BY <1>4, <1>5, <1>6, <1>7 DEF Reader, Take

\* The steps of other readers.
LEMMA OtherRead ==
  ASSUME NEW r \in Readers, LookOk(r), KnownOk(r), NewOk(r), rd'[r] = rd[r],
         UNCHANGED <<slot, wr, writeIdx, writeSeq, total>>
  PROVE  LookOk(r)' /\ KnownOk(r)' /\ NewOk(r)'
BY DEF LookOk, KnownOk, NewOk, Filled, ReaderSlot

\* The whole invariant.
FrameInv == IInv /\ WInv /\ StoreInv /\ ReadInv

LEMMA NextFrame ==
  ASSUME ShortGops, FrameInv, [Next]_vars
  PROVE  FrameInv'
<1>1. IInv' /\ WInv'
  BY NextInv, NextWInv DEF FrameInv
<1>2. IInv /\ RunInv /\ RoomInv /\ StoreInv
  BY DEF FrameInv, WInv
<1>3. \A r \in Readers : LookOk(r) /\ KnownOk(r) /\ NewOk(r)
  BY DEF FrameInv, ReadInv
<1>4. CASE Writer \/ SetVideoConfig \/ Clear
  <2>1. WriterStep
    BY <1>4, WriterSteps
  <2>2. StoreInv'
    BY <1>1, <1>2, <2>1, WriterStore
  <2>3. \A r \in Readers : LookOk(r)' /\ KnownOk(r)' /\ NewOk(r)'
    BY <1>2, <1>3, <2>1, WriterLook, WriterKnown, WriterNew
  <2> QED  BY <1>1, <2>2, <2>3 DEF FrameInv, ReadInv
<1>5. ASSUME NEW r \in Readers, Reader(r) PROVE FrameInv'
  <2>1. /\ UNCHANGED <<slot, wr, writeIdx, writeSeq, count, total>>
        /\ \A q \in Readers \ {r} : rd'[q] = rd[q]
    BY <1>2, <1>5, OneReader DEF IInv, readerOnly, ringVars, envVars
  <2>2. StoreInv'
    BY <1>2, <2>1, IdleStore
  <2>3. \A q \in Readers \ {r} : LookOk(q)' /\ KnownOk(q)' /\ NewOk(q)'
    BY <1>3, <2>1, OtherRead
  <2>4. LookOk(r)' /\ KnownOk(r)' /\ NewOk(r)'
    BY <1>2, <1>3, <1>5, OwnLook, OwnKnown, OwnNew
  <2> QED  BY <1>1, <2>2, <2>3, <2>4 DEF FrameInv, ReadInv
<1>6. CASE UNCHANGED vars
  <2>1. UNCHANGED <<slot, wr, writeIdx, writeSeq, count, total, rd>>
    BY <1>6 DEF vars, ringVars, envVars
  <2>2. StoreInv'
    BY <1>2, <2>1, IdleStore
  <2>3. \A r \in Readers : LookOk(r)' /\ KnownOk(r)' /\ NewOk(r)'
    BY <1>3, <2>1, OtherRead
  <2> QED  BY <1>1, <2>2, <2>3 DEF FrameInv, ReadInv
<1> QED  BY <1>4, <1>5, <1>6 DEF Next

\* The slots, the counters and every reader's cursor fit together in every
\* reachable state.
THEOREM FrameInvariant == ASSUME ShortGops PROVE Spec => []FrameInv
<1>1. Init => FrameInv
  BY InitInv, InitWInv, InitStore, InitRead DEF FrameInv
<1>2. FrameInv /\ [Next]_vars => FrameInv'
  BY NextFrame
<1> QED  BY <1>1, <1>2, PTL DEF Spec
-----------------------------------------------------------------------------
(* The theorems.                                                           *)

\* Only these two steps give a reader a frame.
LEMMA GivesFrame ==
  ASSUME FrameInv, [Next]_vars, NEW r \in Readers,
         rd'[r].got # rd[r].got, rd'[r].got # NoFrame
  PROVE  TakeConfirm(r) \/ TakeLocked(r)
<1>1. TypeOK /\ IInv
  BY DEF FrameInv, IInv
<1>2. Reader(r)
  <2>1. CASE Writer \/ SetVideoConfig \/ Clear
    BY <1>1, <2>1, WriterSteps, QuietSteps, LoudSteps DEF WriterStep
  <2>2. ASSUME NEW q \in Readers, Reader(q) PROVE Reader(r)
    BY <1>1, <2>2, OneReader
  <2>3. CASE UNCHANGED vars
    BY <2>3 DEF vars
  <2> QED  BY <2>1, <2>2, <2>3 DEF Next
<1> QED  BY <1>1, <1>2, AttachStep, LookStep, TakeStep DEF Reader, Take

\* A step that gives a reader a frame gives it a younger one.
LEMMA GivesYounger ==
  ASSUME FrameInv, [Next]_vars
  PROVE  InOrderStep
<1> SUFFICES ASSUME NEW r \in Readers, rd'[r].got # rd[r].got, rd'[r].got # NoFrame
             PROVE  rd'[r].got.n > rd[r].got.n
  BY DEF InOrderStep
<1>1. TypeOK /\ StoreInv /\ IInv /\ NewOk(r) /\ RoomInv
  BY DEF FrameInv, IInv, ReadInv, WInv
<1>3. TakeConfirm(r) \/ TakeLocked(r)
  BY GivesFrame
<1>4. CASE TakeConfirm(r)
  BY <1>1, <1>4, TakeStep DEF NewOk
<1>5. CASE TakeLocked(r)
  <2>1. PICK i \in Nat :
          /\ i >= rd[r].idx /\ i >= writeIdx - count /\ i < writeIdx
          /\ rd'[r].got = slot[SlotOf(i)].pub
    BY <1>5, <1>1, LockedStep
  <2>2. /\ writeIdx \in Nat /\ count \in Nat /\ Capacity \in Nat /\ count < Capacity
        /\ rd[r].idx \in Nat /\ SlotOf(i) \in Slots
    <3>1. rd[r].idx \in Nat
      BY <1>1, ReaderNumbers
    <3>2. SlotOf(i) \in Slots
      BY SlotOfType DEF Slots
    <3>3. writeIdx \in Nat /\ count \in 0..Capacity /\ count < Capacity
      BY <1>1 DEF TypeOK, RoomInv
    <3> QED  BY <3>1, <3>2, <3>3, CapacityAssumption
  <2>3. wr.pc \notin Stored
    BY <1>1, <1>5, LockedStep DEF Stored, LockedPcs
  <2>4. Filled(SlotOf(i)) /\ slot[SlotOf(i)].pub.i = i
    BY <1>1, <2>1, <2>2, <2>3, StillThere
  <2>5. ~(slot[SlotOf(i)].pub.i < rd[r].idx)
    BY <2>1, <2>2, <2>4
  <2>6. rd[r].got.n < slot[SlotOf(i)].pub.n
    BY <1>1, <2>2, <2>4, <2>5 DEF NewOk
  <2>7. rd[r].got.n \in Nat /\ slot[SlotOf(i)].pub.n \in Nat
    BY <1>1, <2>2, ReaderNumbers, SlotFields
  <2> QED  BY <2>1, <2>6, <2>7
<1> QED  BY <1>3, <1>4, <1>5

\* A reader gets frames in the order they were committed, each at most once,
\* through slow-reader clamps and snaps, laps of the ring and clears, although
\* most of its steps run without the mutex.
THEOREM FramesInOrder == ASSUME ShortGops PROVE Spec => InOrder
<1>1. FrameInv /\ [Next]_vars => InOrderStep
  BY GivesYounger
<1>2. FrameInv /\ [Next]_vars => [InOrderStep]_vars
  BY <1>1
<1> QED  BY <1>2, FrameInvariant, PTL DEF Spec, InOrder
-----------------------------------------------------------------------------
(* The frame of the cursor.  A clear sets write_idx back under readers that *)
(* keep their cursor: what is said here holds until one meets a reader half *)
(* way through a lock-free take.                                            *)

\* What a clear has met stays met, and meeting nobody it met nobody half way.
LEMMA MetGrows ==
  ASSUME TypeOK, [Next]_vars
  PROVE  /\ met \subseteq met'
         /\ Clear => /\ wr.pc \in {"idle", "fill", "commit"} /\ UNCHANGED <<wr, rd, data>>
                     /\ "writer" \notin met' /\ wr.pc # "idle" =>
                           \A s \in Slots : slot[s].buf # wr.buf
                     /\ "reader" \notin met' =>
                           \A r \in Readers : rd[r].pc \in {"idle", "locked"}
<1>1. ASSUME Clear
      PROVE  /\ met \subseteq met'
             /\ wr.pc \in {"idle", "fill", "commit"} /\ UNCHANGED <<wr, rd, data>>
             /\ "writer" \notin met' /\ wr.pc # "idle" =>
                   \A s \in Slots : slot[s].buf # wr.buf
             /\ "reader" \notin met' =>
                   \A r \in Readers : rd[r].pc \in {"idle", "locked"}
  <2>1. /\ wr.pc \in {"idle", "fill", "commit"} /\ UNCHANGED <<wr, rd>>
        /\ DOMAIN slot = Slots
    BY <1>1, LoudSteps, SlotFields
  <2>2. /\ data' = data
        /\ met' = met \cup {w \in {"writer"} : Lent}
                      \cup {x \in {"reader"} : \E r \in Readers : MidTake(r)}
    BY <1>1 DEF Clear
  <2>3. "writer" \notin met' => ~Lent
    BY <2>2
  <2>4. "reader" \notin met' => ~\E r \in Readers : MidTake(r)
    BY <2>2
  <2> QED  BY <2>1, <2>2, <2>3, <2>4 DEF Lent, MidTake
<1>2. CASE ~Clear
  <2>1. CASE Writer
    BY <1>2, <2>1
    DEF Writer, Commit, AllocWrite, FillBuf, RejectEmpty, DropFrame, BeginCommit, FirstGop,
        RoomForGop, AppendGop, MakeRoom, PublishBegin, StoreBuf, StorePub, PublishEnd,
        Grace, Advance, Trim, EndCommit, envVars
  <2>2. CASE SetVideoConfig
    BY <1>2, <2>2 DEF SetVideoConfig, envVars
  <2>3. ASSUME NEW r \in Readers, Reader(r) PROVE met' = met
    BY <2>3, OneReader DEF readerOnly, envVars
  <2>4. CASE UNCHANGED vars
    BY <1>2, <2>4 DEF vars, envVars
  <2> QED  BY <1>2, <2>1, <2>2, <2>3, <2>4 DEF Next
<1> QED  BY <1>1, <1>2

\* A take begins behind write_seq.  The frame about to be confirmed is the
\* cursor's, unless the writer has lapped the cursor (oldest_seq tells so).
CursorOk(r) ==
    /\ rd[r].pc \notin {"idle", "locked"} => rd[r].idx < writeSeq
    /\ rd[r].pc = "confirm" =>
          rd[r].pub.i = rd[r].idx \/ rd[r].idx + Capacity <= writeIdx

CursorInv == \A r \in Readers : CursorOk(r)

LEMMA NextCursor ==
  ASSUME FrameInv, CursorInv, [Next]_vars, "reader" \notin met'
  PROVE  CursorInv'
<1> SUFFICES ASSUME NEW r \in Readers PROVE CursorOk(r)'
  BY DEF CursorInv
<1>1. /\ IInv /\ TypeOK /\ StoreInv /\ LookOk(r) /\ CursorOk(r)
      /\ writeIdx \in Nat /\ writeSeq \in Nat /\ Capacity \in Nat /\ rd[r].idx \in Nat
  BY ReaderNumbers, CapacityAssumption DEF FrameInv, IInv, TypeOK, ReadInv, CursorInv
<1>2. CASE rd'[r] = rd[r] /\ writeIdx' = writeIdx /\ writeSeq' = writeSeq
  BY <1>1, <1>2 DEF CursorOk
<1>6. CASE Clear
  <2>1. rd' = rd /\ rd[r].pc \in {"idle", "locked"}
    BY <1>1, <1>6, MetGrows
  <2> QED  BY <2>1 DEF CursorOk
<1>3. CASE (Writer \/ SetVideoConfig) /\ ~Clear
  <2>1. ~Clear
    BY <1>3
  <2>2. WriterStep /\ rd' = rd
    BY <1>1, <1>3, WriterSteps, QuietSteps, LoudSteps DEF WriterStep
  <2>3. CASE Advance
    <3>1. writeIdx' = writeIdx + 1 /\ writeSeq' = writeSeq
      BY <1>1, <2>3, LoudSteps
    <3> QED  BY <1>1, <2>2, <3>1 DEF CursorOk
  <2>4. CASE EndCommit
    <3>1. writeIdx' = writeIdx /\ writeSeq' = writeSeq + 1
      BY <1>1, <2>4, LoudSteps DEF StoreInv, SeqOk
    <3> QED  BY <1>1, <2>2, <3>1 DEF CursorOk
  <2>5. CASE ~Advance /\ ~EndCommit
    <3>1. writeIdx' = writeIdx /\ writeSeq' = writeSeq
      BY <1>1, <2>1, <2>2, <2>5, QuietSteps, LoudSteps DEF WriterStep
    <3> QED  BY <1>2, <2>2, <3>1
  <2> QED  BY <2>3, <2>4, <2>5
<1>4. ASSUME NEW q \in Readers, Reader(q) PROVE CursorOk(r)'
  <2>1. UNCHANGED <<writeIdx, writeSeq>> /\ (q # r => rd'[r] = rd[r])
    BY <1>1, <1>4, OneReader DEF readerOnly, ringVars
  <2>2. CASE q # r
    BY <1>2, <2>1, <2>2
  <2>3. CASE q = r /\ TakeRecheck(r) /\ rd'[r].pc = "confirm"
    <3> DEFINE p == slot[SlotOf(rd[r].idx)].pub
    <3>1. /\ rd[r].pc = "recheck" /\ rd'[r].idx = rd[r].idx /\ rd'[r].pub = p
          /\ p.i \in Nat /\ p.i < writeIdx + 1
          /\ p.i > rd[r].idx => p.i >= rd[r].idx + Capacity
          /\ rd[r].idx < writeSeq => p.i >= rd[r].idx
      BY <1>1, <2>3, RecheckFound
    <3> HIDE DEF p
    <3>2. rd[r].idx < writeSeq
      BY <1>1, <3>1 DEF CursorOk
    <3>3. p.i = rd[r].idx \/ rd[r].idx + Capacity <= writeIdx
      BY <1>1, <3>1, <3>2
    <3> QED  BY <2>1, <3>1, <3>2, <3>3 DEF CursorOk
  <2>4. CASE q = r /\ ~(TakeRecheck(r) /\ rd'[r].pc = "confirm")
    <3>1. /\ rd'[r].pc # "confirm"
          /\ rd'[r].pc \notin {"idle", "locked"} =>
                /\ rd'[r].idx = rd[r].idx
                /\ rd[r].pc \notin {"idle", "locked"} \/ rd[r].idx < writeSeq
      <4>1. CASE (\E b \in BOOLEAN : Attach(r, b)) \/ Detach(r)
        BY <1>1, <4>1, AttachStep DEF LookOk
      <4>2. CASE \/ ReadBegin(r) \/ ReadRoute(r) \/ TakeEnter(r) \/ TakeLoad(r)
                 \/ TakeCheck(r)
        BY <1>1, <4>2, LookStep
      <4>3. CASE TakeRef(r) \/ TakeRecheck(r) \/ TakeConfirm(r)
        BY <1>1, <2>4, <4>3, TakeStep
      <4>4. CASE TakeLocked(r)
        BY <1>1, <4>4, LockedStep
      <4> QED  BY <1>4, <2>4, <4>1, <4>2, <4>3, <4>4 DEF Reader, Take
    <3> QED  BY <1>1, <2>1, <3>1 DEF CursorOk
  <2> QED  BY <2>2, <2>3, <2>4
<1>5. CASE UNCHANGED vars
  BY <1>2, <1>5 DEF vars, ringVars
<1> QED  BY <1>3, <1>4, <1>5, <1>6 DEF Next

\* A step that gives a reader a frame gives it its cursor's.
LEMMA GivesOwn ==
  ASSUME FrameInv, "reader" \notin met => CursorInv, [Next]_vars
  PROVE  TakesItsSlotStep
<1> SUFFICES ASSUME "reader" \notin met,
                    NEW r \in Readers, rd'[r].got # rd[r].got, rd'[r].got # NoFrame
             PROVE  rd'[r].idx = rd'[r].got.i + 1
  BY DEF TakesItsSlotStep
<1>1. TypeOK /\ StoreInv /\ IInv /\ CursorOk(r) /\ RoomInv
  BY DEF FrameInv, IInv, CursorInv, WInv
<1>2. /\ writeIdx \in Nat /\ count \in Nat /\ Capacity \in Nat /\ count < Capacity
      /\ rd[r].idx \in Nat /\ oldestSeq \in Nat /\ writeIdx - oldestSeq <= count
  BY <1>1, ReaderNumbers, CapacityAssumption DEF TypeOK, RoomInv
<1>3. TakeConfirm(r) \/ TakeLocked(r)
  BY GivesFrame
<1>4. CASE TakeConfirm(r)
  <2>1. /\ rd[r].pc = "confirm" /\ rd'[r].got = rd[r].pub /\ rd'[r].idx = rd[r].idx + 1
        /\ rd[r].idx >= oldestSeq
    BY <1>1, <1>4, TakeStep
  <2>2. ~(rd[r].idx + Capacity <= writeIdx)
    BY <1>2, <2>1
  <2> QED  BY <1>1, <2>1, <2>2 DEF CursorOk
<1>5. CASE TakeLocked(r)
  <2>1. PICK i \in Nat :
          /\ i >= writeIdx - count /\ i < writeIdx /\ rd'[r].idx = i + 1
          /\ rd'[r].got = slot[SlotOf(i)].pub
    BY <1>5, <1>1, LockedStep
  <2>2. wr.pc \notin Stored
    BY <1>1, <1>5, LockedStep DEF Stored, LockedPcs
  <2>3. slot[SlotOf(i)].pub.i = i
    BY <1>1, <1>2, <2>1, <2>2, StillThere
  <2> QED  BY <2>1, <2>3
<1> QED  BY <1>3, <1>4, <1>5

\* What a reader takes is the frame committed at its cursor, never the frame
\* that overwrote the slot while the reader looked at it without the mutex, until
\* a clear meets a reader half way.
THEOREM FrameOfTheCursor == ASSUME ShortGops PROVE Spec => TakesItsSlot
<1> DEFINE CInv == "reader" \notin met => CursorInv
<1>1. Init => CInv
  BY DEF Init, CursorInv, CursorOk
<1>2. FrameInv /\ CInv /\ [Next]_vars => CInv'
  <2> SUFFICES ASSUME FrameInv, CInv, [Next]_vars, "reader" \notin met'
               PROVE  CursorInv'
    OBVIOUS
  <2>1. "reader" \notin met
    BY MetGrows DEF FrameInv, IInv
  <2> QED  BY <2>1, NextCursor
<1>3. FrameInv /\ CInv /\ [Next]_vars => [TakesItsSlotStep]_vars
  BY GivesOwn
<1> QED  BY <1>1, <1>2, <1>3, FrameInvariant, PTL DEF Spec, TakesItsSlot
-----------------------------------------------------------------------------
(* The buffers.                                                            *)

\* RejectEmpty releases the buffer of a slot that lent it (AllocWrite), so the
\* count of a buffer is exact as long as nobody offers an empty payload.
NoEmpty == "empty" \notin Kinds

\* The writer's frame is not in its slot yet ...
Unstored == {"fill", "commit", "firstgop", "roomgop", "makeroom", "storebuf"}
\* ... or it is, and not yet counted.
Uncounted == {"storepub", "stable", "grace", "advance"}

\* The buffer in the writer's hand is at most in the slot that lent it, then
\* just there, and the slot's former buffer is in the other hand until nobody
\* can be looking at it.
HandOk ==
    /\ IF wr.pc = "idle" THEN wr.buf = NoBuf
       ELSE wr.buf \in Bufs /\ wr.frame.kind # "empty"
    /\ wr.pc \notin {"storebuf", "storepub", "stable", "grace"} => wr.old = NoBuf
    /\ wr.pc = "storebuf" => wr.old = IF SlotBuf = wr.buf THEN NoBuf ELSE SlotBuf
    /\ wr.pc \in Unstored =>
          \A s \in Slots : slot[s].buf = wr.buf => s = SlotOf(writeIdx)
    /\ wr.pc \in Uncounted => SlotBuf = wr.buf
    /\ wr.pc = "trim" => \E s \in Slots : slot[s].buf = wr.buf

\* Before the cache starts the ring has been filled from its first slot on,
\* nothing was ever overwritten, and no slot lends its buffer.
StartOk ==
    ~cacheStarted =>
      /\ wr.pc # "firstgop" => writeIdx + InFlight <= run
      /\ \A s \in Slots : slot[s].buf # NoBuf =>
            s < writeIdx \/ (s = writeIdx /\ wr.pc \in Uncounted)
      /\ wr.pc \in {"fill", "commit"} => \A s \in Slots : slot[s].buf # wr.buf

BufInv == HandOk /\ StartOk /\ RefsCounted

\* What a reader is about to reference is in a slot, or in the writer's other
\* hand waiting for the reader to leave.
TouchOk(r) ==
    (rd[r].pc \in {"check", "ref"} /\ rd[r].buf # NoBuf) =>
        \/ \E s \in Slots : slot[s].buf = rd[r].buf
        \/ wr.old = rd[r].buf /\ wr.pc \in {"storepub", "stable", "grace"}

\* The payload of a slot's buffer is the slot's frame, except while the slot at
\* write_idx is refilled: then it is the frame in the writer's hand.
Refilling == {"commit", "firstgop", "roomgop", "makeroom", "storebuf", "storepub"}
DataOk ==
    /\ \A s \in Slots : slot[s].buf # NoBuf =>
          \/ data[slot[s].buf] = slot[s].pub.n
          \/ s = SlotOf(writeIdx) /\ wr.pc \in Refilling
    /\ wr.pc \in Refilling => data[wr.buf] = wr.frame.n

\* The payload of the frame a reader holds, or may still confirm, is that frame,
\* and it is not the one the writer is about to fill.
HeldOk(r) ==
    /\ ~rd[r].att => rd[r].held = NoBuf
    /\ rd[r].held # NoBuf => /\ data[rd[r].held] = rd[r].got.n
                             /\ wr.pc = "fill" => rd[r].held # wr.buf
    /\ rd[r].pc = "confirm" =>
          \/ rd[r].idx + Capacity <= writeIdx
          \/ /\ data[rd[r].buf] = rd[r].pub.n
             /\ wr.pc = "fill" => rd[r].buf # wr.buf

TouchInv == \A r \in Readers : TouchOk(r)
HeldInv == \A r \in Readers : HeldOk(r)

\* The two hands of the writer in each of its steps.
LEMMA HandSteps ==
  ASSUME TypeOK
  PROVE  /\ FillBuf => /\ wr.pc = "fill" /\ wr'.pc = "commit"
                       /\ wr'.buf = wr.buf /\ wr'.old = wr.old /\ wr'.frame = wr.frame
                       /\ refcnt' = refcnt
                       /\ data' = [data EXCEPT ![wr.buf] = wr.frame.n]
         /\ RejectEmpty => wr.pc = "commit" /\ wr.frame.kind = "empty"
         /\ DropFrame => /\ wr.pc = "commit" /\ wr'.pc = "idle" /\ ~cacheStarted
                         /\ wr'.buf = NoBuf /\ wr'.old = wr.old
                         /\ refcnt' = Unref(refcnt, wr.buf)
         /\ BeginCommit => wr.pc = "commit" /\ wr'.pc \in {"makeroom", "firstgop", "roomgop"}
         /\ FirstGop \/ RoomForGop \/ AppendGop \/ MakeRoom =>
              /\ wr.pc \in {"makeroom", "firstgop", "roomgop"}
              /\ wr'.pc \in {"makeroom", "firstgop", "roomgop"}
         /\ Trim => wr.pc = "trim" /\ wr'.pc = "trim"
         /\ (BeginCommit \/ FirstGop \/ RoomForGop \/ AppendGop \/ MakeRoom \/ Trim
               \/ StoreBuf \/ StorePub \/ PublishEnd \/ Advance) =>
              /\ wr'.buf = wr.buf /\ wr'.old = wr.old /\ wr'.frame.kind = wr.frame.kind
              /\ wr'.frame.n = wr.frame.n
              /\ refcnt' = refcnt
         /\ PublishEnd => (wr'.pc = "advance" <=> wr.old = NoBuf)
         /\ PublishBegin => /\ wr'.buf = wr.buf /\ refcnt' = refcnt
                            /\ wr'.frame = wr.frame
                            /\ wr'.old = IF SlotBuf = wr.buf THEN NoBuf ELSE SlotBuf
         /\ Grace => /\ wr.pc = "grace" /\ wr'.pc = "advance"
                     /\ wr'.buf = wr.buf /\ wr'.old = NoBuf /\ wr'.frame = wr.frame
                     /\ refcnt' = Unref(refcnt, wr.old)
         /\ EndCommit => wr'.buf = NoBuf /\ wr'.old = wr.old /\ refcnt' = refcnt
         /\ SetVideoConfig => wr.pc = "idle" /\ wr' = wr /\ refcnt' = refcnt
         /\ WriterStep /\ ~FillBuf => data' = data
<1>1. wr \in WriterType /\ wr.frame \in Frame
  BY DEF TypeOK, WriterType
<1>2. ASSUME FillBuf
      PROVE  /\ wr.pc = "fill" /\ wr'.pc = "commit"
             /\ wr'.buf = wr.buf /\ wr'.old = wr.old /\ wr'.frame = wr.frame
             /\ refcnt' = refcnt
             /\ data' = [data EXCEPT ![wr.buf] = wr.frame.n]
  BY <1>1, <1>2 DEF FillBuf, WriterType
<1>3. RejectEmpty => wr.pc = "commit" /\ wr.frame.kind = "empty"
  BY DEF RejectEmpty
<1>4. ASSUME DropFrame
      PROVE  /\ wr.pc = "commit" /\ wr'.pc = "idle" /\ ~cacheStarted
             /\ wr'.buf = NoBuf /\ wr'.old = wr.old
             /\ refcnt' = Unref(refcnt, wr.buf)
  <2>1. ~cacheStarted
    BY <1>4, Zenon DEF DropFrame, Storable
  <2>2. /\ wr.pc = "commit" /\ refcnt' = Unref(refcnt, wr.buf)
        /\ wr' = [wr EXCEPT !.pc = "idle", !.buf = NoBuf, !.frame = NoFrame]
    BY <1>4, Zenon DEF DropFrame
  <2> QED  BY <1>1, <2>1, <2>2 DEF WriterType
<1>5. ASSUME BeginCommit
      PROVE  /\ wr.pc = "commit" /\ wr'.pc \in {"makeroom", "firstgop", "roomgop"}
             /\ wr'.buf = wr.buf /\ wr'.old = wr.old /\ wr'.frame.kind = wr.frame.kind
             /\ wr'.frame.n = wr.frame.n /\ refcnt' = refcnt
  BY <1>1, <1>5 DEF BeginCommit, WriterType, Frame, bufVars
<1>6. ASSUME FirstGop \/ RoomForGop \/ AppendGop \/ MakeRoom
      PROVE  /\ wr.pc \in {"makeroom", "firstgop", "roomgop"}
             /\ wr'.pc \in {"makeroom", "firstgop", "roomgop"}
             /\ wr'.buf = wr.buf /\ wr'.old = wr.old /\ wr'.frame = wr.frame
             /\ refcnt' = refcnt
  <2>1. CASE FirstGop \/ AppendGop
    BY <1>1, <2>1 DEF FirstGop, AppendGop, WriterType, bufVars
  <2>2. CASE RoomForGop \/ MakeRoom
    BY <2>2 DEF RoomForGop, MakeRoom, bufVars
  <2> QED  BY <1>6, <2>1, <2>2
<1>7. Trim => wr.pc = "trim" /\ wr' = wr /\ refcnt' = refcnt
  BY DEF Trim, bufVars
<1>8. ASSUME StoreBuf \/ StorePub \/ Advance
      PROVE  /\ wr'.buf = wr.buf /\ wr'.old = wr.old /\ wr'.frame = wr.frame
             /\ refcnt' = refcnt
  BY <1>1, <1>8 DEF StoreBuf, StorePub, Advance, WriterType, bufVars
<1>9. ASSUME PublishEnd
      PROVE  /\ wr'.buf = wr.buf /\ wr'.old = wr.old /\ wr'.frame = wr.frame
             /\ refcnt' = refcnt
             /\ wr'.pc = IF wr.old = NoBuf THEN "advance" ELSE "grace"
  BY <1>1, <1>9 DEF PublishEnd, WriterType, bufVars
<1>10. ASSUME PublishBegin
       PROVE  /\ wr'.buf = wr.buf /\ refcnt' = refcnt /\ wr'.frame = wr.frame
              /\ wr'.old = IF SlotBuf = wr.buf THEN NoBuf ELSE SlotBuf
  BY <1>1, <1>10 DEF PublishBegin, WriterType, bufVars
<1>11. ASSUME Grace
       PROVE  /\ wr.pc = "grace" /\ wr'.pc = "advance" /\ wr'.frame = wr.frame
              /\ wr'.buf = wr.buf /\ wr'.old = NoBuf /\ refcnt' = Unref(refcnt, wr.old)
  BY <1>1, <1>11 DEF Grace, WriterType
<1>12. ASSUME EndCommit
       PROVE  wr'.buf = NoBuf /\ wr'.old = wr.old /\ refcnt' = refcnt
  BY <1>1, <1>12 DEF EndCommit, WriterType, bufVars
<1>13. SetVideoConfig => wr.pc = "idle" /\ wr' = wr /\ refcnt' = refcnt
  BY DEF SetVideoConfig, bufVars
<1>14. ASSUME WriterStep, ~FillBuf PROVE data' = data
  BY <1>14
  DEF WriterStep, Quiet, AllocWrite, RejectEmpty, DropFrame, BeginCommit, FirstGop,
      RoomForGop, AppendGop, MakeRoom, Grace, Trim, SetVideoConfig, PublishBegin,
      StoreBuf, StorePub, PublishEnd, Advance, EndCommit, Clear, bufVars
<1>15. PublishEnd => (wr'.pc = "advance" <=> wr.old = NoBuf)
  BY <1>9
<1> QED
  BY <1>2, <1>3, <1>4, <1>5, <1>6, <1>7, <1>8, <1>9, <1>10, <1>11, <1>12, <1>13, <1>14,
     <1>15
-----------------------------------------------------------------------------
(* Counting the owners of a buffer.                                        *)

InSlots(b) == {s \in DOMAIN slot : slot[s].buf = b}
Holding(b) == {r \in Readers : rd[r].held = b}
Taking(b) == {r \in Readers : rd[r].pc \in {"recheck", "confirm"} /\ rd[r].buf = b}
InHands(b) == (IF wr.buf = b /\ InSlots(b) = {} THEN 1 ELSE 0)
              + (IF wr.old = b /\ wr.pc # "storebuf" THEN 1 ELSE 0)

\* The owners of b are counted by natural numbers.
OwnersAdd(b) ==
    /\ Owners(b) = Cardinality(InSlots(b)) + Cardinality(Holding(b))
                     + Cardinality(Taking(b)) + InHands(b)
    /\ Cardinality(InSlots(b)) \in Nat /\ Cardinality(Holding(b)) \in Nat
    /\ Cardinality(Taking(b)) \in Nat /\ InHands(b) \in Nat

LEMMA OwnerCounts ==
  ASSUME TypeOK, NEW b
  PROVE  /\ Owners(b) = Cardinality(InSlots(b)) + Cardinality(Holding(b))
                         + Cardinality(Taking(b)) + InHands(b)
         /\ IsFiniteSet(InSlots(b)) /\ IsFiniteSet(Holding(b)) /\ IsFiniteSet(Taking(b))
         /\ Cardinality(InSlots(b)) \in Nat /\ Cardinality(Holding(b)) \in Nat
         /\ Cardinality(Taking(b)) \in Nat /\ InHands(b) \in Nat
         /\ InSlots(b) = {s \in Slots : slot[s].buf = b}
<1>1. DOMAIN slot = Slots
  BY SlotFields
<1>2. IsFiniteSet(Slots)
  BY FS_Interval, CapacityAssumption DEF Slots
<1>3. IsFiniteSet(InSlots(b))
  BY <1>1, <1>2, FS_Subset DEF InSlots
<1>4. IsFiniteSet(Holding(b)) /\ IsFiniteSet(Taking(b))
  BY ReaderAssumption, FS_Subset DEF Holding, Taking
<1>5. /\ Cardinality(InSlots(b)) \in Nat /\ Cardinality(Holding(b)) \in Nat
      /\ Cardinality(Taking(b)) \in Nat /\ InHands(b) \in Nat
  BY <1>3, <1>4, FS_CardinalityType DEF InHands
<1>6. Owners(b) = Cardinality(InSlots(b)) + Cardinality(Holding(b))
                  + Cardinality(Taking(b)) + InHands(b)
  <2> DEFINE x == IF wr.buf = b /\ InSlots(b) = {} THEN 1 ELSE 0
             y == IF wr.old = b /\ wr.pc # "storebuf" THEN 1 ELSE 0
             c == Cardinality(InSlots(b))
             h == Cardinality(Holding(b))
             t == Cardinality(Taking(b))
  <2>1. Owners(b) = c + h + t + x + y
    BY DEF Owners, InSlots, Holding, Taking
  <2>2. InHands(b) = x + y /\ x \in Nat /\ y \in Nat
    BY DEF InHands
  <2>3. c \in Nat /\ h \in Nat /\ t \in Nat
    BY <1>5
  <2> HIDE DEF x, y, c, h, t
  <2>4. Owners(b) = c + h + t + InHands(b)
    BY <2>1, <2>2, <2>3
  <2> QED  BY <2>4 DEF c, h, t
<1> QED  BY <1>1, <1>3, <1>4, <1>5, <1>6 DEF InSlots

LEMMA OwnerSums == TypeOK => \A b : OwnersAdd(b)
  BY OwnerCounts DEF OwnersAdd

LEMMA NextOwnerSums == TypeOK' => (\A b : OwnersAdd(b))'
  BY OwnerSums, PTL

\* Two finite sets that differ at most in x.
LEMMA CardStep ==
  ASSUME NEW S, NEW T, NEW x, IsFiniteSet(S), S \ {x} = T \ {x}
  PROVE  /\ IsFiniteSet(T)
         /\ Cardinality(T) + (IF x \in S THEN 1 ELSE 0)
              = Cardinality(S) + (IF x \in T THEN 1 ELSE 0)
<1>1. IsFiniteSet(S \ {x}) /\ Cardinality(S \ {x}) \in Nat
      /\ Cardinality(S \ {x}) = Cardinality(S) - (IF x \in S THEN 1 ELSE 0)
      /\ Cardinality(S) \in Nat
  BY FS_RemoveElement, FS_CardinalityType
<1>2. IsFiniteSet(T)
  <2>1. CASE x \in T
    <3>1. T = (S \ {x}) \cup {x}
      BY <2>1
    <3> QED  BY <1>1, <3>1, FS_AddElement
  <2>2. CASE x \notin T
    <3>1. T = S \ {x}
      BY <2>2
    <3> QED  BY <1>1, <3>1
  <2> QED  BY <2>1, <2>2
<1>3. /\ Cardinality(T \ {x}) = Cardinality(T) - (IF x \in T THEN 1 ELSE 0)
      /\ Cardinality(T) \in Nat
  BY <1>2, FS_RemoveElement, FS_CardinalityType
<1>4. Cardinality(S) - (IF x \in S THEN 1 ELSE 0)
        = Cardinality(T) - (IF x \in T THEN 1 ELSE 0)
  BY <1>1, <1>3
<1> DEFINE c == Cardinality(S)
           d == Cardinality(T)
<1> HIDE DEF c, d
<1>5. ASSUME c \in Nat, d \in Nat,
             c - (IF x \in S THEN 1 ELSE 0) = d - (IF x \in T THEN 1 ELSE 0)
      PROVE  d + (IF x \in S THEN 1 ELSE 0) = c + (IF x \in T THEN 1 ELSE 0)
  BY <1>5
<1> QED  BY <1>1, <1>2, <1>3, <1>4, <1>5 DEF c, d

\* Reference counts after one reference more or less.
LEMMA RefValue ==
  ASSUME NEW rc \in [Bufs -> Int], NEW x \in Bufs \cup {NoBuf}, NEW b \in Bufs
  PROVE  /\ Unref(rc, x)[b] = rc[b] - (IF x = b THEN 1 ELSE 0)
         /\ x # NoBuf => Ref(rc, x)[b] = rc[b] + (IF x = b THEN 1 ELSE 0)
<1>1. rc[b] \in Int
  OBVIOUS
<1>2. CASE x = NoBuf
  BY <1>1, <1>2, BufAssumption DEF Unref
<1>3. CASE x # NoBuf
  BY <1>1, <1>3 DEF Unref, Ref
<1> QED  BY <1>2, <1>3

\* At most one slot changes its buffer.
LEMMA SlotCount ==
  ASSUME TypeOK, TypeOK', NEW w \in Slots, NEW b,
         \A s \in Slots \ {w} : slot'[s].buf = slot[s].buf
  PROVE  Cardinality(InSlots(b)') + (IF slot[w].buf = b THEN 1 ELSE 0)
           = Cardinality(InSlots(b)) + (IF slot'[w].buf = b THEN 1 ELSE 0)
<1> DEFINE S == {s \in Slots : slot[s].buf = b}
           T == {s \in Slots : slot'[s].buf = b}
<1>1. InSlots(b) = S /\ IsFiniteSet(S)
  BY OwnerCounts
<1>2. InSlots(b)' = T
  <2>1. DOMAIN slot' = Slots
    BY DEF TypeOK, Slots
  <2> QED  BY <2>1 DEF InSlots
<1>3. S \ {w} = T \ {w}
  OBVIOUS
<1>4. (w \in S <=> slot[w].buf = b) /\ (w \in T <=> slot'[w].buf = b)
  OBVIOUS
<1> HIDE DEF S, T
<1>5. Cardinality(T) + (IF w \in S THEN 1 ELSE 0)
        = Cardinality(S) + (IF w \in T THEN 1 ELSE 0)
  BY <1>1, <1>3, CardStep
<1> QED  BY <1>1, <1>2, <1>4, <1>5

\* A reader that holds or takes b.
Holds(r, b) == IF rd[r].held = b THEN 1 ELSE 0
Takes(r, b) == IF rd[r].pc \in {"recheck", "confirm"} /\ rd[r].buf = b THEN 1 ELSE 0

\* At most one reader changes what it holds or takes.
LEMMA ReaderCount ==
  ASSUME TypeOK, NEW r \in Readers, NEW b, \A q \in Readers \ {r} : rd'[q] = rd[q]
  PROVE  /\ Cardinality(Holding(b)') + Holds(r, b) = Cardinality(Holding(b)) + Holds(r, b)'
         /\ Cardinality(Taking(b)') + Takes(r, b) = Cardinality(Taking(b)) + Takes(r, b)'
<1>1. IsFiniteSet(Holding(b)) /\ IsFiniteSet(Taking(b))
  BY OwnerCounts
<1>2. Holding(b) \ {r} = Holding(b)' \ {r}
  BY DEF Holding
<1>3. Taking(b) \ {r} = Taking(b)' \ {r}
  BY DEF Taking
<1>4. /\ Holds(r, b) = IF r \in Holding(b) THEN 1 ELSE 0
      /\ Holds(r, b)' = IF r \in Holding(b)' THEN 1 ELSE 0
  BY DEF Holds, Holding
<1>5. /\ Takes(r, b) = IF r \in Taking(b) THEN 1 ELSE 0
      /\ Takes(r, b)' = IF r \in Taking(b)' THEN 1 ELSE 0
  BY DEF Takes, Taking
<1>6. Cardinality(Holding(b)') + (IF r \in Holding(b) THEN 1 ELSE 0)
        = Cardinality(Holding(b)) + (IF r \in Holding(b)' THEN 1 ELSE 0)
  BY <1>1, <1>2, CardStep
<1>7. Cardinality(Taking(b)') + (IF r \in Taking(b) THEN 1 ELSE 0)
        = Cardinality(Taking(b)) + (IF r \in Taking(b)' THEN 1 ELSE 0)
  BY <1>1, <1>3, CardStep
<1> QED  BY <1>4, <1>5, <1>6, <1>7

\* A reader's own steps: it counts what it takes and what it gives back.
LEMMA ReaderRefs ==
  ASSUME IInv, IInv', StoreInv, NEW r \in Readers, LookOk(r), Reader(r), RefsCounted
  PROVE  RefsCounted'
<1> SUFFICES ASSUME NEW b \in Bufs PROVE refcnt'[b] = Owners(b)'
  BY DEF RefsCounted
<1>1. TypeOK /\ TypeOK' /\ refcnt \in [Bufs -> Int] /\ refcnt[b] \in Int
  BY DEF IInv, TypeOK
<1>2. /\ UNCHANGED <<slot, wr>> /\ \A q \in Readers \ {r} : rd'[q] = rd[q]
  BY <1>1, OneReader DEF readerOnly
<1>3. /\ rd[r].held \in Bufs \cup {NoBuf} /\ rd[r].buf \in Bufs \cup {NoBuf}
      /\ \A i \in Nat : SlotOf(i) \in Slots /\ slot[SlotOf(i)].buf \in Bufs \cup {NoBuf}
  <2>1. rd[r] \in ReaderType
    BY <1>1, ReaderNumbers
  <2>2. \A i \in Nat : SlotOf(i) \in Slots
    BY SlotOfType DEF Slots
  <2> QED  BY <1>1, <2>1, <2>2, SlotFields DEF ReaderType
<1> DEFINE H == Holds(r, b)
           T == Takes(r, b)
           HH == Holds(r, b)'
           TT == Takes(r, b)'
<1>4. H \in {0, 1} /\ T \in {0, 1} /\ HH \in {0, 1} /\ TT \in {0, 1}
  BY DEF Holds, Takes
<1>5. refcnt'[b] = refcnt[b] + (HH - H) + (TT - T)
  <2>1. CASE \E g \in BOOLEAN : Attach(r, g)
    BY <1>1, <1>4, <2>1, AttachStep DEF Holds, Takes
  <2>2. CASE Detach(r)
    <3>1. /\ rd[r].pc = "idle" /\ rd'[r].pc = "idle" /\ rd'[r].held = NoBuf
          /\ refcnt' = Unref(refcnt, rd[r].held)
      BY <1>1, <2>2, AttachStep
    <3>2. HH = 0 /\ TT = 0 /\ T = 0
      BY <3>1, BufAssumption DEF Holds, Takes
    <3>3. refcnt'[b] = refcnt[b] - H
      BY <1>1, <1>3, <3>1, RefValue DEF Holds
    <3> QED  BY <1>1, <1>4, <3>2, <3>3
  <2>3. CASE ReadBegin(r) \/ ReadRoute(r) \/ TakeEnter(r) \/ TakeLoad(r) \/ TakeCheck(r)
    <3>1. /\ rd'[r].held = rd[r].held /\ refcnt' = refcnt
          /\ rd[r].pc \notin {"recheck", "confirm"} /\ rd'[r].pc \notin {"recheck", "confirm"}
      BY <1>1, <2>3, LookStep
    <3> QED  BY <1>1, <3>1 DEF Holds, Takes
  <2>4. CASE TakeRef(r)
    <3>1. rd[r].pc = "ref" /\ rd'[r].held = rd[r].held /\ T = 0 /\ HH = H
      BY <1>1, <2>4, TakeStep DEF Takes, Holds
    <3>2. CASE rd'[r].pc = "recheck"
      <4>1. rd'[r].buf = rd[r].buf /\ refcnt' = Ref(refcnt, rd[r].buf)
        BY <1>1, <2>4, <3>2, TakeStep
      <4>2. rd[r].buf # NoBuf
        BY <3>1 DEF LookOk
      <4>3. refcnt'[b] = refcnt[b] + (IF rd[r].buf = b THEN 1 ELSE 0)
        BY <1>1, <1>3, <4>1, <4>2, RefValue
      <4>4. TT = IF rd[r].buf = b THEN 1 ELSE 0
        BY <3>2, <4>1 DEF Takes
      <4> QED  BY <1>1, <1>4, <3>1, <4>3, <4>4
    <3>3. CASE rd'[r].pc # "recheck"
      <4>1. rd'[r].pc = "locked" /\ refcnt' = refcnt
        BY <1>1, <2>4, <3>3, TakeStep
      <4>2. TT = 0
        BY <4>1 DEF Takes
      <4> QED  BY <1>1, <1>4, <3>1, <4>1, <4>2
    <3> QED  BY <3>2, <3>3
  <2>5. CASE TakeRecheck(r)
    <3>1. rd[r].pc = "recheck" /\ HH = H /\ T = IF rd[r].buf = b THEN 1 ELSE 0
      BY <1>1, <2>5, TakeStep DEF Takes, Holds
    <3>2. CASE rd'[r].pc = "confirm"
      <4>1. rd'[r].buf = rd[r].buf /\ refcnt' = refcnt
        BY <1>1, <2>5, <3>2, TakeStep
      <4>2. TT = T
        BY <3>1, <3>2, <4>1 DEF Takes
      <4> QED  BY <1>1, <1>4, <3>1, <4>1, <4>2
    <3>3. CASE rd'[r].pc # "confirm"
      <4>1. rd'[r].pc = "locked" /\ refcnt' = Unref(refcnt, rd[r].buf)
        BY <1>1, <2>5, <3>3, TakeStep
      <4>2. TT = 0
        BY <4>1 DEF Takes
      <4>3. refcnt'[b] = refcnt[b] - T
        BY <1>1, <1>3, <3>1, <4>1, RefValue
      <4> QED  BY <1>1, <1>4, <3>1, <4>2, <4>3
    <3> QED  BY <3>2, <3>3
  <2>6. CASE TakeConfirm(r)
    <3>1. rd[r].pc = "confirm" /\ T = IF rd[r].buf = b THEN 1 ELSE 0
      BY <1>1, <2>6, TakeStep DEF Takes
    <3>2. CASE rd'[r].pc = "idle"
      <4>1. rd'[r].held = rd[r].buf /\ refcnt' = Unref(refcnt, rd[r].held)
        BY <1>1, <2>6, <3>2, TakeStep
      <4>2. TT = 0 /\ HH = T
        BY <3>1, <3>2, <4>1 DEF Takes, Holds
      <4>3. refcnt'[b] = refcnt[b] - H
        BY <1>1, <1>3, <4>1, RefValue DEF Holds
      <4> QED  BY <1>1, <1>4, <4>2, <4>3
    <3>3. CASE rd'[r].pc # "idle"
      <4>1. /\ rd'[r].pc = "locked" /\ refcnt' = Unref(refcnt, rd[r].buf)
            /\ rd'[r].held = rd[r].held
        BY <1>1, <2>6, <3>3, TakeStep
      <4>2. TT = 0 /\ HH = H
        BY <4>1 DEF Takes, Holds
      <4>3. refcnt'[b] = refcnt[b] - T
        BY <1>1, <1>3, <3>1, <4>1, RefValue
      <4> QED  BY <1>1, <1>4, <4>2, <4>3
    <3> QED  BY <3>2, <3>3
  <2>7. CASE TakeLocked(r)
    <3>1. T = 0 /\ TT = 0
      BY <2>7, LockedStep DEF Takes
    <3>2. CASE refcnt' = refcnt /\ rd'[r].held = rd[r].held
      BY <1>1, <1>4, <3>1, <3>2 DEF Holds
    <3>3. CASE ~(refcnt' = refcnt /\ rd'[r].held = rd[r].held)
      <4>1. PICK i \in Nat :
              /\ slot[SlotOf(i)].buf # NoBuf
              /\ refcnt' = Unref(Ref(refcnt, slot[SlotOf(i)].buf), rd[r].held)
              /\ rd'[r].held = slot[SlotOf(i)].buf
        BY <2>7, <3>3, LockedStep
      <4> DEFINE x == slot[SlotOf(i)].buf
      <4>2. x \in Bufs \cup {NoBuf} /\ x # NoBuf
        BY <1>3, <4>1
      <4> HIDE DEF x
      <4>3. /\ Ref(refcnt, x) \in [Bufs -> Int]
            /\ Ref(refcnt, x)[b] = refcnt[b] + (IF x = b THEN 1 ELSE 0)
        BY <1>1, <4>2, RefType, RefValue
      <4>4. refcnt'[b] = Ref(refcnt, x)[b] - (IF rd[r].held = b THEN 1 ELSE 0)
        BY <1>3, <4>1, <4>3, RefValue DEF x
      <4>5. HH = IF x = b THEN 1 ELSE 0
        BY <4>1 DEF Holds, x
      <4>6. H = IF rd[r].held = b THEN 1 ELSE 0
        BY DEF Holds
      <4> HIDE DEF H, HH, T, TT
      <4> QED  BY <1>1, <1>4, <3>1, <4>3, <4>4, <4>5, <4>6
    <3> QED  BY <3>2, <3>3
  <2> QED
    BY <2>1, <2>2, <2>3, <2>4, <2>5, <2>6, <2>7 DEF Reader, Take
<1>6. /\ Cardinality(Holding(b)') + H = Cardinality(Holding(b)) + HH
      /\ Cardinality(Taking(b)') + T = Cardinality(Taking(b)) + TT
  BY <1>1, <1>2, ReaderCount
<1>7. /\ Owners(b) = Cardinality(InSlots(b)) + Cardinality(Holding(b))
                       + Cardinality(Taking(b)) + InHands(b)
      /\ Cardinality(InSlots(b)) \in Nat /\ Cardinality(Holding(b)) \in Nat
      /\ Cardinality(Taking(b)) \in Nat /\ InHands(b) \in Nat
  BY <1>1, OwnerCounts
<1>8. /\ Owners(b)' = Cardinality(InSlots(b)') + Cardinality(Holding(b)')
                        + Cardinality(Taking(b)') + InHands(b)'
      /\ Cardinality(Holding(b)') \in Nat /\ Cardinality(Taking(b)') \in Nat
  BY <1>1, NextOwnerSums DEF OwnersAdd
<1>9. InSlots(b)' = InSlots(b) /\ InHands(b)' = InHands(b)
  BY <1>2 DEF InSlots, InHands
<1>10. refcnt[b] = Owners(b)
  BY DEF RefsCounted
<1> HIDE DEF H, HH, T, TT
<1> QED  BY <1>1, <1>4, <1>5, <1>6, <1>7, <1>8, <1>9, <1>10

\* The writer's steps move references between its hands and the slots.
LEMMA WriterCount ==
  ASSUME TypeOK, TypeOK', rd' = rd, NEW b
  PROVE  Owners(b)' - Owners(b) = (Cardinality(InSlots(b)') - Cardinality(InSlots(b)))
                                   + (InHands(b)' - InHands(b))
<1>1. OwnersAdd(b) /\ OwnersAdd(b)'
  BY OwnerSums, NextOwnerSums
<1>2. Holding(b)' = Holding(b) /\ Taking(b)' = Taking(b)
  BY DEF Holding, Taking
<1> QED  BY <1>1, <1>2 DEF OwnersAdd

\* What a commit takes from the pool, or borrows from its slot.
LEMMA AllocRefs ==
  ASSUME TypeOK, TypeOK', BufInv, NEW k \in Kinds, NEW d \in Dts, AllocWrite(k, d)
  PROVE  /\ RefsCounted'
         /\ wr'.buf \in Bufs /\ wr'.old = NoBuf /\ wr'.frame.kind = k
         /\ \A s \in Slots : slot[s].buf = wr'.buf =>
               s = SlotOf(writeIdx) /\ SlotBuf = wr'.buf
<1>1. wr \in WriterType /\ refcnt \in [Bufs -> Int] /\ SlotOf(writeIdx) \in Slots
  BY SlotFields DEF TypeOK
<1>2. wr.pc = "idle" /\ wr.buf = NoBuf /\ wr.old = NoBuf
  BY DEF AllocWrite, BufInv, HandOk
<1>3. PICK x \in Bufs :
        /\ wr' = [wr EXCEPT !.pc = "fill", !.buf = x,
                            !.frame = [n |-> total + 1, i |-> 0, kind |-> k, dts |-> d]]
        /\ \/ Reusable(SlotBuf) /\ x = SlotBuf /\ refcnt' = refcnt
           \/ refcnt[x] = 0 /\ refcnt' = Ref(refcnt, x)
  BY AllocPicks
<1>4. /\ wr'.pc = "fill" /\ wr'.buf = x /\ wr'.old = NoBuf /\ wr'.frame.kind = k
      /\ UNCHANGED <<slot, rd>>
  BY <1>1, <1>2, <1>3 DEF WriterType, AllocWrite
<1>5. /\ InSlots(x) = {s \in Slots : slot[s].buf = x}
      /\ IsFiniteSet(InSlots(x)) /\ Cardinality(InSlots(x)) \in Nat
      /\ Cardinality(InSlots(x)) <= Owners(x) /\ Owners(x) = refcnt[x]
  <2>1. OwnersAdd(x)
    BY OwnerSums
  <2>2. Cardinality(InSlots(x)) <= Owners(x)
    BY <2>1 DEF OwnersAdd
  <2> QED  BY <2>1, <2>2, OwnerCounts DEF OwnersAdd, BufInv, RefsCounted
<1>6. \A s \in Slots : slot[s].buf = x => s = SlotOf(writeIdx) /\ SlotBuf = x
  <2>1. CASE refcnt[x] = 0
    <3>1. Cardinality(InSlots(x)) = 0
      BY <1>5, <2>1
    <3>2. InSlots(x) = {}
      BY <1>5, <3>1, FS_EmptySet
    <3> QED  BY <1>5, <3>2
  <2>2. CASE Reusable(SlotBuf) /\ x = SlotBuf
    <3>1. Cardinality(InSlots(x)) <= 1
      BY <1>5, <2>2 DEF Reusable
    <3>2. SlotOf(writeIdx) \in InSlots(x)
      BY <1>1, <1>5, <2>2 DEF SlotBuf
    <3>3. /\ Cardinality(InSlots(x) \ {SlotOf(writeIdx)}) = Cardinality(InSlots(x)) - 1
          /\ IsFiniteSet(InSlots(x) \ {SlotOf(writeIdx)})
      BY <1>5, <3>2, FS_RemoveElement
    <3>4. Cardinality(InSlots(x) \ {SlotOf(writeIdx)}) = 0
      <4>1. Cardinality(InSlots(x) \ {SlotOf(writeIdx)}) \in Nat
        BY <3>3, FS_CardinalityType
      <4> QED  BY <1>5, <3>1, <3>3, <4>1
    <3>5. InSlots(x) \ {SlotOf(writeIdx)} = {}
      BY <3>3, <3>4, FS_EmptySet
    <3> QED  BY <1>5, <2>2, <3>5
  <2> QED  BY <1>3, <2>1, <2>2
<1>7. ASSUME NEW b \in Bufs PROVE refcnt'[b] = Owners(b)'
  <2>1. InSlots(b)' = InSlots(b)
    BY <1>4 DEF InSlots
  <2>2. InHands(b) = 0 /\ InHands(b)' = IF x = b /\ InSlots(b) = {} THEN 1 ELSE 0
    BY <1>2, <1>4, <2>1, BufAssumption DEF InHands
  <2>3. Owners(b)' - Owners(b) = (Cardinality(InSlots(b)') - Cardinality(InSlots(b)))
                                   + (InHands(b)' - InHands(b))
    BY <1>4, WriterCount
  <2>4. /\ refcnt[b] = Owners(b) /\ refcnt[b] \in Int
        /\ Cardinality(InSlots(b)) \in Nat /\ InHands(b)' \in Nat
    BY <1>1, OwnerSums, NextOwnerSums DEF BufInv, RefsCounted, OwnersAdd
  <2>5. Owners(b)' \in Int
    <3>1. OwnersAdd(b)'
      BY NextOwnerSums
    <3> QED  BY <3>1 DEF OwnersAdd
  <2>6. Owners(b)' = refcnt[b] + (IF x = b /\ InSlots(b) = {} THEN 1 ELSE 0)
    BY <2>1, <2>2, <2>3, <2>4, <2>5
  <2>7. CASE Reusable(SlotBuf) /\ x = SlotBuf /\ refcnt' = refcnt
    <3>1. InSlots(x) # {}
      BY <1>1, <1>5, <2>7 DEF SlotBuf
    <3> QED  BY <2>4, <2>6, <2>7, <3>1
  <2>8. CASE refcnt[x] = 0 /\ refcnt' = Ref(refcnt, x)
    <3>1. InSlots(x) = {}
      <4>1. Cardinality(InSlots(x)) = 0
        BY <1>5, <2>8
      <4> QED  BY <1>5, <4>1, FS_EmptySet
    <3>2. refcnt'[b] = refcnt[b] + (IF x = b THEN 1 ELSE 0)
      BY <1>1, <2>8, RefValue, BufAssumption
    <3> QED  BY <2>6, <3>1, <3>2
  <2> QED  BY <1>3, <2>7, <2>8
<1> QED  BY <1>4, <1>6, <1>7 DEF RefsCounted

\* slot_publish moves the buffer from the writer's hand into the slot, and the
\* slot's former buffer into the other hand.
LEMMA StoreRefs ==
  ASSUME TypeOK, TypeOK', BufInv, StoreBuf
  PROVE  RefsCounted'
<1> SUFFICES ASSUME NEW b \in Bufs PROVE refcnt'[b] = Owners(b)'
  BY DEF RefsCounted
<1> DEFINE w == SlotOf(writeIdx)
<1>1. w \in Slots /\ DOMAIN slot = Slots /\ DOMAIN slot' = Slots
  BY SlotFields DEF TypeOK, Slots
<1>2. /\ \A s \in Slots \ {w} : slot'[s].buf = slot[s].buf
      /\ slot'[w].buf = wr.buf /\ slot[w].buf = SlotBuf
  BY <1>1, SlotSteps DEF SlotBuf
<1>3. wr.pc = "storebuf" /\ wr'.pc = "storepub" /\ UNCHANGED <<rd, refcnt>>
  BY LoudSteps, HandSteps
<1>4. wr'.buf = wr.buf /\ wr'.old = wr.old
  BY HandSteps
<1>5. /\ wr.old = IF SlotBuf = wr.buf THEN NoBuf ELSE SlotBuf
      /\ \A s \in Slots : slot[s].buf = wr.buf => s = w
  BY <1>3 DEF BufInv, HandOk, Unstored
<1>6. Cardinality(InSlots(b)') + (IF SlotBuf = b THEN 1 ELSE 0)
        = Cardinality(InSlots(b)) + (IF wr.buf = b THEN 1 ELSE 0)
  BY <1>1, <1>2, SlotCount
<1>7. InHands(b) = IF wr.buf = b /\ SlotBuf # b THEN 1 ELSE 0
  <2>1. wr.buf = b => (InSlots(b) = {} <=> SlotBuf # b)
    BY <1>1, <1>2, <1>5 DEF InSlots
  <2>2. wr.pc = "storebuf"
    BY <1>3
  <2> QED  BY <2>1, <2>2 DEF InHands
<1>8. InHands(b)' = IF SlotBuf # wr.buf /\ SlotBuf = b THEN 1 ELSE 0
  <2>1. wr.buf = b => InSlots(b)' # {}
    <3>1. wr.buf = b => w \in InSlots(b)'
      BY <1>1, <1>2 DEF InSlots
    <3> QED  BY <3>1
  <2>2. InHands(b)' = (IF wr.buf = b /\ InSlots(b)' = {} THEN 1 ELSE 0)
                      + (IF wr.old = b THEN 1 ELSE 0)
    BY <1>3, <1>4 DEF InHands
  <2>3. (wr.old = b) <=> (SlotBuf # wr.buf /\ SlotBuf = b)
    BY <1>5, BufAssumption
  <2> QED  BY <2>1, <2>2, <2>3
<1>9. Owners(b)' - Owners(b) = (Cardinality(InSlots(b)') - Cardinality(InSlots(b)))
                                 + (InHands(b)' - InHands(b))
  BY <1>3, WriterCount
<1>10. /\ refcnt[b] = Owners(b) /\ Owners(b) \in Int /\ Owners(b)' \in Int
       /\ Cardinality(InSlots(b)) \in Nat /\ Cardinality(InSlots(b)') \in Nat
  <2>1. OwnersAdd(b) /\ OwnersAdd(b)'
    BY OwnerSums, NextOwnerSums
  <2> QED  BY <2>1 DEF BufInv, RefsCounted, OwnersAdd
<1> HIDE DEF w
<1>12. CASE wr.buf = b /\ SlotBuf = b
  <2>1. InHands(b) = 0 /\ InHands(b)' = 0
    BY <1>7, <1>8, <1>12
  <2>2. Cardinality(InSlots(b)') = Cardinality(InSlots(b))
    BY <1>6, <1>10, <1>12
  <2> QED  BY <1>3, <1>9, <1>10, <2>1, <2>2
<1>13. CASE wr.buf = b /\ SlotBuf # b
  <2>1. InHands(b) = 1 /\ InHands(b)' = 0
    BY <1>7, <1>8, <1>13
  <2>2. Cardinality(InSlots(b)') = Cardinality(InSlots(b)) + 1
    BY <1>6, <1>10, <1>13
  <2> QED  BY <1>3, <1>9, <1>10, <2>1, <2>2
<1>14. CASE wr.buf # b /\ SlotBuf = b
  <2>1. InHands(b) = 0 /\ InHands(b)' = 1
    BY <1>7, <1>8, <1>14
  <2>2. Cardinality(InSlots(b)') = Cardinality(InSlots(b)) - 1
    BY <1>6, <1>10, <1>14
  <2> QED  BY <1>3, <1>9, <1>10, <2>1, <2>2
<1>15. CASE wr.buf # b /\ SlotBuf # b
  <2>1. InHands(b) = 0 /\ InHands(b)' = 0
    BY <1>7, <1>8, <1>15
  <2>2. Cardinality(InSlots(b)') = Cardinality(InSlots(b))
    BY <1>6, <1>10, <1>15
  <2> QED  BY <1>3, <1>9, <1>10, <2>1, <2>2
<1> QED  BY <1>12, <1>13, <1>14, <1>15

\* The steps of the writer that leave every slot's buffer where it is.
LEMMA KeptRefs ==
  ASSUME TypeOK, TypeOK', BufInv, HeadInv, WriterStep,
         ~StoreBuf, ~Clear, ~\E k \in Kinds, d \in Dts : AllocWrite(k, d)
  PROVE  RefsCounted'
<1> SUFFICES ASSUME NEW b \in Bufs PROVE refcnt'[b] = Owners(b)'
  BY DEF RefsCounted
<1>1. wr.buf \in Bufs \cup {NoBuf} /\ wr.old \in Bufs \cup {NoBuf}
      /\ refcnt \in [Bufs -> Int] /\ refcnt[b] \in Int
  BY DEF TypeOK, WriterType
<1>2. rd' = rd
  BY QuietSteps, LoudSteps DEF WriterStep
<1>3. InSlots(b)' = InSlots(b)
  <2>1. DOMAIN slot' = Slots /\ DOMAIN slot = Slots
    BY DEF TypeOK, Slots
  <2>2. \A s \in Slots : slot'[s].buf = slot[s].buf
    BY QuietSteps, LoudSteps, SlotSteps DEF WriterStep
  <2> QED  BY <2>1, <2>2 DEF InSlots
<1>4. Owners(b)' - Owners(b) = InHands(b)' - InHands(b)
  <2>1. OwnersAdd(b) /\ OwnersAdd(b)'
    BY OwnerSums, NextOwnerSums
  <2>2. Owners(b)' - Owners(b) = (Cardinality(InSlots(b)') - Cardinality(InSlots(b)))
                                   + (InHands(b)' - InHands(b))
    BY <1>2, WriterCount
  <2> QED  BY <1>3, <2>1, <2>2 DEF OwnersAdd
<1>5. /\ refcnt[b] = Owners(b) /\ Owners(b)' \in Int
      /\ InHands(b) \in Nat /\ InHands(b)' \in Nat
  <2>1. OwnersAdd(b) /\ OwnersAdd(b)'
    BY OwnerSums, NextOwnerSums
  <2> QED  BY <2>1 DEF BufInv, RefsCounted, OwnersAdd
<1>6. refcnt'[b] - refcnt[b] = InHands(b)' - InHands(b)
  <2>1. ASSUME refcnt' = refcnt, wr'.buf = wr.buf,
               (wr.old = b /\ wr.pc # "storebuf") <=> (wr'.old = b /\ wr'.pc # "storebuf")
        PROVE  refcnt'[b] - refcnt[b] = InHands(b)' - InHands(b)
    <3>1. InHands(b)' = InHands(b)
      BY <1>3, <2>1 DEF InHands
    <3> QED  BY <1>1, <1>5, <2>1, <3>1
  <2>2. CASE Quiet /\ ~DropFrame /\ ~RejectEmpty /\ ~Grace
    <3>1. refcnt' = refcnt /\ wr'.buf = wr.buf /\ wr'.old = wr.old
      BY <2>2, HandSteps DEF Quiet
    <3>2. wr.pc # "storebuf" /\ wr'.pc # "storebuf"
      BY <2>2, QuietSteps DEF Odd
    <3> QED  BY <2>1, <3>1, <3>2
  <2>3. CASE StorePub \/ PublishEnd \/ Advance
    <3>1. refcnt' = refcnt /\ wr'.buf = wr.buf /\ wr'.old = wr.old
      BY <2>3, HandSteps
    <3>2. wr.pc # "storebuf" /\ wr'.pc # "storebuf"
      BY <2>3, LoudSteps
    <3> QED  BY <2>1, <3>1, <3>2
  <2>4. CASE PublishBegin
    <3>1. refcnt' = refcnt /\ wr'.buf = wr.buf /\ wr'.pc = "storebuf" /\ wr.pc = "makeroom"
      BY <2>4, HandSteps, LoudSteps
    <3>2. wr.old = NoBuf
      BY <3>1 DEF BufInv, HandOk
    <3> QED  BY <2>1, <3>1, <3>2, BufAssumption
  <2>5. CASE EndCommit
    <3>1. /\ refcnt' = refcnt /\ wr'.buf = NoBuf /\ wr'.old = wr.old
          /\ wr.pc = "trim" /\ wr'.pc = "idle"
      BY <2>5, HandSteps, LoudSteps
    <3>2. wr.buf = b => InSlots(b) # {}
      <4>1. \E s \in Slots : slot[s].buf = wr.buf
        BY <3>1 DEF BufInv, HandOk
      <4>2. DOMAIN slot = Slots
        BY SlotFields
      <4> QED  BY <4>1, <4>2 DEF InSlots
    <3>3. InHands(b)' = InHands(b)
      BY <1>3, <3>1, <3>2, BufAssumption DEF InHands
    <3> QED  BY <1>1, <1>5, <3>1, <3>3
  <2>6. CASE Grace
    <3>1. /\ refcnt' = Unref(refcnt, wr.old) /\ wr'.buf = wr.buf /\ wr'.old = NoBuf
          /\ wr.pc = "grace" /\ wr'.pc = "advance"
      BY <2>6, HandSteps
    <3>2. refcnt'[b] = refcnt[b] - (IF wr.old = b THEN 1 ELSE 0)
      BY <1>1, <3>1, RefValue
    <3>3. InHands(b) = InHands(b)' + (IF wr.old = b THEN 1 ELSE 0)
      BY <1>3, <3>1, BufAssumption DEF InHands
    <3> QED  BY <1>1, <1>5, <3>2, <3>3
  <2>7. CASE DropFrame
    <3>1. /\ refcnt' = Unref(refcnt, wr.buf) /\ wr'.buf = NoBuf /\ wr'.old = wr.old
          /\ wr.pc = "commit" /\ wr'.pc = "idle" /\ ~cacheStarted
      BY <2>7, HandSteps
    <3>2. refcnt'[b] = refcnt[b] - (IF wr.buf = b THEN 1 ELSE 0)
      BY <1>1, <3>1, RefValue
    <3>3. InSlots(wr.buf) = {}
      <4>1. \A s \in Slots : slot[s].buf # wr.buf
        BY <3>1 DEF BufInv, StartOk
      <4>2. DOMAIN slot = Slots
        BY SlotFields
      <4> QED  BY <4>1, <4>2 DEF InSlots
    <3>4. InHands(b) = InHands(b)' + (IF wr.buf = b THEN 1 ELSE 0)
      BY <1>3, <3>1, <3>3, BufAssumption DEF InHands
    <3> QED  BY <1>1, <1>5, <3>2, <3>4
  <2>8. ~RejectEmpty
    BY HandSteps DEF BufInv, HandOk
  <2> QED
    BY <2>2, <2>3, <2>4, <2>5, <2>6, <2>7, <2>8 DEF WriterStep
<1>7. refcnt'[b] \in Int
  BY DEF TypeOK
<1> QED  BY <1>1, <1>4, <1>5, <1>6, <1>7

\* A clear releases the buffers of the slots.
LEMMA ClearRefs ==
  ASSUME TypeOK, TypeOK', BufInv, Clear, "writer" \notin met'
  PROVE  RefsCounted'
<1> SUFFICES ASSUME NEW b \in Bufs PROVE refcnt'[b] = Owners(b)'
  BY DEF RefsCounted
<1>1. /\ wr.pc \in {"idle", "fill", "commit"} /\ wr' = wr /\ rd' = rd
      /\ refcnt'[b] = refcnt[b] - Cardinality(InSlots(b))
  <2>1. wr.pc \in {"idle", "fill", "commit"} /\ wr' = wr /\ rd' = rd
    BY LoudSteps
  <2> QED  BY <2>1 DEF Clear, InSlots
<1>2. wr.old = NoBuf /\ (wr.buf = b => \A s \in Slots : slot[s].buf # b)
  <2>1. wr.old = NoBuf /\ (wr.pc = "idle" => wr.buf = NoBuf)
    BY <1>1 DEF BufInv, HandOk
  <2>2. wr.pc # "idle" => \A s \in Slots : slot[s].buf # wr.buf
    BY MetGrows DEF Next
  <2> QED  BY <2>1, <2>2, BufAssumption
<1>4. InSlots(b)' = {}
  <2>1. DOMAIN slot' = Slots
    BY DEF TypeOK, Slots
  <2> QED  BY <2>1, SlotSteps, BufAssumption DEF InSlots
<1>3. InHands(b)' = InHands(b) /\ InHands(b) \in Int
  <2>1. wr.buf = b => InSlots(b) = {}
    <3>1. DOMAIN slot = Slots
      BY SlotFields
    <3> QED  BY <1>2, <3>1 DEF InSlots
  <2> QED  BY <1>1, <1>2, <1>4, <2>1, BufAssumption DEF InHands
<1>5. Cardinality(InSlots(b)') = 0
  BY <1>4, FS_EmptySet
<1>6. Owners(b)' - Owners(b) = (Cardinality(InSlots(b)') - Cardinality(InSlots(b)))
                                 + (InHands(b)' - InHands(b))
  BY <1>1, WriterCount
<1>7. /\ refcnt[b] = Owners(b) /\ Owners(b)' \in Int /\ Owners(b) \in Int
      /\ Cardinality(InSlots(b)) \in Nat
  <2>1. OwnersAdd(b) /\ OwnersAdd(b)'
    BY OwnerSums, NextOwnerSums
  <2> QED  BY <2>1 DEF BufInv, RefsCounted, OwnersAdd
<1>8. Owners(b)' - Owners(b) = 0 - Cardinality(InSlots(b))
  <2>1. InHands(b)' - InHands(b) = 0
    BY <1>3
  <2> QED  BY <1>5, <1>6, <1>7, <2>1
<1>9. refcnt'[b] = Owners(b) - Cardinality(InSlots(b))
  BY <1>1, <1>7
<1> QED  BY <1>7, <1>8, <1>9

\* The writer's two hands, step by step.
LEMMA NextHand ==
  ASSUME NoEmpty, TypeOK, TypeOK', BufInv, WriterStep, "writer" \notin met'
  PROVE  HandOk'
<1>1. /\ HandOk /\ SlotOf(writeIdx) \in Slots
      /\ wr.buf \in Bufs \cup {NoBuf} /\ wr.old \in Bufs \cup {NoBuf}
  BY FieldTypes DEF BufInv, Slots
<1>2. CASE \E k \in Kinds, d \in Dts : AllocWrite(k, d)
  <2>1. PICK k \in Kinds, d \in Dts : AllocWrite(k, d)
    BY <1>2
  <2>2. /\ wr'.buf \in Bufs /\ wr'.old = NoBuf /\ wr'.frame.kind = k
        /\ \A s \in Slots : slot[s].buf = wr'.buf => s = SlotOf(writeIdx)
    BY <2>1, AllocRefs
  <2>3. wr'.pc = "fill" /\ UNCHANGED <<slot, writeIdx>>
    BY <1>2, LoudSteps
  <2> QED  BY <2>2, <2>3 DEF HandOk, Uncounted, NoEmpty
<1>3. CASE \/ FillBuf \/ BeginCommit \/ FirstGop \/ RoomForGop \/ AppendGop \/ MakeRoom
           \/ Trim
  <2>1. /\ UNCHANGED <<slot, writeIdx>> /\ wr'.buf = wr.buf /\ wr'.old = wr.old
        /\ wr'.frame.kind = wr.frame.kind
    BY <1>3, QuietSteps, HandSteps DEF Quiet
  <2>2. \/ wr.pc \in Unstored \ {"storebuf"} /\ wr'.pc \in Unstored \ {"storebuf"}
        \/ wr.pc = "trim" /\ wr'.pc = "trim"
    BY <1>3, HandSteps DEF Unstored
  <2> QED  BY <1>1, <2>1, <2>2 DEF HandOk, Unstored, Uncounted
<1>4. ~RejectEmpty
  BY HandSteps DEF BufInv, HandOk
<1>5. CASE DropFrame
  BY <1>1, <1>5, HandSteps DEF HandOk, Unstored, Uncounted
<1>6. CASE SetVideoConfig
  <2>1. UNCHANGED <<slot, writeIdx, wr>>
    BY <1>6, QuietSteps, HandSteps DEF Quiet
  <2> QED  BY <1>1, <2>1 DEF HandOk, SlotBuf
<1>7. CASE Grace
  <2>1. /\ UNCHANGED <<slot, writeIdx>> /\ wr'.buf = wr.buf /\ wr'.old = NoBuf
        /\ wr'.frame = wr.frame /\ wr.pc = "grace" /\ wr'.pc = "advance"
    BY <1>7, QuietSteps, HandSteps DEF Quiet
  <2> QED  BY <1>1, <2>1 DEF HandOk, SlotBuf, Unstored, Uncounted
<1>8. CASE PublishBegin
  <2>1. /\ wr.pc = "makeroom" /\ wr'.pc = "storebuf" /\ wr'.frame = wr.frame
        /\ writeIdx' = writeIdx /\ wr'.buf = wr.buf
        /\ wr'.old = IF SlotBuf = wr.buf THEN NoBuf ELSE SlotBuf
    BY <1>8, LoudSteps, HandSteps
  <2>2. \A s \in Slots : slot'[s].buf = slot[s].buf
    BY <1>8, SlotSteps
  <2> QED  BY <1>1, <2>1, <2>2 DEF HandOk, SlotBuf, Unstored, Uncounted
<1>9. CASE StoreBuf
  <2>1. /\ wr.pc = "storebuf" /\ wr'.pc = "storepub" /\ wr'.frame = wr.frame
        /\ writeIdx' = writeIdx /\ wr'.buf = wr.buf
    BY <1>9, LoudSteps, HandSteps
  <2>2. slot'[SlotOf(writeIdx)].buf = wr.buf
    BY <1>1, <1>9, SlotSteps
  <2> QED  BY <1>1, <2>1, <2>2 DEF HandOk, SlotBuf, Unstored, Uncounted
<1>10. CASE StorePub \/ PublishEnd
  <2>1. /\ wr'.frame = wr.frame /\ writeIdx' = writeIdx /\ wr'.buf = wr.buf
        /\ wr'.old = wr.old
        /\ wr.pc \in Uncounted /\ wr'.pc \in Uncounted
        /\ wr'.pc = "advance" => wr.old = NoBuf
    BY <1>10, LoudSteps, HandSteps DEF Uncounted
  <2>2. \A s \in Slots : slot'[s].buf = slot[s].buf
    BY <1>10, SlotSteps
  <2> QED  BY <1>1, <2>1, <2>2 DEF HandOk, SlotBuf, Unstored, Uncounted
<1>11. CASE Advance
  <2>1. /\ wr.pc = "advance" /\ wr'.pc = "trim" /\ wr'.frame = wr.frame
        /\ slot' = slot /\ wr'.buf = wr.buf /\ wr'.old = wr.old
    BY <1>11, LoudSteps, HandSteps
  <2>2. SlotBuf = wr.buf
    BY <1>1, <2>1 DEF HandOk, Uncounted
  <2> QED  BY <1>1, <2>1, <2>2 DEF HandOk, SlotBuf, Unstored, Uncounted
<1>12. CASE EndCommit
  <2>1. wr.pc = "trim" /\ wr'.pc = "idle" /\ wr'.buf = NoBuf /\ wr'.old = wr.old
    BY <1>12, LoudSteps, HandSteps
  <2> QED  BY <1>1, <2>1 DEF HandOk, Unstored, Uncounted
<1>13. CASE Clear
  <2>1. wr.pc \in {"idle", "fill", "commit"} /\ wr' = wr
    BY <1>13, LoudSteps
  <2>2. \A s \in Slots : slot'[s].buf = NoBuf
    BY <1>13, SlotSteps
  <2> QED  BY <1>1, <2>1, <2>2, BufAssumption DEF HandOk, Unstored, Uncounted
<1> QED
  BY <1>2, <1>3, <1>4, <1>5, <1>6, <1>7, <1>8, <1>9, <1>10, <1>11, <1>12, <1>13
  DEF WriterStep, Quiet

\* Before the cache starts the ring is a prefix.
LEMMA NextStart ==
  ASSUME ShortGops, IInv, IInv', WInv, BufInv, WriterStep
  PROVE  StartOk'
<1> SUFFICES ASSUME ~cacheStarted'
             PROVE  /\ wr'.pc # "firstgop" => writeIdx' + InFlight' <= run'
                    /\ \A s \in Slots : slot'[s].buf # NoBuf =>
                          s < writeIdx' \/ (s = writeIdx' /\ wr'.pc \in Uncounted)
                    /\ wr'.pc \in {"fill", "commit"} => \A s \in Slots : slot'[s].buf # wr'.buf
  BY DEF StartOk
<1>1. /\ TypeOK /\ TypeOK' /\ StartOk /\ HeadInv /\ RunInv
      /\ writeIdx \in Nat /\ run \in Nat /\ Capacity \in Nat /\ MaxGopLen \in Nat
      /\ run <= MaxGopLen /\ MaxGopLen < Capacity
  BY CapacityAssumption, BoundAssumption DEF IInv, TypeOK, WInv, BufInv, RunInv, ShortGops
<1>2. CASE Clear
  <2>1. /\ wr.pc \in {"idle", "fill", "commit"} /\ wr' = wr /\ writeIdx' = 0 /\ run' = 0
        /\ \A s \in Slots : slot'[s].buf = NoBuf
    BY <1>1, <1>2, SlotSteps, LoudSteps DEF Clear, EmptyRing
  <2>2. wr.pc # "idle" => wr.buf # NoBuf
    BY <1>1, BufAssumption DEF BufInv, HandOk
  <2> QED  BY <2>1, <2>2 DEF InFlight, LockedPcs
<1>3. ASSUME ~Clear PROVE ~cacheStarted
  <2>1. cacheStarted' \in {cacheStarted, TRUE}
    BY <1>3, Zenon
    DEF WriterStep, Quiet, AllocWrite, FillBuf, RejectEmpty, DropFrame, BeginCommit,
        FirstGop, RoomForGop, AppendGop, MakeRoom, Grace, Trim, SetVideoConfig,
        PublishBegin, StoreBuf, StorePub, PublishEnd, Advance, EndCommit, ringVars
  <2> QED  BY <1>1, <2>1 DEF TypeOK
<1>5. CASE \E k \in Kinds, d \in Dts : AllocWrite(k, d)
  <2>1. PICK k \in Kinds, d \in Dts : AllocWrite(k, d)
    BY <1>5
  <2>2. /\ wr.pc = "idle" /\ wr'.pc = "fill" /\ UNCHANGED <<slot, writeIdx, run>>
    BY <1>1, <2>1, LoudSteps DEF AllocWrite
  <2>3. ~cacheStarted
    BY <1>3, <2>1 DEF AllocWrite, Clear, EmptyRing, ringVars
  <2>4. InFlight = 0 /\ InFlight' = 0
    BY <2>2 DEF InFlight, LockedPcs
  <2>5. writeIdx <= run /\ writeIdx < Capacity
    BY <1>1, <2>2, <2>3, <2>4 DEF StartOk
  <2>6. SlotOf(writeIdx) = writeIdx
    BY <1>1, <2>5 DEF SlotOf
  <2>7. \A s \in Slots : slot[s].buf # NoBuf => s < writeIdx
    BY <1>1, <2>2, <2>3 DEF StartOk, Uncounted
  <2>8. \A s \in Slots : slot[s].buf # wr'.buf
    <3>1. \A s \in Slots : slot[s].buf = wr'.buf => s = SlotOf(writeIdx) /\ slot[s].buf # NoBuf
      BY <1>1, <2>1, AllocRefs, BufAssumption DEF BufInv
    <3> QED  BY <1>1, <2>6, <2>7, <3>1
  <2> QED  BY <1>1, <2>2, <2>4, <2>5, <2>7, <2>8 DEF Uncounted
<1>6. CASE \/ FillBuf \/ RejectEmpty \/ DropFrame \/ FirstGop \/ RoomForGop \/ AppendGop
           \/ MakeRoom \/ Grace \/ Trim \/ SetVideoConfig
  <2>1. UNCHANGED <<slot, writeIdx, run>>
    BY <1>1, <1>6, QuietSteps
    DEF Quiet, FillBuf, RejectEmpty, DropFrame, FirstGop, RoomForGop, AppendGop,
        MakeRoom, Grace, Trim, SetVideoConfig, envVars
  <2>2. ~cacheStarted /\ ~FirstGop /\ ~SetVideoConfig
    <3>1. ~Clear
      <4>1. clears' = clears /\ clears \in Nat
        BY <1>1, <1>6, QuietSteps DEF Quiet, TypeOK
      <4> QED  BY <4>1 DEF Clear, EmptyRing
    <3>2. ~FirstGop /\ ~SetVideoConfig
      BY DEF FirstGop, SetVideoConfig
    <3> QED  BY <1>3, <3>1, <3>2
  <2>3. ~RoomForGop /\ ~AppendGop /\ ~MakeRoom
    BY <1>1, <2>2 DEF RoomForGop, AppendGop, MakeRoom, HeadInv
  <2>4. CASE FillBuf
    <3>1. wr.pc = "fill" /\ wr'.pc = "commit" /\ wr'.buf = wr.buf
      BY <1>1, <2>4, HandSteps
    <3> QED  BY <1>1, <2>1, <2>2, <3>1 DEF StartOk, InFlight, LockedPcs, Uncounted
  <2>5. CASE RejectEmpty \/ DropFrame
    <3>1. wr.pc = "commit" /\ wr'.pc = "idle"
      BY <1>1, <2>5, HandSteps DEF BufInv, HandOk
    <3> QED  BY <1>1, <2>1, <2>2, <3>1 DEF StartOk, InFlight, LockedPcs, Uncounted
  <2>6. CASE Grace
    <3>1. wr.pc = "grace" /\ wr'.pc = "advance"
      BY <1>1, <2>6, HandSteps
    <3> QED  BY <1>1, <2>1, <2>2, <3>1 DEF StartOk, InFlight, LockedPcs, Uncounted
  <2>7. CASE Trim
    <3>1. wr.pc = "trim" /\ wr'.pc = "trim"
      BY <1>1, <2>7, HandSteps
    <3> QED  BY <1>1, <2>1, <2>2, <3>1 DEF StartOk, InFlight, LockedPcs, Uncounted
  <2> QED  BY <1>6, <2>2, <2>3, <2>4, <2>5, <2>6, <2>7
<1>7. CASE BeginCommit
  <2>1. ~cacheStarted
    BY <1>7 DEF BeginCommit
  <2>2. /\ UNCHANGED <<slot, writeIdx>> /\ wr.pc = "commit"
        /\ wr'.pc \in {"firstgop", "makeroom"}
        /\ wr'.pc = "makeroom" => run' = run + 1
    <3>1. wr \in WriterType
      BY <1>1 DEF TypeOK
    <3>2. UNCHANGED <<slot, writeIdx>> /\ wr.pc = "commit"
      BY <1>7 DEF BeginCommit
    <3> DEFINE head == NewGop(wr.frame.kind, SawVideo)
    <3>3. /\ run' = IF head THEN 1 ELSE run + 1
          /\ wr'.pc = IF ~head THEN "makeroom" ELSE "firstgop"
      BY <1>7, <2>1, <3>1 DEF BeginCommit, WriterType
    <3> HIDE DEF head
    <3> QED  BY <3>2, <3>3
  <2>3. InFlight = 0 /\ InFlight' = 1
    BY <2>2 DEF InFlight, LockedPcs
  <2> QED  BY <1>1, <2>1, <2>2, <2>3 DEF StartOk, Uncounted
<1>8. CASE PublishBegin \/ StoreBuf \/ StorePub \/ PublishEnd
  <2>1. /\ UNCHANGED <<writeIdx, run>> /\ ~cacheStarted
        /\ wr.pc \in {"makeroom", "storebuf", "storepub", "stable"}
        /\ wr'.pc \in {"storebuf", "storepub", "stable", "grace", "advance"}
        /\ wr.pc \in Uncounted => wr'.pc \in Uncounted
        /\ StoreBuf => wr'.pc = "storepub"
    BY <1>1, <1>8, LoudSteps DEF PublishBegin, StoreBuf, StorePub, PublishEnd, ringVars,
       envVars, Uncounted
  <2>2. InFlight = 1 /\ InFlight' = 1
    BY <2>1 DEF InFlight, LockedPcs
  <2>3. writeIdx + 1 <= run /\ SlotOf(writeIdx) = writeIdx
    <3>1. writeIdx + 1 <= run
      BY <1>1, <2>1, <2>2 DEF StartOk
    <3>2. writeIdx < Capacity
      BY <1>1, <3>1
    <3> QED  BY <1>1, <3>1, <3>2 DEF SlotOf
  <2>4. ASSUME NEW s \in Slots, slot'[s].buf # NoBuf
        PROVE  s < writeIdx \/ (s = writeIdx /\ wr'.pc \in Uncounted)
    <3>1. CASE StoreBuf /\ s = writeIdx
      BY <2>1, <3>1 DEF Uncounted
    <3>2. CASE ~(StoreBuf /\ s = writeIdx)
      <4>1. slot'[s].buf = slot[s].buf
        BY <1>1, <1>8, <2>3, <3>2, SlotSteps
      <4> QED  BY <1>1, <2>1, <2>4, <4>1 DEF StartOk
    <3> QED  BY <3>1, <3>2
  <2> QED  BY <1>1, <2>1, <2>2, <2>3, <2>4
<1>9. CASE Advance
  <2>1. /\ wr.pc = "advance" /\ wr'.pc = "trim" /\ writeIdx' = writeIdx + 1
        /\ slot' = slot /\ run' = run /\ ~cacheStarted
    BY <1>1, <1>9, LoudSteps DEF Advance, envVars
  <2>2. InFlight = 1 /\ InFlight' = 0
    BY <2>1 DEF InFlight, LockedPcs
  <2>3. \A s \in Slots : s \in Nat
    BY <1>1 DEF Slots
  <2> QED  BY <1>1, <2>1, <2>2, <2>3 DEF StartOk, Uncounted
<1>10. CASE EndCommit
  <2>1. /\ wr.pc = "trim" /\ wr'.pc = "idle" /\ UNCHANGED <<slot, writeIdx, run>>
        /\ ~cacheStarted
    BY <1>1, <1>10, LoudSteps DEF EndCommit, ringVars, envVars
  <2>2. InFlight = 0 /\ InFlight' = 0
    BY <2>1 DEF InFlight, LockedPcs
  <2> QED  BY <1>1, <2>1, <2>2 DEF StartOk, Uncounted
<1> QED
  BY <1>2, <1>5, <1>6, <1>7, <1>8, <1>9, <1>10 DEF WriterStep, Quiet

LEMMA InitBuf == Init => BufInv
<1> SUFFICES ASSUME Init PROVE HandOk /\ StartOk /\ RefsCounted
  BY DEF BufInv
<1>1. /\ wr.pc = "idle" /\ wr.buf = NoBuf /\ wr.old = NoBuf /\ writeIdx = 0 /\ run = 0
      /\ \A s \in Slots : slot[s].buf = NoBuf
      /\ \A r \in Readers : rd[r].held = NoBuf /\ rd[r].pc = "idle"
      /\ DOMAIN slot = Slots /\ \A b \in Bufs : refcnt[b] = 0
  BY DEF Init, Slots
<1>2. HandOk
  BY <1>1 DEF HandOk, Unstored, Uncounted
<1>3. StartOk
  BY <1>1 DEF StartOk, InFlight, LockedPcs
<1>4. ASSUME NEW b \in Bufs PROVE refcnt[b] = Owners(b)
  <2>1. TypeOK
    BY InitInv DEF IInv
  <2>2. InSlots(b) = {} /\ Holding(b) = {} /\ Taking(b) = {} /\ InHands(b) = 0
    BY <1>1, BufAssumption DEF InSlots, Holding, Taking, InHands
  <2>3. Cardinality({}) = 0
    BY FS_EmptySet
  <2>4. OwnersAdd(b)
    BY <2>1, OwnerSums
  <2>5. Owners(b) = 0 + 0 + 0 + 0
    BY <2>2, <2>3, <2>4 DEF OwnersAdd
  <2> QED  BY <1>1, <2>5
<1> QED  BY <1>2, <1>3, <1>4 DEF RefsCounted

\* A step that leaves the writer and the slots alone leaves its hands alone.
LEMMA IdleHand ==
  ASSUME BufInv, UNCHANGED <<slot, wr, ringVars, run>>
  PROVE  HandOk' /\ StartOk'
BY DEF BufInv, HandOk, StartOk, SlotBuf, InFlight, ringVars

LEMMA NextBuf ==
  ASSUME ShortGops, NoEmpty, FrameInv, BufInv, [Next]_vars, "writer" \notin met'
  PROVE  BufInv'
<1>1. IInv /\ IInv' /\ TypeOK /\ TypeOK' /\ WInv /\ HeadInv /\ StoreInv /\ ReadInv
  BY NextInv DEF FrameInv, IInv, WInv
<1>2. CASE Writer \/ SetVideoConfig \/ Clear
  <2>1. WriterStep
    BY <1>2, WriterSteps
  <2>2. HandOk' /\ StartOk'
    BY <1>1, <2>1, NextHand, NextStart
  <2>3. RefsCounted'
    BY <1>1, <2>1, AllocRefs, StoreRefs, KeptRefs, ClearRefs
  <2> QED  BY <2>2, <2>3 DEF BufInv
<1>3. ASSUME NEW r \in Readers, Reader(r) PROVE BufInv'
  <2>1. UNCHANGED <<slot, wr, ringVars, run>>
    BY <1>1, <1>3, OneReader DEF readerOnly, envVars
  <2>2. RefsCounted'
    BY <1>1, <1>3, ReaderRefs DEF ReadInv, BufInv
  <2> QED  BY <2>1, <2>2, IdleHand DEF BufInv
<1>4. CASE UNCHANGED vars
  <2>1. UNCHANGED <<slot, wr, ringVars, run, refcnt, rd>>
    BY <1>4 DEF vars, envVars, bufVars
  <2>2. RefsCounted'
    BY <2>1 DEF BufInv, RefsCounted, Owners
  <2> QED  BY <2>1, <2>2, IdleHand DEF BufInv
<1> QED  BY <1>2, <1>3, <1>4 DEF Next

BufHolds == "writer" \notin met => BufInv

LEMMA KeepsBuf ==
  ASSUME ShortGops, NoEmpty, FrameInv, BufHolds, [Next]_vars
  PROVE  BufHolds'
<1> SUFFICES ASSUME "writer" \notin met' PROVE BufInv'
  BY DEF BufHolds
<1>1. "writer" \notin met
  BY MetGrows DEF FrameInv, IInv
<1> QED  BY <1>1, NextBuf DEF BufHolds

\* Every reference of a pool buffer has its owner and every owner its reference,
\* through loans of a slot's own buffer, lock-free takes that fail half way and
\* clears at any moment the mutex is free: no buffer leaks and none returns to
\* the pool while it is in use, until a clear falls between the allocation and
\* the commit of a frame whose buffer the ring had lent.
THEOREM BuffersCounted ==
  ASSUME ShortGops, NoEmpty
  PROVE  Spec => []RefsExact
<1>1. Init => BufHolds
  BY InitBuf DEF BufHolds
<1>2. FrameInv /\ BufHolds /\ [Next]_vars => BufHolds'
  BY KeepsBuf
<1>3. BufHolds => RefsExact
  BY DEF BufHolds, BufInv, RefsExact
<1> QED  BY <1>1, <1>2, <1>3, FrameInvariant, PTL DEF Spec
-----------------------------------------------------------------------------
(* Readers that look at a buffer they have not referenced yet.  The wait    *)
(* that lets the old buffer go must not give up, and no clear may meet a    *)
(* commit or a take half way: it releases the buffers without waiting.      *)

NoGivingUp == ~GraceGivesUp

\* The writer lets go of a buffer only when no reader can be looking at it.
LEMMA WriterTouch ==
  ASSUME NoGivingUp, TypeOK, BufInv, WriterStep, ~Clear,
         NEW r \in Readers, LookOk(r), TouchOk(r)
  PROVE  TouchOk(r)'
<1>1. rd' = rd /\ SlotOf(writeIdx) \in Slots /\ ~Clear
  BY QuietSteps, LoudSteps, SlotFields DEF WriterStep
<1> SUFFICES ASSUME rd[r].pc \in {"check", "ref"}, rd[r].buf # NoBuf
             PROVE  \/ \E s \in Slots : slot'[s].buf = rd[r].buf
                    \/ wr'.old = rd[r].buf /\ wr'.pc \in {"storepub", "stable", "grace"}
  BY <1>1 DEF TouchOk
<1>2. rd[r].att /\ InCs(r)
  BY DEF LookOk, InCs, CsPcs
<1>3. CASE StoreBuf
  <2>1. /\ wr'.pc = "storepub" /\ wr'.old = wr.old /\ wr.pc = "storebuf"
        /\ \A s \in Slots : slot'[s].buf = IF s = SlotOf(writeIdx) THEN wr.buf ELSE slot[s].buf
    BY <1>3, LoudSteps, HandSteps, SlotSteps
  <2>2. wr.old = IF SlotBuf = wr.buf THEN NoBuf ELSE SlotBuf
    BY <2>1 DEF BufInv, HandOk
  <2>3. PICK s \in Slots : slot[s].buf = rd[r].buf
    BY <2>1 DEF TouchOk
  <2>4. CASE s # SlotOf(writeIdx)
    BY <2>1, <2>3, <2>4
  <2>5. CASE s = SlotOf(writeIdx)
    BY <1>1, <2>1, <2>2, <2>3, <2>5 DEF SlotBuf
  <2> QED  BY <2>4, <2>5
<1>4. CASE WriterStep /\ ~StoreBuf
  <2>1. \A s \in Slots : slot'[s].buf = slot[s].buf
    BY <1>1, <1>4, QuietSteps, LoudSteps, SlotSteps DEF WriterStep
  <2>2. CASE \E s \in Slots : slot[s].buf = rd[r].buf
    BY <2>1, <2>2
  <2>3. CASE wr.old = rd[r].buf /\ wr.pc \in {"storepub", "stable", "grace"}
    <3>1. ~Grace
      BY <1>2 DEF Grace, NoGivingUp
    <3>2. StorePub \/ PublishEnd
      BY <1>1, <1>4, <2>3, <3>1, LoudSteps, HandSteps DEF WriterStep, Quiet, Clear, EmptyRing
    <3>3. /\ wr'.old = wr.old
          /\ wr'.pc \in {"stable", "grace", "advance"}
          /\ wr'.pc = "advance" => wr.old = NoBuf
      BY <3>2, LoudSteps, HandSteps
    <3> QED  BY <2>3, <3>3
  <2> QED  BY <2>2, <2>3 DEF TouchOk
<1> QED  BY <1>3, <1>4

\* A reader loads what is in a slot.
LEMMA OwnTouch ==
  ASSUME IInv, StoreInv, NEW r \in Readers, LookOk(r), TouchOk(r), Reader(r)
  PROVE  TouchOk(r)'
<1>1. TypeOK /\ UNCHANGED <<slot, wr>>
  BY OneReader DEF IInv, readerOnly
<1>2. CASE rd'[r].pc \notin {"check", "ref"}
  BY <1>2 DEF TouchOk
<1>3. CASE TakeLoad(r)
  <2>1. rd'[r].buf = ReaderSlot(r).buf
    BY <1>1, <1>3, LookStep
  <2>2. \E s \in Slots : slot[s].buf = rd'[r].buf
    BY <1>1, <2>1, ReaderNumbers
  <2> QED  BY <1>1, <2>2 DEF TouchOk
<1>4. CASE TakeCheck(r) /\ rd'[r].pc = "ref"
  BY <1>1, <1>4, LookStep DEF TouchOk
<1>5. CASE (\E b \in BOOLEAN : Attach(r, b)) \/ Detach(r)
  BY <1>1, <1>2, <1>5, AttachStep DEF LookOk
<1>6. CASE ReadBegin(r) \/ ReadRoute(r) \/ TakeEnter(r)
  BY <1>1, <1>2, <1>6, LookStep
<1>7. CASE TakeCheck(r) /\ rd'[r].pc # "ref"
  BY <1>1, <1>2, <1>7, LookStep
<1>8. CASE TakeRef(r) \/ TakeRecheck(r) \/ TakeConfirm(r)
  BY <1>1, <1>2, <1>8, TakeStep
<1>9. CASE TakeLocked(r)
  BY <1>2, <1>9, LockedStep
<1> QED
  BY <1>3, <1>4, <1>5, <1>6, <1>7, <1>8, <1>9 DEF Reader, Take

LEMMA NextTouch ==
  ASSUME NoGivingUp, FrameInv, BufInv, TouchInv, [Next]_vars, met' = {}
  PROVE  TouchInv'
<1> SUFFICES ASSUME NEW r \in Readers PROVE TouchOk(r)'
  BY DEF TouchInv
<1>1. IInv /\ TypeOK /\ StoreInv /\ LookOk(r) /\ TouchOk(r)
  BY DEF FrameInv, IInv, ReadInv, TouchInv
<1>5. CASE Clear
  <2>1. rd' = rd /\ rd[r].pc \in {"idle", "locked"}
    BY <1>1, <1>5, MetGrows
  <2> QED  BY <2>1 DEF TouchOk
<1>2. CASE (Writer \/ SetVideoConfig) /\ ~Clear
  BY <1>1, <1>2, WriterSteps, WriterTouch
<1>3. ASSUME NEW q \in Readers, Reader(q) PROVE TouchOk(r)'
  <2>1. CASE q = r
    BY <1>1, <1>3, <2>1, OwnTouch
  <2>2. CASE q # r
    <3>1. UNCHANGED <<slot, wr>> /\ rd'[r] = rd[r]
      BY <1>1, <1>3, <2>2, OneReader DEF readerOnly
    <3> QED  BY <1>1, <3>1 DEF TouchOk
  <2> QED  BY <2>1, <2>2
<1>4. CASE UNCHANGED vars
  BY <1>1, <1>4 DEF vars, TouchOk
<1> QED  BY <1>2, <1>3, <1>4, <1>5 DEF Next

\* What is in a slot or in the writer's other hand has a reference.
LEMMA TouchSafe ==
  ASSUME TypeOK, BufInv, TouchInv
  PROVE  NoTouchAfterFree
<1> SUFFICES ASSUME NEW r \in Readers, rd[r].pc \in {"check", "ref"}, rd[r].buf # NoBuf
             PROVE  refcnt[rd[r].buf] > 0
  BY DEF NoTouchAfterFree
<1> DEFINE b == rd[r].buf
<1>1. b \in Bufs
  BY ReaderNumbers DEF ReaderType
<1>2. TouchOk(r)
  BY DEF TouchInv
<1>3. /\ refcnt[b] = Cardinality(InSlots(b)) + Cardinality(Holding(b))
                       + Cardinality(Taking(b)) + InHands(b)
      /\ IsFiniteSet(InSlots(b)) /\ InSlots(b) = {s \in Slots : slot[s].buf = b}
      /\ Cardinality(InSlots(b)) \in Nat /\ Cardinality(Holding(b)) \in Nat
      /\ Cardinality(Taking(b)) \in Nat /\ InHands(b) \in Nat
  BY <1>1, OwnerCounts DEF BufInv, RefsCounted
<1>4. Cardinality(InSlots(b)) > 0 \/ InHands(b) > 0
  <2>1. CASE \E s \in Slots : slot[s].buf = b
    <3>1. InSlots(b) # {}
      BY <1>3, <2>1
    <3>2. Cardinality(InSlots(b)) # 0
      BY <1>3, <3>1, FS_EmptySet
    <3> QED  BY <1>3, <3>2
  <2>2. CASE wr.old = b /\ wr.pc \in {"storepub", "stable", "grace"}
    BY <2>2 DEF InHands
  <2> QED  BY <1>2, <2>1, <2>2 DEF TouchOk
<1> HIDE DEF b
<1>5. refcnt[b] > 0
  BY <1>3, <1>4
<1> QED  BY <1>5 DEF b

\* Between its looks at the slot a reader touches no buffer that went back to
\* the pool: in_cs and ring_wait_quiescent together keep it alive.
THEOREM NoFreedTouch ==
  ASSUME ShortGops, NoEmpty, NoGivingUp
  PROVE  Spec => []NoTouchAfterFree
<1> DEFINE TInv == met = {} => BufInv /\ TouchInv
<1>1. Init => TInv
  BY InitBuf DEF Init, TouchInv, TouchOk
<1>2. FrameInv /\ TInv /\ [Next]_vars => TInv'
  <2> SUFFICES ASSUME FrameInv, TInv, [Next]_vars, met' = {}
               PROVE  BufInv' /\ TouchInv'
    OBVIOUS
  <2>1. met = {}
    BY MetGrows DEF FrameInv, IInv
  <2> QED  BY <2>1, NextBuf, NextTouch
<1>3. FrameInv /\ TInv => NoTouchAfterFree
  <2>1. CASE met = {}
    BY <2>1, TouchSafe DEF FrameInv, IInv
  <2>2. CASE met # {}
    BY <2>2 DEF NoTouchAfterFree
  <2> QED  BY <2>1, <2>2
<1> QED  BY <1>1, <1>2, <1>3, FrameInvariant, PTL DEF Spec
-----------------------------------------------------------------------------
(* Payloads.                                                               *)

\* A buffer the writer gets is in no reader's hands.
LEMMA AllocApart ==
  ASSUME TypeOK, TypeOK', BufInv, NEW k \in Kinds, NEW d \in Dts, AllocWrite(k, d)
  PROVE  Holding(wr'.buf) = {} /\ Taking(wr'.buf) = {}
<1>1. wr \in WriterType /\ SlotOf(writeIdx) \in Slots
  BY SlotFields DEF TypeOK
<1>2. PICK x \in Bufs :
        /\ wr' = [wr EXCEPT !.pc = "fill", !.buf = x,
                            !.frame = [n |-> total + 1, i |-> 0, kind |-> k, dts |-> d]]
        /\ \/ Reusable(SlotBuf) /\ x = SlotBuf /\ refcnt' = refcnt
           \/ refcnt[x] = 0 /\ refcnt' = Ref(refcnt, x)
  BY AllocPicks
<1>3. wr'.buf = x
  BY <1>1, <1>2 DEF WriterType
<1>4. /\ refcnt[x] = Cardinality(InSlots(x)) + Cardinality(Holding(x))
                       + Cardinality(Taking(x)) + InHands(x)
      /\ Cardinality(InSlots(x)) \in Nat /\ Cardinality(Holding(x)) \in Nat
      /\ Cardinality(Taking(x)) \in Nat /\ InHands(x) \in Nat
      /\ IsFiniteSet(InSlots(x)) /\ IsFiniteSet(Holding(x)) /\ IsFiniteSet(Taking(x))
      /\ InSlots(x) = {s \in Slots : slot[s].buf = x}
  BY OwnerCounts DEF BufInv, RefsCounted
<1>5. Cardinality(Holding(x)) = 0 /\ Cardinality(Taking(x)) = 0
  <2>1. CASE Reusable(SlotBuf) /\ x = SlotBuf
    <3>1. InSlots(x) # {}
      BY <1>1, <1>4, <2>1 DEF SlotBuf
    <3>2. Cardinality(InSlots(x)) # 0
      BY <1>4, <3>1, FS_EmptySet
    <3>3. refcnt[x] = 1
      BY <2>1 DEF Reusable
    <3> QED  BY <1>4, <3>2, <3>3
  <2>2. CASE refcnt[x] = 0
    BY <1>4, <2>2
  <2> QED  BY <1>2, <2>1, <2>2
<1> QED  BY <1>3, <1>4, <1>5, FS_EmptySet

LEMMA InitData == Init => DataOk /\ HeldInv
<1> SUFFICES ASSUME Init PROVE DataOk /\ HeldInv
  OBVIOUS
<1>1. /\ wr.pc = "idle" /\ \A s \in Slots : slot[s].buf = NoBuf
      /\ \A r \in Readers : rd[r].held = NoBuf /\ rd[r].pc = "idle"
  BY DEF Init, Slots
<1> QED  BY <1>1 DEF DataOk, HeldInv, HeldOk, Refilling

\* The writer fills a buffer before the buffer's slot shows the new frame.
LEMMA WriterData ==
  ASSUME ShortGops, IInv, WInv, BufInv, DataOk, WriterStep
  PROVE  DataOk'
<1>1. /\ TypeOK /\ HandOk /\ StartOk /\ SlotOf(writeIdx) \in Slots
      /\ \A s \in Slots : slot[s].buf \in Bufs \cup {NoBuf}
      /\ wr.buf \in Bufs \cup {NoBuf} /\ wr.frame.n \in Nat
      /\ data \in [Bufs -> Nat] /\ writeIdx \in Nat
  BY FieldTypes, SlotFields DEF IInv, BufInv, TypeOK, Slots
<1>2. CASE FillBuf
  <2>1. /\ wr.pc = "fill" /\ wr'.pc = "commit" /\ wr'.buf = wr.buf /\ wr'.frame = wr.frame
        /\ data' = [data EXCEPT ![wr.buf] = wr.frame.n] /\ UNCHANGED <<slot, writeIdx>>
    BY <1>1, <1>2, HandSteps, QuietSteps DEF Quiet
  <2>2. wr.buf \in Bufs /\ \A s \in Slots : slot[s].buf = wr.buf => s = SlotOf(writeIdx)
    BY <1>1, <2>1 DEF HandOk, Unstored
  <2>3. data'[wr.buf] = wr.frame.n
    BY <1>1, <2>1, <2>2
  <2>4. ASSUME NEW s \in Slots, slot[s].buf # NoBuf
        PROVE  data'[slot[s].buf] = slot[s].pub.n \/ s = SlotOf(writeIdx)
    <3>1. CASE slot[s].buf = wr.buf
      BY <2>2, <3>1
    <3>2. CASE slot[s].buf # wr.buf
      <4>1. data'[slot[s].buf] = data[slot[s].buf]
        BY <1>1, <2>1, <2>4, <3>2
      <4> QED  BY <2>1, <2>4, <4>1 DEF DataOk, Refilling
    <3> QED  BY <3>1, <3>2
  <2> QED  BY <2>1, <2>3, <2>4 DEF DataOk, Refilling
<1>3. ASSUME ~FillBuf PROVE data' = data
  BY <1>1, <1>3, HandSteps
<1>4. CASE \/ BeginCommit \/ FirstGop \/ RoomForGop \/ AppendGop \/ MakeRoom
  <2>1. /\ UNCHANGED <<slot, writeIdx>> /\ wr'.buf = wr.buf /\ wr'.frame.n = wr.frame.n
        /\ wr.pc \in Refilling /\ wr'.pc \in Refilling
    BY <1>1, <1>4, QuietSteps, HandSteps DEF Quiet, Refilling
  <2>2. data' = data
    <3>1. wr.pc # "fill"
      BY <2>1 DEF Refilling
    <3> QED  BY <1>1, <1>3, <3>1, HandSteps
  <2> QED  BY <2>1, <2>2 DEF DataOk
<1>5. CASE \/ Grace \/ Trim \/ SetVideoConfig
  <2>1. /\ UNCHANGED <<slot, writeIdx>>
        /\ wr.pc \notin Refilling \cup {"fill"} /\ wr'.pc \notin Refilling
    BY <1>1, <1>5, QuietSteps, HandSteps DEF Quiet, Refilling
  <2>2. data' = data
    BY <1>1, <1>3, <2>1, HandSteps
  <2> QED  BY <2>1, <2>2 DEF DataOk
<1>6. CASE \E k \in Kinds, d \in Dts : AllocWrite(k, d)
  <2>1. wr.pc = "idle" /\ wr'.pc = "fill" /\ UNCHANGED <<slot, writeIdx>>
    BY <1>1, <1>6, LoudSteps
  <2>2. data' = data
    BY <1>1, <1>3, <2>1, HandSteps
  <2> QED  BY <2>1, <2>2 DEF DataOk, Refilling
<1>7. CASE RejectEmpty \/ DropFrame
  <2>1. DropFrame
    BY <1>1, <1>7, HandSteps DEF HandOk
  <2>2. /\ UNCHANGED <<slot, writeIdx>> /\ wr.pc = "commit" /\ wr'.pc = "idle"
        /\ ~cacheStarted
    BY <1>1, <2>1, QuietSteps, HandSteps DEF Quiet
  <2>3. data' = data
    BY <1>1, <1>3, <2>2, HandSteps
  <2>4. SlotOf(writeIdx) = writeIdx
    <3>1. InFlight = 0
      BY <2>2 DEF InFlight, LockedPcs
    <3>2. writeIdx <= run /\ run <= MaxGopLen /\ run \in Nat
      BY <1>1, <2>2, <3>1 DEF StartOk, WInv, RunInv, TypeOK
    <3>3. writeIdx < Capacity
      BY <1>1, <3>2, CapacityAssumption, BoundAssumption DEF ShortGops
    <3> QED  BY <1>1, <3>3, CapacityAssumption DEF SlotOf
  <2>5. \A s \in Slots : slot[s].buf # NoBuf => s < writeIdx
    BY <1>1, <2>2 DEF StartOk, Uncounted
  <2>6. slot[SlotOf(writeIdx)].buf = NoBuf
    BY <1>1, <2>4, <2>5
  <2> QED  BY <2>2, <2>3, <2>6 DEF DataOk, Refilling
<1>8. CASE PublishBegin
  <2>1. /\ wr.pc \in Refilling /\ wr'.pc \in Refilling /\ wr'.frame = wr.frame
        /\ writeIdx' = writeIdx /\ wr'.buf = wr.buf /\ wr.pc # "fill"
    BY <1>1, <1>8, LoudSteps, HandSteps DEF Refilling
  <2>2. \A s \in Slots : slot'[s].buf = slot[s].buf /\ slot'[s].pub = slot[s].pub
    BY <1>1, <1>8, SlotSteps
  <2>3. data' = data
    BY <1>1, <1>3, <2>1, HandSteps
  <2> QED  BY <2>1, <2>2, <2>3 DEF DataOk
<1>9. CASE StoreBuf
  <2>1. /\ wr.pc \in Refilling /\ wr'.pc \in Refilling /\ wr'.frame = wr.frame
        /\ writeIdx' = writeIdx /\ wr'.buf = wr.buf /\ wr.pc # "fill"
    BY <1>1, <1>9, LoudSteps, HandSteps DEF Refilling
  <2>2. \A s \in Slots : s # SlotOf(writeIdx) =>
             slot'[s].buf = slot[s].buf /\ slot'[s].pub = slot[s].pub
    BY <1>1, <1>9, SlotSteps
  <2>3. data' = data
    BY <1>1, <1>3, <2>1, HandSteps
  <2> QED  BY <2>1, <2>2, <2>3 DEF DataOk
<1>10. CASE StorePub
  <2>1. /\ wr.pc = "storepub" /\ wr'.pc = "stable" /\ writeIdx' = writeIdx
    BY <1>1, <1>10, LoudSteps
  <2>2. \A s \in Slots :
          /\ slot'[s].buf = slot[s].buf
          /\ slot'[s].pub = IF s = SlotOf(writeIdx) THEN wr.frame ELSE slot[s].pub
    BY <1>1, <1>10, SlotSteps
  <2>3. data' = data
    BY <1>1, <1>3, <2>1, HandSteps
  <2>4. slot[SlotOf(writeIdx)].buf = wr.buf /\ data[wr.buf] = wr.frame.n
    BY <1>1, <2>1 DEF HandOk, Uncounted, DataOk, Refilling, SlotBuf
  <2> QED  BY <2>1, <2>2, <2>3, <2>4 DEF DataOk, Refilling
<1>11. CASE PublishEnd \/ Advance \/ EndCommit
  <2>1. wr.pc \notin Refilling \cup {"fill"} /\ wr'.pc \notin Refilling
    BY <1>1, <1>11, LoudSteps DEF Refilling
  <2>2. \A s \in Slots : slot'[s].buf = slot[s].buf /\ slot'[s].pub = slot[s].pub
    BY <1>1, <1>11, LoudSteps, SlotSteps
  <2>3. data' = data
    BY <1>1, <1>3, <2>1, HandSteps
  <2> QED  BY <2>1, <2>2, <2>3 DEF DataOk
<1>12. CASE Clear
  <2>1. wr' = wr /\ data' = data /\ \A s \in Slots : slot'[s].buf = NoBuf
    BY <1>1, <1>12, SlotSteps DEF Clear
  <2> QED  BY <2>1 DEF DataOk
<1> QED
  BY <1>2, <1>4, <1>5, <1>6, <1>7, <1>8, <1>9, <1>10, <1>11, <1>12 DEF WriterStep, Quiet

\* The writer fills no buffer that a reader holds or may still confirm.
LEMMA WriterHeld ==
  ASSUME TypeOK, TypeOK', BufInv, WriterStep, ~Clear, NEW r \in Readers, HeldOk(r)
  PROVE  HeldOk(r)'
<1>1. /\ rd' = rd /\ ~Clear
      /\ writeIdx \in Nat /\ writeIdx' \in Nat /\ data \in [Bufs -> Nat]
      /\ rd[r].idx \in Nat /\ Capacity \in Nat
  BY QuietSteps, LoudSteps, ReaderNumbers, CapacityAssumption DEF WriterStep, TypeOK
<1>2. writeIdx' >= writeIdx
  <2>1. writeIdx' \in {writeIdx, writeIdx + 1}
    BY <1>1, QuietSteps, LoudSteps DEF WriterStep
  <2> QED  BY <1>1, <2>1
<1>3. rd[r].idx + Capacity <= writeIdx => rd[r].idx + Capacity <= writeIdx'
  BY <1>1, <1>2
<1>4. CASE \E k \in Kinds, d \in Dts : AllocWrite(k, d)
  <2>1. Holding(wr'.buf) = {} /\ Taking(wr'.buf) = {} /\ wr.pc = "idle"
    BY <1>4, AllocApart, LoudSteps
  <2>2. rd[r].held # wr'.buf /\ (rd[r].pc = "confirm" => rd[r].buf # wr'.buf)
    BY <2>1 DEF Holding, Taking
  <2>3. data' = data
    BY <1>4, <2>1, HandSteps DEF WriterStep
  <2> QED  BY <1>1, <1>3, <2>2, <2>3 DEF HeldOk
<1>5. CASE FillBuf
  <2>1. wr.pc = "fill" /\ wr'.pc = "commit" /\ data' = [data EXCEPT ![wr.buf] = wr.frame.n]
    BY <1>5, HandSteps
  <2>2. \A b : b # wr.buf => data'[b] = data[b]
    BY <1>1, <2>1
  <2> QED  BY <1>1, <1>3, <2>1, <2>2 DEF HeldOk
<1>6. CASE WriterStep /\ ~FillBuf /\ ~\E k \in Kinds, d \in Dts : AllocWrite(k, d)
  <2>1. data' = data
    BY <1>6, HandSteps
  <2>2. wr'.pc # "fill"
    <3>1. CASE Quiet
      <4>1. CASE SetVideoConfig
        BY <4>1, HandSteps
      <4> QED  BY <1>6, <3>1, <4>1, HandSteps DEF Quiet, BufInv, HandOk
    <3>2. CASE ~Quiet
      BY <1>1, <1>6, <3>2, LoudSteps DEF WriterStep
    <3> QED  BY <3>1, <3>2
  <2> QED  BY <1>1, <1>3, <2>1, <2>2 DEF HeldOk
<1> QED  BY <1>4, <1>5, <1>6

\* The frame of a slot other than the one at write_idx is in its buffer.
LEMMA SlotData ==
  ASSUME TypeOK, HandOk, DataOk, NEW s \in Slots, slot[s].buf # NoBuf,
         s # SlotOf(writeIdx)
  PROVE  /\ data[slot[s].buf] = slot[s].pub.n
         /\ wr.pc = "fill" => slot[s].buf # wr.buf
BY DEF HandOk, DataOk, Unstored

\* A reader's own steps: it keeps a frame whose slot it has seen unchanged while
\* the ring has not come round to the slot again.
LEMMA OwnHeld ==
  ASSUME FrameInv, BufInv, DataOk, NEW r \in Readers, CursorOk(r), HeldOk(r), Reader(r)
  PROVE  HeldOk(r)'
<1>1. /\ IInv /\ TypeOK /\ StoreInv /\ LookOk(r) /\ HandOk /\ RoomInv
      /\ UNCHANGED <<slot, wr, data, writeIdx>>
  BY OneReader DEF FrameInv, IInv, ReadInv, BufInv, WInv, readerOnly, ringVars
<1>2. /\ writeIdx \in Nat /\ writeSeq \in Nat /\ writeSeq <= writeIdx
      /\ count \in Nat /\ count < Capacity /\ Capacity \in Nat /\ oldestSeq \in Nat
      /\ writeIdx - oldestSeq <= count /\ rd[r].idx \in Nat
  BY <1>1, ReaderNumbers, CapacityAssumption DEF TypeOK, RoomInv, StoreInv, SeqOk
<1>3. ASSUME rd'[r].held = rd[r].held, rd'[r].got = rd[r].got, rd'[r].att = rd[r].att,
             rd'[r].pc # "confirm"
      PROVE  HeldOk(r)'
  BY <1>1, <1>3 DEF HeldOk
<1>4. CASE \E g \in BOOLEAN : Attach(r, g)
  <2>1. /\ ~rd[r].att /\ rd'[r].held = rd[r].held /\ rd'[r].pc = rd[r].pc
    BY <1>1, <1>4, AttachStep
  <2> QED  BY <1>1, <2>1 DEF HeldOk, LookOk
<1>5. CASE Detach(r)
  BY <1>1, <1>5, AttachStep DEF HeldOk
<1>6. CASE ReadBegin(r) \/ ReadRoute(r) \/ TakeEnter(r) \/ TakeLoad(r) \/ TakeCheck(r)
  BY <1>1, <1>3, <1>6, LookStep
<1>7. CASE TakeRef(r)
  BY <1>1, <1>3, <1>7, TakeStep
<1>8. CASE TakeRecheck(r) /\ rd'[r].pc # "confirm"
  BY <1>1, <1>3, <1>8, TakeStep
<1>9. CASE TakeRecheck(r) /\ rd'[r].pc = "confirm"
  <2> DEFINE s == SlotOf(rd[r].idx)
  <2>1. /\ rd[r].pc = "recheck" /\ rd'[r].held = rd[r].held /\ rd'[r].got = rd[r].got
        /\ rd'[r].att = rd[r].att /\ rd'[r].idx = rd[r].idx
        /\ rd'[r].buf = rd[r].buf /\ rd'[r].pub = rd[r].pub
        /\ rd[r].s1 = ReaderSlot(r).seq
    BY <1>1, <1>9, TakeStep
  <2>2. s \in Slots /\ ReaderSlot(r) = slot[s]
    BY <1>1, ReaderNumbers
  <2>3. rd[r].buf = slot[s].buf /\ rd[r].pub = slot[s].pub /\ slot[s].buf # NoBuf
    BY <1>1, <2>1, <2>2 DEF LookOk, Loaded
  <2>4. rd[r].idx < writeIdx
    BY <1>2, <2>1 DEF CursorOk
  <2>5. CASE s = SlotOf(writeIdx)
    <3>1. writeIdx >= rd[r].idx + Capacity
      BY <1>2, <2>4, <2>5, LapApart
    <3>2. rd[r].idx + Capacity <= writeIdx
      BY <1>2, <3>1
    <3> QED  BY <1>1, <2>1, <3>2 DEF HeldOk
  <2>6. CASE s # SlotOf(writeIdx)
    <3>1. data[rd[r].buf] = rd[r].pub.n /\ (wr.pc = "fill" => rd[r].buf # wr.buf)
      BY <1>1, <2>2, <2>3, <2>6, SlotData
    <3> QED  BY <1>1, <2>1, <3>1 DEF HeldOk
  <2> QED  BY <2>5, <2>6
<1>10. CASE TakeConfirm(r) /\ rd'[r].pc # "idle"
  BY <1>1, <1>3, <1>10, TakeStep
<1>11. CASE TakeConfirm(r) /\ rd'[r].pc = "idle"
  <2>1. /\ rd[r].pc = "confirm" /\ rd'[r].got = rd[r].pub /\ rd'[r].held = rd[r].buf
        /\ rd[r].idx >= oldestSeq /\ rd'[r].att = rd[r].att
    BY <1>1, <1>11, TakeStep
  <2>2. ~(rd[r].idx + Capacity <= writeIdx)
    BY <1>2, <2>1
  <2>3. rd[r].att
    BY <1>1, <2>1 DEF LookOk
  <2> QED  BY <1>1, <1>11, <2>1, <2>2, <2>3 DEF HeldOk
<1>12. CASE TakeLocked(r)
  <2>1. /\ rd'[r].pc = "idle" /\ rd'[r].att = rd[r].att /\ rd[r].att
    BY <1>1, <1>12, LockedStep DEF LookOk
  <2>2. CASE rd'[r].held = rd[r].held /\ rd'[r].got = rd[r].got
    BY <1>3, <2>1, <2>2
  <2>3. CASE ~(rd'[r].held = rd[r].held /\ rd'[r].got = rd[r].got)
    <3>1. PICK i \in Nat :
            /\ i >= writeIdx - count /\ i < writeIdx /\ slot[SlotOf(i)].buf # NoBuf
            /\ rd'[r].held = slot[SlotOf(i)].buf /\ rd'[r].got = slot[SlotOf(i)].pub
      BY <1>1, <1>12, <2>3, LockedStep
    <3>2. SlotOf(i) \in Slots
      BY SlotOfType DEF Slots
    <3>3. SlotOf(i) # SlotOf(writeIdx)
      <4>1. SUFFICES ASSUME SlotOf(i) = SlotOf(writeIdx) PROVE FALSE
        OBVIOUS
      <4>2. writeIdx >= i + Capacity
        BY <1>2, <3>1, <4>1, LapApart
      <4> QED  BY <1>2, <3>1, <4>2
    <3>4. /\ data[rd'[r].held] = rd'[r].got.n
          /\ wr.pc = "fill" => rd'[r].held # wr.buf
      BY <1>1, <3>1, <3>2, <3>3, SlotData
    <3> QED  BY <1>1, <2>1, <3>4 DEF HeldOk
  <2> QED  BY <2>2, <2>3
<1> QED
  BY <1>4, <1>5, <1>6, <1>7, <1>8, <1>9, <1>10, <1>11, <1>12 DEF Reader, Take

LEMMA NextHeld ==
  ASSUME ShortGops, FrameInv, CursorInv, BufInv, DataOk, HeldInv, [Next]_vars, met' = {}
  PROVE  DataOk' /\ HeldInv'
<1>1. /\ IInv /\ TypeOK /\ TypeOK' /\ WInv
      /\ \A r \in Readers : CursorOk(r) /\ HeldOk(r)
  BY NextInv DEF FrameInv, IInv, CursorInv, HeldInv
<1>5. CASE Clear
  <2>1. /\ UNCHANGED <<wr, rd, data>>
        /\ \A r \in Readers : rd[r].pc \in {"idle", "locked"}
    BY <1>1, <1>5, MetGrows
  <2>2. \A r \in Readers : HeldOk(r)'
    BY <1>1, <2>1 DEF HeldOk
  <2> QED  BY <1>1, <1>5, <2>2, WriterData DEF WriterStep, HeldInv
<1>2. CASE (Writer \/ SetVideoConfig) /\ ~Clear
  <2>1. WriterStep
    BY <1>2, WriterSteps
  <2> QED  BY <1>1, <1>2, <2>1, WriterData, WriterHeld DEF HeldInv
<1>3. ASSUME NEW r \in Readers, Reader(r) PROVE DataOk' /\ HeldInv'
  <2>1. /\ UNCHANGED <<slot, wr, data, writeIdx>>
        /\ \A q \in Readers \ {r} : rd'[q] = rd[q]
    BY <1>1, <1>3, OneReader DEF readerOnly, ringVars
  <2>2. DataOk'
    BY <2>1 DEF DataOk
  <2>3. \A q \in Readers \ {r} : HeldOk(q)'
    BY <1>1, <2>1 DEF HeldOk
  <2>4. HeldOk(r)'
    BY <1>1, <1>3, OwnHeld
  <2> QED  BY <2>2, <2>3, <2>4 DEF HeldInv
<1>4. CASE UNCHANGED vars
  <2>1. UNCHANGED <<slot, wr, data, writeIdx, rd>>
    BY <1>4 DEF vars, ringVars, bufVars
  <2> QED  BY <2>1 DEF DataOk, HeldInv, HeldOk
<1> QED  BY <1>2, <1>3, <1>4, <1>5 DEF Next

\* The payload a reader holds is its frame's for as long as it holds it: the
\* writer refills a lent buffer only when nobody else has it, and a lock-free
\* take keeps no buffer that was refilled between its looks at the slot.
THEOREM HeldStaysIntact ==
  ASSUME ShortGops, NoEmpty
  PROVE  Spec => []HeldIntact
<1> DEFINE HInv == met = {} => BufInv /\ CursorInv /\ DataOk /\ HeldInv
<1>1. Init => HInv
  BY InitBuf, InitData DEF Init, CursorInv, CursorOk
<1>2. FrameInv /\ HInv /\ [Next]_vars => HInv'
  <2> SUFFICES ASSUME FrameInv, HInv, [Next]_vars, met' = {}
               PROVE  BufInv' /\ CursorInv' /\ DataOk' /\ HeldInv'
    OBVIOUS
  <2>1. met = {}
    BY MetGrows DEF FrameInv, IInv
  <2> QED  BY <2>1, NextBuf, NextCursor, NextHeld
<1>3. HInv => HeldIntact
  BY DEF HeldInv, HeldOk, HeldIntact
<1> QED  BY <1>1, <1>2, <1>3, FrameInvariant, PTL DEF Spec
=============================================================================
