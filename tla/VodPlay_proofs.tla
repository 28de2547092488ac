--------------------------- MODULE VodPlay_proofs ---------------------------
(***************************************************************************)
(* What an RTMP player of a file gets, and what it holds: proved for every *)
(* file, every size of FIFO, outbox and budgets, any number of lanes and   *)
(* commands.                                                               *)
(***************************************************************************)
EXTENDS VodPlay, FiniteSetTheorems, WellFoundedInduction, TLAPS

USE LaneAssumption

-----------------------------------------------------------------------------
(* Repetition.  Pump, DemuxFill and Pumped repeat one step a number of     *)
(* times (FoldLeft over Times): there is a trace of the states between.    *)

\* Induction: a set of naturals that has 0 and, with a number, the next one.
LEMMA Induction ==
  ASSUME NEW S, 0 \in S, \A n \in Nat : n \in S => n + 1 \in S
  PROVE  Nat \subseteq S
<1> DEFINE T == Nat \ S
           R == OpToRel(<, Nat)
<1>1. SUFFICES ASSUME T # {} PROVE FALSE
  OBVIOUS
<1>2. PICK x \in T : \A y \in T : ~(<<y, x>> \in R)
  BY <1>1, WFMin, NatLessThanWellFounded
<1>3. x \in Nat /\ x # 0 /\ x - 1 \in Nat /\ x - 1 < x
  OBVIOUS
<1>4. <<x - 1, x>> \in R
  BY <1>3 DEF OpToRel
<1>5. x - 1 \in S
  BY <1>2, <1>3, <1>4
<1>6. (x - 1) + 1 \in S /\ (x - 1) + 1 = x
  BY <1>3, <1>5
<1> QED  BY <1>6

\* A non-empty set of naturals has a least element.
LEMMA HasLeast ==
  ASSUME NEW S \in SUBSET Nat, S # {}
  PROVE  \E x \in S : \A y \in S : x <= y
<1>1. PICK x \in S : \A y \in S : ~(<<y, x>> \in OpToRel(<, Nat))
  BY WFMin, NatLessThanWellFounded
<1>2. \A y \in S : <<y, x>> \in OpToRel(<, Nat) <=> y < x
  BY DEF OpToRel
<1>3. \A y \in S : x \in Nat /\ y \in Nat /\ ~(y < x)
  BY <1>1, <1>2
<1> QED  BY <1>3

\* And a bounded one has a greatest.
LEMMA HasGreatest ==
  ASSUME NEW S \in SUBSET Nat, S # {}, NEW k \in Nat, \A y \in S : y <= k
  PROVE  \E x \in S : \A y \in S : x >= y
<1> DEFINE D == {k - y : y \in S}
<1>0. \A y \in S : k - y \in Nat
  OBVIOUS
<1>1. D \in SUBSET Nat /\ D # {}
  BY <1>0
<1>2. PICK d \in D : \A e \in D : d <= e
  BY <1>1, HasLeast
<1>3. PICK x \in S : d = k - x
  OBVIOUS
<1>4. \A y \in S : k - x <= k - y
  BY <1>2, <1>3
<1>5. \A y \in S : x >= y
  BY <1>4
<1> QED  BY <1>5

LEMMA MaxOf ==
  ASSUME NEW k \in Nat, NEW s \in SUBSET (1..k), s # {}
  PROVE  Max(s) \in s /\ \A y \in s : Max(s) >= y
<1>1. \E x \in s : \A y \in s : x >= y
  <2>1. s \in SUBSET Nat /\ \A y \in s : y <= k
    OBVIOUS
  <2> QED  BY <2>1, HasGreatest
<1> QED  BY <1>1 DEF Max

LEMMA MaxUpTo ==
  ASSUME NEW n \in Nat \ {0}
  PROVE  Max(1..n) = n /\ (1..n) \ {n} = 1..n-1
<1>1. (1..n) \in SUBSET (1..n) /\ n \in 1..n
  OBVIOUS
<1>2. Max(1..n) \in 1..n /\ \A y \in 1..n : Max(1..n) >= y
  BY <1>1, MaxOf
<1> QED  BY <1>1, <1>2

\* A function applied again and again: where it leads from a, in k steps.
IsTrace(g, A, F, a, k) ==
    g \in [0..k -> A] /\ g[0] = a /\ \A i \in 0..k-1 : g[i + 1] = F[g[i]]

LEMMA Trace ==
  ASSUME NEW A, NEW F \in [A -> A], NEW a \in A, NEW k \in Nat
  PROVE  \E g : IsTrace(g, A, F, a, k)
<1> DEFINE S == {n \in Nat : \E g \in [0..n -> A] :
                                g[0] = a /\ \A i \in 0..n-1 : g[i + 1] = F[g[i]]}
<1>1. 0 \in S
  <2> DEFINE g == [i \in 0..0 |-> a]
  <2>1. g \in [0..0 -> A] /\ g[0] = a /\ \A i \in 0..0-1 : g[i + 1] = F[g[i]]
    OBVIOUS
  <2> QED  BY <2>1
<1>2. ASSUME NEW n \in Nat, n \in S PROVE n + 1 \in S
  <2>1. PICK g \in [0..n -> A] : g[0] = a /\ \A i \in 0..n-1 : g[i + 1] = F[g[i]]
    BY <1>2
  <2> DEFINE h == [i \in 0..n+1 |-> IF i = n + 1 THEN F[g[n]] ELSE g[i]]
  <2>2. h \in [0..n+1 -> A]
    BY <2>1
  <2>3. h[0] = a
    BY <2>1
  <2>4. ASSUME NEW i \in 0..n PROVE h[i + 1] = F[h[i]]
    <3>1. h[i] = g[i]
      OBVIOUS
    <3>2. CASE i = n
      BY <3>1, <3>2
    <3>3. CASE i # n
      <4>1. i \in 0..n-1 /\ h[i + 1] = g[i + 1]
        BY <3>3
      <4> QED  BY <2>1, <3>1, <4>1
    <3> QED  BY <3>2, <3>3
  <2>5. \A i \in 0..(n+1)-1 : h[i + 1] = F[h[i]]
    <3>1. 0..(n+1)-1 = 0..n
      OBVIOUS
    <3> HIDE DEF h
    <3> QED  BY <2>4, <3>1
  <2> HIDE DEF h
  <2> QED  BY <2>2, <2>3, <2>5
<1> HIDE DEF S
<1>3. k \in S
  BY <1>1, <1>2, Induction
<1> QED  BY <1>3 DEF S, IsTrace

\* Removing its greatest element leaves a part of 1..k one smaller.
LEMMA WithoutMax ==
  ASSUME NEW k \in Nat, NEW s \in SUBSET (1..k), s # {}
  PROVE  /\ Cardinality(s) \in 1..k
         /\ s \ {Max(s)} \in SUBSET (1..k)
         /\ Cardinality(s \ {Max(s)}) = Cardinality(s) - 1
<1>1. IsFiniteSet(1..k) /\ Cardinality(1..k) = k
  BY FS_Interval
<1>2. IsFiniteSet(s) /\ Cardinality(s) <= k /\ Cardinality(s) \in Nat
  <2>1. s \subseteq 1..k
    OBVIOUS
  <2>2. IsFiniteSet(s) /\ Cardinality(s) <= Cardinality(1..k)
    BY <1>1, <2>1, FS_Subset
  <2>3. Cardinality(s) \in Nat
    BY <2>2, FS_CardinalityType
  <2> QED  BY <1>1, <2>2, <2>3
<1>3. Max(s) \in s
  BY MaxOf
<1>4. Cardinality(s \ {Max(s)}) = Cardinality(s) - 1
  BY <1>2, <1>3, FS_RemoveElement
<1>5. Cardinality(s) # 0
  BY <1>2, <1>3, FS_EmptySet
<1>6. Cardinality(s) \in 1..k
  BY <1>2, <1>5
<1>7. s \ {Max(s)} \in SUBSET (1..k)
  OBVIOUS
<1> QED  BY <1>4, <1>6, <1>7

\* Two iterations that start and go on alike end alike.
LEMMA IteratesMeet ==
  ASSUME NEW k \in Nat, NEW h, NEW g, h[{}] = g[0],
         \A n \in 0..k-1 : h[1..n] = g[n] => h[1..n+1] = g[n + 1]
  PROVE  h[1..k] = g[k]
<1> DEFINE S == {n \in Nat : n <= k => h[1..n] = g[n]}
<1>1. 0 \in S
  <2>1. 1..0 = {}
    OBVIOUS
  <2> QED  BY <2>1
<1>2. ASSUME NEW n \in Nat, n \in S PROVE n + 1 \in S
  <2>1. n + 1 <= k => n \in 0..k-1
    OBVIOUS
  <2> QED  BY <1>2, <2>1
<1> HIDE DEF S
<1>3. k \in S
  BY <1>1, <1>2, Induction
<1> QED  BY <1>3 DEF S

\* Folding a step over Times(k) ends where its trace ends: of mp4_pump,
LEMMA PumpFold ==
  ASSUME NEW k \in Nat, NEW a, NEW g, g[0] = a,
         \A i \in 0..k-1 : g[i + 1] = PumpOnce(g[i])
  PROVE  FoldLeft(LAMBDA l, i : PumpOnce(l), a, Times(k)) = g[k]
<1> DEFINE Body(f) == [s \in SUBSET (1..k) |->
                         IF s = {} THEN a ELSE PumpOnce(f[s \ {Max(s)}])]
           G == [s \in SUBSET (1..k) |-> g[Cardinality(s)]]
           iter == CHOOSE f : f = Body(f)
<1>1. G = Body(G)
  <2>1. ASSUME NEW s \in SUBSET (1..k), s # {}
        PROVE  g[Cardinality(s)] = PumpOnce(G[s \ {Max(s)}])
    <3>0. Cardinality(s) \in 1..k
      BY <2>1, WithoutMax
    <3>1. Cardinality(s) - 1 \in 0..k-1 /\ (Cardinality(s) - 1) + 1 = Cardinality(s)
      BY <3>0
    <3>2. G[s \ {Max(s)}] = g[Cardinality(s) - 1]
      BY <2>1, WithoutMax
    <3> HIDE DEF G
    <3> QED  BY <3>1, <3>2
  <2>2. g[Cardinality({})] = a
    BY FS_EmptySet
  <2> QED  BY <2>1, <2>2
<1>2. iter = Body(iter)
  <2> HIDE DEF Body, G
  <2> QED  BY <1>1
<1>3. iter[{}] = g[0]
  <2>1. {} \in SUBSET (1..k)
    OBVIOUS
  <2> HIDE DEF iter
  <2> QED  BY <1>2, <2>1
<1>4. ASSUME NEW n \in 0..k-1, iter[1..n] = g[n] PROVE iter[1..n+1] = g[n + 1]
  <2> HIDE DEF iter
  <2>0. n \in Nat /\ n < k
    OBVIOUS
  <2>1. 1..n+1 \in SUBSET (1..k) /\ 1..n+1 # {}
    BY <2>0
  <2>2. Max(1..n+1) = n + 1 /\ (1..n+1) \ {n + 1} = 1..n
    <3>1. n + 1 \in Nat \ {0} /\ (n + 1) - 1 = n
      BY <2>0
    <3> QED  BY <3>1, MaxUpTo
  <2>3. iter[1..n+1] = PumpOnce(iter[1..n])
    BY <1>2, <2>1, <2>2
  <2> QED  BY <1>4, <2>0, <2>3
<1>5. iter[1..k] = g[k]
  <2> HIDE DEF iter
  <2> QED  BY <1>3, <1>4, IteratesMeet
<1>6. DOMAIN Times(k) = 1..k
  BY DEF Times
<1> QED  BY <1>5, <1>6 DEF FoldLeft, MapThenFoldSet, Times

\* of zms_vod_play_lane_demux_fill
LEMMA FillFold ==
  ASSUME NEW k \in Nat, NEW a, NEW g, g[0] = a,
         \A i \in 0..k-1 : g[i + 1] = IF Lag(g[i]) >= TargetLag THEN g[i] ELSE PumpOnce(g[i])
  PROVE  FoldLeft(LAMBDA l, i : IF Lag(l) >= TargetLag THEN l ELSE PumpOnce(l), a, Times(k)) = g[k]
<1> DEFINE Body(f) == [s \in SUBSET (1..k) |->
                         IF s = {} THEN a ELSE IF Lag(f[s \ {Max(s)}]) >= TargetLag THEN f[s \ {Max(s)}] ELSE PumpOnce(f[s \ {Max(s)}])]
           G == [s \in SUBSET (1..k) |-> g[Cardinality(s)]]
           iter == CHOOSE f : f = Body(f)
<1>1. G = Body(G)
  <2>1. ASSUME NEW s \in SUBSET (1..k), s # {}
        PROVE  g[Cardinality(s)] = IF Lag(G[s \ {Max(s)}]) >= TargetLag THEN G[s \ {Max(s)}] ELSE PumpOnce(G[s \ {Max(s)}])
    <3>0. Cardinality(s) \in 1..k
      BY <2>1, WithoutMax
    <3>1. Cardinality(s) - 1 \in 0..k-1 /\ (Cardinality(s) - 1) + 1 = Cardinality(s)
      BY <3>0
    <3>2. G[s \ {Max(s)}] = g[Cardinality(s) - 1]
      BY <2>1, WithoutMax
    <3> HIDE DEF G
    <3> QED  BY <3>1, <3>2
  <2>2. g[Cardinality({})] = a
    BY FS_EmptySet
  <2> QED  BY <2>1, <2>2
<1>2. iter = Body(iter)
  <2> HIDE DEF Body, G
  <2> QED  BY <1>1
<1>3. iter[{}] = g[0]
  <2>1. {} \in SUBSET (1..k)
    OBVIOUS
  <2> HIDE DEF iter
  <2> QED  BY <1>2, <2>1
<1>4. ASSUME NEW n \in 0..k-1, iter[1..n] = g[n] PROVE iter[1..n+1] = g[n + 1]
  <2> HIDE DEF iter
  <2>0. n \in Nat /\ n < k
    OBVIOUS
  <2>1. 1..n+1 \in SUBSET (1..k) /\ 1..n+1 # {}
    BY <2>0
  <2>2. Max(1..n+1) = n + 1 /\ (1..n+1) \ {n + 1} = 1..n
    <3>1. n + 1 \in Nat \ {0} /\ (n + 1) - 1 = n
      BY <2>0
    <3> QED  BY <3>1, MaxUpTo
  <2>3. iter[1..n+1] = IF Lag(iter[1..n]) >= TargetLag THEN iter[1..n] ELSE PumpOnce(iter[1..n])
    BY <1>2, <2>1, <2>2
  <2> QED  BY <1>4, <2>0, <2>3
<1>5. iter[1..k] = g[k]
  <2> HIDE DEF iter
  <2> QED  BY <1>3, <1>4, IteratesMeet
<1>6. DOMAIN Times(k) = 1..k
  BY DEF Times
<1> QED  BY <1>5, <1>6 DEF FoldLeft, MapThenFoldSet, Times

\* and of zms_egress_pipeline_pump_flv_vod.
LEMMA StepFold ==
  ASSUME NEW k \in Nat, NEW a, NEW g, g[0] = a,
         \A i \in 0..k-1 : g[i + 1] = VodStep(g[i])
  PROVE  FoldLeft(LAMBDA p, i : VodStep(p), a, Times(k)) = g[k]
<1> DEFINE Body(f) == [s \in SUBSET (1..k) |->
                         IF s = {} THEN a ELSE VodStep(f[s \ {Max(s)}])]
           G == [s \in SUBSET (1..k) |-> g[Cardinality(s)]]
           iter == CHOOSE f : f = Body(f)
<1>1. G = Body(G)
  <2>1. ASSUME NEW s \in SUBSET (1..k), s # {}
        PROVE  g[Cardinality(s)] = VodStep(G[s \ {Max(s)}])
    <3>0. Cardinality(s) \in 1..k
      BY <2>1, WithoutMax
    <3>1. Cardinality(s) - 1 \in 0..k-1 /\ (Cardinality(s) - 1) + 1 = Cardinality(s)
      BY <3>0
    <3>2. G[s \ {Max(s)}] = g[Cardinality(s) - 1]
      BY <2>1, WithoutMax
    <3> HIDE DEF G
    <3> QED  BY <3>1, <3>2
  <2>2. g[Cardinality({})] = a
    BY FS_EmptySet
  <2> QED  BY <2>1, <2>2
<1>2. iter = Body(iter)
  <2> HIDE DEF Body, G
  <2> QED  BY <1>1
<1>3. iter[{}] = g[0]
  <2>1. {} \in SUBSET (1..k)
    OBVIOUS
  <2> HIDE DEF iter
  <2> QED  BY <1>2, <2>1
<1>4. ASSUME NEW n \in 0..k-1, iter[1..n] = g[n] PROVE iter[1..n+1] = g[n + 1]
  <2> HIDE DEF iter
  <2>0. n \in Nat /\ n < k
    OBVIOUS
  <2>1. 1..n+1 \in SUBSET (1..k) /\ 1..n+1 # {}
    BY <2>0
  <2>2. Max(1..n+1) = n + 1 /\ (1..n+1) \ {n + 1} = 1..n
    <3>1. n + 1 \in Nat \ {0} /\ (n + 1) - 1 = n
      BY <2>0
    <3> QED  BY <3>1, MaxUpTo
  <2>3. iter[1..n+1] = VodStep(iter[1..n])
    BY <1>2, <2>1, <2>2
  <2> QED  BY <1>4, <2>0, <2>3
<1>5. iter[1..k] = g[k]
  <2> HIDE DEF iter
  <2> QED  BY <1>3, <1>4, IteratesMeet
<1>6. DOMAIN Times(k) = 1..k
  BY DEF Times
<1> QED  BY <1>5, <1>6 DEF FoldLeft, MapThenFoldSet, Times

-----------------------------------------------------------------------------
(* A lane's FIFO.                                                          *)

LaneType == [pos : 0..N, w : Nat, c : Nat, r : Nat, slot : [0..Cap-1 -> Samples \cup {Hole}]]

\* What the demuxer and the FIFO keep between them, wherever the reader is: the slots
\* from the consumed frame on hold the samples up to the demuxer's position.
FifoOk(l) ==
    /\ l \in LaneType
    /\ l.c <= l.w /\ l.w <= l.pos /\ l.w - l.c <= HighWater
    /\ \A q \in l.c..l.w - 1 : l.slot[SlotAt(q)] = l.pos - (l.w - q)
LaneOk(l) == FifoOk(l) /\ l.c <= l.r /\ l.r <= l.w

\* The sample the reader is to read next.
NextOf(l) == l.pos - (l.w - l.r)

\* Different positions less than a capacity apart have different slots.
LEMMA SlotsDiffer ==
  ASSUME NEW q \in Nat, NEW p \in Nat, q < p, p < q + Cap
  PROVE  SlotAt(q) # SlotAt(p)
<1> SUFFICES ASSUME SlotAt(q) = SlotAt(p) PROVE FALSE
  OBVIOUS
<1> DEFINE a == p \div Cap
           b == q \div Cap
<1>1. p = Cap * a + (p % Cap) /\ a \in Nat
  OBVIOUS
<1>2. q = Cap * b + (q % Cap) /\ b \in Nat
  OBVIOUS
<1> HIDE DEF a, b
<1>3. p - q = Cap * (a - b) /\ Cap \in Nat /\ Cap > 0
  BY <1>1, <1>2 DEF SlotAt
<1>4. a - b >= 1
  BY <1>1, <1>2, <1>3
<1>5. Cap * (a - b) >= Cap
  BY <1>1, <1>2, <1>3, <1>4
<1> QED  BY <1>3, <1>5

LEMMA SlotAtType ==
  ASSUME NEW q \in Nat
  PROVE  SlotAt(q) \in 0..Cap-1
BY DEF SlotAt

LEMMA EmptyLaneOk == LaneOk(EmptyLane) /\ EmptyLane.w = 0 /\ EmptyLane.pos = 0
<1>1. [i \in 0..Cap-1 |-> Hole] \in [0..Cap-1 -> Samples \cup {Hole}]
  OBVIOUS
<1> QED  BY <1>1 DEF EmptyLane, LaneOk, FifoOk, LaneType

\* Writing to a FIFO below its high-water mark.
LEMMA WriteOk ==
  ASSUME NEW l, FifoOk(l), l.w - l.c < HighWater, l.pos < N
  PROVE  /\ FifoOk([BufferWrite(l, l.pos) EXCEPT !.pos = @ + 1])
         /\ [BufferWrite(l, l.pos) EXCEPT !.pos = @ + 1].pos = l.pos + 1
         /\ [BufferWrite(l, l.pos) EXCEPT !.pos = @ + 1].w = l.w + 1
         /\ [BufferWrite(l, l.pos) EXCEPT !.pos = @ + 1].c = l.c
         /\ [BufferWrite(l, l.pos) EXCEPT !.pos = @ + 1].r = l.r
<1>1. l \in LaneType
  BY DEF FifoOk
<1>2. /\ l.pos \in Nat /\ l.w \in Nat /\ l.c \in Nat /\ l.r \in Nat
      /\ l.slot \in [0..Cap-1 -> Samples \cup {Hole}]
      /\ l.pos \in Samples
  BY <1>1 DEF LaneType, Samples
<1>3. l.c <= l.w /\ l.w <= l.pos
  BY DEF FifoOk
<1>4. ~(Pending(l) >= Cap)
  BY <1>2, <1>3 DEF Pending
<1> DEFINE put == [l EXCEPT !.w = @ + 1, !.slot[SlotAt(l.w)] = l.pos]
           old == l.w + 1 - Cap
           new == IF old > 0 THEN [put EXCEPT !.slot[SlotAt(old)] = Hole] ELSE put
           res == [new EXCEPT !.pos = @ + 1]
<1>5a. put = [l EXCEPT !.w = l.w + 1, !.slot = [l.slot EXCEPT ![SlotAt(l.w)] = l.pos]]
  BY <1>1 DEF LaneType
<1>5. put = [pos |-> l.pos, w |-> l.w + 1, c |-> l.c, r |-> l.r,
             slot |-> [l.slot EXCEPT ![SlotAt(l.w)] = l.pos]]
  <2> HIDE DEF put
  <2> QED  BY <1>1, <1>5a DEF LaneType
<1>6. /\ put \in LaneType /\ put.w = l.w + 1 /\ put.c = l.c /\ put.r = l.r /\ put.pos = l.pos
      /\ put.slot = [l.slot EXCEPT ![SlotAt(l.w)] = l.pos]
  <2>1. [l.slot EXCEPT ![SlotAt(l.w)] = l.pos] \in [0..Cap-1 -> Samples \cup {Hole}]
    BY <1>2
  <2> HIDE DEF put
  <2> QED  BY <1>1, <1>2, <1>5, <2>1 DEF LaneType
<1>7. Oldest(put) = IF old > 0 THEN old ELSE 0
  <2> HIDE DEF put
  <2> QED  BY <1>2, <1>6 DEF Oldest
<1>8. BufferWrite(l, l.pos) = new
  <2>1. BufferWrite(l, l.pos) = IF Oldest(put) > 0 THEN [put EXCEPT !.slot[SlotAt(Oldest(put))] = Hole]
                                ELSE put
    BY <1>4 DEF BufferWrite
  <2> HIDE DEF put
  <2>2. old \in Int
    BY <1>2
  <2> QED  BY <2>1, <2>2, <1>7
<1>9. /\ new \in LaneType /\ new.w = l.w + 1 /\ new.c = l.c /\ new.r = l.r /\ new.pos = l.pos
      /\ \A i \in 0..Cap-1 : (old > 0 => i # SlotAt(old)) => new.slot[i] = put.slot[i]
  <2> HIDE DEF put
  <2>1. CASE old > 0
    <3>1. new = [pos |-> l.pos, w |-> l.w + 1, c |-> l.c, r |-> l.r,
                 slot |-> [put.slot EXCEPT ![SlotAt(old)] = Hole]]
      BY <1>6, <2>1 DEF LaneType
    <3>2. put.slot \in [0..Cap-1 -> Samples \cup {Hole}]
      BY <1>6 DEF LaneType
    <3>3. [put.slot EXCEPT ![SlotAt(old)] = Hole] \in [0..Cap-1 -> Samples \cup {Hole}]
      BY <3>2
    <3>4. \A i \in 0..Cap-1 : i # SlotAt(old) =>
             [put.slot EXCEPT ![SlotAt(old)] = Hole][i] = put.slot[i]
      BY <3>2
    <3> HIDE DEF new
    <3>5. new \in LaneType
      <4>1. l.w + 1 \in Nat /\ l.pos \in 0..N
        BY <1>2
      <4> QED  BY <1>2, <3>1, <3>3, <4>1 DEF LaneType
    <3> QED  BY <2>1, <3>1, <3>4, <3>5
  <2>2. CASE ~(old > 0)
    BY <1>6, <2>2
  <2> QED  BY <2>1, <2>2
<1>10. /\ res \in LaneType /\ res.w = l.w + 1 /\ res.c = l.c /\ res.r = l.r
       /\ res.pos = l.pos + 1 /\ res.slot = new.slot
  <2> HIDE DEF new
  <2>1. l.pos + 1 \in 0..N
    BY <1>2
  <2> QED  BY <1>9, <2>1 DEF LaneType
<1>11. ASSUME NEW q \in l.c..l.w PROVE res.slot[SlotAt(q)] = l.pos - (l.w - q)
  <2>0. q \in Nat /\ q <= l.w
    BY <1>2
  <2>1. q \in Nat /\ SlotAt(q) \in 0..Cap-1 /\ q <= l.w
    BY <2>0, SlotAtType
  <2>2. old > 0 => SlotAt(q) # SlotAt(old)
    <3>1. SUFFICES ASSUME old > 0 PROVE SlotAt(q) # SlotAt(old)
      OBVIOUS
    <3>2. old \in Nat /\ old < q /\ q < old + Cap
      BY <1>2, <1>3, <2>1, <3>1
    <3> QED  BY <2>1, <3>2, SlotsDiffer
  <2>3. new.slot[SlotAt(q)] = put.slot[SlotAt(q)]
    BY <1>9, <2>1, <2>2
  <2> HIDE DEF put, new, res
  <2>4. CASE q = l.w
    <3>1. put.slot[SlotAt(q)] = l.pos
      BY <1>2, <1>6, <2>1, <2>4
    <3>2. l.pos = l.pos - (l.w - q)
      BY <1>2, <2>4
    <3> QED  BY <1>10, <2>3, <3>1, <3>2
  <2>5. CASE q # l.w
    <3>1. q < l.w /\ l.w < q + Cap /\ q \in l.c..l.w-1
      BY <1>2, <2>1, <2>5
    <3>2. SlotAt(q) # SlotAt(l.w)
      BY <1>2, <2>1, <3>1, SlotsDiffer
    <3>3. put.slot[SlotAt(q)] = l.slot[SlotAt(q)]
      BY <1>2, <1>6, <2>1, <3>2
    <3>4. l.slot[SlotAt(q)] = l.pos - (l.w - q)
      BY <3>1 DEF FifoOk
    <3> QED  BY <1>10, <2>3, <3>3, <3>4
  <2> QED  BY <2>4, <2>5
<1> HIDE DEF put, new
<1>12. FifoOk(res)
  <2> HIDE DEF res
  <2>0. res.c = l.c /\ res.w = l.w + 1 /\ res.pos = l.pos + 1
    BY <1>10
  <2>1. res.c <= res.w /\ res.w <= res.pos /\ res.w - res.c <= HighWater
    <3> HIDE DEF res
    <3> QED  BY <1>2, <1>3, <2>0
  <2>2. ASSUME NEW q \in res.c..res.w - 1
        PROVE  res.slot[SlotAt(q)] = res.pos - (res.w - q)
    <3>1. res.w - 1 = l.w /\ res.pos = l.pos + 1
      BY <1>2, <2>0
    <3>2. q \in l.c..l.w
      BY <2>0, <3>1
    <3>3. res.pos - (res.w - q) = l.pos - (l.w - q)
      <4>2. q \in Int /\ l.pos \in Int /\ l.w \in Int
        BY <1>2, <3>2
      <4>1. (l.pos + 1) - ((l.w + 1) - q) = l.pos - (l.w - q)
        BY <4>2
      <4> QED  BY <2>0, <4>1
    <3> QED  BY <1>11, <3>2, <3>3
  <2> QED  BY <1>10, <2>1, <2>2 DEF FifoOk
<1> QED  BY <1>8, <1>10, <1>12

\* A sample more, or nothing: what the demuxer and the reader are at stays in step.
LEMMA PumpOnceOk ==
  ASSUME NEW l, FifoOk(l)
  PROVE  /\ FifoOk(PumpOnce(l))
         /\ PumpOnce(l).r = l.r /\ PumpOnce(l).c = l.c
         /\ PumpOnce(l).w >= l.w /\ PumpOnce(l).pos - PumpOnce(l).w = l.pos - l.w
         /\ l.w = l.c /\ l.pos < N => PumpOnce(l).w > l.w
<1>1. /\ l.pos \in Nat /\ l.w \in Nat /\ l.c \in Nat /\ l.r \in Nat
      /\ l.pos <= N /\ l.c <= l.w
  BY DEF FifoOk, LaneType
<1>2. Pending(l) = l.w - l.c
  BY <1>1 DEF Pending
<1>3. CASE Pending(l) >= HighWater \/ l.pos >= N
  <2>1. PumpOnce(l) = l
    BY <1>3 DEF PumpOnce
  <2>2. ~(l.w = l.c /\ l.pos < N)
    BY <1>1, <1>2, <1>3
  <2> QED  BY <1>1, <2>1, <2>2
<1>4. CASE ~(Pending(l) >= HighWater \/ l.pos >= N)
  <2>1. l.w - l.c < HighWater /\ l.pos < N
    BY <1>1, <1>2, <1>4
  <2>2. PumpOnce(l) = [BufferWrite(l, l.pos) EXCEPT !.pos = @ + 1]
    BY <1>4 DEF PumpOnce
  <2>3. /\ FifoOk(PumpOnce(l))
        /\ PumpOnce(l).pos = l.pos + 1 /\ PumpOnce(l).w = l.w + 1
        /\ PumpOnce(l).c = l.c /\ PumpOnce(l).r = l.r
    BY <2>1, <2>2, WriteOk
  <2> QED  BY <1>1, <2>3
<1> QED  BY <1>3, <1>4

\* What pumping from lane l may lead to.
PumpedFrom(l) ==
    {m \in LaneType : /\ FifoOk(m) /\ m.r = l.r /\ m.c = l.c
                      /\ m.w >= l.w /\ m.pos - m.w = l.pos - l.w}

LEMMA PumpedFromItself ==
  ASSUME NEW l, FifoOk(l)
  PROVE  l \in PumpedFrom(l)
BY DEF FifoOk, LaneType, PumpedFrom

LEMMA PumpedOnceMore ==
  ASSUME NEW l, FifoOk(l), NEW m \in PumpedFrom(l)
  PROVE  PumpOnce(m) \in PumpedFrom(l)
<1>1. /\ l.pos \in Nat /\ l.w \in Nat /\ m.w \in Nat /\ m.pos \in Nat
      /\ FifoOk(m) /\ m.r = l.r /\ m.c = l.c /\ m.w >= l.w /\ m.pos - m.w = l.pos - l.w
  BY DEF FifoOk, LaneType, PumpedFrom
<1>2. /\ FifoOk(PumpOnce(m))
      /\ PumpOnce(m).r = m.r /\ PumpOnce(m).c = m.c
      /\ PumpOnce(m).w >= m.w /\ PumpOnce(m).pos - PumpOnce(m).w = m.pos - m.w
  BY <1>1, PumpOnceOk
<1>3. PumpOnce(m) \in LaneType /\ PumpOnce(m).w \in Nat
  BY <1>2 DEF FifoOk, LaneType
<1> QED  BY <1>1, <1>2, <1>3 DEF PumpedFrom

\* mp4_pump and mp4_prefill; an empty FIFO gets the demuxer's sample.
LEMMA PumpOk ==
  ASSUME NEW l, FifoOk(l)
  PROVE  /\ Pump(l) \in PumpedFrom(l)
         /\ l.w = l.c /\ l.pos < N => Pump(l).w > l.w
<1> DEFINE A == PumpedFrom(l)
           F == [m \in A |-> PumpOnce(m)]
<1>1. F \in [A -> A] /\ l \in A
  BY PumpedOnceMore, PumpedFromItself
<1> HIDE DEF A
<1>2. HighWater \in Nat /\ HighWater > 0
  OBVIOUS
<1>3. PICK g \in [0..HighWater -> A] :
         g[0] = l /\ \A i \in 0..HighWater-1 : g[i + 1] = F[g[i]]
  <2> HIDE DEF F
  <2>1. \E g : IsTrace(g, A, F, l, HighWater)
    BY <1>1, <1>2, Trace
  <2> QED  BY <2>1 DEF IsTrace
<1>4. \A i \in 0..HighWater : g[i] \in A
  BY <1>3
<1>5. \A i \in 0..HighWater-1 : i \in 0..HighWater /\ i + 1 \in 0..HighWater
  BY <1>2
<1>6. \A i \in 0..HighWater-1 : g[i + 1] = PumpOnce(g[i])
  BY <1>3, <1>4, <1>5
<1>7. Pump(l) = g[HighWater]
  BY <1>2, <1>3, <1>6, PumpFold DEF Pump
<1>8. Pump(l) \in A
  BY <1>2, <1>4, <1>7
<1>9. ASSUME l.w = l.c, l.pos < N PROVE Pump(l).w > l.w
  <2> DEFINE S == {n \in Nat : n + 1 <= HighWater => g[n + 1].w > l.w}
  <2>1. \A i \in 0..HighWater : FifoOk(g[i]) /\ g[i].w \in Nat
    BY <1>4 DEF A, PumpedFrom, LaneType
  <2>2. l.w \in Nat
    BY DEF FifoOk, LaneType
  <2>3. 0 \in S
    <3>1. g[0 + 1] = PumpOnce(l)
      BY <1>2, <1>3, <1>6
    <3> QED  BY <1>9, <3>1, PumpOnceOk
  <2>4. ASSUME NEW n \in Nat, n \in S PROVE n + 1 \in S
    <3>1. SUFFICES ASSUME (n + 1) + 1 <= HighWater PROVE g[(n + 1) + 1].w > l.w
      OBVIOUS
    <3>2. n + 1 \in 0..HighWater-1 /\ n + 1 \in 0..HighWater /\ (n + 1) + 1 \in 0..HighWater
      BY <1>2, <3>1
    <3>3. g[n + 1].w > l.w
      BY <1>2, <2>4, <3>1
    <3>4. g[(n + 1) + 1] = PumpOnce(g[n + 1])
      BY <1>6, <3>2
    <3>5. g[(n + 1) + 1].w >= g[n + 1].w
      BY <2>1, <3>2, <3>4, PumpOnceOk
    <3> QED  BY <2>1, <2>2, <3>2, <3>3, <3>5
  <2> HIDE DEF S
  <2>5. HighWater - 1 \in Nat /\ (HighWater - 1) + 1 = HighWater
    BY <1>2
  <2>6. HighWater - 1 \in S
    BY <2>3, <2>4, <2>5, Induction
  <2> QED  BY <1>2, <1>7, <2>5, <2>6 DEF S
<1> QED  BY <1>8, <1>9 DEF A

\* zms_vod_play_lane_demux_fill
LEMMA FillOk ==
  ASSUME NEW l, FifoOk(l)
  PROVE  DemuxFill(l) \in PumpedFrom(l)
<1> DEFINE A == PumpedFrom(l)
           F == [m \in A |-> IF Lag(m) >= TargetLag THEN m ELSE PumpOnce(m)]
<1>1. F \in [A -> A] /\ l \in A
  BY PumpedOnceMore, PumpedFromItself
<1> HIDE DEF A
<1>2. TargetLag \in Nat
  OBVIOUS
<1>3. PICK g : IsTrace(g, A, F, l, TargetLag)
  <2> HIDE DEF F
  <2> QED  BY <1>1, <1>2, Trace
<1>4. \A i \in 0..TargetLag : g[i] \in A
  BY <1>3 DEF IsTrace
<1>5. \A i \in 0..TargetLag-1 : i \in 0..TargetLag
  BY <1>2
<1>6. \A i \in 0..TargetLag-1 :
         g[i + 1] = IF Lag(g[i]) >= TargetLag THEN g[i] ELSE PumpOnce(g[i])
  BY <1>3, <1>4, <1>5 DEF IsTrace
<1>7. g[0] = l
  BY <1>3 DEF IsTrace
<1>8. DemuxFill(l) = g[TargetLag]
  BY <1>2, <1>6, <1>7, FillFold DEF DemuxFill
<1> QED  BY <1>2, <1>4, <1>8 DEF A

\* Neither moves the reader, nor what it reads next.
LEMMA PumpedKeeps ==
  ASSUME NEW l, LaneOk(l), NEW m \in PumpedFrom(l)
  PROVE  /\ LaneOk(m) /\ NextOf(m) = NextOf(l)
         /\ l.r < l.w => m.r < m.w
<1>1. /\ FifoOk(m) /\ m.r = l.r /\ m.c = l.c /\ m.w >= l.w /\ m.pos - m.w = l.pos - l.w
      /\ l.pos \in Nat /\ l.w \in Nat /\ m.w \in Nat /\ m.pos \in Nat
      /\ l.r \in Nat /\ l.c \in Nat /\ l.c <= l.r /\ l.r <= l.w
  BY DEF FifoOk, LaneOk, LaneType, PumpedFrom
<1>2. m.c <= m.r /\ m.r <= m.w
  BY <1>1
<1>3. NextOf(m) = NextOf(l)
  BY <1>1 DEF NextOf
<1>4. l.r < l.w => m.r < m.w
  BY <1>1
<1> QED  BY <1>1, <1>2, <1>3, <1>4 DEF LaneOk

LEMMA LaneFields ==
  ASSUME NEW l, LaneOk(l)
  PROVE  /\ l \in LaneType /\ FifoOk(l) /\ l.pos \in Nat /\ l.pos <= N
         /\ l.w \in Nat /\ l.c \in Nat /\ l.r \in Nat
         /\ l.c <= l.r /\ l.r <= l.w /\ l.w <= l.pos
         /\ Lag(l) = l.w - l.r /\ NextOf(l) \in Nat
<1>1. /\ l \in LaneType /\ FifoOk(l) /\ l.c <= l.r /\ l.r <= l.w /\ l.w <= l.pos
  BY DEF LaneOk, FifoOk
<1>2. l.pos \in Nat /\ l.pos <= N /\ l.w \in Nat /\ l.c \in Nat /\ l.r \in Nat
  BY <1>1 DEF LaneType
<1>3. Lag(l) = l.w - l.r
  BY <1>1, <1>2 DEF Lag
<1>4. NextOf(l) \in Nat
  BY <1>1, <1>2 DEF NextOf
<1> QED  BY <1>1, <1>2, <1>3, <1>4

\* What is peeked at is the next sample.
LEMMA PeekOk ==
  ASSUME NEW l, LaneOk(l)
  PROVE  /\ Peek(l) = IF l.r < l.w THEN NextOf(l) ELSE Hole
         /\ l.r < l.w => NextOf(l) \in Samples
         /\ Peek(l) # Hole <=> l.r < l.w
<1>1. /\ l.pos \in Nat /\ l.pos <= N /\ l.w \in Nat /\ l.c \in Nat /\ l.r \in Nat
      /\ l.c <= l.r /\ l.r <= l.w /\ l.w <= l.pos
  BY LaneFields
<1>2. l.r < l.w => NextOf(l) \in Samples /\ NextOf(l) # Hole
  BY <1>1 DEF NextOf, Samples, Hole
<1>3. ASSUME l.r < l.w PROVE l.slot[SlotAt(l.r)] = NextOf(l)
  <2>1. l.r \in l.c..l.w - 1
    BY <1>1, <1>3
  <2> QED  BY <2>1 DEF LaneOk, FifoOk, NextOf
<1>4. Peek(l) = IF l.r < l.w THEN NextOf(l) ELSE Hole
  <2>1. l.r >= l.w <=> ~(l.r < l.w)
    BY <1>1
  <2> QED  BY <1>3, <2>1 DEF Peek
<1> QED  BY <1>2, <1>4

\* The reader takes a frame and consumes what is before it.
LEMMA AdvanceOk ==
  ASSUME NEW l, LaneOk(l)
  PROVE  /\ LaneOk(Advance(l))
         /\ l.r < l.w => /\ NextOf(Advance(l)) = NextOf(l) + 1
                         /\ Advance(l).r = l.r + 1 /\ Advance(l).w = l.w
<1>1. /\ l \in LaneType /\ l.pos \in Nat /\ l.pos <= N /\ l.w \in Nat /\ l.c \in Nat /\ l.r \in Nat
      /\ l.c <= l.r /\ l.r <= l.w /\ l.w <= l.pos /\ l.w - l.c <= HighWater
  BY LaneFields DEF LaneOk, FifoOk
<1>2. CASE l.r >= l.w
  BY <1>1, <1>2 DEF Advance
<1>3. CASE ~(l.r >= l.w)
  <2> DEFINE m == [l EXCEPT !.r = l.r + 1, !.c = l.r + 1]
  <2>1. Advance(l) = m
    <3>1. l.r + 1 > l.c
      BY <1>1
    <3> QED  BY <1>3, <3>1 DEF Advance
  <2>2. m.r = l.r + 1 /\ m.c = l.r + 1 /\ m.w = l.w /\ m.pos = l.pos /\ m.slot = l.slot
    BY <1>1 DEF LaneType
  <2>3. m \in LaneType
    <3>1. l.r + 1 \in Nat
      BY <1>1
    <3> QED  BY <1>1, <3>1 DEF LaneType
  <2> HIDE DEF m
  <2>4. m.c <= m.w /\ m.w <= m.pos /\ m.w - m.c <= HighWater /\ m.c <= m.r /\ m.r <= m.w
    BY <1>1, <1>3, <2>2
  <2>5. ASSUME NEW q \in m.c..m.w - 1 PROVE m.slot[SlotAt(q)] = m.pos - (m.w - q)
    <3>1. q \in l.c..l.w - 1
      BY <1>1, <2>2
    <3>2. l.slot[SlotAt(q)] = l.pos - (l.w - q)
      BY <3>1 DEF LaneOk, FifoOk
    <3> QED  BY <2>2, <3>2
  <2>6. LaneOk(m)
    BY <2>3, <2>4, <2>5 DEF LaneOk, FifoOk
  <2>7. NextOf(m) = NextOf(l) + 1
    BY <1>1, <2>2 DEF NextOf
  <2> QED  BY <2>1, <2>2, <2>6, <2>7
<1> QED  BY <1>2, <1>3

-----------------------------------------------------------------------------
(* Seeking.                                                                *)

\* The reader is at a sync sample of the file.
SyncHead(f, l) == l.r < l.w /\ NextOf(l) \in SyncSamples(f)

\* vod_lane_align_reader on a FIFO just filled: the reader is put in it, at its first
\* sample if that is a sync sample.
LEMMA AlignOk ==
  ASSUME NEW f, NEW l, FifoOk(l), l.c = 0
  PROVE  /\ LaneOk(Align(f, l)) /\ Align(f, l).w = l.w /\ Align(f, l).pos = l.pos
         /\ l.w > 0 /\ l.pos - l.w \in SyncSamples(f) => SyncHead(f, Align(f, l))
<1> DEFINE b == [l EXCEPT !.r = 0]
           keys == {q \in 0..l.w - 1 : l.slot[SlotAt(q)] \in SyncSamples(f)}
           x == CHOOSE q \in keys : \A k \in keys : q <= k
<1>1. /\ l \in LaneType /\ l.pos \in Nat /\ l.pos <= N /\ l.w \in Nat /\ l.w <= l.pos
      /\ l.w <= HighWater
  BY DEF FifoOk, LaneType
<1>2. b \in LaneType /\ b.r = 0 /\ b.w = l.w /\ b.c = 0 /\ b.pos = l.pos /\ b.slot = l.slot
  BY <1>1 DEF LaneType
<1>3. SeekBeginning(l) = b
  <2>1. Oldest(l) = 0
    BY <1>1 DEF Oldest
  <2> QED  BY <2>1 DEF SeekBeginning
<1> HIDE DEF b
<1>4. Align(f, l) = IF keys = {} THEN b ELSE [b EXCEPT !.r = x]
  <2> DEFINE kb == {q \in b.r..b.w - 1 : b.slot[SlotAt(q)] \in SyncSamples(f)}
             xb == CHOOSE q \in kb : \A k \in kb : q <= k
  <2>1. kb = keys
    BY <1>2
  <2>2. xb = x
    <3> HIDE DEF kb, keys
    <3> QED  BY <2>1
  <2>3. SeekVideoKey(f, b) = IF kb = {} THEN b ELSE [b EXCEPT !.r = xb]
    BY DEF SeekVideoKey
  <2> HIDE DEF kb, xb, keys, x
  <2> QED  BY <1>3, <2>1, <2>2, <2>3 DEF Align
<1>5. keys # {} => x \in keys /\ \A k \in keys : x <= k
  <2>1. keys \in SUBSET Nat
    BY <1>1
  <2> HIDE DEF keys
  <2> QED  BY <2>1, HasLeast
<1>6. \A q \in keys : q \in Nat /\ q < l.w
  BY <1>1
<1>7. PICK r \in 0..l.w : /\ Align(f, l) = [b EXCEPT !.r = r]
                          /\ keys = {} => r = 0
                          /\ keys # {} => r = x
  <2> HIDE DEF keys, x
  <2>1. CASE keys = {}
    <3>1. b = [b EXCEPT !.r = 0]
      BY <1>2 DEF LaneType
    <3>2. 0 \in 0..l.w
      BY <1>1
    <3> QED  BY <1>4, <2>1, <3>1, <3>2
  <2>2. CASE keys # {}
    <3>1. x \in Nat /\ x < l.w
      BY <1>5, <1>6, <2>2
    <3>2. x \in 0..l.w
      BY <1>1, <3>1
    <3> QED  BY <1>4, <2>2, <3>2
  <2> QED  BY <2>1, <2>2
<1> DEFINE m == Align(f, l)
<1>8. m \in LaneType /\ m.r = r /\ m.w = l.w /\ m.c = 0 /\ m.pos = l.pos /\ m.slot = l.slot
  <2>1. r \in Nat
    OBVIOUS
  <2> HIDE DEF keys, x
  <2> QED  BY <1>2, <1>7, <2>1 DEF LaneType
<1>9. \A q \in 0..l.w - 1 : l.slot[SlotAt(q)] = l.pos - (l.w - q)
  BY DEF FifoOk
<1>10. LaneOk(m)
  <2> HIDE DEF m, keys, x
  <2>1. r \in Nat /\ r <= l.w
    BY <1>1
  <2>2. m.c <= m.w /\ m.w <= m.pos /\ m.w - m.c <= HighWater /\ m.c <= m.r /\ m.r <= m.w
    BY <1>1, <1>8, <2>1
  <2>3. \A q \in m.c..m.w - 1 : m.slot[SlotAt(q)] = m.pos - (m.w - q)
    BY <1>8, <1>9
  <2> QED  BY <1>8, <2>2, <2>3 DEF LaneOk, FifoOk
<1>11. ASSUME l.w > 0, l.pos - l.w \in SyncSamples(f) PROVE SyncHead(f, m)
  <2>1. 0 \in 0..l.w - 1 /\ l.pos - (l.w - 0) = l.pos - l.w
    BY <1>1, <1>11
  <2>2. l.slot[SlotAt(0)] = l.pos - l.w
    BY <1>9, <2>1
  <2>3. 0 \in keys
    BY <1>11, <2>1, <2>2
  <2>4. r = 0
    <3>1. x \in Nat /\ x <= 0
      BY <1>5, <1>6, <2>3
    <3> HIDE DEF keys, x
    <3> QED  BY <1>7, <2>3, <3>1
  <2> HIDE DEF m, keys, x
  <2>5. m.r < m.w /\ NextOf(m) = l.pos - l.w
    BY <1>1, <1>8, <1>11, <2>4 DEF NextOf
  <2> QED  BY <1>11, <2>5 DEF SyncHead
<1> QED  BY <1>8, <1>10, <1>11

\* Every MP4 file has a sync sample where the search of zms_mp4_reader_seek_ms, from
\* the beginning, finds it.
StartsWithSync(f) == f.box = "mp4" => \E n \in SyncSamples(f) : n < SyncMax

\* The container's seek stays in the file; an MP4's goes to a sync sample, if there is
\* one before.
LEMMA ContainerSeekOk ==
  ASSUME NEW f, NEW ms \in Samples
  PROVE  /\ ContainerSeek(f, ms).pos \in 0..N /\ ContainerSeek(f, ms).ms \in Samples
         /\ f.box = "mp4" => \/ ContainerSeek(f, ms).pos \in SyncSamples(f)
                             \/ ContainerSeek(f, ms).pos = 0
<1> DEFINE back == {n \in SyncSamples(f) : n <= ms}
           ahead == {n \in Samples : n >= ms /\ f.kind[n] # "inter"}
<1>1. /\ Samples \subseteq Nat /\ Samples \subseteq 0..N /\ 0 \in Samples /\ 0 \in 0..N
      /\ N \in 0..N /\ SyncSamples(f) \subseteq Samples
  BY DEF Samples, SyncSamples
<1>2. back # {} => LastOf(back) \in back
  <2>1. back \in SUBSET Nat /\ ms \in Nat /\ \A y \in back : y <= ms
    BY <1>1
  <2> HIDE DEF back
  <2>2. back # {} => \E x \in back : \A y \in back : x >= y
    BY <2>1, HasGreatest
  <2>3. \A x \in back : \A y \in back : x >= y <=> y <= x
    BY <2>1
  <2> QED  BY <2>2, <2>3 DEF LastOf
<1>3. ahead # {} => FirstOf(ahead) \in ahead
  <2>1. ahead \in SUBSET Nat
    BY <1>1
  <2> HIDE DEF ahead
  <2> QED  BY <2>1, HasLeast DEF FirstOf
<1>4. CASE f.box = "mp4"
  <2> DEFINE p == IF back = {} THEN 0 ELSE LastOf(back)
  <2>1. ContainerSeek(f, ms) = [pos |-> p, ms |-> p]
    BY <1>4 DEF ContainerSeek
  <2>2. p \in Samples /\ (p \in SyncSamples(f) \/ p = 0)
    BY <1>1, <1>2
  <2> HIDE DEF p
  <2> QED  BY <1>1, <2>1, <2>2
<1>5. CASE f.box # "mp4"
  <2>1. ContainerSeek(f, ms) = IF ahead = {} THEN [pos |-> N, ms |-> 0]
                               ELSE [pos |-> FirstOf(ahead), ms |-> ms]
    BY <1>5 DEF ContainerSeek
  <2>2. ahead # {} => FirstOf(ahead) \in Samples
    BY <1>3
  <2> HIDE DEF ahead
  <2>3. CASE ahead = {}
    BY <1>1, <1>5, <2>1, <2>3
  <2>4. CASE ahead # {}
    <3>1. ContainerSeek(f, ms) = [pos |-> FirstOf(ahead), ms |-> ms]
      BY <2>1, <2>4
    <3>2. FirstOf(ahead) \in 0..N
      BY <1>1, <2>2, <2>4
    <3>3. ContainerSeek(f, ms).pos \in 0..N /\ ContainerSeek(f, ms).ms \in Samples
      BY <3>1, <3>2
    <3> QED  BY <1>5, <3>3
  <2> QED  BY <2>3, <2>4
<1> QED  BY <1>4, <1>5

\* A seek leaves the FIFO in order with the reader in it; the reader of an MP4 file
\* comes to a sync sample.
LEMMA SeekOk ==
  ASSUME NEW f, NEW l, LaneOk(l), NEW ms \in Samples
  PROVE  /\ LaneOk(Seek(f, l, ms).lane) /\ Seek(f, l, ms).ms \in Samples
         /\ StartsWithSync(f) /\ f.box = "mp4" => SyncHead(f, Seek(f, l, ms).lane)
<1> DEFINE at == ContainerSeek(f, ms)
           syncs == {n \in SyncSamples(f) : n >= at.pos /\ n - at.pos < SyncMax}
           start == CASE syncs # {} -> FirstOf(syncs)
                      [] syncs = {} /\ N - at.pos >= SyncMax -> at.pos + SyncMax
                      [] OTHER -> ContainerSeek(f, at.ms).pos
           from == [BufferReset(l) EXCEPT !.pos = start]
<1>1. /\ at.pos \in 0..N /\ at.ms \in Samples
      /\ f.box = "mp4" => at.pos \in SyncSamples(f) \/ at.pos = 0
  BY ContainerSeekOk
<1>2. ContainerSeek(f, at.ms).pos \in 0..N
  BY <1>1, ContainerSeekOk
<1>3. SyncSamples(f) \subseteq Samples /\ Samples \subseteq Nat /\ Samples \subseteq 0..N
  BY DEF Samples, SyncSamples
<1>4. Seek(f, l, ms).lane = Align(f, Pump(from)) /\ Seek(f, l, ms).ms = at.ms
  BY DEF Seek
<1> HIDE DEF at
<1>5. syncs # {} => FirstOf(syncs) \in syncs
  <2>1. syncs \in SUBSET Nat
    BY <1>3
  <2> HIDE DEF syncs
  <2> QED  BY <2>1, HasLeast DEF FirstOf
<1>6. syncs # {} => start \in SyncSamples(f)
  <2>1. \A n \in syncs : n \in SyncSamples(f)
    OBVIOUS
  <2> HIDE DEF syncs
  <2> QED  BY <1>5, <2>1
<1>7. start \in 0..N
  <2> HIDE DEF syncs
  <2>1. CASE syncs # {}
    BY <1>3, <1>6, <2>1
  <2>2. CASE syncs = {} /\ N - at.pos >= SyncMax
    BY <1>1, <2>2
  <2>3. CASE syncs = {} /\ ~(N - at.pos >= SyncMax)
    BY <1>2, <2>3
  <2> QED  BY <2>1, <2>2, <2>3
<1>8. StartsWithSync(f) /\ f.box = "mp4" => start \in SyncSamples(f)
  <2>1. SUFFICES ASSUME StartsWithSync(f), f.box = "mp4" PROVE syncs # {}
    BY <1>6
  <2>2. CASE at.pos \in SyncSamples(f)
    <3>1. at.pos \in Nat /\ at.pos - at.pos < SyncMax
      BY <1>1
    <3>2. at.pos \in syncs
      BY <2>2, <3>1
    <3> QED  BY <3>2
  <2>3. CASE at.pos = 0
    <3>1. PICK n \in SyncSamples(f) : n < SyncMax
      BY <2>1 DEF StartsWithSync
    <3>2. n \in Nat
      BY <1>3
    <3>3. n >= at.pos /\ n - at.pos < SyncMax
      BY <2>3, <3>1, <3>2
    <3> QED  BY <3>3
  <2> QED  BY <1>1, <2>1, <2>2, <2>3
<1> HIDE DEF start, syncs
<1>9. l \in LaneType
  BY LaneFields
<1>10. FifoOk(from) /\ from.c = 0 /\ from.w = 0 /\ from.pos = start
  <2> DEFINE empty == [i \in 0..Cap-1 |-> Hole]
  <2>1. empty \in [0..Cap-1 -> Samples \cup {Hole}]
    OBVIOUS
  <2>2a. BufferReset(l) = [l EXCEPT !.w = 0, !.c = 0, !.slot = empty]
    BY DEF BufferReset
  <2> HIDE DEF empty
  <2>2. BufferReset(l) = [pos |-> l.pos, w |-> 0, c |-> 0, r |-> l.r, slot |-> empty]
    BY <1>9, <2>2a DEF LaneType
  <2>3. from = [pos |-> start, w |-> 0, c |-> 0, r |-> l.r, slot |-> empty]
    BY <2>2
  <2>4. from \in LaneType
    <3>1. l.r \in Nat
      BY <1>9 DEF LaneType
    <3> QED  BY <1>7, <2>1, <2>3, <3>1 DEF LaneType
  <2>5. 0 <= start
    BY <1>7
  <2> HIDE DEF from
  <2>6. from.c = 0 /\ from.w = 0 /\ from.pos = start
    BY <2>3
  <2>7. \A q \in from.c..from.w - 1 : FALSE
    BY <2>6
  <2>8. from.c <= from.w /\ from.w <= from.pos /\ from.w - from.c <= HighWater
    BY <2>5, <2>6
  <2> QED  BY <2>4, <2>6, <2>7, <2>8 DEF FifoOk
<1> HIDE DEF from
<1> DEFINE m == Pump(from)
<1>11. m \in PumpedFrom(from) /\ (start < N => m.w > 0)
  BY <1>10, PumpOk
<1>12. FifoOk(m) /\ m.c = 0 /\ m.pos - m.w = start
  <2>1. FifoOk(m) /\ m.c = from.c /\ m.pos - m.w = from.pos - from.w
    BY <1>11 DEF PumpedFrom
  <2> QED  BY <1>7, <1>10, <2>1
<1> HIDE DEF m
<1>13. /\ LaneOk(Align(f, m))
       /\ m.w > 0 /\ m.pos - m.w \in SyncSamples(f) => SyncHead(f, Align(f, m))
  BY <1>12, AlignOk
<1>14. start \in SyncSamples(f) => start < N
  BY <1>3 DEF Samples
<1>15. Seek(f, l, ms).lane = Align(f, m)
  BY <1>4 DEF m
<1> QED  BY <1>1, <1>4, <1>8, <1>11, <1>12, <1>13, <1>14, <1>15

-----------------------------------------------------------------------------
(* What the session and its lanes are, in a state as St gives it.          *)

SesType == [st : {"idle", "playing"}, boot : BOOLEAN, gone : BOOLEAN,
            lane : Lanes \cup {NoLane}, reader : Lanes \cup {NoLane}, armed : BOOLEAN,
            catchup : BOOLEAN, pausePos : Samples \cup {Hole}, lastSeek : Samples,
            start : Samples]
ClkType == [epoch : Samples, elapsed : Nat, locked : BOOLEAN, paused : BOOLEAN]
JobType == [st : {"none", "queued", "opened", "failed"}, start : Samples]
OutType == [old : Nat, cur : Nat, lost : BOOLEAN, again : BOOLEAN]
StType == [ses : SesType, clk : ClkType, open : SUBSET Lanes, ref : Nat, pub : BOOLEAN,
           buf : [Lanes -> LaneType], timer : SUBSET Lanes, held : SUBSET Lanes,
           jobs : [Lanes -> JobType], kicks : Nat, out : OutType, run : Seq(Samples)]

\* The source is held by the open lanes, and they alone have timers.
LanesHeld(t) ==
    /\ IsFiniteSet(t.open) /\ t.ref = Cardinality(t.open) /\ t.pub = (t.open # {})
    /\ t.timer \subseteq t.open /\ t.held \subseteq t.open
FifosOk(t) == \A l \in Lanes : LaneOk(t.buf[l])
OwnLanes(t) ==
    /\ t.ses.lane \in t.open \cup {NoLane} /\ t.ses.reader \in t.open \cup {NoLane}
    /\ t.ses.gone => t.ses.lane = NoLane /\ t.ses.reader = NoLane
\* A job's lane is nobody else's.
JobLanes(t) ==
    \A l \in Lanes :
        /\ t.jobs[l].st \in {"queued", "failed"} => l \notin t.open
        /\ t.jobs[l].st = "opened" => l \in t.open /\ l # t.ses.lane /\ l # t.ses.reader
Base(t) == t \in StType /\ LanesHeld(t) /\ FifosOk(t) /\ OwnLanes(t) /\ JobLanes(t)

-----------------------------------------------------------------------------
(* The outbox and the pump.                                                *)

LEMMA OutPushOk ==
  ASSUME NEW o \in OutType
  PROVE  /\ OutPush(o) \in OutType /\ OutPush(o).again = o.again
         /\ OutPush(o).cur <= o.cur + 1
         /\ o.old + o.cur <= OutCap => OutPush(o).old + OutPush(o).cur <= OutCap
         /\ OutPush(o).lost => o.lost \/ o.cur >= OutCap
<1>1. o.old \in Nat /\ o.cur \in Nat /\ OutCap \in Nat
  BY PlayAssumption DEF OutType
<1>2. CASE o.old + o.cur < OutCap
  <2> DEFINE u == [o EXCEPT !.cur = @ + 1]
  <2>1. OutPush(o) = u
    BY <1>2 DEF OutPush
  <2>2. u \in OutType /\ u.again = o.again /\ u.cur = o.cur + 1 /\ u.old = o.old /\ u.lost = o.lost
    BY <1>1 DEF OutType
  <2> HIDE DEF u
  <2> QED  BY <1>1, <1>2, <2>1, <2>2
<1>3. CASE ~(o.old + o.cur < OutCap) /\ o.old > 0
  <2> DEFINE u == [o EXCEPT !.cur = @ + 1, !.old = @ - 1]
  <2>1. OutPush(o) = u
    BY <1>3 DEF OutPush
  <2>2. u.again = o.again /\ u.cur = o.cur + 1 /\ u.old = o.old - 1 /\ u.lost = o.lost
    BY DEF OutType
  <2>3. o.old - 1 \in Nat /\ o.cur + 1 \in Nat
    BY <1>1, <1>3
  <2>4. u \in OutType
    BY <2>3 DEF OutType
  <2> HIDE DEF u
  <2> QED  BY <1>1, <1>3, <2>1, <2>2, <2>4
<1>4. CASE ~(o.old + o.cur < OutCap) /\ ~(o.old > 0)
  <2> DEFINE u == [o EXCEPT !.lost = TRUE]
  <2>1. OutPush(o) = u
    BY <1>4 DEF OutPush
  <2>2. u \in OutType /\ u.again = o.again /\ u.cur = o.cur /\ u.old = o.old
    BY DEF OutType
  <2>3. o.cur >= OutCap
    BY <1>1, <1>4
  <2> HIDE DEF u
  <2> QED  BY <1>1, <1>4, <2>1, <2>2, <2>3
<1> QED  BY <1>2, <1>3, <1>4

LEMMA OutFlushedOk ==
  ASSUME NEW o \in OutType
  PROVE  /\ OutFlushed(o) \in OutType
         /\ OutFlushed(o).again = o.again /\ OutFlushed(o).lost = o.lost
         /\ OutFlushed(o).cur <= o.cur
         /\ o.old + o.cur <= OutCap /\ OutFlush <= OutCap =>
              OutFlushed(o).old + OutFlushed(o).cur <= OutCap - OutFlush
<1>1. o.old \in Nat /\ o.cur \in Nat /\ OutCap \in Nat /\ OutFlush \in Nat
  BY PlayAssumption DEF OutType
<1> DEFINE x == Least(OutFlush, o.old)
           y == Least(OutFlush - x, o.cur)
           u == [o EXCEPT !.old = @ - x, !.cur = @ - y]
<1>2. OutFlushed(o) = u
  BY DEF OutFlushed
<1>3. /\ x \in Nat /\ x <= o.old /\ x <= OutFlush
      /\ x = OutFlush \/ x = o.old
  BY <1>1 DEF Least
<1> HIDE DEF x
<1>4. /\ y \in Nat /\ y <= o.cur
      /\ y = OutFlush - x \/ y = o.cur
  BY <1>1, <1>3 DEF Least
<1> HIDE DEF y
<1>5. o.old - x \in Nat /\ o.cur - y \in Nat
  BY <1>1, <1>3, <1>4
<1>6. /\ u \in OutType /\ u.again = o.again /\ u.lost = o.lost
      /\ u.old = o.old - x /\ u.cur = o.cur - y
  BY <1>5 DEF OutType
<1> HIDE DEF u
<1> QED  BY <1>1, <1>2, <1>3, <1>4, <1>6

\* The pump's local state.
StepType ==
    {p \in [l : LaneType, armed : BOOLEAN, catchup : BOOLEAN, clk : ClkType, out : OutType,
            run : Seq(Samples), stop : BOOLEAN, used : Nat] : LaneOk(p.l)}

LEMMA RebaseType ==
  ASSUME NEW c \in ClkType, NEW ms \in Samples
  PROVE  Rebase(c, ms) \in ClkType /\ Rebase(c, ms).paused = c.paused
BY DEF Rebase, ClkType

\* What one step of the pump does.
LEMMA VodStepIs ==
  ASSUME NEW p \in StepType
  PROVE  /\ VodStep(p) \in StepType
         /\ \/ /\ VodStep(p).l = p.l /\ VodStep(p).armed = p.armed
               /\ VodStep(p).catchup = p.catchup /\ VodStep(p).out = p.out
               /\ VodStep(p).run = p.run /\ VodStep(p).used = p.used
               /\ VodStep(p).stop /\ (p.stop \/ ~(p.l.r < p.l.w))
            \/ /\ ~p.stop /\ p.l.r < p.l.w /\ ~p.armed
               /\ VodStep(p).l = Advance(p.l) /\ VodStep(p).armed = p.armed
               /\ VodStep(p).catchup = p.catchup /\ VodStep(p).out = p.out
               /\ VodStep(p).run = p.run /\ VodStep(p).used = p.used /\ VodStep(p).stop
            \/ /\ ~p.stop /\ p.l.r < p.l.w /\ (p.armed \/ SyncHead(file, p.l)) /\ ~p.catchup
               /\ VodStep(p).l = p.l /\ VodStep(p).armed
               /\ VodStep(p).catchup = p.catchup /\ VodStep(p).out = p.out
               /\ VodStep(p).run = p.run /\ VodStep(p).used = p.used /\ VodStep(p).stop
            \/ /\ ~p.stop /\ p.l.r < p.l.w /\ (p.armed \/ SyncHead(file, p.l))
               /\ VodStep(p).l = Advance(p.l) /\ VodStep(p).armed
               /\ VodStep(p).catchup => p.catchup /\ Lag(VodStep(p).l) > CatchupLag
               /\ VodStep(p).out = OutPush(p.out)
               /\ VodStep(p).run = Append(p.run, NextOf(p.l))
               /\ VodStep(p).used = p.used + 1 /\ ~VodStep(p).stop
<1> DEFINE n == Peek(p.l)
           arms == n # Hole /\ file.kind[n] = "sync"
           read == Advance(p.l)
           caught == p.catchup /\ Lag(read) <= CatchupLag
<1>1. /\ p.l \in LaneType /\ LaneOk(p.l) /\ p.armed \in BOOLEAN /\ p.catchup \in BOOLEAN
      /\ p.clk \in ClkType /\ p.out \in OutType /\ p.run \in Seq(Samples)
      /\ p.stop \in BOOLEAN /\ p.used \in Nat
  BY DEF StepType
<1>2. /\ n = IF p.l.r < p.l.w THEN NextOf(p.l) ELSE Hole
      /\ p.l.r < p.l.w => NextOf(p.l) \in Samples
      /\ n # Hole <=> p.l.r < p.l.w
  BY <1>1, PeekOk
<1>3. LaneOk(read) /\ read \in LaneType
  BY <1>1, AdvanceOk, LaneFields
<1>4. arms => SyncHead(file, p.l)
  BY <1>2 DEF SyncHead, SyncSamples
<1>5. Lag(read) \in Int /\ CatchupLag \in Nat
  BY <1>3, LaneFields, PlayAssumption
<1> HIDE DEF n, read
<1>6. CASE p.stop \/ n = Hole
  <2> DEFINE u == [p EXCEPT !.stop = TRUE]
  <2>1. VodStep(p) = u
    BY <1>6 DEF VodStep, n
  <2>2. u \in StepType
    BY <1>1 DEF StepType
  <2>3. /\ u.l = p.l /\ u.armed = p.armed /\ u.catchup = p.catchup /\ u.out = p.out
        /\ u.run = p.run /\ u.used = p.used /\ u.stop
    BY DEF StepType
  <2> HIDE DEF u
  <2> QED  BY <1>2, <1>6, <2>1, <2>2, <2>3
<1>7. CASE ~(p.stop \/ n = Hole) /\ ~p.armed /\ ~arms
  <2> DEFINE u == [p EXCEPT !.l = read, !.stop = TRUE]
  <2>1. VodStep(p) = u
    BY <1>7 DEF VodStep, n, read
  <2>2. u \in StepType
    BY <1>1, <1>3 DEF StepType
  <2>3. /\ u.l = read /\ u.armed = p.armed /\ u.catchup = p.catchup /\ u.out = p.out
        /\ u.run = p.run /\ u.used = p.used /\ u.stop
    BY DEF StepType
  <2>4. ~p.stop /\ p.l.r < p.l.w /\ ~p.armed
    BY <1>2, <1>7
  <2> HIDE DEF u, arms
  <2> QED  BY <2>1, <2>2, <2>3, <2>4 DEF read
<1>8. CASE ~(p.stop \/ n = Hole) /\ ~(~p.armed /\ ~arms) /\ ~p.catchup /\ ~Due(p.clk, n)
  <2> DEFINE u == [p EXCEPT !.armed = TRUE, !.stop = TRUE]
  <2>1. VodStep(p) = u
    BY <1>8 DEF VodStep, n
  <2>2. u \in StepType
    BY <1>1 DEF StepType
  <2>3. /\ u.l = p.l /\ u.armed /\ u.catchup = p.catchup /\ u.out = p.out
        /\ u.run = p.run /\ u.used = p.used /\ u.stop
    BY DEF StepType
  <2>4. ~p.stop /\ p.l.r < p.l.w /\ (p.armed \/ SyncHead(file, p.l)) /\ ~p.catchup
    BY <1>2, <1>4, <1>8
  <2> HIDE DEF u, arms
  <2> QED  BY <2>1, <2>2, <2>3, <2>4
<1>9. CASE ~(p.stop \/ n = Hole) /\ ~(~p.armed /\ ~arms) /\ ~(~p.catchup /\ ~Due(p.clk, n))
  <2> DEFINE c == IF caught THEN Rebase(p.clk, n) ELSE p.clk
             u == [p EXCEPT !.used = @ + 1, !.l = read, !.armed = TRUE, !.out = OutPush(@),
                            !.run = Append(@, n), !.catchup = @ /\ ~caught,
                            !.clk = IF caught THEN Rebase(@, n) ELSE @]
  <2>0. VodStep(p) = u
    BY <1>9 DEF VodStep, n, read
  <2>1. n \in Samples /\ n = NextOf(p.l)
    BY <1>2, <1>9
  <2>2. c \in ClkType
    BY <1>1, <2>1, RebaseType
  <2>3. OutPush(p.out) \in OutType /\ Append(p.run, n) \in Seq(Samples) /\ p.used + 1 \in Nat
    BY <1>1, <2>1, OutPushOk
  <2>4. /\ u.l = read /\ u.armed = TRUE /\ u.catchup = (p.catchup /\ ~caught)
        /\ u.out = OutPush(p.out) /\ u.run = Append(p.run, n) /\ u.used = p.used + 1
        /\ u.stop = p.stop /\ u.clk = c
    <3> HIDE DEF caught
    <3> QED  BY DEF StepType
  <2>5. u \in [l : {read}, armed : {TRUE}, catchup : {p.catchup /\ ~caught}, clk : {c},
               out : {OutPush(p.out)}, run : {Append(p.run, n)}, stop : {p.stop},
               used : {p.used + 1}]
    <3> HIDE DEF caught
    <3> QED  BY DEF StepType
  <2> HIDE DEF u, c
  <2>6. (p.catchup /\ ~caught) \in BOOLEAN
    OBVIOUS
  <2>7. u \in StepType
    <3> HIDE DEF caught
    <3> QED  BY <1>1, <1>3, <2>2, <2>3, <2>4, <2>5, <2>6 DEF StepType
  <2>8. ~p.stop /\ p.l.r < p.l.w /\ (p.armed \/ SyncHead(file, p.l))
    BY <1>2, <1>4, <1>9
  <2>9. u.catchup => p.catchup /\ Lag(read) > CatchupLag
    <3>1. p.catchup /\ ~caught => p.catchup /\ Lag(read) > CatchupLag
      BY <1>5
    <3> HIDE DEF caught
    <3>2. u.catchup => p.catchup /\ ~caught
      BY <2>4, Zenon
    <3> QED  BY <3>1, <3>2
  <2> HIDE DEF caught, arms
  <2> QED  BY <2>0, <2>1, <2>4, <2>7, <2>8, <2>9 DEF read
<1> QED  BY <1>6, <1>7, <1>8, <1>9

\* What holds of the pump, begun in state a, after i steps.
Chain(s) == \A i \in 1..Len(s) - 1 : s[i + 1] = s[i] + 1
StepUsed(a, p, i) ==
    /\ p.used <= i /\ (~p.stop => p.used = i)
    /\ p.used = 0 => p.run = a.run /\ p.out = a.out
    /\ p.used > 0 => p.run # <<>>
StepCatch(a, p) ==
    /\ p.catchup => a.catchup
    /\ p.catchup /\ p.used > 0 => ~p.stop /\ p.l.r < p.l.w
StepTape(p) ==
    /\ Chain(p.run)
    /\ file.box = "mp4" /\ p.run # <<>> => p.run[1] \in SyncSamples(file)
    /\ p.run # <<>> => p.armed /\ NextOf(p.l) = p.run[Len(p.run)] + 1
    /\ file.box = "mp4" /\ p.run = <<>> /\ p.armed => SyncHead(file, p.l)
StepOut(a, p) ==
    /\ p.out.old + p.out.cur <= OutCap /\ p.out.cur <= a.out.cur + p.used
    /\ p.out.again = a.out.again /\ (~p.out.again => ~p.out.lost)
StepRun(a, p, i) == StepUsed(a, p, i) /\ StepCatch(a, p) /\ StepTape(p) /\ StepOut(a, p)

\* Unless it catches up again, the run fits the outbox with k frames more.
Room(a, k) == ~a.out.again => a.out.cur + k <= OutCap

LEMMA OneMoreFits ==
  ASSUME NEW c \in Nat, NEW d \in Nat, NEW e \in Nat, NEW n \in Nat,
         d <= c + 1, c <= e + n
  PROVE  d <= e + (n + 1)
OBVIOUS

LEMMA ChainGrows ==
  ASSUME NEW s \in Seq(Samples), Chain(s), NEW n \in Samples,
         s # <<>> => n = s[Len(s)] + 1
  PROVE  /\ Append(s, n) \in Seq(Samples) /\ Append(s, n) # <<>> /\ Chain(Append(s, n))
         /\ Append(s, n)[Len(Append(s, n))] = n
         /\ Append(s, n)[1] = IF s = <<>> THEN n ELSE s[1]
<1>1. /\ Append(s, n) \in Seq(Samples) /\ Len(Append(s, n)) = Len(s) + 1 /\ Len(s) \in Nat
      /\ \A i \in 1..Len(s) : Append(s, n)[i] = s[i]
      /\ Append(s, n)[Len(s) + 1] = n
  OBVIOUS
<1>2. s = <<>> <=> Len(s) = 0
  OBVIOUS
<1>3. Append(s, n) # <<>>
  BY <1>1
<1> DEFINE u == Append(s, n)
<1> HIDE DEF u
<1>4. ASSUME NEW i \in 1..Len(u) - 1 PROVE u[i + 1] = u[i] + 1
  <2>1. i \in 1..Len(s)
    BY <1>1 DEF u
  <2>2. CASE i = Len(s)
    <3>1. s # <<>> /\ u[i + 1] = n /\ u[i] = s[Len(s)]
      BY <1>1, <1>2, <2>1, <2>2 DEF u
    <3> QED  BY <2>2, <3>1
  <2>3. CASE i # Len(s)
    <3>1. i + 1 \in 1..Len(s) /\ i \in 1..Len(s) - 1
      BY <1>1, <2>1, <2>3
    <3>2. u[i + 1] = s[i + 1] /\ u[i] = s[i]
      BY <1>1, <2>1, <3>1 DEF u
    <3> QED  BY <3>1, <3>2 DEF Chain
  <2> QED  BY <2>2, <2>3
<1>5. Chain(u)
  BY <1>4 DEF Chain
<1>6. u[1] = IF s = <<>> THEN n ELSE s[1]
  <2>1. CASE s = <<>>
    BY <1>1, <1>2, <2>1 DEF u
  <2>2. CASE s # <<>>
    <3>1. 1 \in 1..Len(s)
      BY <1>1, <1>2, <2>2
    <3> QED  BY <1>1, <2>2, <3>1 DEF u
  <2> QED  BY <2>1, <2>2
<1> QED  BY <1>1, <1>3, <1>5, <1>6 DEF u

LEMMA StepRunKept ==
  ASSUME NEW a \in StepType, NEW p \in StepType, NEW k \in Nat, NEW i \in Nat, i < k,
         Room(a, k), a.used = 0, StepRun(a, p, i)
  PROVE  StepRun(a, VodStep(p), i + 1)
<1> DEFINE u == VodStep(p)
<1>1. /\ LaneOk(p.l) /\ p.used \in Nat /\ p.run \in Seq(Samples) /\ p.out \in OutType
      /\ p.out.cur \in Nat /\ p.out.old \in Nat /\ a.out.cur \in Nat /\ OutCap \in Nat
  BY PlayAssumption DEF StepType, OutType
<1>2. u \in StepType
  BY VodStepIs
<1> SUFFICES StepRun(a, u, i + 1)
  OBVIOUS
<1>0. StepUsed(a, p, i) /\ StepCatch(a, p) /\ StepTape(p) /\ StepOut(a, p)
  BY DEF StepRun
<1>3. CASE /\ u.l = p.l /\ u.armed = p.armed /\ u.catchup = p.catchup /\ u.out = p.out
           /\ u.run = p.run /\ u.used = p.used
           /\ u.stop /\ (p.stop \/ ~(p.l.r < p.l.w))
  <2> HIDE DEF u
  <2>1. ~(p.catchup /\ p.used > 0)
    BY <1>0, <1>3 DEF StepCatch
  <2>2. StepUsed(a, u, i + 1)
    BY <1>0, <1>1, <1>3 DEF StepUsed
  <2>3. StepCatch(a, u)
    BY <1>0, <1>3, <2>1 DEF StepCatch
  <2>4. StepTape(u)
    BY <1>0, <1>3 DEF StepTape
  <2>5. StepOut(a, u)
    BY <1>0, <1>3 DEF StepOut
  <2> QED  BY <2>2, <2>3, <2>4, <2>5 DEF StepRun
<1>4. CASE /\ ~p.stop /\ p.l.r < p.l.w /\ ~p.armed
           /\ u.l = Advance(p.l) /\ u.armed = p.armed
           /\ u.catchup = p.catchup /\ u.out = p.out
           /\ u.run = p.run /\ u.used = p.used /\ u.stop
  <2> HIDE DEF u
  <2>1. p.run = <<>> /\ ~(p.used > 0)
    BY <1>0, <1>4 DEF StepUsed, StepTape
  <2>2. StepUsed(a, u, i + 1)
    BY <1>0, <1>1, <1>4 DEF StepUsed
  <2>3. StepCatch(a, u)
    BY <1>0, <1>4, <2>1 DEF StepCatch
  <2>4. StepTape(u)
    BY <1>0, <1>4, <2>1 DEF StepTape
  <2>5. StepOut(a, u)
    BY <1>0, <1>4 DEF StepOut
  <2> QED  BY <2>2, <2>3, <2>4, <2>5 DEF StepRun
<1>5. CASE /\ ~p.stop /\ p.l.r < p.l.w /\ (p.armed \/ SyncHead(file, p.l)) /\ ~p.catchup
           /\ u.l = p.l /\ u.armed
           /\ u.catchup = p.catchup /\ u.out = p.out
           /\ u.run = p.run /\ u.used = p.used /\ u.stop
  <2> HIDE DEF u
  <2>2. StepUsed(a, u, i + 1)
    BY <1>0, <1>1, <1>5 DEF StepUsed
  <2>3. StepCatch(a, u)
    BY <1>5 DEF StepCatch
  <2>4. StepTape(u)
    BY <1>0, <1>5 DEF StepTape
  <2>5. StepOut(a, u)
    BY <1>0, <1>5 DEF StepOut
  <2> QED  BY <2>2, <2>3, <2>4, <2>5 DEF StepRun
<1>6. CASE /\ ~p.stop /\ p.l.r < p.l.w /\ (p.armed \/ SyncHead(file, p.l))
           /\ u.l = Advance(p.l) /\ u.armed
           /\ u.catchup => p.catchup /\ Lag(u.l) > CatchupLag
           /\ u.out = OutPush(p.out)
           /\ u.run = Append(p.run, NextOf(p.l))
           /\ u.used = p.used + 1 /\ ~u.stop
  <2> DEFINE n == NextOf(p.l)
  <2>1. n \in Samples /\ LaneOk(u.l) /\ NextOf(u.l) = n + 1
    BY <1>1, <1>6, PeekOk, AdvanceOk
  <2>2. Chain(p.run) /\ (p.run # <<>> => n = p.run[Len(p.run)] + 1)
    BY <1>0 DEF StepTape
  <2> HIDE DEF u, n
  <2>3. /\ u.run # <<>> /\ Chain(u.run) /\ u.run[Len(u.run)] = n
        /\ u.run[1] = IF p.run = <<>> THEN n ELSE p.run[1]
    BY <1>1, <1>6, <2>1, <2>2, ChainGrows DEF n
  <2>4. file.box = "mp4" => u.run[1] \in SyncSamples(file)
    <3>1. SUFFICES ASSUME file.box = "mp4" PROVE u.run[1] \in SyncSamples(file)
      OBVIOUS
    <3>2. CASE p.run = <<>>
      <4>1. SyncHead(file, p.l)
        BY <1>0, <1>6, <3>1, <3>2 DEF StepTape
      <4> QED  BY <2>3, <3>2, <4>1 DEF SyncHead, n
    <3>3. CASE p.run # <<>>
      BY <1>0, <2>3, <3>1, <3>3 DEF StepTape
    <3> QED  BY <3>2, <3>3
  <2>5. p.used = i /\ u.used = i + 1 /\ u.used > 0
    BY <1>0, <1>1, <1>6 DEF StepUsed
  <2>6. u.catchup => a.catchup /\ u.l.r < u.l.w
    <3>1. SUFFICES ASSUME u.catchup PROVE a.catchup /\ u.l.r < u.l.w
      OBVIOUS
    <3>2. p.catchup /\ Lag(u.l) > CatchupLag
      BY <1>6, <3>1
    <3>3. Lag(u.l) = u.l.w - u.l.r /\ u.l.w \in Nat /\ u.l.r \in Nat /\ CatchupLag \in Nat
      BY <2>1, LaneFields, PlayAssumption
    <3>4. u.l.r < u.l.w
      BY <3>2, <3>3
    <3> QED  BY <1>0, <3>2, <3>4 DEF StepCatch
  <2>7. /\ u.out.cur \in Nat /\ u.out.old \in Nat
        /\ u.out.again = p.out.again /\ u.out.cur <= p.out.cur + 1
        /\ p.out.old + p.out.cur <= OutCap => u.out.old + u.out.cur <= OutCap
        /\ u.out.lost => p.out.lost \/ p.out.cur >= OutCap
    <3>1. OutPush(p.out) \in OutType
      BY <1>1, OutPushOk
    <3>2. OutPush(p.out).cur \in Nat /\ OutPush(p.out).old \in Nat
      BY <3>1 DEF OutType
    <3> QED  BY <1>1, <1>6, <3>2, OutPushOk
  <2>8. p.out.old + p.out.cur <= OutCap /\ p.out.cur <= a.out.cur + p.used
    BY <1>0 DEF StepOut
  <2>9. u.out.old + u.out.cur <= OutCap /\ u.out.cur <= a.out.cur + u.used
    <3>1. u.out.old + u.out.cur <= OutCap
      BY <2>7, <2>8
    <3>2. u.out.cur <= p.out.cur + 1 /\ u.out.cur \in Nat
      BY <2>7
    <3>3. p.out.cur <= a.out.cur + p.used
      BY <2>8
    <3>4. u.used = p.used + 1
      BY <1>6
    <3>5. u.out.cur <= a.out.cur + (p.used + 1)
      BY <1>1, <3>2, <3>3, OneMoreFits
    <3> QED  BY <3>1, <3>4, <3>5
  <2>10. u.out.again = a.out.again
    BY <1>0, <2>7 DEF StepOut
  <2>11. ~u.out.again => ~u.out.lost
    <3>1. SUFFICES ASSUME ~u.out.again PROVE ~u.out.lost
      OBVIOUS
    <3>2. ~a.out.again /\ ~p.out.again /\ ~p.out.lost
      BY <1>0, <2>7, <2>10, <3>1 DEF StepOut
    <3>3. p.out.cur < OutCap
      <4>1. a.out.cur + k <= OutCap
        BY <3>2 DEF Room
      <4> QED  BY <1>1, <2>5, <2>8, <4>1
    <3> QED  BY <1>1, <2>7, <3>2, <3>3
  <2>12. StepUsed(a, u, i + 1)
    BY <1>1, <2>3, <2>5 DEF StepUsed
  <2>13. StepCatch(a, u)
    BY <1>6, <2>6 DEF StepCatch
  <2>14. StepTape(u)
    BY <1>6, <2>1, <2>3, <2>4 DEF StepTape
  <2>15. StepOut(a, u)
    BY <2>9, <2>10, <2>11 DEF StepOut
  <2> QED  BY <2>12, <2>13, <2>14, <2>15 DEF StepRun
<1>7. \/ /\ u.l = p.l /\ u.armed = p.armed /\ u.catchup = p.catchup /\ u.out = p.out
         /\ u.run = p.run /\ u.used = p.used
         /\ u.stop /\ (p.stop \/ ~(p.l.r < p.l.w))
      \/ /\ ~p.stop /\ p.l.r < p.l.w /\ ~p.armed
         /\ u.l = Advance(p.l) /\ u.armed = p.armed
         /\ u.catchup = p.catchup /\ u.out = p.out
         /\ u.run = p.run /\ u.used = p.used /\ u.stop
      \/ /\ ~p.stop /\ p.l.r < p.l.w /\ (p.armed \/ SyncHead(file, p.l)) /\ ~p.catchup
         /\ u.l = p.l /\ u.armed
         /\ u.catchup = p.catchup /\ u.out = p.out
         /\ u.run = p.run /\ u.used = p.used /\ u.stop
      \/ /\ ~p.stop /\ p.l.r < p.l.w /\ (p.armed \/ SyncHead(file, p.l))
         /\ u.l = Advance(p.l) /\ u.armed
         /\ u.catchup => p.catchup /\ Lag(u.l) > CatchupLag
         /\ u.out = OutPush(p.out)
         /\ u.run = Append(p.run, NextOf(p.l))
         /\ u.used = p.used + 1 /\ ~u.stop
  BY VodStepIs
<1> HIDE DEF u
<1> QED  BY <1>3, <1>4, <1>5, <1>6, <1>7

\* The whole of zms_egress_pipeline_pump_flv_vod, before the outbox is flushed.
AfterSteps(a, k) == FoldLeft(LAMBDA b, i : VodStep(b), a, Times(k))

LEMMA StepsOk ==
  ASSUME NEW a \in StepType, a.used = 0, NEW k \in Nat
  PROVE  /\ AfterSteps(a, k) \in StepType
         /\ Room(a, k) /\ StepRun(a, a, 0) => StepRun(a, AfterSteps(a, k), k)
<1> DEFINE p == AfterSteps(a, k)
<1> HIDE DEF p
<1> DEFINE F == [b \in StepType |-> VodStep(b)]
<1>1. F \in [StepType -> StepType]
  BY VodStepIs
<1>2. PICK g : IsTrace(g, StepType, F, a, k)
  <2> HIDE DEF F
  <2> QED  BY <1>1, Trace
<1>3. g[0] = a /\ \A i \in 0..k : g[i] \in StepType
  BY <1>2 DEF IsTrace
<1>4. \A i \in 0..k-1 : i \in Nat /\ i < k /\ i \in 0..k /\ i + 1 \in 0..k
  OBVIOUS
<1>5. \A i \in 0..k-1 : g[i + 1] = VodStep(g[i])
  BY <1>2, <1>3, <1>4 DEF IsTrace
<1>6. p = g[k]
  BY <1>3, <1>5, StepFold DEF p, AfterSteps
<1>7. p \in StepType
  BY <1>3, <1>6
<1>8. ASSUME Room(a, k), StepRun(a, a, 0) PROVE StepRun(a, p, k)
  <2> DEFINE S == {n \in Nat : n <= k => StepRun(a, g[n], n)}
  <2>1. 0 \in S
    BY <1>3, <1>8
  <2>2. ASSUME NEW n \in Nat, n \in S PROVE n + 1 \in S
    <3>1. SUFFICES ASSUME n + 1 <= k PROVE StepRun(a, g[n + 1], n + 1)
      OBVIOUS
    <3>2. n \in 0..k-1 /\ n < k /\ n \in 0..k
      BY <3>1
    <3>3. StepRun(a, g[n], n) /\ g[n] \in StepType
      BY <1>3, <2>2, <3>2
    <3>4. StepRun(a, VodStep(g[n]), n + 1)
      BY <1>8, <3>2, <3>3, StepRunKept
    <3> QED  BY <1>5, <3>2, <3>4
  <2> HIDE DEF S
  <2>3. k \in S
    BY <2>1, <2>2, Induction
  <2> QED  BY <1>6, <2>3 DEF S
<1> QED  BY <1>7, <1>8 DEF p

-----------------------------------------------------------------------------
(* What is sent, and what the outbox keeps of it.                          *)

\* A catch-up fits the outbox, a paced turn what a flush drains.
Pacing == CatchupBudget <= OutCap /\ VodBudget <= OutFlush /\ OutFlush <= OutCap

TapeRun(t) ==
    /\ Chain(t.run)
    /\ file.box = "mp4" /\ t.run # <<>> => t.run[1] \in SyncSamples(file)
    /\ t.run # <<>> /\ t.ses.reader # NoLane =>
         NextOf(t.buf[t.ses.reader]) = t.run[Len(t.run)] + 1
    /\ ~t.ses.boot /\ t.run # <<>> => t.ses.armed
    /\ file.box = "mp4" /\ t.run = <<>> /\ t.ses.armed /\ t.ses.reader # NoLane =>
         SyncHead(file, t.buf[t.ses.reader])
TapeOut(t) ==
    /\ t.out.old + t.out.cur <= OutCap - OutFlush
    /\ t.run = <<>> => t.out.cur = 0
    /\ ~t.out.again => ~t.out.lost
    /\ ~t.out.again /\ t.ses.catchup => t.run = <<>>
Tape(t) == TapeRun(t) /\ TapeOut(t)

\* Which lanes there are and whose.
SameLanes(u, t) ==
    /\ u.open = t.open /\ u.ref = t.ref /\ u.pub = t.pub /\ u.timer = t.timer
    /\ u.held = t.held /\ u.jobs = t.jobs /\ u.kicks = t.kicks
    /\ u.ses.lane = t.ses.lane /\ u.ses.reader = t.ses.reader /\ u.ses.gone = t.ses.gone
    /\ u.ses.boot = t.ses.boot /\ u.ses.st = t.ses.st

LEMMA SameLanesBase ==
  ASSUME NEW t, Base(t), NEW u \in StType, SameLanes(u, t), FifosOk(u)
  PROVE  Base(u)
<1>1. LanesHeld(u)
  BY DEF Base, SameLanes, LanesHeld
<1>2. OwnLanes(u)
  BY DEF Base, SameLanes, OwnLanes
<1>3. JobLanes(u)
  BY DEF Base, SameLanes, JobLanes
<1> QED  BY <1>1, <1>2, <1>3 DEF Base

\* The pump moves the reader's lane, and what is sent.
LEMMA PumpedOk ==
  ASSUME NEW t, Base(t), t.ses.reader # NoLane
  PROVE  /\ Pumped(t) \in StType /\ SameLanes(Pumped(t), t) /\ FifosOk(Pumped(t))
         /\ Pacing /\ ~t.ses.boot /\ Tape(t) => Tape(Pumped(t))
<1> DEFINE rd == t.ses.reader
           budget == IF t.ses.catchup THEN CatchupBudget ELSE VodBudget
           a == [l |-> t.buf[t.ses.reader], armed |-> t.ses.armed,
                 catchup |-> t.ses.catchup, clk |-> t.clk, out |-> t.out, run |-> t.run,
                 stop |-> FALSE, used |-> 0]
           p == AfterSteps(a, budget)
           u == Pumped(t)
<1>1. /\ t \in StType /\ t.ses \in SesType /\ t.buf \in [Lanes -> LaneType]
      /\ t.clk \in ClkType /\ t.out \in OutType /\ t.run \in Seq(Samples)
      /\ t.ses.armed \in BOOLEAN /\ t.ses.catchup \in BOOLEAN /\ t.ses.boot \in BOOLEAN
  BY DEF Base, StType, SesType
<1>2. rd \in Lanes /\ LaneOk(t.buf[rd]) /\ t.buf[rd] \in LaneType
  BY <1>1 DEF SesType, Base, FifosOk
<1>3. a \in StepType /\ a.used = 0
  BY <1>1, <1>2 DEF StepType
<1>4. budget \in Nat /\ CatchupBudget \in Nat /\ VodBudget \in Nat /\ OutCap \in Nat /\ OutFlush \in Nat
  BY PlayAssumption
<1> DEFINE catching == p.catchup /\ p.used < budget - 1
<1>5. u = [t EXCEPT !.buf[rd] = p.l, !.ses.armed = p.armed, !.ses.catchup = catching,
                    !.clk = p.clk, !.out = OutFlushed(p.out), !.run = p.run]
  BY DEF Pumped, AfterSteps
<1> HIDE DEF budget, a
<1>6. p \in StepType /\ (Room(a, budget) /\ StepRun(a, a, 0) => StepRun(a, p, budget))
  BY <1>3, <1>4, StepsOk
<1> HIDE DEF p, u
<1>7. /\ p.l \in LaneType /\ LaneOk(p.l) /\ p.armed \in BOOLEAN /\ p.clk \in ClkType
      /\ p.out \in OutType /\ p.run \in Seq(Samples) /\ catching \in BOOLEAN
      /\ p.used \in Nat
  BY <1>6 DEF StepType
<1> HIDE DEF catching
<1>8. OutFlushed(p.out) \in OutType
  BY <1>7, OutFlushedOk
<1> DEFINE s == [t.ses EXCEPT !.armed = p.armed, !.catchup = catching]
           d == [t.buf EXCEPT ![rd] = p.l]
<1>9. /\ s \in SesType /\ s.lane = t.ses.lane /\ s.reader = rd /\ s.gone = t.ses.gone
      /\ s.boot = t.ses.boot /\ s.st = t.ses.st /\ s.armed = p.armed /\ s.catchup = catching
  BY <1>1, <1>7 DEF SesType
<1>10. d \in [Lanes -> LaneType] /\ \A l \in Lanes : d[l] = IF l = rd THEN p.l ELSE t.buf[l]
  BY <1>1, <1>2, <1>7
<1>11. /\ u.ses = s /\ u.buf = d /\ u.clk = p.clk /\ u.out = OutFlushed(p.out) /\ u.run = p.run
       /\ u.open = t.open /\ u.ref = t.ref /\ u.pub = t.pub /\ u.timer = t.timer
       /\ u.held = t.held /\ u.jobs = t.jobs /\ u.kicks = t.kicks
  <2> HIDE DEF rd
  <2> QED  BY <1>1, <1>5 DEF StType, SesType
<1>12. u \in StType
  <2>1. u \in [ses : {s}, clk : {p.clk}, open : {t.open}, ref : {t.ref}, pub : {t.pub},
               buf : {d}, timer : {t.timer}, held : {t.held}, jobs : {t.jobs},
               kicks : {t.kicks}, out : {OutFlushed(p.out)}, run : {p.run}]
    <3> HIDE DEF rd
    <3> QED  BY <1>1, <1>5 DEF StType, SesType
  <2> HIDE DEF s, d
  <2> QED  BY <1>1, <1>7, <1>8, <1>9, <1>10, <2>1 DEF StType
<1> HIDE DEF s, d
<1>13. SameLanes(u, t)
  BY <1>9, <1>11 DEF SameLanes, rd
<1>14. FifosOk(u)
  <2>1. \A l \in Lanes : LaneOk(t.buf[l])
    BY DEF Base, FifosOk
  <2> QED  BY <1>7, <1>10, <1>11, <2>1 DEF FifosOk
<1>15. ASSUME Pacing, ~t.ses.boot, Tape(t) PROVE Tape(u)
  <2>0. /\ a.l = t.buf[rd] /\ a.armed = t.ses.armed /\ a.catchup = t.ses.catchup
        /\ a.out = t.out /\ a.run = t.run /\ a.stop = FALSE /\ a.used = 0
    BY DEF a
  <2>1. TapeRun(t) /\ TapeOut(t)
    BY <1>15 DEF Tape
  <2>2. t.out.old \in Nat /\ t.out.cur \in Nat
    BY <1>1 DEF OutType
  <2>3. Room(a, budget)
    <3>1. SUFFICES ASSUME ~t.out.again PROVE t.out.cur + budget <= OutCap
      BY <2>0 DEF Room
    <3>2. CASE t.ses.catchup
      <4>1. t.out.cur = 0
        BY <2>1, <3>1, <3>2 DEF TapeOut
      <4>2. budget <= OutCap
        BY <1>4, <1>15, <3>2 DEF Pacing, budget
      <4> QED  BY <1>4, <4>1, <4>2
    <3>3. CASE ~t.ses.catchup
      <4>1. t.out.cur <= OutCap - OutFlush
        BY <1>4, <2>1, <2>2 DEF TapeOut
      <4>2. budget <= OutFlush
        BY <1>4, <1>15, <3>3 DEF Pacing, budget
      <4> QED  BY <1>4, <2>2, <4>1, <4>2
    <3> QED  BY <3>2, <3>3
  <2>4. StepRun(a, a, 0)
    <3>1. StepUsed(a, a, 0)
      BY <2>0 DEF StepUsed
    <3>2. StepCatch(a, a)
      BY <2>0 DEF StepCatch
    <3>3. StepTape(a)
      BY <1>2, <1>15, <2>0, <2>1 DEF TapeRun, StepTape, NoLane
    <3>4. StepOut(a, a)
      <4>1. t.out.old + t.out.cur <= OutCap - OutFlush /\ (~t.out.again => ~t.out.lost)
        BY <2>1 DEF TapeOut
      <4>2. t.out.old + t.out.cur <= OutCap
        BY <1>4, <2>2, <4>1
      <4> QED  BY <2>0, <2>2, <4>1, <4>2 DEF StepOut
    <3> QED  BY <3>1, <3>2, <3>3, <3>4 DEF StepRun
  <2>5. StepUsed(a, p, budget) /\ StepCatch(a, p) /\ StepTape(p) /\ StepOut(a, p)
    BY <1>6, <2>3, <2>4 DEF StepRun
  <2>6. TapeRun(u)
    <3>1. u.ses.reader = rd /\ u.buf[rd] = p.l /\ u.run = p.run /\ u.ses.armed = p.armed
      BY <1>2, <1>9, <1>10, <1>11
    <3> QED  BY <2>5, <3>1 DEF TapeRun, StepTape
  <2>7. TapeOut(u)
    <3>1. p.out.old + p.out.cur <= OutCap /\ OutFlush <= OutCap
      BY <1>15, <2>5 DEF StepOut, Pacing
    <3>2. u.out.old + u.out.cur <= OutCap - OutFlush
      BY <1>7, <1>11, <3>1, OutFlushedOk
    <3>3. u.out.cur <= p.out.cur /\ u.out.cur \in Nat /\ u.out.again = p.out.again /\ u.out.lost = p.out.lost
      <4>1. u.out.cur \in Nat
        BY <1>8, <1>11 DEF OutType
      <4> QED  BY <1>7, <1>11, <4>1, OutFlushedOk
    <3>4. ASSUME u.run = <<>> PROVE u.out.cur = 0
      <4>1. p.used = 0
        BY <1>7, <1>11, <2>5, <3>4 DEF StepUsed
      <4>2. p.out = t.out /\ t.run = <<>>
        BY <1>11, <2>0, <2>5, <3>4, <4>1 DEF StepUsed
      <4>3. t.out.cur = 0
        BY <2>1, <4>2 DEF TapeOut
      <4> QED  BY <3>3, <4>2, <4>3
    <3>5. ~u.out.again => ~u.out.lost
      BY <2>5, <3>3 DEF StepOut
    <3>6. ASSUME ~u.out.again, u.ses.catchup PROVE u.run = <<>>
      <4>1. p.catchup /\ p.used < budget - 1
        BY <1>9, <1>11, <3>6 DEF catching
      <4>2. ~(p.used > 0)
        <5>1. SUFFICES ASSUME p.used > 0 PROVE FALSE
          OBVIOUS
        <5>2. p.used = budget
          BY <2>5, <4>1, <5>1 DEF StepUsed, StepCatch
        <5> QED  BY <1>4, <4>1, <5>2
      <4>3. p.used = 0
        BY <1>7, <4>2
      <4>4. p.run = t.run /\ t.ses.catchup /\ ~t.out.again
        BY <2>0, <2>5, <3>3, <3>6, <4>1, <4>3 DEF StepUsed, StepCatch, StepOut
      <4>5. t.run = <<>>
        BY <2>1, <4>4 DEF TapeOut
      <4> QED  BY <1>11, <4>4, <4>5
    <3> QED  BY <3>2, <3>4, <3>5, <3>6 DEF TapeOut
  <2> QED  BY <2>6, <2>7 DEF Tape
<1> QED  BY <1>12, <1>13, <1>14, <1>15 DEF u

\* The code's sizes and the files are such that the outbox keeps what it is given.
Sound == Pacing /\ StartsWithSync(file)
Good(t) == Base(t) /\ (Sound => Tape(t))

\* The fields of a state.
IsSt(u, s, c, op, rf, pb, bf, tm, hl, jb, kk, ot, rn) ==
    u \in [ses : {s}, clk : {c}, open : {op}, ref : {rf}, pub : {pb}, buf : {bf}, timer : {tm},
           held : {hl}, jobs : {jb}, kicks : {kk}, out : {ot}, run : {rn}]

LEMMA StFields ==
  ASSUME NEW u, NEW s, NEW c, NEW op, NEW rf, NEW pb, NEW bf, NEW tm, NEW hl, NEW jb, NEW kk,
         NEW ot, NEW rn, IsSt(u, s, c, op, rf, pb, bf, tm, hl, jb, kk, ot, rn)
  PROVE  /\ u.ses = s /\ u.clk = c /\ u.open = op /\ u.ref = rf /\ u.pub = pb /\ u.buf = bf
         /\ u.timer = tm /\ u.held = hl /\ u.jobs = jb /\ u.kicks = kk /\ u.out = ot /\ u.run = rn
         /\ /\ s \in SesType /\ c \in ClkType /\ op \in SUBSET Lanes /\ rf \in Nat
            /\ pb \in BOOLEAN /\ bf \in [Lanes -> LaneType] /\ tm \in SUBSET Lanes
            /\ hl \in SUBSET Lanes /\ jb \in [Lanes -> JobType] /\ kk \in Nat
            /\ ot \in OutType /\ rn \in Seq(Samples)
            => u \in StType
BY DEF IsSt, StType

LEMMA StTypes ==
  ASSUME NEW t \in StType
  PROVE  /\ t.ses \in SesType /\ t.clk \in ClkType /\ t.open \in SUBSET Lanes /\ t.ref \in Nat
         /\ t.pub \in BOOLEAN /\ t.buf \in [Lanes -> LaneType] /\ t.timer \in SUBSET Lanes
         /\ t.held \in SUBSET Lanes /\ t.jobs \in [Lanes -> JobType] /\ t.kicks \in Nat
         /\ t.out \in OutType /\ t.run \in Seq(Samples)
BY DEF StType

\* Pumping a lane leaves everything in order.
LEMMA LanePumped ==
  ASSUME NEW t, Good(t), NEW l \in Lanes, NEW m \in PumpedFrom(t.buf[l]),
         NEW u, u = [t EXCEPT !.buf[l] = m]
  PROVE  Good(u) /\ SameLanes(u, t)
<1>1. t \in StType /\ FifosOk(t) /\ t.buf \in [Lanes -> LaneType] /\ LaneOk(t.buf[l])
  BY StTypes DEF Good, Base, FifosOk
<1>2. /\ LaneOk(m) /\ m \in LaneType /\ NextOf(m) = NextOf(t.buf[l])
      /\ t.buf[l].r < t.buf[l].w => m.r < m.w
  BY <1>1, PumpedKeeps DEF PumpedFrom
<1> DEFINE d == [t.buf EXCEPT ![l] = m]
<1>3. IsSt(u, t.ses, t.clk, t.open, t.ref, t.pub, d, t.timer, t.held, t.jobs, t.kicks, t.out, t.run)
  BY <1>1 DEF StType, IsSt
<1>4. d \in [Lanes -> LaneType] /\ \A k \in Lanes : d[k] = IF k = l THEN m ELSE t.buf[k]
  BY <1>1, <1>2
<1> HIDE DEF d
<1>5. /\ u.ses = t.ses /\ u.clk = t.clk /\ u.open = t.open /\ u.ref = t.ref /\ u.pub = t.pub
      /\ u.buf = d /\ u.timer = t.timer /\ u.held = t.held /\ u.jobs = t.jobs
      /\ u.kicks = t.kicks /\ u.out = t.out /\ u.run = t.run
  BY <1>3 DEF IsSt
<1>6. u \in StType
  BY <1>1, <1>3, <1>4, StFields, StTypes
<1>7. SameLanes(u, t)
  BY <1>5 DEF SameLanes
<1>8. FifosOk(u)
  BY <1>1, <1>2, <1>4, <1>5 DEF FifosOk
<1>9. Base(u)
  BY <1>6, <1>7, <1>8, SameLanesBase DEF Good
<1>10. ASSUME Sound PROVE Tape(u)
  <2>1. TapeRun(t) /\ TapeOut(t)
    BY <1>10 DEF Good, Tape
  <2>2. t.ses.reader # NoLane => t.ses.reader \in Lanes
    BY <1>1, StTypes DEF SesType
  <2>3. t.ses.reader # NoLane =>
           /\ NextOf(u.buf[t.ses.reader]) = NextOf(t.buf[t.ses.reader])
           /\ SyncHead(file, t.buf[t.ses.reader]) => SyncHead(file, u.buf[t.ses.reader])
    <3>1. CASE t.ses.reader = l
      BY <1>2, <1>4, <1>5, <2>2, <3>1 DEF SyncHead
    <3>2. CASE t.ses.reader # l
      BY <1>4, <1>5, <2>2, <3>2
    <3> QED  BY <3>1, <3>2
  <2>4. TapeRun(u)
    BY <1>5, <2>1, <2>3 DEF TapeRun
  <2>5. TapeOut(u)
    BY <1>5, <2>1 DEF TapeOut
  <2> QED  BY <2>4, <2>5 DEF Tape
<1> QED  BY <1>7, <1>9, <1>10 DEF Good

LEMMA SameLanesTwice ==
  ASSUME NEW t, NEW u, NEW v, SameLanes(u, t), SameLanes(v, u)
  PROVE  SameLanes(v, t)
BY DEF SameLanes

\* zms_rtmp_session_play_flush_nolock, on a session that is not booting
LEMMA FlushOk ==
  ASSUME NEW t, Good(t), ~t.ses.boot
  PROVE  Good(Flush(t)) /\ SameLanes(Flush(t), t)
<1>1. CASE t.ses.gone \/ t.ses.st # "playing" \/ t.ses.reader = NoLane \/ t.clk.paused
  BY <1>1 DEF Flush, SameLanes
<1>2. CASE ~(t.ses.gone \/ t.ses.st # "playing" \/ t.ses.reader = NoLane \/ t.clk.paused)
  <2> DEFINE v == IF t.ses.lane = NoLane THEN t ELSE [t EXCEPT !.buf[t.ses.lane] = DemuxFill(@)]
  <2>1. Flush(t) = Pumped(v)
    BY <1>2 DEF Flush
  <2>2. Good(v) /\ SameLanes(v, t)
    <3>1. CASE t.ses.lane = NoLane
      BY <3>1 DEF SameLanes
    <3>2. CASE t.ses.lane # NoLane
      <4>1. t \in StType /\ t.ses.lane \in Lanes /\ LaneOk(t.buf[t.ses.lane])
        BY <3>2, StTypes DEF Good, Base, FifosOk, SesType
      <4>2. DemuxFill(t.buf[t.ses.lane]) \in PumpedFrom(t.buf[t.ses.lane])
        BY <4>1, FillOk DEF LaneOk
      <4>3. v = [t EXCEPT !.buf[t.ses.lane] = DemuxFill(t.buf[t.ses.lane])]
        BY <3>2
      <4> HIDE DEF v
      <4> QED  BY <4>1, <4>2, <4>3, LanePumped
    <3> QED  BY <3>1, <3>2
  <2> HIDE DEF v
  <2>3. Base(v) /\ v.ses.reader # NoLane /\ ~v.ses.boot
    BY <1>2, <2>2 DEF Good, SameLanes
  <2>4. /\ Pumped(v) \in StType /\ SameLanes(Pumped(v), v) /\ FifosOk(Pumped(v))
        /\ Pacing /\ Tape(v) => Tape(Pumped(v))
    BY <2>3, PumpedOk
  <2>5. Base(Pumped(v))
    BY <2>3, <2>4, SameLanesBase
  <2>6. Sound => Tape(Pumped(v))
    BY <2>2, <2>4 DEF Good, Sound
  <2> QED  BY <2>1, <2>2, <2>4, <2>5, <2>6, SameLanesTwice DEF Good
<1> QED  BY <1>1, <1>2

LEMMA FlushIfStartedOk ==
  ASSUME NEW t, Good(t)
  PROVE  Good(FlushIfStarted(t)) /\ SameLanes(FlushIfStarted(t), t)
BY FlushOk DEF FlushIfStarted, SameLanes

-----------------------------------------------------------------------------
(* Opening, closing and seeking.                                           *)

LEMMA LaneOpenOk ==
  ASSUME NEW t, Base(t), NEW l \in Lanes, l \notin t.open, NEW u, u = LaneOpen(t, l)
  PROVE  /\ u \in StType /\ LanesHeld(u) /\ FifosOk(u) /\ OwnLanes(u)
         /\ u.ses = t.ses /\ u.clk = t.clk /\ u.open = t.open \cup {l} /\ u.jobs = t.jobs
         /\ u.timer = t.timer /\ u.held = t.held
         /\ u.kicks = t.kicks /\ u.out = t.out /\ u.run = t.run
         /\ \A k \in Lanes \ {l} : u.buf[k] = t.buf[k]
<1>1. t \in StType /\ LanesHeld(t) /\ FifosOk(t) /\ OwnLanes(t)
  BY DEF Base
<1> DEFINE d == [t.buf EXCEPT ![l] = EmptyLane]
           pb == IF t.ref = 0 THEN TRUE ELSE t.pub
<1>2. IsSt(u, t.ses, t.clk, t.open \cup {l}, t.ref + 1, pb, d, t.timer, t.held, t.jobs,
           t.kicks, t.out, t.run)
  BY <1>1 DEF LaneOpen, StType, IsSt
<1>3. EmptyLane \in LaneType
  BY EmptyLaneOk, LaneFields
<1>4. d \in [Lanes -> LaneType] /\ \A k \in Lanes : d[k] = IF k = l THEN EmptyLane ELSE t.buf[k]
  BY <1>1, <1>3, StTypes
<1>5. pb \in BOOLEAN /\ t.ref + 1 \in Nat /\ t.open \cup {l} \in SUBSET Lanes
  <2>1. t.pub \in BOOLEAN /\ t.ref \in Nat /\ t.open \in SUBSET Lanes
    BY <1>1, StTypes
  <2>2. t.ref + 1 \in Nat
    BY <2>1
  <2>3. t.open \cup {l} \in SUBSET Lanes
    BY <2>1
  <2>4. pb \in BOOLEAN
    BY <2>1
  <2> QED  BY <2>2, <2>3, <2>4
<1> HIDE DEF d, pb
<1>6. /\ u.ses = t.ses /\ u.clk = t.clk /\ u.open = t.open \cup {l} /\ u.ref = t.ref + 1
      /\ u.pub = pb /\ u.buf = d /\ u.timer = t.timer /\ u.held = t.held /\ u.jobs = t.jobs
      /\ u.kicks = t.kicks /\ u.out = t.out /\ u.run = t.run
  BY <1>2 DEF IsSt
<1>7. u \in StType
  BY <1>1, <1>4, <1>5, <1>2, StFields, StTypes
<1>8. LanesHeld(u)
  <2>1. IsFiniteSet(u.open) /\ Cardinality(u.open) = Cardinality(t.open) + 1
    <3>1. IsFiniteSet(t.open)
      BY <1>1 DEF LanesHeld
    <3>2. /\ IsFiniteSet(t.open \cup {l})
          /\ Cardinality(t.open \cup {l}) = Cardinality(t.open) + 1
      BY <3>1, FS_AddElement
    <3> QED  BY <1>6, <3>2
  <2>2. pb = TRUE
    <3>1. t.ref = 0 \/ t.open # {}
      BY <1>1, FS_EmptySet DEF LanesHeld
    <3> QED  BY <1>1, <3>1 DEF LanesHeld, pb
  <2>3. u.open # {}
    BY <1>6
  <2> QED  BY <1>1, <1>6, <2>1, <2>2, <2>3 DEF LanesHeld
<1>9. FifosOk(u)
  BY <1>1, <1>4, <1>6, EmptyLaneOk DEF FifosOk
<1>10. OwnLanes(u)
  BY <1>1, <1>6 DEF OwnLanes
<1> QED  BY <1>4, <1>6, <1>7, <1>8, <1>9, <1>10

LEMMA LaneCloseOk ==
  ASSUME NEW t, Base(t), NEW l \in t.open, NEW u, u = LaneClose(t, l)
  PROVE  /\ u \in StType /\ LanesHeld(u) /\ FifosOk(u)
         /\ u.ses = t.ses /\ u.clk = t.clk /\ u.open = t.open \ {l} /\ u.jobs = t.jobs
         /\ u.kicks = t.kicks /\ u.out = t.out /\ u.run = t.run
<1>1. t \in StType /\ LanesHeld(t) /\ FifosOk(t) /\ l \in Lanes
  BY StTypes DEF Base
<1> DEFINE d == [t.buf EXCEPT ![l] = EmptyLane]
           pb == IF t.ref = 1 THEN FALSE ELSE t.pub
           rf == IF t.ref > 0 THEN t.ref - 1 ELSE t.ref
<1>2. IsSt(u, t.ses, t.clk, t.open \ {l}, rf, pb, d, t.timer \ {l}, t.held \ {l}, t.jobs,
           t.kicks, t.out, t.run)
  BY <1>1 DEF LaneClose, StType, IsSt
<1>3. EmptyLane \in LaneType
  BY EmptyLaneOk, LaneFields
<1>4. d \in [Lanes -> LaneType] /\ \A k \in Lanes : d[k] = IF k = l THEN EmptyLane ELSE t.buf[k]
  BY <1>1, <1>3, StTypes
<1>5. /\ pb \in BOOLEAN /\ rf \in Nat /\ t.open \ {l} \in SUBSET Lanes
      /\ t.timer \ {l} \in SUBSET Lanes /\ t.held \ {l} \in SUBSET Lanes
  <2>1. /\ t.ref \in Nat /\ t.pub \in BOOLEAN /\ t.open \in SUBSET Lanes
        /\ t.timer \in SUBSET Lanes /\ t.held \in SUBSET Lanes
    BY <1>1, StTypes
  <2>2. rf \in Nat
    BY <2>1
  <2>3. pb \in BOOLEAN
    BY <2>1
  <2>4. t.open \ {l} \in SUBSET Lanes /\ t.timer \ {l} \in SUBSET Lanes /\ t.held \ {l} \in SUBSET Lanes
    BY <2>1
  <2> QED  BY <2>2, <2>3, <2>4
<1>6. IsFiniteSet(t.open \ {l}) /\ Cardinality(t.open \ {l}) = t.ref - 1
  BY <1>1, FS_RemoveElement DEF LanesHeld
<1>7. Cardinality(t.open \ {l}) \in Nat
  BY <1>6, FS_CardinalityType
<1>8. rf = t.ref - 1 /\ (t.ref = 1 <=> t.open \ {l} = {}) /\ t.pub = TRUE
  <2>1. t.ref \in Nat
    BY <1>1, StTypes
  <2>2. t.ref - 1 \in Nat
    BY <1>6, <1>7
  <2>3. t.ref - 1 = 0 <=> t.open \ {l} = {}
    BY <1>6, FS_EmptySet
  <2>4. t.pub = TRUE
    BY <1>1 DEF LanesHeld
  <2> QED  BY <2>1, <2>2, <2>3, <2>4
<1>9. pb = (t.open \ {l} # {})
  BY <1>8
<1> HIDE DEF d, pb, rf
<1>10. /\ u.ses = t.ses /\ u.clk = t.clk /\ u.open = t.open \ {l} /\ u.ref = rf
       /\ u.pub = pb /\ u.buf = d /\ u.timer = t.timer \ {l} /\ u.held = t.held \ {l}
       /\ u.jobs = t.jobs /\ u.kicks = t.kicks /\ u.out = t.out /\ u.run = t.run
  BY <1>2 DEF IsSt
<1>11. u \in StType
  BY <1>1, <1>4, <1>5, <1>2, StFields, StTypes
<1>12. LanesHeld(u)
  BY <1>1, <1>6, <1>8, <1>9, <1>10 DEF LanesHeld
<1>13. FifosOk(u)
  BY <1>1, <1>4, <1>10, EmptyLaneOk DEF FifosOk
<1> QED  BY <1>10, <1>11, <1>12, <1>13

\* A lane that is sought keeps its place in the state.
LEMMA LaneSeekOk ==
  ASSUME NEW t, t \in StType, FifosOk(t), NEW l \in Lanes, NEW ms \in Samples,
         NEW u, u = LaneSeek(t, l, ms)
  PROVE  /\ IsSt(u, t.ses, t.clk, t.open, t.ref, t.pub, u.buf, t.timer, t.held, t.jobs,
                 t.kicks, t.out, t.run)
         /\ u.buf \in [Lanes -> LaneType] /\ (\A k \in Lanes : LaneOk(u.buf[k]))
         /\ \A k \in Lanes \ {l} : u.buf[k] = t.buf[k]
         /\ SeekResult(t, l, ms) \in Samples
         /\ Sound /\ file.box = "mp4" => SyncHead(file, u.buf[l])
<1> DEFINE m == Seek(file, t.buf[l], ms).lane
           d == [t.buf EXCEPT ![l] = m]
<1>1. LaneOk(t.buf[l]) /\ t.buf \in [Lanes -> LaneType] /\ \A k \in Lanes : LaneOk(t.buf[k])
  BY StTypes DEF FifosOk
<1>2. /\ LaneOk(m) /\ SeekResult(t, l, ms) \in Samples
      /\ Sound /\ file.box = "mp4" => SyncHead(file, m)
  BY <1>1, SeekOk DEF SeekResult, Sound
<1>3. m \in LaneType
  BY <1>2, LaneFields
<1> HIDE DEF m
<1>4. IsSt(u, t.ses, t.clk, t.open, t.ref, t.pub, d, t.timer, t.held, t.jobs, t.kicks, t.out, t.run)
  BY DEF LaneSeek, StType, IsSt, m
<1>5. d \in [Lanes -> LaneType] /\ \A k \in Lanes : d[k] = IF k = l THEN m ELSE t.buf[k]
  BY <1>1, <1>3
<1> HIDE DEF d
<1>6. u.buf = d
  BY <1>4 DEF IsSt
<1> QED  BY <1>1, <1>2, <1>4, <1>5, <1>6

LEMMA NoLaneIsNone == NoLane \notin Lanes
BY PlayAssumption DEF NoLane

LEMMA NewRunIs ==
  ASSUME NEW t \in StType, NEW u, u = NewRun(t)
  PROVE  /\ IsSt(u, t.ses, t.clk, t.open, t.ref, t.pub, t.buf, t.timer, t.held, t.jobs, t.kicks,
                 [old |-> t.out.old + t.out.cur, cur |-> 0, lost |-> FALSE, again |-> FALSE], <<>>)
         /\ u \in StType
<1> DEFINE o == [old |-> t.out.old + t.out.cur, cur |-> 0, lost |-> FALSE, again |-> FALSE]
<1>1. t.out.old \in Nat /\ t.out.cur \in Nat
  BY StTypes DEF OutType
<1>2. o \in OutType
  BY <1>1 DEF OutType
<1>3. IsSt(u, t.ses, t.clk, t.open, t.ref, t.pub, t.buf, t.timer, t.held, t.jobs, t.kicks, o, <<>>)
  BY DEF NewRun, StType, IsSt
<1>4. <<>> \in Seq(Samples)
  OBVIOUS
<1> HIDE DEF o
<1>5. u \in StType
  <2> QED  BY <1>2, <1>3, <1>4 DEF IsSt, StType
<1> QED  BY <1>3, <1>5 DEF o

\* What a session has from the moment its reader is placed on a lane of its own.
Placed(u) ==
    /\ u.ses.lane # NoLane /\ u.ses.reader = u.ses.lane /\ u.run = <<>>
    /\ Sound /\ file.box = "mp4" => SyncHead(file, u.buf[u.ses.reader])

LEMMA AttachToOk ==
  ASSUME NEW t, Base(t), NEW l \in t.open, t.jobs[l].st # "opened", ~t.ses.gone,
         NEW ms \in Samples, NEW u, u = AttachTo(t, l, ms)
  PROVE  /\ Good(u) /\ Placed(u) /\ u.ses.lane = l
         /\ u.ses.boot = t.ses.boot /\ u.ses.gone = t.ses.gone /\ u.ses.st = t.ses.st
         /\ u.kicks = t.kicks /\ u.clk = t.clk
<1> DEFINE v == [t EXCEPT !.timer = @ \cup {l}]
           at == LaneSeek(v, l, ms)
           w == NewRun(at)
<1>1. /\ t \in StType /\ l \in Lanes /\ l # NoLane
      /\ LanesHeld(t) /\ FifosOk(t) /\ OwnLanes(t) /\ JobLanes(t)
  BY StTypes, NoLaneIsNone DEF Base
<1>2. /\ IsSt(v, t.ses, t.clk, t.open, t.ref, t.pub, t.buf, t.timer \cup {l}, t.held, t.jobs,
              t.kicks, t.out, t.run)
      /\ v \in StType
  <2>1. IsSt(v, t.ses, t.clk, t.open, t.ref, t.pub, t.buf, t.timer \cup {l}, t.held, t.jobs,
             t.kicks, t.out, t.run)
    BY <1>1 DEF StType, IsSt
  <2>2. t.timer \cup {l} \in SUBSET Lanes
    BY <1>1, StTypes
  <2> HIDE DEF v
  <2>3. v \in StType
    BY <1>1, <2>1, <2>2, StFields, StTypes
  <2> QED  BY <2>1, <2>3
<1> HIDE DEF v
<1>3. FifosOk(v)
  BY <1>1, <1>2 DEF FifosOk, IsSt
<1>4. /\ IsSt(at, v.ses, v.clk, v.open, v.ref, v.pub, at.buf, v.timer, v.held, v.jobs,
              v.kicks, v.out, v.run)
      /\ at.buf \in [Lanes -> LaneType] /\ (\A k \in Lanes : LaneOk(at.buf[k]))
      /\ SeekResult(v, l, ms) \in Samples
      /\ Sound /\ file.box = "mp4" => SyncHead(file, at.buf[l])
  BY <1>1, <1>2, <1>3, LaneSeekOk
<1>5. SeekResult(t, l, ms) \in Samples
  BY <1>2, <1>4 DEF SeekResult, IsSt
<1> HIDE DEF at
<1>6. at \in StType
  BY <1>2, <1>4, StFields, StTypes
<1>7. /\ IsSt(w, at.ses, at.clk, at.open, at.ref, at.pub, at.buf, at.timer, at.held, at.jobs, at.kicks,
              [old |-> at.out.old + at.out.cur, cur |-> 0, lost |-> FALSE, again |-> FALSE], <<>>)
      /\ w \in StType
  BY <1>6, NewRunIs
<1> DEFINE sk == IF ms > 0 THEN SeekResult(t, l, ms) ELSE 0
           s == [t.ses EXCEPT !.lane = l, !.reader = l, !.lastSeek = sk]
           o == [old |-> 0, cur |-> 0, lost |-> FALSE, again |-> FALSE]
<1>8. u = [w EXCEPT !.ses.lane = l, !.ses.reader = l, !.ses.lastSeek = sk, !.out.old = 0, !.out.cur = 0]
  BY DEF AttachTo, at, v
<1> HIDE DEF w, sk
<1>9. w.ses = t.ses /\ w.clk = t.clk /\ w.open = t.open /\ w.ref = t.ref /\ w.pub = t.pub
      /\ w.buf = at.buf /\ w.timer = t.timer \cup {l} /\ w.held = t.held /\ w.jobs = t.jobs
      /\ w.kicks = t.kicks /\ w.run = <<>>
      /\ w.out = [old |-> at.out.old + at.out.cur, cur |-> 0, lost |-> FALSE, again |-> FALSE]
  BY <1>2, <1>4, <1>7 DEF IsSt
<1>10. IsSt(u, s, t.clk, t.open, t.ref, t.pub, at.buf, t.timer \cup {l}, t.held, t.jobs, t.kicks,
            o, <<>>)
  <2>1. IsSt(u, [w.ses EXCEPT !.lane = l, !.reader = l, !.lastSeek = sk], w.clk, w.open, w.ref, w.pub,
             w.buf, w.timer, w.held, w.jobs, w.kicks, [w.out EXCEPT !.old = 0, !.cur = 0], w.run)
    BY <1>7, <1>8 DEF StType, SesType, OutType, IsSt
  <2> DEFINE r == [w.out EXCEPT !.old = 0, !.cur = 0]
  <2>2. r = o
    <3>1. w.out \in OutType /\ w.out.lost = FALSE /\ w.out.again = FALSE
      BY <1>7, <1>9, StTypes
    <3>2. r \in [old : {0}, cur : {0}, lost : {FALSE}, again : {FALSE}]
      BY <3>1 DEF OutType
    <3> HIDE DEF r
    <3> QED  BY <3>2
  <2> HIDE DEF o
  <2> QED  BY <1>9, <2>1, <2>2
<1>11. sk \in Samples
  BY <1>5 DEF sk, Samples
<1>12. /\ s \in SesType /\ s.lane = l /\ s.reader = l /\ s.boot = t.ses.boot
       /\ s.gone = t.ses.gone /\ s.st = t.ses.st
  <2>1. t.ses \in SesType
    BY <1>1, StTypes
  <2> QED  BY <1>1, <1>11, <2>1 DEF SesType
<1>13. o \in OutType
  BY DEF OutType
<1> HIDE DEF s
<1>14. /\ u.ses = s /\ u.clk = t.clk /\ u.open = t.open /\ u.ref = t.ref
       /\ u.pub = t.pub /\ u.buf = at.buf /\ u.timer = t.timer \cup {l} /\ u.held = t.held
       /\ u.jobs = t.jobs /\ u.kicks = t.kicks /\ u.out = o /\ u.run = <<>>
  <2> HIDE DEF o
  <2> QED  BY <1>10 DEF IsSt
<1>15. u \in StType
  <2>1. t.timer \cup {l} \in SUBSET Lanes /\ <<>> \in Seq(Samples)
    BY <1>1, StTypes
  <2> HIDE DEF o
  <2> QED  BY <1>1, <1>4, <1>10, <1>12, <1>13, <2>1 DEF IsSt, StType
<1>16. Base(u)
  <2>1. LanesHeld(u)
    BY <1>1, <1>14 DEF LanesHeld
  <2>2. FifosOk(u)
    BY <1>4, <1>14 DEF FifosOk
  <2>3. OwnLanes(u)
    BY <1>12, <1>14 DEF OwnLanes
  <2>4. JobLanes(u)
    BY <1>1, <1>12, <1>14 DEF JobLanes
  <2> QED  BY <1>15, <2>1, <2>2, <2>3, <2>4 DEF Base
<1>17. Placed(u)
  BY <1>1, <1>4, <1>12, <1>14 DEF Placed
<1>18. ASSUME Sound PROVE Tape(u)
  <2>1. TapeRun(u)
    BY <1>14, <1>17, <1>18 DEF TapeRun, Placed, Chain
  <2>2. 0 <= OutCap - OutFlush
    BY <1>18, PlayAssumption DEF Sound, Pacing
  <2>3. TapeOut(u)
    BY <1>14, <2>2 DEF TapeOut
  <2> QED  BY <2>1, <2>3 DEF Tape
<1> QED  BY <1>12, <1>14, <1>16, <1>17, <1>18 DEF Good

\* What every callback leaves alone.
Stays(u, t) ==
    /\ u.ses.boot = t.ses.boot /\ u.ses.gone = t.ses.gone /\ u.ses.st = t.ses.st
    /\ u.kicks = t.kicks

LEMMA AttachOk ==
  ASSUME NEW t, Base(t), ~t.ses.gone, NEW ms \in Samples, NEW u \in Attach(t, ms)
  PROVE  Good(u) /\ Placed(u) /\ Stays(u, t)
<1>1. CASE t.ses.lane # NoLane
  <2>1. u = AttachTo(t, t.ses.lane, ms)
    BY <1>1 DEF Attach
  <2>2. t.ses.lane \in t.open /\ t.ses.lane \in Lanes
    BY <1>1, StTypes DEF Base, OwnLanes
  <2>3. t.jobs[t.ses.lane].st # "opened"
    BY <2>2 DEF Base, JobLanes
  <2> QED  BY <2>1, <2>2, <2>3, AttachToOk DEF Stays
<1>2. CASE t.ses.lane = NoLane
  <2>1. PICK l \in Free(t) : u = AttachTo(LaneOpen(t, l), l, ms)
    BY <1>2 DEF Attach
  <2>2. l \in Lanes /\ l \notin t.open /\ t.jobs[l].st = "none"
    BY DEF Free, Unused
  <2> DEFINE v == LaneOpen(t, l)
  <2>3. /\ v \in StType /\ LanesHeld(v) /\ FifosOk(v) /\ OwnLanes(v)
        /\ v.ses = t.ses /\ v.open = t.open \cup {l} /\ v.jobs = t.jobs /\ v.kicks = t.kicks
    BY <2>2, LaneOpenOk
  <2> HIDE DEF v
  <2>4. JobLanes(v)
    BY <2>2, <2>3 DEF Base, JobLanes
  <2>5. Base(v)
    BY <2>3, <2>4 DEF Base
  <2>6. l \in v.open /\ v.jobs[l].st # "opened" /\ ~v.ses.gone
    BY <2>2, <2>3
  <2>7. u = AttachTo(v, l, ms)
    BY <2>1 DEF v
  <2>8. /\ Good(u) /\ Placed(u)
        /\ u.ses.boot = v.ses.boot /\ u.ses.gone = v.ses.gone /\ u.ses.st = v.ses.st
        /\ u.kicks = v.kicks
    BY <2>5, <2>6, <2>7, AttachToOk
  <2> QED  BY <2>3, <2>8 DEF Stays
<1> QED  BY <1>1, <1>2

\* The session changes, and what is in the lanes; whose they are does not.
LEMMA SesChanges ==
  ASSUME NEW t, Base(t), NEW s \in SesType, NEW c \in ClkType, NEW hl \in SUBSET t.open,
         NEW bf \in [Lanes -> LaneType], \A k \in Lanes : LaneOk(bf[k]),
         NEW ot \in OutType, NEW rn \in Seq(Samples), NEW u,
         IsSt(u, s, c, t.open, t.ref, t.pub, bf, t.timer, hl, t.jobs, t.kicks, ot, rn),
         s.lane = t.ses.lane, s.reader = t.ses.reader, s.gone = t.ses.gone
  PROVE  Base(u)
<1>1. /\ u.ses = s /\ u.clk = c /\ u.open = t.open /\ u.ref = t.ref /\ u.pub = t.pub
      /\ u.buf = bf /\ u.timer = t.timer /\ u.held = hl /\ u.jobs = t.jobs
      /\ u.kicks = t.kicks /\ u.out = ot /\ u.run = rn
  BY DEF IsSt
<1>2. t \in StType
  BY DEF Base
<1>3. hl \in SUBSET Lanes
  BY <1>2, StTypes
<1>4. u \in StType
  BY <1>2, <1>3, StTypes DEF IsSt, StType
<1>5. LanesHeld(u)
  BY <1>1 DEF Base, LanesHeld
<1>6. FifosOk(u)
  BY <1>1 DEF FifosOk
<1>7. OwnLanes(u)
  BY <1>1 DEF Base, OwnLanes
<1>8. JobLanes(u)
  BY <1>1 DEF Base, JobLanes
<1> QED  BY <1>4, <1>5, <1>6, <1>7, <1>8 DEF Base

LEMMA PrimeAndFinishOk ==
  ASSUME NEW t, Good(t), Placed(t), NEW ms \in Samples, NEW u, u = PrimeAndFinish(t, ms)
  PROVE  /\ Good(u) /\ u.ses.gone = t.ses.gone /\ u.kicks = t.kicks
<1> DEFINE sk == IF ms > 0 THEN ms ELSE t.ses.lastSeek
           s == [t.ses EXCEPT !.lastSeek = sk, !.catchup = TRUE, !.armed = TRUE, !.boot = FALSE]
           c == [Rebase(t.clk, ms) EXCEPT !.paused = t.clk.paused]
           v == [t EXCEPT !.ses.lastSeek = IF ms > 0 THEN ms ELSE @,
                          !.ses.catchup = TRUE, !.ses.armed = TRUE, !.ses.boot = FALSE,
                          !.clk = [Rebase(@, ms) EXCEPT !.paused = t.clk.paused]]
<1>1. Base(t) /\ t \in StType /\ t.ses \in SesType /\ t.clk \in ClkType /\ t.held \in SUBSET t.open
  BY StTypes DEF Good, Base, LanesHeld
<1>2. u = Flush(v)
  BY DEF PrimeAndFinish
<1>3. v = [t EXCEPT !.ses.lastSeek = sk, !.ses.catchup = TRUE, !.ses.armed = TRUE,
                    !.ses.boot = FALSE, !.clk = c]
  BY <1>1 DEF StType, SesType
<1> HIDE DEF v
<1>4. sk \in Samples
  BY <1>1 DEF SesType
<1>5. c \in ClkType
  <2>1. Rebase(t.clk, ms) \in ClkType
    BY <1>1, RebaseType
  <2> HIDE DEF c
  <2> QED  BY <1>1, <2>1 DEF c, ClkType
<1> HIDE DEF sk, c
<1>6. IsSt(v, s, c, t.open, t.ref, t.pub, t.buf, t.timer, t.held, t.jobs, t.kicks, t.out, t.run)
  BY <1>1, <1>3 DEF StType, SesType, IsSt
<1>7. /\ s \in SesType /\ s.lane = t.ses.lane /\ s.reader = t.ses.reader /\ s.gone = t.ses.gone
      /\ s.boot = FALSE /\ s.armed = TRUE /\ s.catchup = TRUE
  BY <1>1, <1>4 DEF SesType
<1> HIDE DEF s
<1>8. /\ Base(v) /\ v.ses = s /\ v.buf = t.buf /\ v.out = t.out /\ v.run = t.run
      /\ v.kicks = t.kicks
  <2>1. Base(v)
    <3>1. /\ t.buf \in [Lanes -> LaneType] /\ (\A k \in Lanes : LaneOk(t.buf[k]))
          /\ t.out \in OutType /\ t.run \in Seq(Samples)
      BY <1>1, StTypes DEF Base, FifosOk
    <3> QED  BY <1>1, <1>5, <1>6, <1>7, <3>1, SesChanges
  <2> QED  BY <1>6, <2>1 DEF IsSt
<1>9. ASSUME Sound PROVE Tape(v)
  <2>1. TapeOut(t) /\ t.run = <<>>
    BY <1>9 DEF Good, Tape, Placed
  <2>2. TapeRun(v)
    BY <1>7, <1>8, <1>9, <2>1 DEF TapeRun, Chain, Placed
  <2>3. TapeOut(v)
    BY <1>7, <1>8, <2>1 DEF TapeOut
  <2> QED  BY <2>2, <2>3 DEF Tape
<1>10. Good(v) /\ ~v.ses.boot
  BY <1>7, <1>8, <1>9 DEF Good
<1>11. Good(Flush(v)) /\ SameLanes(Flush(v), v)
  BY <1>10, FlushOk
<1> QED  BY <1>2, <1>7, <1>8, <1>11 DEF SameLanes

\* zms_rtmp_session_play_teardown: of the session's lanes, only its own is closed.
LEMMA TeardownOk ==
  ASSUME NEW t, Good(t), NEW u, u = Teardown(t)
  PROVE  /\ Good(u) /\ u.ses.lane = NoLane /\ u.ses.reader = NoLane /\ u.run = <<>>
         /\ u.kicks = t.kicks /\ u.ses.gone = t.ses.gone
<1> DEFINE v == IF t.ses.lane = NoLane THEN t ELSE LaneClose(t, t.ses.lane)
           w == NewRun(v)
           s == [t.ses EXCEPT !.boot = FALSE, !.lane = NoLane, !.reader = NoLane]
           o == [old |-> 0, cur |-> 0, lost |-> FALSE, again |-> FALSE]
<1>1. Base(t) /\ t \in StType /\ t.ses \in SesType
  BY StTypes DEF Good, Base
<1>2. /\ v \in StType /\ LanesHeld(v) /\ FifosOk(v)
      /\ v.ses = t.ses /\ v.open = t.open \ {t.ses.lane} /\ v.jobs = t.jobs
      /\ v.kicks = t.kicks
  <2>1. CASE t.ses.lane = NoLane
    <3>1. t.open \ {t.ses.lane} = t.open
      BY <1>1, <2>1, NoLaneIsNone, StTypes
    <3> QED  BY <1>1, <2>1, <3>1 DEF Base
  <2>2. CASE t.ses.lane # NoLane
    <3>1. t.ses.lane \in t.open
      BY <1>1, <2>2 DEF Base, OwnLanes
    <3> QED  BY <1>1, <2>2, <3>1, LaneCloseOk
  <2> QED  BY <2>1, <2>2
<1> HIDE DEF v
<1>3. /\ IsSt(w, v.ses, v.clk, v.open, v.ref, v.pub, v.buf, v.timer, v.held, v.jobs, v.kicks,
              [old |-> v.out.old + v.out.cur, cur |-> 0, lost |-> FALSE, again |-> FALSE], <<>>)
      /\ w \in StType
  BY <1>2, NewRunIs
<1>4. u = [w EXCEPT !.ses.boot = FALSE, !.ses.lane = NoLane, !.ses.reader = NoLane,
                    !.out.old = 0, !.out.cur = 0]
  BY DEF Teardown, v
<1> HIDE DEF w
<1>5. /\ w.ses = t.ses /\ w.clk = v.clk /\ w.open = v.open /\ w.ref = v.ref /\ w.pub = v.pub
      /\ w.buf = v.buf /\ w.timer = v.timer /\ w.held = v.held /\ w.jobs = v.jobs
      /\ w.kicks = v.kicks /\ w.run = <<>>
      /\ w.out.lost = FALSE /\ w.out.again = FALSE
  BY <1>2, <1>3 DEF IsSt
<1> DEFINE r == [w.out EXCEPT !.old = 0, !.cur = 0]
<1>6. IsSt(u, s, v.clk, v.open, v.ref, v.pub, v.buf, v.timer, v.held, v.jobs, v.kicks, r, <<>>)
  <2>1. IsSt(u, [w.ses EXCEPT !.boot = FALSE, !.lane = NoLane, !.reader = NoLane], w.clk, w.open, w.ref,
             w.pub, w.buf, w.timer, w.held, w.jobs, w.kicks, r, w.run)
    BY <1>3, <1>4 DEF StType, SesType, OutType, IsSt
  <2> HIDE DEF r
  <2> QED  BY <1>5, <2>1
<1>7. /\ r \in OutType /\ r.old = 0 /\ r.cur = 0 /\ r.lost = FALSE /\ r.again = FALSE
  <2>1. w.out \in OutType
    BY <1>3, StTypes
  <2> QED  BY <1>5, <2>1 DEF OutType
<1>8. s \in SesType /\ s.lane = NoLane /\ s.reader = NoLane /\ s.gone = t.ses.gone
  BY <1>1 DEF SesType
<1> HIDE DEF r, s
<1>9. /\ u.ses = s /\ u.clk = v.clk /\ u.open = v.open /\ u.ref = v.ref /\ u.pub = v.pub
      /\ u.buf = v.buf /\ u.timer = v.timer /\ u.held = v.held /\ u.jobs = t.jobs
      /\ u.kicks = t.kicks /\ u.out = r /\ u.run = <<>>
  BY <1>2, <1>6 DEF IsSt
<1>10. u \in StType
  <2>1. <<>> \in Seq(Samples)
    OBVIOUS
  <2> QED  BY <1>2, <1>6, <1>7, <1>8, <2>1, StTypes DEF IsSt, StType
<1>11. Base(u)
  <2>1. LanesHeld(u)
    BY <1>2, <1>9 DEF LanesHeld
  <2>2. FifosOk(u)
    BY <1>2, <1>9 DEF FifosOk
  <2>3. OwnLanes(u)
    BY <1>8, <1>9 DEF OwnLanes
  <2>4. JobLanes(u)
    <3>1. JobLanes(t) /\ u.open = t.open \ {t.ses.lane} /\ \A l \in Lanes : l # NoLane
      BY <1>1, <1>2, <1>9, NoLaneIsNone DEF Base
    <3> QED  BY <1>8, <1>9, <3>1 DEF JobLanes
  <2> QED  BY <1>10, <2>1, <2>2, <2>3, <2>4 DEF Base
<1>12. ASSUME Sound PROVE Tape(u)
  <2>1. TapeRun(u)
    BY <1>8, <1>9 DEF TapeRun, Chain
  <2>2. 0 <= OutCap - OutFlush
    BY <1>12, PlayAssumption DEF Sound, Pacing
  <2>3. TapeOut(u)
    BY <1>7, <1>9, <2>2 DEF TapeOut
  <2> QED  BY <2>1, <2>3 DEF Tape
<1> QED  BY <1>8, <1>9, <1>11, <1>12 DEF Good

\* The clock and the holds alone.
LEMMA ClockChanges ==
  ASSUME NEW t, Good(t), NEW c \in ClkType, NEW hl \in SUBSET t.open, NEW u,
         IsSt(u, t.ses, c, t.open, t.ref, t.pub, t.buf, t.timer, hl, t.jobs, t.kicks, t.out, t.run)
  PROVE  Good(u) /\ Stays(u, t) /\ u.ses = t.ses
<1>1. Base(t) /\ t \in StType
  BY DEF Good, Base
<1>2. /\ u.ses = t.ses /\ u.buf = t.buf /\ u.kicks = t.kicks /\ u.out = t.out /\ u.run = t.run
  BY DEF IsSt
<1>3. Base(u)
  <2>1. \A k \in Lanes : LaneOk(t.buf[k])
    BY <1>1 DEF Base, FifosOk
  <2> QED  BY <1>1, <2>1, StTypes, SesChanges
<1>4. ASSUME Sound PROVE Tape(u)
  <2>1. TapeRun(t) /\ TapeOut(t)
    BY <1>4 DEF Good, Tape
  <2>2. TapeRun(u)
    BY <1>2, <2>1 DEF TapeRun
  <2>3. TapeOut(u)
    BY <1>2, <2>1 DEF TapeOut
  <2> QED  BY <2>2, <2>3 DEF Tape
<1> QED  BY <1>2, <1>3, <1>4 DEF Good, Stays

LEMMA ClkTypes ==
  ASSUME NEW c \in ClkType
  PROVE  Resumed(c) \in ClkType /\ Paused(c) \in ClkType
BY DEF Resumed, Paused, ClkType

LEMMA CatchUpOk ==
  ASSUME NEW t, Good(t), NEW u, u = CatchUp(t)
  PROVE  Good(u) /\ Stays(u, t) /\ u.ses.lane = t.ses.lane
<1>1. Base(t) /\ t \in StType /\ t.ses \in SesType /\ t.out \in OutType
  BY StTypes DEF Good, Base
<1> DEFINE s == [t.ses EXCEPT !.catchup = TRUE]
           b == t.out.again \/ t.run # <<>>
           o == [t.out EXCEPT !.again = b]
<1>2. IsSt(u, s, t.clk, t.open, t.ref, t.pub, t.buf, t.timer, t.held, t.jobs, t.kicks, o, t.run)
  <2>1. u = [t EXCEPT !.ses.catchup = TRUE, !.out.again = b]
    BY DEF CatchUp
  <2> HIDE DEF b
  <2> QED  BY <1>1, <2>1 DEF StType, IsSt
<1>3. /\ s \in SesType /\ s.lane = t.ses.lane /\ s.reader = t.ses.reader /\ s.gone = t.ses.gone
      /\ s.boot = t.ses.boot /\ s.st = t.ses.st /\ s.armed = t.ses.armed /\ s.catchup = TRUE
  BY <1>1 DEF SesType
<1>4. o \in OutType /\ o.old = t.out.old /\ o.cur = t.out.cur /\ o.lost = t.out.lost /\ o.again = b
  <2>1. b \in BOOLEAN
    OBVIOUS
  <2> HIDE DEF b
  <2> QED  BY <1>1, <2>1 DEF OutType
<1> HIDE DEF s, o
<1>5. /\ u.ses = s /\ u.buf = t.buf /\ u.kicks = t.kicks /\ u.out = o /\ u.run = t.run
  BY <1>2 DEF IsSt
<1>6. Base(u)
  <2>1. /\ t.buf \in [Lanes -> LaneType] /\ (\A k \in Lanes : LaneOk(t.buf[k]))
        /\ t.run \in Seq(Samples) /\ t.clk \in ClkType /\ t.held \in SUBSET t.open
    BY <1>1, StTypes DEF Base, FifosOk, LanesHeld
  <2> QED  BY <1>1, <1>2, <1>3, <1>4, <2>1, SesChanges
<1>7. ASSUME Sound PROVE Tape(u)
  <2>1. TapeRun(t) /\ TapeOut(t)
    BY <1>7 DEF Good, Tape
  <2>2. TapeRun(u)
    BY <1>3, <1>5, <2>1 DEF TapeRun
  <2>3. TapeOut(u)
    BY <1>3, <1>4, <1>5, <2>1 DEF TapeOut
  <2> QED  BY <2>2, <2>3 DEF Tape
<1> QED  BY <1>3, <1>5, <1>6, <1>7 DEF Good, Stays

LEMMA SeekOnOk ==
  ASSUME NEW t, Good(t), t.ses.lane # NoLane, NEW ms \in Samples, NEW r, r = SeekOn(t, ms)
  PROVE  Good(r) /\ Stays(r, t)
<1> DEFINE ln == t.ses.lane
           u == [t EXCEPT !.held = @ \ {t.ses.lane}, !.clk = Resumed(@)]
           x == LaneSeek(u, ln, ms)
           moved == NewRun(x)
           head == ReaderHead(moved)
           at == IF head = Hole THEN SeekResult(u, ln, ms) ELSE head
<1>1. /\ Base(t) /\ t \in StType /\ t.ses \in SesType /\ ln \in t.open /\ ln \in Lanes
      /\ t.held \in SUBSET t.open
  BY StTypes DEF Good, Base, OwnLanes, LanesHeld
<1>2. IsSt(u, t.ses, Resumed(t.clk), t.open, t.ref, t.pub, t.buf, t.timer, t.held \ {ln}, t.jobs,
           t.kicks, t.out, t.run)
  BY <1>1 DEF StType, IsSt
<1>3. Good(u) /\ Stays(u, t) /\ u.ses = t.ses
  <2>1. Resumed(t.clk) \in ClkType /\ t.held \ {ln} \in SUBSET t.open
    BY <1>1, StTypes, ClkTypes
  <2> HIDE DEF u
  <2> QED  BY <1>2, <2>1, ClockChanges
<1>4. r = IF ms = t.ses.lastSeek /\ ReaderLag(t) > CatchupLag THEN CatchUp(u)
          ELSE [moved EXCEPT !.clk = Rebase(@, at), !.ses.armed = FALSE,
                             !.ses.catchup = TRUE, !.ses.lastSeek = ms]
  BY DEF SeekOn
<1>5. CASE ms = t.ses.lastSeek /\ ReaderLag(t) > CatchupLag
  <2> HIDE DEF u
  <2>1. r = CatchUp(u)
    BY <1>4, <1>5
  <2> QED  BY <1>3, <2>1, CatchUpOk DEF Stays
<1>6. CASE ~(ms = t.ses.lastSeek /\ ReaderLag(t) > CatchupLag)
  <2>1. r = [moved EXCEPT !.clk = Rebase(@, at), !.ses.armed = FALSE,
                          !.ses.catchup = TRUE, !.ses.lastSeek = ms]
    BY <1>4, <1>6
  <2> HIDE DEF u
  <2>2. Base(u) /\ u \in StType /\ FifosOk(u)
    BY <1>3 DEF Good, Base
  <2>3. /\ IsSt(x, u.ses, u.clk, u.open, u.ref, u.pub, x.buf, u.timer, u.held, u.jobs,
                u.kicks, u.out, u.run)
        /\ x.buf \in [Lanes -> LaneType] /\ (\A k \in Lanes : LaneOk(x.buf[k]))
        /\ SeekResult(u, ln, ms) \in Samples
    BY <1>1, <2>2, LaneSeekOk
  <2> HIDE DEF x
  <2>4. x \in StType
    BY <2>2, <2>3, StTypes DEF IsSt, StType
  <2>5. /\ IsSt(moved, x.ses, x.clk, x.open, x.ref, x.pub, x.buf, x.timer, x.held, x.jobs, x.kicks,
                [old |-> x.out.old + x.out.cur, cur |-> 0, lost |-> FALSE, again |-> FALSE], <<>>)
        /\ moved \in StType
    BY <2>4, NewRunIs
  <2>6. x.out = t.out /\ x.ses = t.ses
    BY <1>2, <2>3 DEF IsSt
  <2> HIDE DEF moved
  <2>7. /\ moved.ses = t.ses /\ moved.open = t.open /\ moved.ref = t.ref /\ moved.pub = t.pub
        /\ moved.buf = x.buf /\ moved.timer = t.timer /\ moved.held = t.held \ {ln}
        /\ moved.jobs = t.jobs /\ moved.kicks = t.kicks /\ moved.run = <<>>
        /\ moved.out = [old |-> x.out.old + x.out.cur, cur |-> 0, lost |-> FALSE, again |-> FALSE]
    BY <1>2, <2>3, <2>5 DEF IsSt
  <2>8. at \in Samples
    <3>1. CASE head = Hole
      BY <2>3, <3>1
    <3>2. CASE head # Hole
      <4>1. t.ses.reader # NoLane /\ head = Peek(x.buf[t.ses.reader])
        BY <2>7, <3>2 DEF ReaderHead
      <4>2. t.ses.reader \in Lanes
        BY <1>1, <4>1 DEF SesType
      <4>3. LaneOk(x.buf[t.ses.reader])
        BY <2>3, <4>2
      <4>4. Peek(x.buf[t.ses.reader]) \in Samples
        BY <3>2, <4>1, <4>3, PeekOk
      <4> QED  BY <3>2, <4>1, <4>4
    <3> QED  BY <3>1, <3>2
  <2> HIDE DEF head, at
  <2> DEFINE c == Rebase(moved.clk, at)
             s == [t.ses EXCEPT !.armed = FALSE, !.catchup = TRUE, !.lastSeek = ms]
  <2>9. c \in ClkType
    BY <2>5, <2>8, StTypes, RebaseType
  <2> HIDE DEF c
  <2>10. IsSt(r, s, c, t.open, t.ref, t.pub, x.buf, t.timer, t.held \ {ln}, t.jobs, t.kicks,
              moved.out, <<>>)
    <3>1. IsSt(r, [moved.ses EXCEPT !.armed = FALSE, !.catchup = TRUE, !.lastSeek = ms], c,
               moved.open, moved.ref, moved.pub, moved.buf, moved.timer, moved.held, moved.jobs,
               moved.kicks, moved.out, moved.run)
      BY <2>1, <2>5 DEF StType, SesType, IsSt, c
    <3> QED  BY <2>7, <3>1
  <2>11. /\ s \in SesType /\ s.lane = t.ses.lane /\ s.reader = t.ses.reader /\ s.gone = t.ses.gone
         /\ s.boot = t.ses.boot /\ s.st = t.ses.st /\ s.armed = FALSE /\ s.catchup = TRUE
    BY <1>1 DEF SesType
  <2> HIDE DEF s
  <2>12. Base(r)
    <3>1. <<>> \in Seq(Samples) /\ t.held \ {ln} \in SUBSET t.open /\ moved.out \in OutType
      BY <1>1, <2>5, StTypes
    <3> QED  BY <1>1, <2>3, <2>9, <2>10, <2>11, <3>1, SesChanges
  <2>13. r.ses = s /\ r.run = <<>> /\ r.out = moved.out /\ r.kicks = t.kicks
    BY <2>10 DEF IsSt
  <2>14. ASSUME Sound PROVE Tape(r)
    <3>1. TapeRun(r)
      BY <2>11, <2>13 DEF TapeRun, Chain
    <3>2. TapeOut(r)
      <4>1. /\ r.out.old = t.out.old + t.out.cur /\ r.out.cur = 0
            /\ r.out.lost = FALSE
        BY <2>6, <2>7, <2>13
      <4>2. t.out.old \in Nat /\ t.out.cur \in Nat
        BY <1>1, StTypes DEF OutType
      <4>3. t.out.old + t.out.cur <= OutCap - OutFlush
        BY <2>14 DEF Good, Tape, TapeOut
      <4>4. r.out.old + r.out.cur <= OutCap - OutFlush
        BY <4>1, <4>2, <4>3
      <4> QED  BY <2>13, <4>1, <4>4 DEF TapeOut
    <3> QED  BY <3>1, <3>2 DEF Tape
  <2> QED  BY <2>11, <2>12, <2>13, <2>14 DEF Good, Stays
<1> QED  BY <1>5, <1>6

LEMMA DoSeekOk ==
  ASSUME NEW t, Good(t), ~t.ses.gone, NEW ms \in Samples, NEW u \in DoSeek(t, ms)
  PROVE  Good(u) /\ Stays(u, t)
<1>1. CASE t.ses.lane # NoLane
  BY <1>1, SeekOnOk DEF DoSeek
<1>2. CASE t.ses.lane = NoLane
  <2>1. \/ \E v \in Attach(t, ms) : u = SeekOn(v, ms)
        \/ u = t
    BY <1>2 DEF DoSeek
  <2>2. CASE u = t
    BY <2>2 DEF Stays
  <2>3. CASE \E v \in Attach(t, ms) : u = SeekOn(v, ms)
    <3>1. PICK v \in Attach(t, ms) : u = SeekOn(v, ms)
      BY <2>3
    <3>2. Good(v) /\ v.ses.lane # NoLane /\ Stays(v, t)
      BY AttachOk DEF Good, Placed
    <3>3. Good(u) /\ Stays(u, v)
      BY <3>1, <3>2, SeekOnOk
    <3> QED  BY <3>2, <3>3 DEF Stays
  <2> QED  BY <2>1, <2>2, <2>3
<1> QED  BY <1>1, <1>2

LEMMA PlayFailOk ==
  ASSUME NEW t, Good(t), NEW u, u = PlayFail(t)
  PROVE  Good(u) /\ u.kicks = t.kicks
<1> DEFINE v == Teardown(t)
           s == [v.ses EXCEPT !.st = "idle"]
<1>1. Good(v) /\ v.kicks = t.kicks
  BY TeardownOk
<1>2. u = [v EXCEPT !.ses.st = "idle"]
  BY DEF PlayFail
<1> HIDE DEF v
<1>3. /\ Base(v) /\ v \in StType /\ v.ses \in SesType /\ (\A k \in Lanes : LaneOk(v.buf[k]))
      /\ v.held \in SUBSET v.open
  BY <1>1, StTypes DEF Good, Base, FifosOk, LanesHeld
<1>4. IsSt(u, s, v.clk, v.open, v.ref, v.pub, v.buf, v.timer, v.held, v.jobs, v.kicks, v.out, v.run)
  BY <1>2, <1>3 DEF StType, IsSt
<1>5. /\ s \in SesType /\ s.lane = v.ses.lane /\ s.reader = v.ses.reader /\ s.gone = v.ses.gone
      /\ s.boot = v.ses.boot /\ s.armed = v.ses.armed /\ s.catchup = v.ses.catchup
  BY <1>3 DEF SesType
<1> HIDE DEF s
<1>6. Base(u)
  BY <1>3, <1>4, <1>5, StTypes, SesChanges
<1>7. u.ses = s /\ u.buf = v.buf /\ u.kicks = v.kicks /\ u.out = v.out /\ u.run = v.run
  BY <1>4 DEF IsSt
<1>8. ASSUME Sound PROVE Tape(u)
  <2>1. TapeRun(v) /\ TapeOut(v)
    BY <1>1, <1>8 DEF Good, Tape
  <2>2. TapeRun(u)
    BY <1>5, <1>7, <2>1 DEF TapeRun
  <2>3. TapeOut(u)
    BY <1>5, <1>7, <2>1 DEF TapeOut
  <2> QED  BY <2>2, <2>3 DEF Tape
<1> QED  BY <1>1, <1>6, <1>7, <1>8 DEF Good

\* The session's own fields, as long as what arms the pump stays or a boot disarms it.
LEMMA SesGood ==
  ASSUME NEW t, Good(t), NEW s \in SesType, NEW c \in ClkType, NEW u,
         IsSt(u, s, c, t.open, t.ref, t.pub, t.buf, t.timer, t.held, t.jobs, t.kicks, t.out, t.run),
         s.lane = t.ses.lane, s.reader = t.ses.reader, s.gone = t.ses.gone,
         s.catchup = t.ses.catchup,
         \/ s.armed = t.ses.armed /\ s.boot = t.ses.boot
         \/ s.armed = FALSE /\ s.boot = TRUE
  PROVE  Good(u)
<1>1. /\ Base(t) /\ t \in StType /\ (\A k \in Lanes : LaneOk(t.buf[k]))
      /\ t.held \in SUBSET t.open
  BY DEF Good, Base, FifosOk, LanesHeld
<1>2. Base(u)
  BY <1>1, StTypes, SesChanges
<1>3. u.ses = s /\ u.buf = t.buf /\ u.out = t.out /\ u.run = t.run
  BY DEF IsSt
<1>4. ASSUME Sound PROVE Tape(u)
  <2>1. TapeRun(t) /\ TapeOut(t)
    BY <1>4 DEF Good, Tape
  <2>2. TapeRun(u)
    BY <1>3, <2>1 DEF TapeRun
  <2>3. TapeOut(u)
    BY <1>3, <2>1 DEF TapeOut
  <2> QED  BY <2>2, <2>3 DEF Tape
<1> QED  BY <1>2, <1>4 DEF Good

LEMMA KicksGood ==
  ASSUME NEW t, Good(t), NEW k \in Nat, NEW u, u = [t EXCEPT !.kicks = k]
  PROVE  /\ Good(u) /\ u.ses = t.ses /\ u.clk = t.clk /\ u.open = t.open /\ u.jobs = t.jobs
         /\ u.kicks = k
<1>1. Base(t) /\ t \in StType
  BY DEF Good, Base
<1>2. IsSt(u, t.ses, t.clk, t.open, t.ref, t.pub, t.buf, t.timer, t.held, t.jobs, k, t.out, t.run)
  BY <1>1 DEF StType, IsSt
<1>3. /\ u.ses = t.ses /\ u.clk = t.clk /\ u.open = t.open /\ u.ref = t.ref /\ u.pub = t.pub
      /\ u.buf = t.buf /\ u.timer = t.timer /\ u.held = t.held /\ u.jobs = t.jobs
      /\ u.kicks = k /\ u.out = t.out /\ u.run = t.run
  BY <1>2 DEF IsSt
<1>4. u \in StType
  BY <1>1, <1>2, StTypes DEF IsSt, StType
<1>5. Base(u)
  BY <1>1, <1>3, <1>4 DEF Base, LanesHeld, FifosOk, OwnLanes, JobLanes
<1>6. ASSUME Sound PROVE Tape(u)
  <2>1. TapeRun(t) /\ TapeOut(t)
    BY <1>6 DEF Good, Tape
  <2>2. TapeRun(u)
    BY <1>3, <2>1 DEF TapeRun
  <2>3. TapeOut(u)
    BY <1>3, <2>1 DEF TapeOut
  <2> QED  BY <2>2, <2>3 DEF Tape
<1> QED  BY <1>3, <1>5, <1>6 DEF Good

LEMMA JobGood ==
  ASSUME NEW t, Good(t), NEW l \in Lanes, NEW j \in JobType,
         j.st \in {"queued", "failed"} => l \notin t.open,
         j.st = "opened" => l \in t.open /\ l # t.ses.lane /\ l # t.ses.reader,
         NEW u, u = [t EXCEPT !.jobs[l] = j]
  PROVE  /\ Good(u) /\ u.ses = t.ses /\ u.open = t.open /\ u.kicks = t.kicks /\ u.clk = t.clk
         /\ u.jobs[l] = j
<1>1. Base(t) /\ t \in StType
  BY DEF Good, Base
<1> DEFINE d == [t.jobs EXCEPT ![l] = j]
<1>2. IsSt(u, t.ses, t.clk, t.open, t.ref, t.pub, t.buf, t.timer, t.held, d, t.kicks, t.out, t.run)
  BY <1>1 DEF StType, IsSt
<1>3. d \in [Lanes -> JobType] /\ \A k \in Lanes : d[k] = IF k = l THEN j ELSE t.jobs[k]
  BY <1>1, StTypes
<1> HIDE DEF d
<1>4. /\ u.ses = t.ses /\ u.clk = t.clk /\ u.open = t.open /\ u.ref = t.ref /\ u.pub = t.pub
      /\ u.buf = t.buf /\ u.timer = t.timer /\ u.held = t.held /\ u.jobs = d
      /\ u.kicks = t.kicks /\ u.out = t.out /\ u.run = t.run
  BY <1>2 DEF IsSt
<1>5. u \in StType
  BY <1>1, <1>2, <1>3, StTypes DEF IsSt, StType
<1>6. Base(u)
  <2>1. LanesHeld(u) /\ FifosOk(u) /\ OwnLanes(u)
    BY <1>1, <1>4 DEF Base, LanesHeld, FifosOk, OwnLanes
  <2>2. JobLanes(u)
    BY <1>1, <1>3, <1>4 DEF Base, JobLanes
  <2> QED  BY <1>5, <2>1, <2>2 DEF Base
<1>7. ASSUME Sound PROVE Tape(u)
  <2>1. TapeRun(t) /\ TapeOut(t)
    BY <1>7 DEF Good, Tape
  <2>2. TapeRun(u)
    BY <1>4, <2>1 DEF TapeRun
  <2>3. TapeOut(u)
    BY <1>4, <2>1 DEF TapeOut
  <2> QED  BY <2>2, <2>3 DEF Tape
<1> QED  BY <1>3, <1>4, <1>6, <1>7 DEF Good

-----------------------------------------------------------------------------
(* The steps.                                                              *)

IInv == Good(St)

\* The state a callback leaves.
LEMMA Lands ==
  ASSUME NEW t, Good(t), Becomes(t)
  PROVE  IInv'
<1>1. t \in StType
  BY DEF Good, Base
<1>2. /\ ses' = t.ses /\ clk' = t.clk /\ open' = t.open /\ ref' = t.ref /\ pubHeld' = t.pub
      /\ buf' = t.buf /\ timer' = t.timer /\ held' = t.held /\ jobs' = t.jobs
      /\ kicks' = t.kicks /\ out' = t.out /\ run' = t.run /\ file' = file
  BY DEF Becomes
<1>3. St' = t
  <2>1. t = [ses |-> t.ses, clk |-> t.clk, open |-> t.open, ref |-> t.ref, pub |-> t.pub,
             buf |-> t.buf, timer |-> t.timer, held |-> t.held, jobs |-> t.jobs,
             kicks |-> t.kicks, out |-> t.out, run |-> t.run]
    BY <1>1 DEF StType
  <2> QED  BY <1>2, <2>1 DEF St
<1>4. Base(St')
  BY <1>3 DEF Good
<1>5. ASSUME Sound' PROVE Tape(St)'
  <2>1. Sound
    BY <1>2, <1>5 DEF Sound
  <2>2. TapeRun(t) /\ TapeOut(t)
    BY <2>1 DEF Good, Tape
  <2>3. TapeRun(St)'
    BY <1>2, <1>3, <2>2 DEF TapeRun
  <2>4. TapeOut(St)'
    BY <1>3, <2>2 DEF TapeOut
  <2> QED  BY <2>3, <2>4 DEF Tape
<1> QED  BY <1>4, <1>5 DEF IInv, Good

LEMMA StIs ==
  /\ St.ses = ses /\ St.clk = clk /\ St.open = open /\ St.ref = ref /\ St.pub = pubHeld
  /\ St.buf = buf /\ St.timer = timer /\ St.held = held /\ St.jobs = jobs
  /\ St.kicks = kicks /\ St.out = out /\ St.run = run
BY DEF St

\* Types of the session as the commands find it.
LEMMA Found ==
  ASSUME IInv
  PROVE  /\ Good(St) /\ Base(St) /\ St \in StType /\ ses \in SesType /\ clk \in ClkType
         /\ open \in SUBSET Lanes /\ held \in SUBSET open /\ buf \in [Lanes -> LaneType]
         /\ jobs \in [Lanes -> JobType] /\ kicks \in Nat /\ 0 \in Samples
<1>1. Good(St) /\ Base(St) /\ St \in StType
  BY DEF IInv, Good, Base
<1>2. held \in SUBSET open
  BY <1>1, StIs DEF Base, LanesHeld
<1>3. 0 \in Samples
  BY DEF Samples
<1> QED  BY <1>1, <1>2, <1>3, StIs, StTypes

LEMMA ReplayInv ==
  ASSUME IInv, NEW ms \in Targets, Replay(ms)
  PROVE  IInv'
<1>1. Good(St) /\ St.ses.lane # NoLane /\ ~St.ses.boot /\ ms \in Samples
  BY Found, StIs, PlayAssumption DEF Replay
<1> DEFINE u == SeekOn(St, ms)
<1>2. Becomes(Flush(Flush(u)))
  BY DEF Replay
<1>3. Good(u) /\ ~u.ses.boot
  BY <1>1, SeekOnOk DEF Stays
<1> HIDE DEF u
<1>4. Good(Flush(u)) /\ ~Flush(u).ses.boot
  BY <1>3, FlushOk DEF SameLanes
<1>5. Good(Flush(Flush(u)))
  BY <1>4, FlushOk
<1> QED  BY <1>2, <1>5, Lands

LEMMA OnPlayInv ==
  ASSUME IInv, NEW ms \in Targets, OnPlay(ms)
  PROVE  IInv'
<1> DEFINE v == [St EXCEPT !.kicks = kicks + 1]
           s == [ses EXCEPT !.st = "playing", !.boot = TRUE, !.armed = FALSE,
                            !.pausePos = Hole, !.start = ms]
           u == [ses |-> s, clk |-> ClockInit, open |-> open, ref |-> ref, pub |-> pubHeld,
                 buf |-> buf, timer |-> timer, held |-> held, jobs |-> jobs,
                 kicks |-> kicks + 1, out |-> out, run |-> run]
<1>1. kicks + 1 \in Nat /\ ms \in Samples /\ St \in StType /\ ses \in SesType
  BY Found, PlayAssumption
<1>2. Good(v)
  BY <1>1, Found, KicksGood
<1>3. IsSt(v, ses, clk, open, ref, pubHeld, buf, timer, held, jobs, kicks + 1, out, run)
  BY DEF St, IsSt
<1>4. v.ses = ses /\ v.open = open /\ v.ref = ref /\ v.pub = pubHeld /\ v.buf = buf
      /\ v.timer = timer /\ v.held = held /\ v.jobs = jobs /\ v.kicks = kicks + 1
      /\ v.out = out /\ v.run = run
  BY <1>3 DEF IsSt
<1>5. /\ s \in SesType /\ s.lane = ses.lane /\ s.reader = ses.reader /\ s.gone = ses.gone
      /\ s.catchup = ses.catchup /\ s.armed = FALSE /\ s.boot = TRUE
  BY <1>1 DEF SesType
<1>6. ClockInit \in ClkType
  BY Found DEF ClockInit, ClkType
<1>7. Becomes(u)
  BY DEF OnPlay, Becomes
<1>8. IsSt(u, s, ClockInit, open, ref, pubHeld, buf, timer, held, jobs, kicks + 1, out, run)
  <2> HIDE DEF s
  <2> QED  BY DEF IsSt
<1> HIDE DEF u, v, s
<1>9. Good(u)
  BY <1>2, <1>4, <1>5, <1>6, <1>8, SesGood
<1> QED  BY <1>7, <1>9, Lands

LEMMA KickInv ==
  ASSUME IInv, Kick
  PROVE  IInv'
<1> DEFINE v == [St EXCEPT !.kicks = kicks - 1]
           t == [St EXCEPT !.kicks = @ - 1, !.ses.start = 0]
<1>1. /\ kicks - 1 \in Nat /\ St \in StType /\ ses \in SesType /\ ses.start \in Samples
      /\ jobs \in [Lanes -> JobType]
  <2>1. kicks > 0 /\ kicks \in Nat
    BY Found DEF Kick
  <2>2. ses.start \in Samples
    BY Found DEF SesType
  <2> QED  BY <2>1, <2>2, Found
<1>2. /\ Good(v) /\ v.ses = ses /\ v.clk = clk /\ v.open = open /\ v.jobs = jobs
      /\ v.kicks = kicks - 1
  BY <1>1, Found, StIs, KicksGood
<1>3. v = [St EXCEPT !.kicks = @ - 1]
  BY DEF St
<1> DEFINE s == [ses EXCEPT !.start = 0]
<1>4. IsSt(t, s, v.clk, v.open, v.ref, v.pub, v.buf, v.timer, v.held, v.jobs, v.kicks, v.out, v.run)
  BY <1>1 DEF St, SesType, IsSt
<1>5. /\ s \in SesType /\ s.lane = ses.lane /\ s.reader = ses.reader /\ s.gone = ses.gone
      /\ s.catchup = ses.catchup /\ s.armed = ses.armed /\ s.boot = ses.boot
  BY <1>1, Found DEF SesType
<1>6. v.clk \in ClkType
  BY <1>2, Found
<1> HIDE DEF v, s
<1>7. /\ Good(t) /\ t.ses = s /\ t.open = open /\ t.jobs = jobs
  <2>1. t.ses = s /\ t.open = open /\ t.jobs = jobs
    BY <1>2, <1>4 DEF IsSt
  <2> HIDE DEF t
  <2>2. Good(t)
    BY <1>2, <1>4, <1>5, <1>6, SesGood
  <2> QED  BY <2>1, <2>2
<1>8. CASE (ses.gone \/ ~ses.boot) /\ Becomes([St EXCEPT !.kicks = @ - 1])
  BY <1>2, <1>3, <1>8, Lands
<1>9. CASE /\ ses.lane = NoLane
           /\ \E l \in Free(St) :
                Becomes([t EXCEPT !.jobs[l] = [st |-> "queued", start |-> ses.start]])
  <2> HIDE DEF t
  <2>1. PICK l \in Free(St) :
           Becomes([t EXCEPT !.jobs[l] = [st |-> "queued", start |-> ses.start]])
    BY <1>9
  <2>2. l \in Lanes /\ l \notin t.open
    BY <1>7, StIs DEF Free, Unused
  <2> DEFINE j == [st |-> "queued", start |-> ses.start]
             u == [t EXCEPT !.jobs[l] = j]
  <2>3. j \in JobType /\ j.st = "queued"
    BY <1>1 DEF JobType
  <2> HIDE DEF j
  <2>4. Good(u)
    BY <1>7, <2>2, <2>3, JobGood
  <2> QED  BY <2>1, <2>4, Lands DEF j
<1>10. CASE ~ses.gone /\ \E u \in Attach(t, ses.start) : Becomes(PrimeAndFinish(u, ses.start))
  <2> HIDE DEF t
  <2>1. PICK u \in Attach(t, ses.start) : Becomes(PrimeAndFinish(u, ses.start))
    BY <1>10
  <2>2. Base(t) /\ ~t.ses.gone
    BY <1>5, <1>7, <1>10 DEF Good
  <2>3. Good(u) /\ Placed(u)
    BY <1>1, <2>2, AttachOk
  <2>4. Good(PrimeAndFinish(u, ses.start))
    BY <1>1, <2>3, PrimeAndFinishOk
  <2> QED  BY <2>1, <2>4, Lands
<1>11. CASE Becomes(PlayFail(t))
  <2> HIDE DEF t
  <2>1. Good(PlayFail(t))
    BY <1>7, PlayFailOk
  <2> QED  BY <1>11, <2>1, Lands
<1> QED  BY <1>8, <1>9, <1>10, <1>11 DEF Kick

LEMMA OnSeekInv ==
  ASSUME IInv, NEW ms \in Targets, OnSeek(ms)
  PROVE  IInv'
<1> DEFINE t == [St EXCEPT !.clk = Resumed(@)]
<1>1. ms \in Samples /\ ~ses.gone
  BY PlayAssumption DEF OnSeek, May
<1>2. IsSt(t, St.ses, Resumed(St.clk), St.open, St.ref, St.pub, St.buf, St.timer, St.held, St.jobs,
           St.kicks, St.out, St.run)
  BY DEF St, IsSt
<1>3. Resumed(St.clk) \in ClkType /\ St.held \in SUBSET St.open
  BY Found, StIs, ClkTypes
<1>4. PICK u \in DoSeek(t, ms) : Becomes(FlushIfStarted(u))
  BY DEF OnSeek
<1> HIDE DEF t
<1>5. Good(t) /\ t.ses = ses
  BY <1>2, <1>3, Found, StIs, ClockChanges
<1>6. Good(u)
  BY <1>1, <1>5, DoSeekOk
<1>7. Good(FlushIfStarted(u))
  BY <1>6, FlushIfStartedOk
<1> QED  BY <1>4, <1>7, Lands

LEMMA PausePosGood ==
  ASSUME NEW t, Good(t), NEW x \in Samples \cup {Hole}, NEW u, u = [t EXCEPT !.ses.pausePos = x]
  PROVE  Good(u) /\ u.ses.gone = t.ses.gone
<1>1. t \in StType /\ t.ses \in SesType /\ t.clk \in ClkType
  BY StTypes DEF Good, Base
<1> DEFINE s == [t.ses EXCEPT !.pausePos = x]
<1>2. IsSt(u, s, t.clk, t.open, t.ref, t.pub, t.buf, t.timer, t.held, t.jobs, t.kicks, t.out, t.run)
  BY <1>1 DEF StType, IsSt
<1>3. /\ s \in SesType /\ s.lane = t.ses.lane /\ s.reader = t.ses.reader /\ s.gone = t.ses.gone
      /\ s.catchup = t.ses.catchup /\ s.armed = t.ses.armed /\ s.boot = t.ses.boot
  BY <1>1 DEF SesType
<1> HIDE DEF s
<1>4. Good(u)
  BY <1>1, <1>2, <1>3, SesGood
<1> QED  BY <1>2, <1>3, <1>4 DEF IsSt

LEMMA OnPauseInv ==
  ASSUME IInv, NEW ms \in Targets, OnPause(ms)
  PROVE  IInv'
<1> DEFINE head == ReaderHead(St)
           saved == IF head = Hole THEN St ELSE [St EXCEPT !.ses.pausePos = head]
           Hold(u) == [u EXCEPT !.clk = Paused(@),
                                !.held = IF u.ses.lane = NoLane THEN @ ELSE @ \cup {u.ses.lane}]
<1>1. ms \in Samples /\ ~St.ses.gone /\ Good(St)
  BY PlayAssumption, Found, StIs DEF OnPause, May
<1>2. PICK u \in (IF ms > 0 THEN DoSeek(St, ms) ELSE {saved}) : Becomes(FlushIfStarted(Hold(u)))
  BY DEF OnPause
<1>3. head \in Samples \cup {Hole}
  <2>1. CASE ses.reader = NoLane
    BY <2>1, StIs DEF ReaderHead
  <2>2. CASE ses.reader # NoLane
    <3>1. ses.reader \in Lanes
      BY <2>2, Found DEF SesType
    <3>2. LaneOk(buf[ses.reader])
      BY <3>1, Found, StIs DEF Base, FifosOk
    <3>3. head = Peek(buf[ses.reader])
      BY <2>2, StIs DEF ReaderHead
    <3> QED  BY <3>2, <3>3, PeekOk
  <2> QED  BY <2>1, <2>2
<1> HIDE DEF head
<1>4. Good(saved)
  BY <1>1, <1>3, PausePosGood
<1> HIDE DEF saved
<1>5. Good(u)
  BY <1>1, <1>2, <1>4, DoSeekOk
<1>6. Good(Hold(u))
  <2> DEFINE hl == IF u.ses.lane = NoLane THEN u.held ELSE u.held \cup {u.ses.lane}
             v == Hold(u)
  <2>1. u \in StType /\ Base(u) /\ u.clk \in ClkType
    BY <1>5, StTypes DEF Good, Base
  <2>2. hl \in SUBSET u.open
    BY <2>1 DEF Base, LanesHeld, OwnLanes
  <2>3. IsSt(v, u.ses, Paused(u.clk), u.open, u.ref, u.pub, u.buf, u.timer, hl, u.jobs, u.kicks,
             u.out, u.run)
    BY <2>1 DEF StType, IsSt
  <2> HIDE DEF hl, v
  <2>4. Good(v)
    BY <1>5, <2>1, <2>2, <2>3, ClkTypes, ClockChanges
  <2> QED  BY <2>4 DEF v
<1> DEFINE w == Hold(u)
<1>7. Becomes(FlushIfStarted(w)) /\ Good(w)
  BY <1>2, <1>6
<1> HIDE DEF w
<1>8. Good(FlushIfStarted(w))
  BY <1>7, FlushIfStartedOk
<1> QED  BY <1>7, <1>8, Lands

LEMMA OnResumeInv ==
  ASSUME IInv, NEW ms \in Targets, OnResume(ms)
  PROVE  IInv'
<1> DEFINE Forget(u) == [u EXCEPT !.ses.pausePos = Hole]
           back == IF ms > 0 THEN DoSeek(St, ms)
                   ELSE IF ses.pausePos = Hole THEN {St}
                   ELSE {Forget(u) : u \in DoSeek(St, ses.pausePos)}
           On(u) == [u EXCEPT !.held = @ \ {u.ses.lane}, !.clk = Resumed(@)]
<1>1. /\ ms \in Samples /\ ~St.ses.gone /\ Good(St)
      /\ ses.pausePos # Hole => ses.pausePos \in Samples
  BY PlayAssumption, Found, StIs DEF OnResume, May, SesType
<1>2. PICK u \in back : Becomes(FlushIfStarted(CatchUp(On(u))))
  BY DEF OnResume
<1>3. Good(u)
  <2>1. CASE u \in DoSeek(St, ms) \/ u = St
    BY <1>1, <2>1, DoSeekOk
  <2>2. CASE ses.pausePos # Hole /\ \E r \in DoSeek(St, ses.pausePos) : u = Forget(r)
    <3>1. PICK r \in DoSeek(St, ses.pausePos) : u = Forget(r)
      BY <2>2
    <3>2. Good(r)
      BY <1>1, <2>2, DoSeekOk
    <3> QED  BY <3>1, <3>2, PausePosGood
  <2> HIDE DEF Forget
  <2> QED  BY <1>2, <2>1, <2>2
<1> HIDE DEF back
<1>4. Good(On(u))
  <2> DEFINE hl == u.held \ {u.ses.lane}
             v == On(u)
  <2>1. u \in StType /\ Base(u) /\ u.clk \in ClkType
    BY <1>3, StTypes DEF Good, Base
  <2>2. hl \in SUBSET u.open
    BY <2>1 DEF Base, LanesHeld
  <2>3. IsSt(v, u.ses, Resumed(u.clk), u.open, u.ref, u.pub, u.buf, u.timer, hl, u.jobs, u.kicks,
             u.out, u.run)
    BY <2>1 DEF StType, IsSt
  <2> HIDE DEF hl, v
  <2>4. Good(v)
    BY <1>3, <2>1, <2>2, <2>3, ClkTypes, ClockChanges
  <2> QED  BY <2>4 DEF v
<1> DEFINE w == On(u)
<1>5. Becomes(FlushIfStarted(CatchUp(w))) /\ Good(w)
  BY <1>2, <1>4
<1> HIDE DEF w
<1>6. Good(CatchUp(w))
  BY <1>5, CatchUpOk
<1>7. Good(FlushIfStarted(CatchUp(w)))
  BY <1>6, FlushIfStartedOk
<1> QED  BY <1>5, <1>7, Lands

\* A job's lane opens beside the session's own.
LEMMA OpenBlockingInv ==
  ASSUME IInv, NEW l \in Lanes, OpenBlocking(l)
  PROVE  IInv'
<1>1. /\ jobs[l].st = "queued" /\ jobs[l] \in JobType /\ jobs[l].start \in Samples
      /\ St \in StType /\ Base(St) /\ Good(St)
  BY Found DEF OpenBlocking, JobType
<1>2. l \notin open
  BY <1>1, StIs DEF Base, JobLanes
<1> DEFINE v == LaneOpen(St, l)
           w == LaneSeek(v, l, jobs[l].start)
           d == [w.jobs EXCEPT ![l].st = "opened"]
           u == [w EXCEPT !.jobs[l].st = "opened"]
<1>3. CASE Becomes(u)
  <2>1. /\ v \in StType /\ LanesHeld(v) /\ FifosOk(v) /\ OwnLanes(v)
        /\ v.ses = ses /\ v.open = open \cup {l} /\ v.jobs = jobs /\ v.out = out /\ v.run = run
        /\ \A k \in Lanes \ {l} : v.buf[k] = buf[k]
    BY <1>1, <1>2, StIs, LaneOpenOk
  <2> HIDE DEF v
  <2> DEFINE ms == jobs[l].start
  <2>12. w = LaneSeek(v, l, ms) /\ ms \in Samples
    BY <1>1
  <2> HIDE DEF w, ms
  <2>2. /\ IsSt(w, v.ses, v.clk, v.open, v.ref, v.pub, w.buf, v.timer, v.held, v.jobs,
                v.kicks, v.out, v.run)
        /\ w.buf \in [Lanes -> LaneType] /\ (\A k \in Lanes : LaneOk(w.buf[k]))
        /\ \A k \in Lanes \ {l} : w.buf[k] = v.buf[k]
    <3>1. v \in StType /\ FifosOk(v)
      BY <2>1
    <3> QED  BY <2>12, <3>1, LaneSeekOk
  <2>3. /\ w.ses = v.ses /\ w.clk = v.clk /\ w.open = v.open /\ w.ref = v.ref /\ w.pub = v.pub
        /\ w.timer = v.timer /\ w.held = v.held /\ w.jobs = v.jobs /\ w.kicks = v.kicks
        /\ w.out = v.out /\ w.run = v.run
    BY <2>2 DEF IsSt
  <2>4. w \in StType
    BY <2>1, <2>2, StTypes DEF IsSt, StType
  <2>5. IsSt(u, w.ses, w.clk, w.open, w.ref, w.pub, w.buf, w.timer, w.held, d, w.kicks, w.out, w.run)
    BY <2>4 DEF StType, IsSt
  <2>6. /\ d \in [Lanes -> JobType] /\ d[l].st = "opened"
        /\ \A k \in Lanes \ {l} : d[k] = jobs[k]
    <3>1. w.jobs = jobs /\ jobs \in [Lanes -> JobType]
      BY <2>1, <2>3, Found
    <3>2. [jobs[l] EXCEPT !.st = "opened"] \in JobType
      BY <1>1 DEF JobType
    <3>3. d = [jobs EXCEPT ![l] = [jobs[l] EXCEPT !.st = "opened"]]
      BY <3>1
    <3>4. [jobs[l] EXCEPT !.st = "opened"].st = "opened"
      BY <1>1 DEF JobType
    <3> QED  BY <3>1, <3>2, <3>3, <3>4
  <2> HIDE DEF d, u
  <2>7. /\ u.ses = ses /\ u.clk = v.clk /\ u.open = open \cup {l} /\ u.ref = v.ref /\ u.pub = v.pub
        /\ u.buf = w.buf /\ u.timer = v.timer /\ u.held = v.held /\ u.jobs = d
        /\ u.kicks = v.kicks /\ u.out = out /\ u.run = run
    BY <2>1, <2>3, <2>5 DEF IsSt
  <2>8. u \in StType
    BY <2>4, <2>5, <2>6, StTypes DEF IsSt, StType
  <2>9. l # ses.lane /\ l # ses.reader
    BY <1>1, <1>2, StIs, NoLaneIsNone DEF Base, OwnLanes
  <2>10. Base(u)
    <3>1. LanesHeld(u)
      BY <2>1, <2>7 DEF LanesHeld
    <3>2. FifosOk(u)
      BY <2>2, <2>7 DEF FifosOk
    <3>3. OwnLanes(u)
      BY <2>1, <2>7 DEF OwnLanes
    <3>4. JobLanes(u)
      <4>1. JobLanes(St)
        BY <1>1 DEF Base
      <4> QED  BY <2>6, <2>7, <2>9, <4>1, StIs DEF JobLanes
    <3> QED  BY <2>8, <3>1, <3>2, <3>3, <3>4 DEF Base
  <2>11. ASSUME Sound PROVE Tape(u)
    <3>1. TapeRun(St) /\ TapeOut(St)
      BY <1>1, <2>11 DEF Good, Tape
    <3>2. ses.reader # NoLane => u.buf[ses.reader] = buf[ses.reader]
      <4>1. ses.reader # NoLane => ses.reader \in Lanes \ {l}
        BY <2>9, Found DEF SesType
      <4> QED  BY <2>1, <2>2, <2>7, <4>1
    <3>3. TapeRun(u)
      BY <2>7, <3>1, <3>2, StIs DEF TapeRun
    <3>4. TapeOut(u)
      BY <2>7, <3>1, StIs DEF TapeOut
    <3> QED  BY <3>3, <3>4 DEF Tape
  <2>13. Good(u)
    BY <2>10, <2>11 DEF Good
  <2> QED  BY <1>3, <2>13, Lands DEF u
<1>4. CASE Becomes([St EXCEPT !.jobs[l].st = "failed"])
  <2> DEFINE j == [jobs[l] EXCEPT !.st = "failed"]
             t == [St EXCEPT !.jobs[l] = j]
  <2>1. j \in JobType /\ j.st = "failed"
    BY <1>1 DEF JobType
  <2>2. t = [St EXCEPT !.jobs[l].st = "failed"]
    BY DEF St
  <2> HIDE DEF j
  <2>4. t = [St EXCEPT !.jobs[l] = j]
    OBVIOUS
  <2> HIDE DEF t
  <2>5. /\ j.st \in {"queued", "failed"} => l \notin St.open
        /\ j.st = "opened" => l \in St.open /\ l # St.ses.lane /\ l # St.ses.reader
    BY <1>2, <2>1, StIs
  <2>3. Good(t)
    BY <1>1, <2>1, <2>4, <2>5, JobGood
  <2> QED  BY <1>4, <2>2, <2>3, Lands
<1> QED  BY <1>3, <1>4 DEF OpenBlocking

\* An open job that is done with.
LEMMA JobDone ==
  ASSUME IInv, NEW l \in Lanes, NEW t, t = [St EXCEPT !.jobs[l] = NoJob]
  PROVE  /\ Good(t) /\ Base(t) /\ t \in StType
         /\ t.ses = ses /\ t.open = open /\ t.jobs[l].st = "none" /\ t.clk = clk
         /\ t.jobs = [jobs EXCEPT ![l] = NoJob]
         /\ jobs[l].st = "opened" => l \in open /\ l # ses.lane /\ l # ses.reader
<1>1. St \in StType /\ Base(St) /\ Good(St)
  BY Found
<1>2. NoJob \in JobType /\ NoJob.st = "none"
  BY Found DEF NoJob, JobType
<1>3. t.jobs = [jobs EXCEPT ![l] = NoJob]
  BY <1>1, StIs DEF StType
<1>4. /\ Good(t) /\ t.ses = ses /\ t.open = open /\ t.jobs[l].st = "none" /\ t.clk = clk
  <2>2. /\ NoJob.st \in {"queued", "failed"} => l \notin St.open
        /\ NoJob.st = "opened" => l \in St.open /\ l # St.ses.lane /\ l # St.ses.reader
    BY <1>2
  <2> DEFINE j == NoJob
  <2>4. Good(St) /\ j \in JobType /\ t = [St EXCEPT !.jobs[l] = j]
    BY <1>1, <1>2
  <2>5. /\ j.st \in {"queued", "failed"} => l \notin St.open
        /\ j.st = "opened" => l \in St.open /\ l # St.ses.lane /\ l # St.ses.reader
    BY <2>2
  <2> HIDE DEF j
  <2>6. Good(t)
    BY <2>4, <2>5, JobGood
  <2>7. t.ses = St.ses /\ t.open = St.open /\ t.clk = St.clk
    BY <1>1, <2>4 DEF StType
  <2>8. t.jobs[l] = j
    <3>1. t.jobs = [St.jobs EXCEPT ![l] = j]
      BY <1>1, <2>4 DEF StType
    <3>2. St.jobs \in [Lanes -> JobType]
      BY <1>1, StTypes
    <3> QED  BY <3>1, <3>2
  <2>3. t.jobs[l] = NoJob
    BY <2>8 DEF j
  <2> QED  BY <1>2, <2>3, <2>6, <2>7, StIs
<1>5. Base(t) /\ t \in StType
  BY <1>4 DEF Good, Base
<1>6. jobs[l].st = "opened" => l \in open /\ l # ses.lane /\ l # ses.reader
  BY <1>1, StIs DEF Base, JobLanes
<1> QED  BY <1>3, <1>4, <1>5, <1>6

\* The completion of an open job, on a session that waits for it or that has found
\* another lane meanwhile.
LEMMA OnIoInv ==
  ASSUME IInv, NEW l \in Lanes, OnIo(l)
  PROVE  IInv'
<1> DEFINE t == [St EXCEPT !.jobs[l] = NoJob]
           got == [t EXCEPT !.ses.lane = l]
<1>1. /\ St \in StType /\ Base(St) /\ Good(St) /\ ses \in SesType /\ ~ses.gone
      /\ jobs[l] \in JobType /\ jobs[l].start \in Samples
  BY Found DEF JobType, OnIo
<1>3. /\ Good(t) /\ t.ses = ses /\ t.open = open /\ t.jobs[l].st = "none" /\ t.clk = clk
      /\ Base(t) /\ t \in StType
      /\ jobs[l].st = "opened" => l \in open /\ l # ses.lane /\ l # ses.reader
  BY JobDone
<1>4. Base(t) /\ t \in StType
  BY <1>3
<1>5. jobs[l].st = "opened" => l \in open /\ l # ses.lane /\ l # ses.reader
  BY <1>3
<1>6. \/ jobs[l].st = "failed" /\ Becomes(IF ses.boot THEN PlayFail(t) ELSE t)
      \/ /\ jobs[l].st = "opened" /\ ~ses.gone
         /\ \/ ~ses.boot /\ Becomes(got)
            \/ Becomes(PrimeAndFinish(AttachTo(got, l, jobs[l].start), jobs[l].start))
  BY <1>1 DEF OnIo
<1>8. CASE jobs[l].st = "failed" /\ Becomes(IF ses.boot THEN PlayFail(t) ELSE t)
  <2> HIDE DEF t
  <2>1. Good(PlayFail(t))
    BY <1>3, PlayFailOk
  <2>2. CASE ses.boot
    BY <1>8, <2>1, <2>2, Lands
  <2>3. CASE ~ses.boot
    BY <1>3, <1>8, <2>3, Lands
  <2> QED  BY <2>2, <2>3
<1>9. CASE /\ jobs[l].st = "opened" /\ ~ses.gone
           /\ \/ ~ses.boot /\ Becomes(got)
              \/ Becomes(PrimeAndFinish(AttachTo(got, l, jobs[l].start), jobs[l].start))
  <2> DEFINE s == [ses EXCEPT !.lane = l]
  <2>1. IsSt(got, s, t.clk, t.open, t.ref, t.pub, t.buf, t.timer, t.held, t.jobs, t.kicks, t.out, t.run)
    <3> HIDE DEF t
    <3> QED  BY <1>3, <1>4 DEF StType, SesType, IsSt
  <2>2. /\ s \in SesType /\ s.lane = l /\ s.reader = ses.reader /\ s.gone = ses.gone
        /\ s.boot = ses.boot /\ s.armed = ses.armed /\ s.catchup = ses.catchup
    BY <1>1 DEF SesType
  <2> HIDE DEF t, got, s
  <2>3. /\ got.ses = s /\ got.clk = t.clk /\ got.open = t.open /\ got.ref = t.ref
        /\ got.pub = t.pub /\ got.buf = t.buf /\ got.timer = t.timer /\ got.held = t.held
        /\ got.jobs = t.jobs /\ got.kicks = t.kicks /\ got.out = t.out /\ got.run = t.run
    BY <2>1 DEF IsSt
  <2>4. got \in StType
    BY <1>4, <2>1, <2>2, StTypes DEF IsSt, StType
  <2>5. Base(got)
    <3>1. LanesHeld(got) /\ FifosOk(got)
      BY <1>4, <2>3 DEF Base, LanesHeld, FifosOk
    <3>2. OwnLanes(got)
      BY <1>3, <1>4, <1>5, <1>9, <2>2, <2>3 DEF Base, OwnLanes
    <3>3. JobLanes(got)
      <4>1. JobLanes(t)
        BY <1>4 DEF Base
      <4>2. ASSUME NEW k \in Lanes, t.jobs[k].st = "opened" PROVE k # l
        BY <1>3, <4>2
      <4> QED  BY <1>3, <2>2, <2>3, <4>1, <4>2 DEF JobLanes
    <3> QED  BY <2>4, <3>1, <3>2, <3>3 DEF Base
  <2>6. CASE ~ses.boot /\ Becomes(got)
    <3>1. ASSUME Sound PROVE Tape(got)
      <4>1. TapeRun(t) /\ TapeOut(t)
        BY <1>3, <3>1 DEF Good, Tape
      <4>2. TapeRun(got)
        BY <1>3, <2>2, <2>3, <4>1 DEF TapeRun
      <4>3. TapeOut(got)
        BY <1>3, <2>2, <2>3, <4>1 DEF TapeOut
      <4> QED  BY <4>2, <4>3 DEF Tape
    <3>2. Good(got)
      BY <2>5, <3>1 DEF Good
    <3> QED  BY <2>6, <3>2, Lands
  <2>7. CASE Becomes(PrimeAndFinish(AttachTo(got, l, jobs[l].start), jobs[l].start))
    <3> DEFINE a == AttachTo(got, l, jobs[l].start)
    <3>1. l \in got.open /\ got.jobs[l].st # "opened" /\ ~got.ses.gone
      BY <1>3, <1>5, <1>9, <2>2, <2>3
    <3>2. Good(a) /\ Placed(a)
      BY <1>1, <2>5, <3>1, AttachToOk
    <3>3. Becomes(PrimeAndFinish(a, jobs[l].start))
      BY <2>7
    <3> HIDE DEF a
    <3>4. Good(PrimeAndFinish(a, jobs[l].start))
      BY <1>1, <3>2, PrimeAndFinishOk
    <3> QED  BY <3>3, <3>4, Lands
  <2> QED  BY <1>9, <2>6, <2>7
<1> QED  BY <1>6, <1>8, <1>9

\* A lane of a session that is gone is closed.
LEMMA GoneCloses ==
  ASSUME NEW t, Good(t), t.ses.gone, NEW l \in t.open, t.jobs[l].st # "opened"
  PROVE  /\ Good(LaneClose(t, l)) /\ LaneClose(t, l).open = t.open \ {l}
         /\ LaneClose(t, l).jobs = t.jobs /\ LaneClose(t, l).ses = t.ses
<1> DEFINE u == LaneClose(t, l)
<1>0. Base(t)
  BY DEF Good
<1>1. /\ u \in StType /\ LanesHeld(u) /\ FifosOk(u)
      /\ u.ses = t.ses /\ u.open = t.open \ {l} /\ u.jobs = t.jobs
      /\ u.out = t.out /\ u.run = t.run
  BY <1>0, LaneCloseOk
<1> HIDE DEF u
<1>2. t.ses.lane = NoLane /\ t.ses.reader = NoLane
  BY <1>0 DEF Base, OwnLanes
<1>3. OwnLanes(u)
  BY <1>1, <1>2 DEF OwnLanes
<1>4. JobLanes(u)
  BY <1>0, <1>1 DEF Base, JobLanes
<1>5. Base(u)
  BY <1>1, <1>3, <1>4 DEF Base
<1>6. ASSUME Sound PROVE Tape(u)
  <2>1. TapeRun(t) /\ TapeOut(t)
    BY <1>6 DEF Good, Tape
  <2>2. TapeRun(u)
    BY <1>1, <1>2, <2>1 DEF TapeRun
  <2>3. TapeOut(u)
    BY <1>1, <2>1 DEF TapeOut
  <2> QED  BY <2>2, <2>3 DEF Tape
<1> QED  BY <1>1, <1>5, <1>6 DEF Good, u

\* The completion for a session that is gone: the lane is closed, or it stays open
\* and is another session's.
LEMMA OnIoGoneInv ==
  ASSUME IInv, NEW l \in Lanes, OnIoGone(l)
  PROVE  IInv'
<1> DEFINE t == [St EXCEPT !.jobs[l] = NoJob]
<1>1. /\ Good(t) /\ t.ses = ses /\ t.open = open /\ t.jobs[l].st = "none"
      /\ jobs[l].st = "opened" => l \in open
  BY JobDone
<1>2. ses.gone /\ (Becomes(t) \/ (jobs[l].st = "opened" /\ Becomes(LaneClose(t, l))))
  BY DEF OnIoGone
<1> HIDE DEF t
<1>3. CASE Becomes(t)
  BY <1>1, <1>3, Lands
<1>4. CASE jobs[l].st = "opened" /\ Becomes(LaneClose(t, l))
  BY <1>1, <1>2, <1>4, GoneCloses, Lands
<1> QED  BY <1>2, <1>3, <1>4

\* Lanes another session has are open and no job's; there are none while this one lives.
Apart == /\ astray # {} => ses.gone
         /\ \A l \in astray : l \in open /\ jobs[l].st = "none"

LEMMA StrangerClosesInv ==
  ASSUME IInv, Apart, NEW l \in Lanes, StrangerCloses(l)
  PROVE  IInv'
<1>1. Good(St) /\ St.ses.gone /\ l \in St.open /\ St.jobs[l].st # "opened"
  BY Found, StIs DEF Apart, StrangerCloses
<1>2. Good(LaneClose(St, l)) /\ Becomes(LaneClose(St, l))
  BY <1>1, GoneCloses DEF StrangerCloses
<1> QED  BY <1>2, Lands

LEMMA ManagerInv ==
  ASSUME IInv, Manager
  PROVE  IInv'
<1>1. Good(St) /\ ~St.ses.boot /\ Becomes(Flush(St))
  BY Found, StIs DEF Manager, Started
<1>2. Good(Flush(St))
  BY <1>1, FlushOk
<1> QED  BY <1>1, <1>2, Lands

LEMMA LaneTickInv ==
  ASSUME IInv, NEW l \in Lanes, LaneTick(l)
  PROVE  IInv'
<1> DEFINE m == Pump(buf[l])
           u == [St EXCEPT !.buf[l] = m]
<1>1. LaneOk(buf[l]) /\ Good(St)
  BY Found, StIs DEF Base, FifosOk
<1>2. m \in PumpedFrom(St.buf[l])
  BY <1>1, StIs, PumpOk DEF LaneOk
<1>3. Becomes(u)
  BY StIs DEF LaneTick
<1> HIDE DEF m
<1>4. Good(u)
  BY <1>1, <1>2, LanePumped
<1> QED  BY <1>3, <1>4, Lands

LEMMA WallInv ==
  ASSUME IInv, Wall
  PROVE  IInv'
<1> DEFINE c == [clk EXCEPT !.elapsed = @ + 1]
           u == [ses |-> ses, clk |-> c, open |-> open, ref |-> ref, pub |-> pubHeld,
                 buf |-> buf, timer |-> timer, held |-> held, jobs |-> jobs,
                 kicks |-> kicks, out |-> out, run |-> run]
<1>1. Good(St) /\ clk \in ClkType /\ held \in SUBSET open
  BY Found
<1>2. c \in ClkType
  BY <1>1 DEF ClkType
<1>3. Becomes(u)
  BY DEF Wall, Becomes
<1> HIDE DEF c
<1>4. IsSt(u, ses, c, open, ref, pubHeld, buf, timer, held, jobs, kicks, out, run)
  BY DEF IsSt
<1> HIDE DEF u
<1>5. Good(u)
  BY <1>1, <1>2, <1>4, StIs, ClockChanges
<1> QED  BY <1>3, <1>5, Lands

LEMMA DisconnectInv ==
  ASSUME IInv, Disconnect
  PROVE  IInv'
<1> DEFINE v == Teardown(St)
           u == [v EXCEPT !.ses.gone = TRUE, !.ses.st = "idle"]
           s == [v.ses EXCEPT !.gone = TRUE, !.st = "idle"]
<1>1. Good(v) /\ v.ses.lane = NoLane /\ v.ses.reader = NoLane /\ v.run = <<>>
  BY Found, TeardownOk
<1>2. Becomes(u)
  BY DEF Disconnect
<1> HIDE DEF v
<1>3. /\ Base(v) /\ v \in StType /\ v.ses \in SesType
  BY <1>1, StTypes DEF Good, Base
<1>4. IsSt(u, s, v.clk, v.open, v.ref, v.pub, v.buf, v.timer, v.held, v.jobs, v.kicks, v.out, v.run)
  BY <1>3 DEF StType, SesType, IsSt
<1>5. /\ s \in SesType /\ s.lane = NoLane /\ s.reader = NoLane /\ s.gone
      /\ s.catchup = v.ses.catchup
  BY <1>1, <1>3 DEF SesType
<1> HIDE DEF s, u
<1>6. /\ u.ses = s /\ u.clk = v.clk /\ u.open = v.open /\ u.ref = v.ref /\ u.pub = v.pub
      /\ u.buf = v.buf /\ u.timer = v.timer /\ u.held = v.held /\ u.jobs = v.jobs
      /\ u.kicks = v.kicks /\ u.out = v.out /\ u.run = v.run
  BY <1>4 DEF IsSt
<1>7. u \in StType
  BY <1>3, <1>4, <1>5, StTypes DEF IsSt, StType
<1>8. Base(u)
  <2>1. LanesHeld(u) /\ FifosOk(u)
    BY <1>3, <1>6 DEF Base, LanesHeld, FifosOk
  <2>2. OwnLanes(u)
    BY <1>5, <1>6 DEF OwnLanes
  <2>3. JobLanes(u)
    BY <1>1, <1>3, <1>5, <1>6 DEF Base, JobLanes
  <2> QED  BY <1>7, <2>1, <2>2, <2>3 DEF Base
<1>9. ASSUME Sound PROVE Tape(u)
  <2>1. TapeOut(v)
    BY <1>1, <1>9 DEF Good, Tape
  <2>2. TapeRun(u)
    BY <1>1, <1>5, <1>6 DEF TapeRun, Chain
  <2>3. TapeOut(u)
    BY <1>5, <1>6, <2>1 DEF TapeOut
  <2> QED  BY <2>2, <2>3 DEF Tape
<1>10. Good(u)
  BY <1>8, <1>9 DEF Good
<1> QED  BY <1>2, <1>10, Lands

LEMMA InitInv ==
  ASSUME Init
  PROVE  IInv
<1>1. /\ ses = Idle /\ clk = ClockInit /\ open = {} /\ ref = 0 /\ pubHeld = FALSE
      /\ buf = [l \in Lanes |-> EmptyLane] /\ timer = {} /\ held = {} /\ kicks = 0
      /\ jobs = [l \in Lanes |-> NoJob] /\ run = <<>>
      /\ out = [old |-> 0, cur |-> 0, lost |-> FALSE, again |-> FALSE]
  BY DEF Init
<1>2. 0 \in Samples
  BY DEF Samples
<1>3. ses \in SesType /\ clk \in ClkType /\ out \in OutType /\ NoJob \in JobType
  BY <1>1, <1>2 DEF Idle, ClockInit, NoJob, SesType, ClkType, OutType, JobType
<1>4. LaneOk(EmptyLane) /\ EmptyLane \in LaneType
  BY EmptyLaneOk, LaneFields
<1>5. St \in StType
  <2>1. /\ open \in SUBSET Lanes /\ ref \in Nat /\ pubHeld \in BOOLEAN
        /\ timer \in SUBSET Lanes /\ held \in SUBSET Lanes /\ kicks \in Nat
    BY <1>1
  <2>2. buf \in [Lanes -> LaneType] /\ jobs \in [Lanes -> JobType]
    BY <1>1, <1>3, <1>4
  <2>3. run \in Seq(Samples)
    BY <1>1
  <2> QED  BY <1>3, <2>1, <2>2, <2>3 DEF St, StType
<1>6. Base(St)
  <2>1. LanesHeld(St)
    BY <1>1, StIs, FS_EmptySet DEF LanesHeld
  <2>2. FifosOk(St)
    BY <1>1, <1>4, StIs DEF FifosOk
  <2>3. OwnLanes(St)
    BY <1>1, StIs DEF OwnLanes, Idle
  <2>4. JobLanes(St)
    BY <1>1, StIs DEF JobLanes, NoJob
  <2> QED  BY <1>5, <2>1, <2>2, <2>3, <2>4 DEF Base
<1>7. ASSUME Sound PROVE Tape(St)
  <2>1. TapeRun(St)
    BY <1>1, StIs DEF TapeRun, Chain, Idle
  <2>2. 0 <= OutCap - OutFlush
    BY <1>7, PlayAssumption DEF Sound, Pacing
  <2>3. TapeOut(St)
    BY <1>1, <2>2, StIs DEF TapeOut, Idle
  <2> QED  BY <2>1, <2>3 DEF Tape
<1> QED  BY <1>6, <1>7 DEF IInv, Good

LEMMA NextInv ==
  ASSUME IInv, Apart, [Next]_vars
  PROVE  IInv'
<1>1. ASSUME NEW ms \in Targets, OnPlay(ms) PROVE IInv'
  BY <1>1, OnPlayInv
<1>2. ASSUME NEW ms \in Targets, Replay(ms) PROVE IInv'
  BY <1>2, ReplayInv
<1>3. ASSUME NEW ms \in Targets, OnSeek(ms) PROVE IInv'
  BY <1>3, OnSeekInv
<1>4. ASSUME NEW ms \in Targets, OnPause(ms) PROVE IInv'
  BY <1>4, OnPauseInv
<1>5. ASSUME NEW ms \in Targets, OnResume(ms) PROVE IInv'
  BY <1>5, OnResumeInv
<1>6. CASE Kick
  BY <1>6, KickInv
<1>7. CASE Manager
  BY <1>7, ManagerInv
<1>8. CASE Wall
  BY <1>8, WallInv
<1>9. CASE Disconnect
  BY <1>9, DisconnectInv
<1>10. ASSUME NEW l \in Lanes, OpenBlocking(l) PROVE IInv'
  BY <1>10, OpenBlockingInv
<1>11. ASSUME NEW l \in Lanes, OnIo(l) PROVE IInv'
  BY <1>11, OnIoInv
<1>12. ASSUME NEW l \in Lanes, LaneTick(l) PROVE IInv'
  BY <1>12, LaneTickInv
<1>14. ASSUME NEW l \in Lanes, OnIoGone(l) PROVE IInv'
  BY <1>14, OnIoGoneInv
<1>15. ASSUME NEW l \in Lanes, StrangerCloses(l) PROVE IInv'
  BY <1>15, StrangerClosesInv
<1>13. CASE UNCHANGED vars
  <2>1. Becomes(St)
    BY <1>13, StIs DEF vars, Becomes
  <2>2. Good(St)
    BY DEF IInv
  <2> QED  BY <2>1, <2>2, Lands
<1> QED  BY <1>1, <1>2, <1>3, <1>4, <1>5, <1>6, <1>7, <1>8, <1>9, <1>10, <1>11, <1>12, <1>13,
            <1>14, <1>15 DEF Next

\* Only jobs of a session that is gone lead lanes astray, and only who has them there
\* closes them.
LEMMA NextApart ==
  ASSUME IInv, Apart, [Next]_vars
  PROVE  Apart'
<1>0. /\ open \in SUBSET Lanes /\ jobs \in [Lanes -> JobType] /\ St.jobs = jobs
      /\ St.open = open /\ St.ses = ses /\ St \in StType
  BY Found, StIs
<1>1. ASSUME ~ses.gone, astray' = astray PROVE Apart'
  BY <1>1 DEF Apart
<1>2. ASSUME ses' = ses, open \subseteq open', astray' = astray,
             \A k \in astray : jobs'[k] = jobs[k]
      PROVE  Apart'
  BY <1>2 DEF Apart
<1>3. ASSUME NEW ms \in Targets,
             OnPlay(ms) \/ Replay(ms) \/ OnSeek(ms) \/ OnPause(ms) \/ OnResume(ms)
      PROVE  Apart'
  BY <1>1, <1>3 DEF OnPlay, Replay, OnSeek, OnPause, OnResume, May
<1>4. CASE Kick
  <2>1. astray' = astray
    BY <1>4 DEF Kick, Still
  <2>2. CASE ~ses.gone
    BY <1>1, <2>1, <2>2
  <2>3. CASE ses.gone
    <3>1. Becomes([St EXCEPT !.kicks = @ - 1])
      BY <1>4, <2>3 DEF Kick
    <3>2. ses' = ses /\ open' = open /\ jobs' = jobs
      BY <3>1 DEF Becomes, St
    <3> QED  BY <1>2, <2>1, <3>2
  <2> QED  BY <2>2, <2>3
<1>5. CASE Manager \/ Disconnect
  BY <1>1, <1>5 DEF Manager, Disconnect, Started, Still
<1>6. CASE Wall
  BY <1>2, <1>6 DEF Wall, Still
<1>7. ASSUME NEW l \in Lanes, OpenBlocking(l) PROVE Apart'
  <2>1. jobs[l].st = "queued" /\ astray' = astray
    BY <1>7 DEF OpenBlocking, Still
  <2>2. l \notin astray
    BY <2>1 DEF Apart
  <2>3. CASE Becomes([St EXCEPT !.jobs[l].st = "failed"])
    <3>1. ses' = ses /\ open' = open /\ jobs' = [jobs EXCEPT ![l].st = "failed"]
      BY <2>3 DEF Becomes, St
    <3>2. \A k \in astray : jobs'[k] = jobs[k]
      BY <1>0, <2>2, <3>1 DEF Apart
    <3> QED  BY <1>2, <2>1, <3>1, <3>2
  <2>4. CASE Becomes([LaneSeek(LaneOpen(St, l), l, jobs[l].start) EXCEPT !.jobs[l].st = "opened"])
    <3> DEFINE v == LaneOpen(St, l)
    <3>1. v.ses = ses /\ v.open = open \cup {l} /\ v.jobs = jobs
      BY DEF LaneOpen, St
    <3> DEFINE w == LaneSeek(v, l, jobs[l].start)
    <3>2. /\ w.ses = v.ses /\ w.open = v.open /\ w.jobs = v.jobs
          /\ DOMAIN w = {"ses", "clk", "open", "ref", "pub", "buf", "timer", "held", "jobs",
                         "kicks", "out", "run"}
      BY DEF LaneSeek, LaneOpen, St
    <3> HIDE DEF v, w
    <3>3. ses' = ses /\ open' = open \cup {l} /\ jobs' = [jobs EXCEPT ![l].st = "opened"]
      BY <2>4, <3>1, <3>2 DEF Becomes, v, w
    <3>4. \A k \in astray : jobs'[k] = jobs[k]
      BY <1>0, <2>2, <3>3 DEF Apart
    <3> QED  BY <1>2, <2>1, <3>3, <3>4
  <2> QED  BY <1>7, <2>3, <2>4 DEF OpenBlocking
<1>8. ASSUME NEW l \in Lanes, OnIo(l) PROVE Apart'
  BY <1>1, <1>8 DEF OnIo, Still
<1>9. ASSUME NEW l \in Lanes, OnIoGone(l) PROVE Apart'
  <2> DEFINE t == [St EXCEPT !.jobs[l] = NoJob]
  <2>1. /\ Good(t) /\ t.ses = ses /\ t.open = open /\ t.jobs[l].st = "none"
        /\ t.jobs = [jobs EXCEPT ![l] = NoJob]
        /\ jobs[l].st = "opened" => l \in open
    BY JobDone
  <2>2. ses.gone /\ NoJob.st = "none"
    BY <1>9 DEF OnIoGone, NoJob
  <2>3. l \in astray => jobs[l].st = "none"
    BY DEF Apart
  <2>4. \A k \in Lanes : jobs[k].st = "none" => t.jobs[k].st = "none"
    BY <1>0, <2>1, <2>2
  <2> HIDE DEF t
  <2>5. CASE jobs[l].st = "opened" /\ Becomes(LaneClose(t, l)) /\ astray' = astray
    <3>1. ses' = ses /\ open' = open \ {l} /\ jobs' = t.jobs
      BY <2>1, <2>2, <2>5, GoneCloses DEF Becomes
    <3> QED  BY <1>0, <2>2, <2>3, <2>4, <2>5, <3>1 DEF Apart
  <2>6. CASE Becomes(t) /\ (astray' = astray \/ (jobs[l].st = "opened" /\ astray' = astray \cup {l}))
    <3>1. ses' = ses /\ open' = open /\ jobs' = t.jobs
      BY <2>1, <2>6 DEF Becomes
    <3> QED  BY <1>0, <2>1, <2>2, <2>4, <2>6, <3>1 DEF Apart
  <2> QED  BY <1>9, <2>5, <2>6 DEF OnIoGone, t
<1>10. ASSUME NEW l \in Lanes, StrangerCloses(l) PROVE Apart'
  <2>1. /\ l \in astray /\ Becomes(LaneClose(St, l)) /\ astray' = astray \ {l}
        /\ Good(St) /\ St.ses.gone /\ l \in St.open /\ St.jobs[l].st # "opened"
    BY <1>10, Found, StIs DEF StrangerCloses, Apart
  <2>2. ses' = ses /\ open' = open \ {l} /\ jobs' = jobs
    BY <1>0, <2>1, GoneCloses DEF Becomes
  <2> QED  BY <2>1, <2>2 DEF Apart
<1>11. ASSUME NEW l \in Lanes, LaneTick(l) PROVE Apart'
  <2>1. ses' = ses /\ open' = open /\ jobs' = jobs /\ astray' = astray
    BY <1>11 DEF LaneTick, Becomes, St, Still
  <2> QED  BY <1>2, <2>1
<1>12. CASE UNCHANGED vars
  BY <1>2, <1>12 DEF vars
<1> QED  BY <1>3, <1>4, <1>5, <1>6, <1>7, <1>8, <1>9, <1>10, <1>11, <1>12 DEF Next

\* No step changes what is played.
LEMMA SameFile ==
  ASSUME [Next]_vars
  PROVE  file' = file
<1>1. ASSUME NEW t, Becomes(t) PROVE file' = file
  BY <1>1 DEF Becomes
<1>2. ASSUME NEW ms \in Targets, OnPlay(ms) \/ Replay(ms) \/ OnSeek(ms) PROVE file' = file
  BY <1>1, <1>2 DEF OnPlay, Replay, OnSeek
<1>3. ASSUME NEW ms \in Targets, OnPause(ms) PROVE file' = file
  BY <1>1, <1>3 DEF OnPause
<1>4. ASSUME NEW ms \in Targets, OnResume(ms) PROVE file' = file
  BY <1>1, <1>4 DEF OnResume
<1>5. CASE Kick
  BY <1>1, <1>5 DEF Kick
<1>6. CASE Manager \/ Disconnect
  BY <1>1, <1>6 DEF Manager, Disconnect
<1>7. CASE Wall
  BY <1>7 DEF Wall
<1>8. ASSUME NEW l \in Lanes, OpenBlocking(l) \/ LaneTick(l) PROVE file' = file
  BY <1>1, <1>8 DEF OpenBlocking, LaneTick
<1>9. ASSUME NEW l \in Lanes, OnIo(l) \/ OnIoGone(l) \/ StrangerCloses(l) PROVE file' = file
  BY <1>1, <1>9 DEF OnIo, OnIoGone, StrangerCloses
<1>10. CASE UNCHANGED vars
  BY <1>10 DEF vars
<1> QED  BY <1>2, <1>3, <1>4, <1>5, <1>6, <1>7, <1>8, <1>9, <1>10 DEF Next

-----------------------------------------------------------------------------
(* The theorems.                                                           *)

\* The session, its lanes and the open jobs are in order in every state: whose each
\* lane is, what each FIFO holds and, paced as shipped, what has been sent.
THEOREM PlayInvariant == Spec => [](IInv /\ Apart)
<1>1. Init => IInv /\ Apart
  BY InitInv DEF Init, Apart
<1>2. IInv /\ Apart /\ [Next]_vars => (IInv /\ Apart)'
  BY NextInv, NextApart
<1> QED  BY <1>1, <1>2, PTL DEF Spec

\* The publisher's own pump (pump_hold, vod_play_lane_ref) rests exactly while some
\* lane of its source is open, whatever commands overtook the thread pool's jobs.
THEOREM PumpHeldWithLanes == Spec => []HoldMatches
<1>1. IInv => HoldMatches
  BY Found, StIs DEF Base, LanesHeld, HoldMatches
<1> QED  BY <1>1, PlayInvariant, PTL

\* Neither vod_lane nor vod_reader of a session points into a lane that was closed,
\* and a session that is gone has no reader.  A completion that reads a freed session
\* may find it gone or take a later one for it: the lane is then closed, or it stays
\* open and is that session's until it closes it.
THEOREM ReaderNeverDangles == Spec => []ReaderOfOpenLane
<1>1. IInv /\ Apart => ReaderOfOpenLane
  <2> SUFFICES ASSUME IInv, Apart PROVE ReaderOfOpenLane
    OBVIOUS
  <2>1. OwnLanes(St) /\ open \in SUBSET Lanes
    BY Found DEF Base
  <2>2. ASSUME NEW l \in astray PROVE l \in open \ {ses.lane, ses.reader}
    BY <2>1, <2>2, StIs, NoLaneIsNone DEF Apart, OwnLanes
  <2> QED  BY <2>1, <2>2, StIs DEF OwnLanes, ReaderOfOpenLane
<1> QED  BY <1>1, PlayInvariant, PTL

\* Whatever seeks, holds and high-water marks did before, the slots between a lane's
\* reader and its demuxer hold the file's samples in their order, none overwritten.
THEOREM FifosStayWhole == Spec => []FifoContiguous
<1>1. IInv => FifoContiguous
  <2> SUFFICES ASSUME IInv, NEW l \in open, NEW q \in buf[l].r..buf[l].w - 1
               PROVE  buf[l].slot[SlotAt(q)] = buf[l].pos - (buf[l].w - q)
    BY DEF FifoContiguous
  <2>1. LaneOk(buf[l])
    BY Found, StIs DEF Base, FifosOk
  <2>2. q \in buf[l].c..buf[l].w - 1
    BY <2>1 DEF LaneOk, FifoOk, LaneType
  <2> QED  BY <2>1, <2>2 DEF LaneOk, FifoOk
<1> QED  BY <1>1, PlayInvariant, PTL

\* What a session dispatches after it was placed anywhere is the file from there on,
\* from a sync sample on in an MP4, and the outbox gives up none of it unless catching up
\* began again.  The budgets are as shipped (a flush drains at least what a pump pushes,
\* a catch-up fits the outbox), and an MP4 starts with a sync sample within the search.
THEOREM SentIsTheFile ==
  ASSUME Pacing, \A f \in Files : StartsWithSync(f)
  PROVE  Spec => []RunIsTheFile
<1>1. Init => file \in Files
  BY DEF Init
<1>2. file \in Files /\ [Next]_vars => (file \in Files)'
  BY SameFile
<1>3. IInv /\ file \in Files => RunIsTheFile
  <2> SUFFICES ASSUME IInv, file \in Files PROVE RunIsTheFile
    OBVIOUS
  <2>1. Sound
    BY DEF Sound
  <2>2. TapeRun(St) /\ TapeOut(St)
    BY <2>1 DEF IInv, Good, Tape
  <2>3. out.lost => out.again
    BY <2>2, StIs DEF TapeOut
  <2>4. \A i \in 1..Len(run) - 1 : run[i + 1] = run[i] + 1
    BY <2>2, StIs DEF TapeRun, Chain
  <2>5. run # <<>> /\ file.box = "mp4" => file.kind[run[1]] = "sync"
    BY <2>2, StIs DEF TapeRun, SyncSamples
  <2> QED  BY <2>3, <2>4, <2>5 DEF RunIsTheFile
<1> QED  BY <1>1, <1>2, <1>3, PlayInvariant, PTL DEF Spec
=============================================================================
