--------------------------- MODULE HttpPlay_proofs ---------------------------
(***************************************************************************)
(* What an HTTP connection that plays promises, for files and flushes of   *)
(* any size and any number of requests, waited for or not: what it counts  *)
(* is given back or lost to an impatient client and nothing else, what it  *)
(* sends is open, and a range gets the chunks it asks for.                 *)
(*                                                                         *)
(* The operations of the session are functions on [hs, readers, lanes,     *)
(* files, lost]; "Counted" is what each of them keeps, up to the FILEs     *)
(* that jobs have opened and not yet handed over.  "Fits" relates the      *)
(* session to the answer it is sending, "Neat" and "Waiting" say what a    *)
(* client that waits for its answers can rely on: there is at most one     *)
(* job, and a session that is asked has nothing open.                      *)
(***************************************************************************)
EXTENDS HttpPlay, FiniteSetTheorems, TLAPS

SessionType == [state : {"idle", "file", "streaming", "ws"},
                mux : {"none", "live", "ts", "vod"}, lane : BOOLEAN, att : BOOLEAN,
                fp : BOOLEAN, remain : Int, alive : BOOLEAN]
Losses == [readers : Int, lanes : Int, files : Int]
States == [hs : SessionType, readers : Int, lanes : Int, files : Int, lost : Losses]
Jobs == [kind : {"open", "static", "cache", "m3u8", "seg"}, req : Requests,
         at : {"pool", "io"}, ok : BOOLEAN]
Slots == [1..MaxAsks -> Jobs \cup {NoJob}]
Answers == [req : Requests, from : Int, to : Int, sent : Int]
Words == {"nothing", "coming", "complete"}
Pasts == [impatient : BOOLEAN, touched : BOOLEAN]

\* x counts what its session has and what was lost, and k FILEs that are on
\* their way to it.
Counted(x, k) ==
    /\ x \in States
    /\ x.readers = One(x.hs.att) + x.lost.readers
    /\ x.lanes = One(x.hs.lane) + x.lost.lanes
    /\ x.files = One(x.hs.fp) + k + x.lost.files
Clean(h) == ~h.att /\ ~h.lane /\ ~h.fp
Free(x) == Clean(x.hs) /\ x.lost = Nothing

\* What was sent of answer a is what a session h no longer has to send.
Promised(a) == /\ a.from .. (a.to - 1) = Wanted(a.req.range)
               /\ a.sent <= a.to - a.from
Fits(h, a) ==
    /\ a # NoAnswer => a \in Answers /\ Promised(a)
    /\ h.state \in {"streaming", "ws"} => h.att /\ h.mux # "none"
    /\ h.state = "file" => /\ h.fp /\ a \in Answers
                           /\ h.remain = a.to - a.from - a.sent
    /\ h.state = "idle" /\ a \in Answers => a.sent = a.to - a.from

\* Only a session whose client is about to hang up idles with something open.
Neat(h, word) == /\ word # "complete" /\ h.state = "idle" => Clean(h)
                 /\ h.state = "file" => ~h.lane
Waiting == \A n \in 1..MaxAsks :
    jobs[n] # NoJob => n = asks /\ hs.state = "idle" /\ said # "complete"

Typed == /\ jobs \in Slots /\ asks \in 0..MaxAsks /\ past \in Pasts
         /\ \A n \in 1..MaxAsks : n > asks => jobs[n] = NoJob
         /\ \A n \in 1..MaxAsks :
                jobs[n].kind \in {"static", "seg"} => jobs[n].req.kind = "seg"

IInv ==
    /\ Counted(Now, Cardinality(Holding)) /\ Fits(hs, answer)
    /\ Typed /\ pending \in Nat /\ said \in Words
    /\ ~hs.alive => Clean(hs) /\ hs.state = "idle"
    /\ hs.alive => ~past.touched
    /\ ~past.impatient => Neat(hs, said) /\ Waiting
    /\ lost # Nothing => past.impatient \/ past.touched

\* What a handler that ends with an answer leaves of the rest.
Rest == /\ Typed /\ ~past.touched
        /\ ~past.impatient => \A n \in 1..MaxAsks : jobs[n] = NoJob

-----------------------------------------------------------------------------
(* Requests and ranges.                                                    *)

LEMMA RequestHas ==
  ASSUME NEW req \in Requests
  PROVE  /\ req.range \in Ranges
         /\ req.kind \in LiveKinds \cup HlsKinds \cup FileKinds
                         \cup {"cached-flv", "download", "api"}
         /\ req # [kind |-> "none"]
BY DEF Requests, Ranges, Plain, LiveKinds, HlsKinds, FileKinds

LEMMA Different ==
  /\ \A j \in Jobs : j # NoJob
  /\ \A a \in Answers : a # NoAnswer
<1>1. \A j \in Jobs : j.kind # "none"
  BY DEF Jobs
<1>2. \A a \in Answers : a.req # NoAnswer.req
  BY RequestHas DEF Answers, NoAnswer
<1> QED  BY <1>1, <1>2 DEF NoJob

\* parse_http_range gives the chunks that were asked for, all when none is.
LEMMA IntervalIsWanted ==
  ASSUME HttpPlayAssumption, NEW r \in Ranges
  PROVE  /\ Interval(r).from \in Int /\ Interval(r).to \in Int
         /\ Interval(r).from <= Interval(r).to
         /\ Interval(r).from .. (Interval(r).to - 1) = Wanted(r)
<1> USE DEF HttpPlayAssumption
<1>1. CASE r.form = "none"
  <2>1. Asked(r) = 0 .. Size-1
    BY <1>1 DEF Asked
  <2> QED  BY <1>1, <2>1 DEF Interval, Wanted
<1>2. CASE r.form \in {"from", "seek"}
  <2>1. r.a \in 0..Size /\ FirstByte(r) = r.a /\ LastByte(r) = Size - 1
    BY <1>2 DEF Ranges, FirstByte, LastByte
  <2>2. Asked(r) = {c \in 0..Size-1 : c >= r.a}
    BY <1>2 DEF Asked
  <2>3. Asked(r) = r.a .. Size-1
    BY <2>1, <2>2
  <2>4. Asked(r) = {} <=> r.a > Size - 1
    BY <2>1, <2>3
  <2> QED  BY <1>2, <2>1, <2>3, <2>4 DEF Interval, Wanted
<1>3. CASE r.form = "both"
  <2>1. r.a \in 0..Size /\ r.b \in 0..Size /\ FirstByte(r) = r.a
    BY <1>3 DEF Ranges, FirstByte
  <2>2. LastByte(r) = IF r.b >= Size THEN Size - 1 ELSE r.b
    BY <1>3 DEF LastByte
  <2>3. Asked(r) = {c \in 0..Size-1 : c >= r.a /\ c <= r.b}
    BY <1>3 DEF Asked
  <2>4. Asked(r) = r.a .. LastByte(r)
    BY <2>1, <2>2, <2>3
  <2>5. Asked(r) = {} <=> r.a > LastByte(r)
    BY <2>1, <2>2, <2>4
  <2>6. LastByte(r) \in Int
    BY <2>1, <2>2
  <2> QED  BY <1>3, <2>1, <2>4, <2>5, <2>6 DEF Interval, Wanted
<1>4. CASE r.form = "suffix"
  <2>1. r.a \in 0..Size /\ LastByte(r) = Size - 1
    BY <1>4 DEF Ranges, LastByte
  <2>2. FirstByte(r) = Size - r.a
    BY <1>4, <2>1 DEF FirstByte
  <2>3. Asked(r) = {c \in 0..Size-1 : c >= Size - r.a}
    BY <1>4 DEF Asked
  <2>4. Asked(r) = FirstByte(r) .. Size-1
    BY <2>1, <2>2, <2>3
  <2>5. Asked(r) = {} <=> FirstByte(r) > Size - 1
    BY <2>1, <2>2, <2>4
  <2>6. FirstByte(r) \in Int
    BY <2>1, <2>2
  <2> QED  BY <1>4, <2>1, <2>4, <2>5, <2>6 DEF Interval, Wanted
<1> QED  BY <1>1, <1>2, <1>3, <1>4 DEF Ranges

-----------------------------------------------------------------------------
(* The jobs and the FILEs they hold.                                       *)

LEMMA HoldingOk ==
  ASSUME HttpPlayAssumption, Typed
  PROVE  IsFiniteSet(Holding) /\ Cardinality(Holding) \in Nat
<1>1. IsFiniteSet(1..MaxAsks)
  BY FS_Interval DEF HttpPlayAssumption
<1>2. Holding \in SUBSET (1..MaxAsks)
  BY DEF Holding
<1> QED  BY <1>1, <1>2, FS_Subset, FS_CardinalityType

\* Changing one job changes what it alone holds.
LEMMA HoldingChange ==
  ASSUME HttpPlayAssumption, Typed, NEW n \in 1..MaxAsks, NEW j,
         jobs' = [jobs EXCEPT ![n] = j]
  PROVE  /\ Cardinality(Holding) \in Int /\ Cardinality(Holding)' \in Int
         /\ Cardinality(Holding)' = Cardinality(Holding) - One(HoldsFile(jobs[n]))
                                     + One(HoldsFile(j))
<1>1. IsFiniteSet(Holding) /\ Cardinality(Holding) \in Nat
  BY HoldingOk
<1>2. jobs'[n] = j /\ \A m \in 1..MaxAsks : m # n => jobs'[m] = jobs[m]
  BY DEF Typed, Slots
<1>3. CASE HoldsFile(j)
  <2>1. Holding' = Holding \cup {n}
    BY <1>2, <1>3 DEF Holding
  <2>2. n \in Holding <=> HoldsFile(jobs[n])
    BY DEF Holding
  <2> QED  BY <1>1, <1>3, <2>1, <2>2, FS_AddElement DEF One
<1>4. CASE ~HoldsFile(j)
  <2>1. Holding' = Holding \ {n}
    BY <1>2, <1>4 DEF Holding
  <2>2. n \in Holding <=> HoldsFile(jobs[n])
    BY DEF Holding
  <2> QED  BY <1>1, <1>4, <2>1, <2>2, FS_RemoveElement DEF One
<1> QED  BY <1>3, <1>4

\* A job that is done.
LEMMA DropOk ==
  ASSUME HttpPlayAssumption, Typed, NEW n \in 1..MaxAsks, Drop(n), UNCHANGED <<asks, past>>
  PROVE  /\ Typed' /\ jobs'[n] = NoJob
         /\ \A m \in 1..MaxAsks : m # n => jobs'[m] = jobs[m]
         /\ Cardinality(Holding) \in Int /\ Cardinality(Holding)' \in Int
         /\ Cardinality(Holding) = Cardinality(Holding)' + One(HoldsFile(jobs[n]))
<1>1. jobs' = [jobs EXCEPT ![n] = NoJob]
  BY DEF Drop
<1>2. /\ Cardinality(Holding) \in Int /\ Cardinality(Holding)' \in Int
      /\ Cardinality(Holding)' = Cardinality(Holding) - One(HoldsFile(jobs[n]))
                                  + One(HoldsFile(NoJob))
  BY <1>1, HoldingChange
<1>3. ~HoldsFile(NoJob)
  BY DEF HoldsFile, NoJob
<1>4. /\ jobs'[n] = NoJob /\ jobs' \in Slots
      /\ \A m \in 1..MaxAsks : m # n => jobs'[m] = jobs[m]
  BY <1>1 DEF Typed, Slots
<1>5. Typed'
  BY <1>4 DEF Typed, NoJob
<1> QED  BY <1>2, <1>3, <1>4, <1>5 DEF One

-----------------------------------------------------------------------------
(* The session's operations keep count.                                    *)

LEMMA WithRemain ==
  ASSUME NEW h \in SessionType, NEW n \in Int
  PROVE  LET g == [h EXCEPT !.remain = n]
         IN  /\ g \in SessionType /\ g.remain = n
             /\ g.state = h.state /\ g.mux = h.mux /\ g.lane = h.lane /\ g.att = h.att
             /\ g.fp = h.fp /\ g.alive = h.alive
BY DEF SessionType

LEMMA AttachOk ==
  ASSUME NEW x, NEW k \in Int, Counted(x, k)
  PROVE  /\ Counted(Attach(x), k) /\ Attach(x).hs.att
         /\ Attach(x).hs.lane = x.hs.lane /\ Attach(x).hs.fp = x.hs.fp
         /\ Attach(x).hs.mux = x.hs.mux /\ Attach(x).hs.state = x.hs.state
         /\ Attach(x).hs.alive = x.hs.alive
         /\ ~x.hs.att => Attach(x).lost = x.lost
<1>1. x.hs \in SessionType /\ x.lost \in Losses /\ One(x.hs.att) \in Int
  BY DEF Counted, States, One
<1> DEFINE h == [x.hs EXCEPT !.att = TRUE]
           l == [x.lost EXCEPT !.readers = @ + One(x.hs.att)]
<1>2. /\ h \in SessionType /\ h.att /\ h.lane = x.hs.lane /\ h.fp = x.hs.fp /\ h.mux = x.hs.mux
      /\ h.state = x.hs.state /\ h.alive = x.hs.alive
  BY <1>1 DEF SessionType
<1>3. /\ l \in Losses /\ l.readers = x.lost.readers + One(x.hs.att)
      /\ l.lanes = x.lost.lanes /\ l.files = x.lost.files
  BY <1>1 DEF Losses
<1>4. ~x.hs.att => l = x.lost
  BY <1>1 DEF Losses, One
<1>5. Attach(x) = [hs |-> h, readers |-> x.readers + 1, lanes |-> x.lanes, files |-> x.files,
                   lost |-> l]
  <2> DEFINE v == One(x.hs.att)
             y == [x EXCEPT !.readers = @ + 1, !.hs.att = TRUE]
             z == [y EXCEPT !.lost = l]
  <2>1. y = [hs |-> h, readers |-> x.readers + 1, lanes |-> x.lanes, files |-> x.files, lost |-> x.lost]
    <3>1. x \in States
      BY DEF Counted
    <3> DEFINE u == [x EXCEPT !.readers = @ + 1]
    <3>2. u = [hs |-> x.hs, readers |-> x.readers + 1, lanes |-> x.lanes, files |-> x.files, lost |-> x.lost]
      BY <3>1 DEF States
    <3>3. y = [u EXCEPT !.hs = h]
      BY <3>1 DEF States
    <3> HIDE DEF u, y, h
    <3> QED  BY <3>2, <3>3
  <2>2. z = [hs |-> h, readers |-> x.readers + 1, lanes |-> x.lanes, files |-> x.files, lost |-> l]
    <3> HIDE DEF y, h, l
    <3> QED  BY <2>1
  <2>3. Attach(x) = z
    BY <2>1 DEF Attach, Counted, States
  <2> QED  BY <2>2, <2>3
<1> HIDE DEF h, l
<1> QED  BY <1>1, <1>2, <1>3, <1>4, <1>5 DEF Counted, States, One, Losses

LEMMA TakeLaneOk ==
  ASSUME NEW x, NEW k \in Int, Counted(x, k)
  PROVE  /\ Counted(TakeLane(x), k) /\ TakeLane(x).hs.lane /\ TakeLane(x).hs.mux = "vod"
         /\ TakeLane(x).hs.att = x.hs.att /\ TakeLane(x).hs.fp = x.hs.fp
         /\ TakeLane(x).hs.alive = x.hs.alive
         /\ ~x.hs.lane => TakeLane(x).lost = x.lost
<1>1. x.hs \in SessionType /\ x.lost \in Losses /\ One(x.hs.lane) \in Int
  BY DEF Counted, States, One
<1> DEFINE h == [x.hs EXCEPT !.lane = TRUE, !.mux = "vod"]
           l == [x.lost EXCEPT !.lanes = @ + One(x.hs.lane)]
<1>2. /\ h \in SessionType /\ h.lane /\ h.att = x.hs.att /\ h.fp = x.hs.fp /\ h.mux = "vod"
      /\ h.alive = x.hs.alive
  BY <1>1 DEF SessionType
<1>3. /\ l \in Losses /\ l.lanes = x.lost.lanes + One(x.hs.lane)
      /\ l.readers = x.lost.readers /\ l.files = x.lost.files
  BY <1>1 DEF Losses
<1>4. ~x.hs.lane => l = x.lost
  BY <1>1 DEF Losses, One
<1>5. TakeLane(x) = [hs |-> h, readers |-> x.readers, lanes |-> x.lanes + 1,
                     files |-> x.files, lost |-> l]
  <2> DEFINE v == One(x.hs.lane)
             y == [x EXCEPT !.lanes = @ + 1, !.hs.lane = TRUE, !.hs.mux = "vod"]
             z == [y EXCEPT !.lost = l]
  <2>1. y = [hs |-> h, readers |-> x.readers, lanes |-> x.lanes + 1, files |-> x.files, lost |-> x.lost]
    <3>1. x \in States
      BY DEF Counted
    <3> DEFINE u == [x EXCEPT !.lanes = @ + 1]
    <3>2. u = [hs |-> x.hs, readers |-> x.readers, lanes |-> x.lanes + 1, files |-> x.files, lost |-> x.lost]
      BY <3>1 DEF States
    <3>3. y = [u EXCEPT !.hs = h]
      BY <3>1 DEF States
    <3> HIDE DEF u, y, h
    <3> QED  BY <3>2, <3>3
  <2>2. z = [hs |-> h, readers |-> x.readers, lanes |-> x.lanes + 1, files |-> x.files, lost |-> l]
    <3> HIDE DEF y, h, l
    <3> QED  BY <2>1
  <2>3. TakeLane(x) = z
    BY <2>1 DEF TakeLane, Counted, States
  <2> QED  BY <2>2, <2>3
<1> HIDE DEF h, l
<1> QED  BY <1>1, <1>2, <1>3, <1>4, <1>5 DEF Counted, States, One, Losses

\* A FILE that was on its way arrives.
LEMMA TakeFileOk ==
  ASSUME NEW x, NEW k \in Int, Counted(x, k + 1), NEW n \in Int
  PROVE  /\ Counted(TakeFile(x, n), k) /\ TakeFile(x, n).hs.fp
         /\ TakeFile(x, n).hs.remain = n /\ TakeFile(x, n).hs.state = "file"
         /\ TakeFile(x, n).hs.lane = x.hs.lane /\ TakeFile(x, n).hs.att = x.hs.att
         /\ TakeFile(x, n).hs.alive = x.hs.alive
         /\ ~x.hs.fp => TakeFile(x, n).lost = x.lost
<1>1. x.hs \in SessionType /\ x.lost \in Losses /\ One(x.hs.fp) \in Int
  BY DEF Counted, States, One
<1> DEFINE g == [x.hs EXCEPT !.remain = n]
           h == [x.hs EXCEPT !.fp = TRUE, !.remain = n, !.state = "file"]
           l == [x.lost EXCEPT !.files = @ + One(x.hs.fp)]
<1>2. /\ h \in SessionType /\ h.fp /\ h.remain = n /\ h.state = "file"
      /\ h.lane = x.hs.lane /\ h.att = x.hs.att /\ h.alive = x.hs.alive
  <2>1. /\ g \in SessionType /\ g.lane = x.hs.lane /\ g.alive = x.hs.alive
        /\ g.att = x.hs.att /\ g.remain = n
    BY <1>1, WithRemain
  <2>2. h = [g EXCEPT !.fp = TRUE, !.state = "file"]
    BY <1>1 DEF SessionType
  <2> HIDE DEF g, h
  <2> QED  BY <2>1, <2>2 DEF SessionType
<1>3. /\ l \in Losses /\ l.files = x.lost.files + One(x.hs.fp)
      /\ l.readers = x.lost.readers /\ l.lanes = x.lost.lanes
  BY <1>1 DEF Losses
<1>4. ~x.hs.fp => l = x.lost
  BY <1>1 DEF Losses, One
<1>5. TakeFile(x, n) = [hs |-> h, readers |-> x.readers, lanes |-> x.lanes,
                        files |-> x.files, lost |-> l]
  <2> DEFINE v == One(x.hs.fp)
             y == [x EXCEPT !.hs.fp = TRUE, !.hs.remain = n, !.hs.state = "file"]
             z == [y EXCEPT !.lost = l]
  <2>1. y = [hs |-> h, readers |-> x.readers, lanes |-> x.lanes, files |-> x.files, lost |-> x.lost]
    <3>1. x \in States
      BY DEF Counted
    <3> DEFINE u == x
    <3>2. u = [hs |-> x.hs, readers |-> x.readers, lanes |-> x.lanes, files |-> x.files, lost |-> x.lost]
      BY <3>1 DEF States
    <3>3. y = [u EXCEPT !.hs = h]
      BY <3>1 DEF States
    <3> HIDE DEF u, y, h
    <3> QED  BY <3>2, <3>3
  <2>2. z = [hs |-> h, readers |-> x.readers, lanes |-> x.lanes, files |-> x.files, lost |-> l]
    <3> HIDE DEF y, h, l
    <3> QED  BY <2>1
  <2>3. TakeFile(x, n) = z
    BY <2>1 DEF TakeFile, Counted, States
  <2> QED  BY <2>2, <2>3
<1> HIDE DEF g, h, l
<1> QED  BY <1>1, <1>2, <1>3, <1>4, <1>5 DEF Counted, States, One, Losses

LEMMA ReaderStopOk ==
  ASSUME NEW x, NEW k \in Int, Counted(x, k)
  PROVE  /\ ReaderStop(x).lost = x.lost /\ Counted(ReaderStop(x), k) /\ ~ReaderStop(x).hs.att
         /\ ReaderStop(x).hs.lane = x.hs.lane /\ ReaderStop(x).hs.fp = x.hs.fp
         /\ ReaderStop(x).hs.state = x.hs.state /\ ReaderStop(x).hs.alive = x.hs.alive
<1>1. CASE x.hs.att
  <2> DEFINE h == [x.hs EXCEPT !.att = FALSE]
  <2>1. x.hs \in SessionType
    BY DEF Counted, States
  <2>2. /\ h \in SessionType /\ ~h.att /\ h.lane = x.hs.lane /\ h.fp = x.hs.fp
        /\ h.state = x.hs.state /\ h.alive = x.hs.alive
    BY <2>1 DEF SessionType
  <2>3. ReaderStop(x) = [hs |-> h, readers |-> x.readers - 1, lanes |-> x.lanes,
                         files |-> x.files, lost |-> x.lost]
    BY <1>1 DEF ReaderStop, Counted, States
  <2> HIDE DEF h
  <2> QED  BY <1>1, <2>2, <2>3 DEF Counted, States, Losses, One
<1>2. CASE ~x.hs.att
  BY <1>2 DEF ReaderStop
<1> QED  BY <1>1, <1>2

LEMMA CloseFileOk ==
  ASSUME NEW x, NEW k \in Int, Counted(x, k)
  PROVE  /\ CloseFile(x).lost = x.lost /\ Counted(CloseFile(x), k) /\ ~CloseFile(x).hs.fp
         /\ CloseFile(x).hs.lane = x.hs.lane /\ CloseFile(x).hs.att = x.hs.att
         /\ CloseFile(x).hs.state = x.hs.state /\ CloseFile(x).hs.alive = x.hs.alive
<1>1. CASE x.hs.fp
  <2> DEFINE h == [x.hs EXCEPT !.fp = FALSE, !.remain = 0]
  <2>1. x.hs \in SessionType
    BY DEF Counted, States
  <2>2. /\ h \in SessionType /\ ~h.fp /\ h.lane = x.hs.lane /\ h.att = x.hs.att
        /\ h.state = x.hs.state /\ h.alive = x.hs.alive
    <3> DEFINE g == [x.hs EXCEPT !.remain = 0]
    <3>1. g \in SessionType /\ g.lane = x.hs.lane /\ g.att = x.hs.att
          /\ g.state = x.hs.state /\ g.alive = x.hs.alive
      BY <2>1, WithRemain
    <3>2. h = [g EXCEPT !.fp = FALSE]
      BY <2>1 DEF SessionType
    <3> HIDE DEF g, h
    <3> QED  BY <3>1, <3>2 DEF SessionType
  <2>3. CloseFile(x) = [hs |-> h, readers |-> x.readers, lanes |-> x.lanes,
                        files |-> x.files - 1, lost |-> x.lost]
    BY <1>1 DEF CloseFile, Counted, States
  <2> HIDE DEF h
  <2> QED  BY <1>1, <2>2, <2>3 DEF Counted, States, Losses, One
<1>2. CASE ~x.hs.fp
  <2>1. CloseFile(x) = [x EXCEPT !.hs.remain = 0]
    BY <1>2 DEF CloseFile
  <2> QED  BY <1>2, <2>1 DEF Counted, States, SessionType, Losses, One
<1> QED  BY <1>1, <1>2

LEMMA PlayTeardownOk ==
  ASSUME NEW x, NEW k \in Int, Counted(x, k)
  PROVE  /\ PlayTeardown(x).lost = x.lost /\ Counted(PlayTeardown(x), k)
         /\ ~PlayTeardown(x).hs.att /\ ~PlayTeardown(x).hs.lane
         /\ PlayTeardown(x).hs.fp = x.hs.fp
         /\ PlayTeardown(x).hs.state = x.hs.state /\ PlayTeardown(x).hs.alive = x.hs.alive
<1> DEFINE y == IF x.hs.lane THEN [x EXCEPT !.lanes = @ - 1, !.hs.lane = FALSE] ELSE x
           z == ReaderStop(y)
<1>1. /\ y.lost = x.lost /\ Counted(y, k) /\ ~y.hs.lane /\ y.hs.fp = x.hs.fp
      /\ y.hs.state = x.hs.state /\ y.hs.alive = x.hs.alive
  <2>1. CASE x.hs.lane
    <3> DEFINE h == [x.hs EXCEPT !.lane = FALSE]
    <3>1. x.hs \in SessionType
      BY DEF Counted, States
    <3>2. /\ h \in SessionType /\ ~h.lane /\ h.fp = x.hs.fp /\ h.att = x.hs.att
          /\ h.state = x.hs.state /\ h.alive = x.hs.alive
      BY <3>1 DEF SessionType
    <3>3. y = [hs |-> h, readers |-> x.readers, lanes |-> x.lanes - 1, files |-> x.files,
              lost |-> x.lost]
      BY <2>1 DEF Counted, States
    <3> HIDE DEF y, h
    <3> QED  BY <2>1, <3>2, <3>3 DEF Counted, States, Losses, One
  <2>2. CASE ~x.hs.lane
    BY <2>2
  <2> QED  BY <2>1, <2>2
<1>2. PlayTeardown(x) = [z EXCEPT !.hs.mux = "none"]
  BY DEF PlayTeardown
<1> HIDE DEF y
<1>3. /\ z.lost = x.lost /\ Counted(z, k) /\ ~z.hs.lane /\ ~z.hs.att /\ z.hs.fp = x.hs.fp
      /\ z.hs.state = x.hs.state /\ z.hs.alive = x.hs.alive
  BY <1>1, ReaderStopOk
<1> HIDE DEF z
<1> QED  BY <1>2, <1>3 DEF Counted, States, SessionType, Losses, One

LEMMA StopStreamOk ==
  ASSUME NEW x, NEW k \in Int, Counted(x, k)
  PROVE  /\ StopStream(x).lost = x.lost /\ Counted(StopStream(x), k) /\ Clean(StopStream(x).hs)
         /\ StopStream(x).hs.state = "idle" /\ StopStream(x).hs.alive = x.hs.alive
<1> DEFINE z == PlayTeardown(CloseFile(x))
<1>1. z.lost = x.lost /\ Counted(z, k) /\ Clean(z.hs) /\ z.hs.alive = x.hs.alive
  BY CloseFileOk, PlayTeardownOk DEF Clean
<1>2. StopStream(x) = [z EXCEPT !.hs.state = "idle"]
  BY DEF StopStream
<1> HIDE DEF z
<1> QED  BY <1>1, <1>2 DEF Counted, Clean, States, SessionType, Losses, One

LEMMA FileDoneOk ==
  ASSUME NEW x, NEW k \in Int, Counted(x, k)
  PROVE  /\ FileDone(x).lost = x.lost /\ Counted(FileDone(x), k) /\ ~FileDone(x).hs.att /\ ~FileDone(x).hs.fp
         /\ FileDone(x).hs.lane = x.hs.lane
         /\ FileDone(x).hs.state = "idle" /\ FileDone(x).hs.alive = x.hs.alive
<1> DEFINE z == ReaderStop(CloseFile(x))
<1>1. /\ z.lost = x.lost /\ Counted(z, k) /\ ~z.hs.att /\ ~z.hs.fp /\ z.hs.lane = x.hs.lane
      /\ z.hs.alive = x.hs.alive
  BY CloseFileOk, ReaderStopOk
<1>2. FileDone(x) = [z EXCEPT !.hs.state = "idle"]
  BY DEF FileDone
<1> HIDE DEF z
<1> QED  BY <1>1, <1>2 DEF Counted, States, SessionType, Losses, One

LEMMA SendableOk ==
  ASSUME HttpPlayAssumption, NEW x, NEW k \in Int, Counted(x, k), NEW p \in Nat,
         x.hs.state = "file" => x.hs.remain >= 0
  PROVE  /\ Sendable(x, p) \in Nat
         /\ x.hs.state = "file" => Sendable(x, p) <= x.hs.remain
         /\ x.hs.state # "file" => Sendable(x, p) = 0
<1>1. Room(p) \in Nat
  BY DEF Room, HttpPlayAssumption
<1>2. x.hs.remain \in Int
  BY DEF Counted, States, SessionType
<1> QED  BY <1>1, <1>2 DEF Sendable, MinOf, HttpPlayAssumption

-----------------------------------------------------------------------------
(* The end of every handler.                                               *)

LEMMA RestHolding ==
  ASSUME HttpPlayAssumption
  PROVE  Cardinality(Holding)' \in Nat
<1>1. IsFiniteSet(1..MaxAsks)
  BY FS_Interval DEF HttpPlayAssumption
<1>2. Holding' \in SUBSET (1..MaxAsks)
  BY DEF Holding
<1> QED  BY <1>1, <1>2, FS_Subset, FS_CardinalityType

\* A handler may answer with ans once its job, if it had one, is done.  A
\* client that waited for this finds nothing lost and nothing left open.
LEMMA AnsweredOk ==
  ASSUME HttpPlayAssumption, Rest', NEW x, Counted(x, Cardinality(Holding)'),
         NEW word \in Words, NEW ans, NEW held \in Nat, Fits(x.hs, ans), x.hs.alive,
         past'.impatient \/ (Neat(x.hs, word) /\ x.lost = Nothing),
         Answered(x, word, ans, held)
  PROVE  IInv'
<1> DEFINE n == Sendable(x, held)
           y == [x EXCEPT !.hs.remain = @ - n]
           z == FlushFile(x, n)
           a == [ans EXCEPT !.sent = @ + n]
           k == Cardinality(Holding)'
<1>0. /\ x.hs.state = "file" => x.hs.remain >= 0 /\ ans \in Answers /\ x.hs.remain \in Int
      /\ k \in Int
  <2>1. Typed' /\ k \in Nat
    BY RestHolding DEF Rest
  <2> QED  BY <2>1, Different DEF Fits, Promised, Counted, States, SessionType, Answers
<1> HIDE DEF k
<1>1. n \in Nat /\ (x.hs.state = "file" => n <= x.hs.remain) /\ (x.hs.state # "file" => n = 0)
  BY <1>0, SendableOk DEF k
<1>2. /\ hs' = z.hs /\ readers' = z.readers /\ lanes' = z.lanes /\ files' = z.files
      /\ lost' = z.lost /\ answer' = a /\ pending' = held + n /\ said' = word
  BY DEF Answered, Become
<1>3. z = IF x.hs.state = "file" /\ y.hs.remain = 0 THEN FileDone(y) ELSE y
  BY DEF FlushFile
<1>4. /\ Counted(y, k) /\ y.hs.state = x.hs.state /\ y.hs.att = x.hs.att /\ y.hs.fp = x.hs.fp
      /\ y.hs.lane = x.hs.lane /\ y.hs.mux = x.hs.mux /\ y.hs.alive = x.hs.alive
      /\ y.hs.remain = x.hs.remain - n /\ y.lost = x.lost
  <2> DEFINE h == [x.hs EXCEPT !.remain = @ - n]
  <2> HIDE DEF n
  <2>1. x.hs \in SessionType /\ Counted(x, k)
    BY DEF Counted, States, k
  <2>2. /\ h \in SessionType /\ h.state = x.hs.state /\ h.att = x.hs.att /\ h.fp = x.hs.fp
        /\ h.lane = x.hs.lane /\ h.mux = x.hs.mux /\ h.alive = x.hs.alive
        /\ h.remain = x.hs.remain - n
    BY <1>1, <2>1, WithRemain, x.hs.remain - n \in Int DEF SessionType
  <2>3. y = [hs |-> h, readers |-> x.readers, lanes |-> x.lanes, files |-> x.files,
             lost |-> x.lost]
    BY DEF Counted, States
  <2> HIDE DEF y, h
  <2> QED  BY <2>1, <2>2, <2>3 DEF Counted, States
<1> HIDE DEF n, y
<1>5. a = ans \/ x.hs.state = "file"
  <2>1. x.hs.state # "file" /\ ans \in Answers => a = ans
    BY <1>1 DEF Answers
  <2>2. x.hs.state # "file" /\ ans = NoAnswer => a = ans
    BY <1>1 DEF NoAnswer
  <2> QED  BY <2>1, <2>2 DEF Fits
<1>6. ans \in Answers => /\ a \in Answers /\ a.from = ans.from /\ a.to = ans.to
                         /\ a.req = ans.req /\ a.sent = ans.sent + n
  BY <1>1 DEF Answers
<1> HIDE DEF a
<1>7. /\ Counted(z, k) /\ z.hs.alive /\ z.lost = x.lost /\ Fits(z.hs, a)
      /\ Neat(x.hs, word) => Neat(z.hs, word)
  <2>1. CASE x.hs.state = "file" /\ y.hs.remain = 0
    <3>1. z = FileDone(y)
      BY <1>3, <2>1
    <3>2. /\ z.lost = y.lost /\ Counted(z, k) /\ ~z.hs.att /\ ~z.hs.fp
          /\ z.hs.lane = y.hs.lane /\ z.hs.state = "idle" /\ z.hs.alive = y.hs.alive
      BY <1>0, <1>4, <3>1, FileDoneOk
    <3>3. a \in Answers /\ Promised(a) /\ a.sent = a.to - a.from
      BY <1>0, <1>1, <1>4, <1>6, <2>1, Different DEF Fits, Promised, Answers
    <3>4. Neat(x.hs, word) => Neat(z.hs, word)
      BY <1>4, <2>1, <3>2 DEF Neat, Clean
    <3> QED  BY <1>4, <3>2, <3>3, <3>4 DEF Fits
  <2>2. CASE x.hs.state = "file" /\ y.hs.remain # 0
    <3>1. z = y
      BY <1>3, <2>2
    <3>2. a \in Answers /\ Promised(a) /\ y.hs.remain = a.to - a.from - a.sent
      BY <1>0, <1>1, <1>4, <1>6, <2>2, Different DEF Fits, Promised, Answers
    <3> QED  BY <1>4, <2>2, <3>1, <3>2 DEF Neat, Fits
  <2>3. CASE x.hs.state # "file"
    <3>1. z = y /\ a = ans
      BY <1>3, <1>5, <2>3
    <3> QED  BY <1>4, <2>3, <3>1 DEF Neat, Fits, Clean
  <2> QED  BY <2>1, <2>2, <2>3
<1> HIDE DEF z
<1>8. Now' = z
  BY <1>2, <1>7 DEF Now, Counted, States
<1>9. /\ Counted(Now, Cardinality(Holding))' /\ Fits(hs, answer)'
      /\ pending' \in Nat /\ said' \in Words
  BY <1>1, <1>2, <1>7, <1>8 DEF k
<1>10. ~past'.impatient => Neat(hs, said)' /\ Waiting'
  BY <1>2, <1>7 DEF Rest, Waiting
<1>11. (lost # Nothing => past.impatient \/ past.touched)'
  BY <1>2, <1>7
<1> QED  BY <1>2, <1>7, <1>9, <1>10, <1>11 DEF IInv, Rest

\* Everything that is answered at once.
LEMMA CompleteOk ==
  ASSUME HttpPlayAssumption, Rest', NEW x, Counted(x, Cardinality(Holding)'),
         NEW held \in Nat, x.hs.alive, past'.impatient \/ x.lost = Nothing,
         Complete(x, held)
  PROVE  IInv'
<1> DEFINE y == [x EXCEPT !.hs.state = "idle"]
           k == Cardinality(Holding)'
<1>1. /\ Counted(y, k) /\ y.hs.alive /\ y.hs.state = "idle" /\ y.lost = x.lost
  BY DEF Counted, States, SessionType, Losses, One
<1>2. Answered(y, "complete", NoAnswer, held)
  BY DEF Complete
<1> HIDE DEF y
<1>3. Fits(y.hs, NoAnswer) /\ Neat(y.hs, "complete")
  <2>1. NoAnswer \notin Answers
    BY Different
  <2> QED  BY <1>1, <2>1 DEF Fits, Neat
<1>4. "complete" \in Words
  BY DEF Words
<1> QED  BY <1>1, <1>2, <1>3, <1>4, AnsweredOk

\* A file answer begins with the FILE in hand.
LEMMA BeginOk ==
  ASSUME HttpPlayAssumption, Rest', NEW x, Counted(x, Cardinality(Holding)' + 1), x.hs.alive,
         past'.impatient \/ (~x.hs.fp /\ ~x.hs.lane /\ x.lost = Nothing),
         NEW req \in Requests, NEW held \in Nat,
         Begin(x, req, Interval(req.range), held)
  PROVE  IInv'
<1> DEFINE i == Interval(req.range)
           y == TakeFile(x, i.to - i.from)
           a == [req |-> req, from |-> i.from, to |-> i.to, sent |-> 0]
           k == Cardinality(Holding)'
<1>0. k \in Int
  BY RestHolding
<1>1. /\ i.from \in Int /\ i.to \in Int /\ i.from <= i.to
      /\ i.from .. (i.to - 1) = Wanted(req.range)
  BY RequestHas, IntervalIsWanted
<1>2. Answered(y, "coming", a, held)
  BY DEF Begin
<1> HIDE DEF i, k
<1>3. a \in Answers /\ Promised(a) /\ a.to - a.from - a.sent = i.to - i.from
  BY <1>1 DEF Answers, Promised
<1>4. /\ Counted(y, k) /\ y.hs.state = "file" /\ y.hs.fp /\ y.hs.alive
      /\ y.hs.lane = x.hs.lane /\ y.hs.remain = i.to - i.from
      /\ ~x.hs.fp => y.lost = x.lost
  BY <1>0, <1>1, TakeFileOk, Counted(x, k + 1), i.to - i.from \in Int DEF k
<1> HIDE DEF y, a
<1>5. Fits(y.hs, a) /\ (~x.hs.lane => Neat(y.hs, "coming"))
  BY <1>3, <1>4 DEF Fits, Neat
<1> QED  BY <1>2, <1>4, <1>5, AnsweredOk DEF Words, k

\* A FILE in hand is closed again: the answer cannot use it.
LEMMA GiveUpOk ==
  ASSUME NEW x, NEW k \in Int, Counted(x, k + 1)
  PROVE  LET y == [x EXCEPT !.files = @ - 1]
         IN  Counted(y, k) /\ y.hs = x.hs /\ y.lost = x.lost
BY DEF Counted, States, Losses, One

\* A stream begins from what is counted and open.
LEMMA StreamOk ==
  ASSUME HttpPlayAssumption, Rest', NEW x, Counted(x, Cardinality(Holding)'),
         x.hs.att, x.hs.alive, past'.impatient \/ x.lost = Nothing,
         NEW mx \in {"live", "ts", "vod"}, NEW st \in {"streaming", "ws"}, NEW held \in Nat,
         Answered([x EXCEPT !.hs.mux = mx, !.hs.state = st], "coming", NoAnswer, held)
  PROVE  IInv'
<1> DEFINE y == [x EXCEPT !.hs.mux = mx, !.hs.state = st]
           h == [x.hs EXCEPT !.mux = mx, !.state = st]
           k == Cardinality(Holding)'
<1>1. x.hs \in SessionType
  BY DEF Counted, States
<1>2. /\ h \in SessionType /\ h.att /\ h.alive /\ h.mux = mx /\ h.state = st
      /\ h.lane = x.hs.lane /\ h.fp = x.hs.fp
  BY <1>1 DEF SessionType
<1>3. y = [x EXCEPT !.hs = h]
  BY DEF Counted, States
<1> HIDE DEF y, h
<1>4. Counted(y, k) /\ y.hs = h /\ y.lost = x.lost
  BY <1>2, <1>3 DEF Counted, States, One
<1>5. Fits(y.hs, NoAnswer) /\ Neat(y.hs, "coming")
  <2>1. NoAnswer \notin Answers
    BY Different
  <2> QED  BY <1>2, <1>4, <2>1 DEF Fits, Neat
<1>6. Answered(y, "coming", NoAnswer, held)
  BY DEF y
<1>7. "coming" \in Words
  BY DEF Words
<1> QED  BY <1>2, <1>4, <1>5, <1>6, <1>7, AnsweredOk

-----------------------------------------------------------------------------
(* What the poller does with a job's result.                               *)

LEMMA Mp4FinishOk ==
  ASSUME HttpPlayAssumption, Rest', NEW x, NEW req \in Requests,
         Counted(x, Cardinality(Holding)' + One(req.kind # "head")), x.hs.alive,
         past'.impatient \/ Free(x),
         NEW allowed \in BOOLEAN, NEW held \in Nat,
         Mp4Finish(x, req, allowed, held)
  PROVE  IInv'
<1> DEFINE y == IF req.kind = "record" THEN x ELSE Attach(x)
           k == Cardinality(Holding)'
           j == k + One(req.kind # "head")
<1>0. k \in Int /\ j \in Int
  BY RestHolding DEF One
<1>1. /\ Counted(y, j) /\ y.hs.fp = x.hs.fp /\ y.hs.lane = x.hs.lane /\ y.hs.alive
      /\ ~x.hs.att => y.lost = x.lost
  <2> HIDE DEF j
  <2> QED  BY <1>0, AttachOk, Counted(x, j) DEF j
<1> HIDE DEF y, k
<1>2. CASE req.kind # "record" /\ ~allowed
  <2>1. Complete(IF req.kind = "head" THEN x ELSE [x EXCEPT !.files = @ - 1], held)
    BY <1>2 DEF Mp4Finish
  <2>2. CASE req.kind = "head"
    <3>1. Counted(x, k)
      BY <1>0, <2>2 DEF One, k
    <3> QED  BY <2>1, <2>2, <3>1, CompleteOk DEF Free, k
  <2>3. CASE req.kind # "head"
    <3> DEFINE w == [x EXCEPT !.files = @ - 1]
    <3>1. Counted(x, k + 1)
      BY <2>3 DEF One, k
    <3>2. Counted(w, k) /\ w.hs = x.hs /\ w.lost = x.lost
      BY <1>0, <3>1, GiveUpOk
    <3>3. Complete(w, held)
      BY <2>1, <2>3
    <3> HIDE DEF w
    <3> QED  BY <3>2, <3>3, CompleteOk DEF Free, k
  <2> QED  BY <2>2, <2>3
<1>3. CASE req.kind = "head" /\ allowed
  <2>1. Complete(FileDone(y), held)
    BY <1>3 DEF Mp4Finish, y
  <2>2. Counted(FileDone(y), k) /\ FileDone(y).hs.alive /\ FileDone(y).lost = y.lost
    <3>1. Counted(y, k)
      BY <1>0, <1>1, <1>3 DEF One
    <3> QED  BY <1>0, <1>1, <3>1, FileDoneOk
  <2> QED  BY <1>1, <2>1, <2>2, CompleteOk DEF Free, Clean, k
<1>4. CASE ~(req.kind # "record" /\ ~allowed) /\ ~(req.kind = "head" /\ allowed)
  <2>1. Begin(y, req, Interval(req.range), held)
    BY <1>4 DEF Mp4Finish, y
  <2>2. Counted(y, k + 1)
    BY <1>1, <1>4 DEF One
  <2> QED  BY <1>1, <2>1, <2>2, BeginOk DEF Free, Clean, k
<1> QED  BY <1>2, <1>3, <1>4

LEMMA FlvFinishOk ==
  ASSUME HttpPlayAssumption, Rest', NEW x, NEW req \in Requests,
         Counted(x, Cardinality(Holding)' + 1), x.hs.alive, past'.impatient \/ Free(x),
         NEW allowed \in BOOLEAN, NEW held \in Nat,
         FlvFinish(x, req, allowed, held)
  PROVE  IInv'
<1> DEFINE k == Cardinality(Holding)'
           w == [x EXCEPT !.files = @ - 1]
<1>0. k \in Int /\ k + 1 \in Int
  BY RestHolding
<1> HIDE DEF k
<1>1. /\ Counted(Attach(x), k + 1) /\ Attach(x).hs.fp = x.hs.fp
      /\ Attach(x).hs.lane = x.hs.lane /\ Attach(x).hs.alive
      /\ ~x.hs.att => Attach(x).lost = x.lost
  BY <1>0, AttachOk DEF k
<1>2. CASE allowed
  <2>1. Begin(Attach(x), req, Interval(req.range), held)
    BY <1>2 DEF FlvFinish
  <2> QED  BY <1>1, <2>1, BeginOk DEF Free, Clean, k
<1>3. CASE ~allowed
  <2>1. Complete(w, held)
    BY <1>3 DEF FlvFinish
  <2>2. Counted(w, k) /\ w.hs = x.hs /\ w.lost = x.lost
    BY <1>0, GiveUpOk DEF k
  <2> HIDE DEF w
  <2> QED  BY <2>1, <2>2, CompleteOk DEF Free, k
<1> QED  BY <1>2, <1>3

LEMMA StaticFinishOk ==
  ASSUME HttpPlayAssumption, Rest', NEW x, NEW req \in Requests,
         Counted(x, Cardinality(Holding)' + 1), x.hs.alive, past'.impatient \/ Free(x),
         NEW known \in BOOLEAN, NEW allowed \in BOOLEAN, NEW held \in Nat,
         StaticFinish(x, req, known, allowed, held)
  PROVE  IInv'
<1> DEFINE y == IF known THEN Attach(x) ELSE x
           k == Cardinality(Holding)'
           w == [x EXCEPT !.files = @ - 1]
<1>0. k \in Int /\ k + 1 \in Int
  BY RestHolding
<1> HIDE DEF k
<1>1. /\ Counted(y, k + 1) /\ y.hs.fp = x.hs.fp /\ y.hs.lane = x.hs.lane /\ y.hs.alive
      /\ ~x.hs.att => y.lost = x.lost
  BY <1>0, AttachOk DEF k
<1>2. CASE known /\ ~allowed
  <2>1. Complete(w, held)
    BY <1>2 DEF StaticFinish
  <2>2. Counted(w, k) /\ w.hs = x.hs /\ w.lost = x.lost
    BY <1>0, GiveUpOk DEF k
  <2> HIDE DEF w
  <2> QED  BY <2>1, <2>2, CompleteOk DEF Free, k
<1>3. CASE ~(known /\ ~allowed)
  <2>1. Begin(y, req, Interval(req.range), held)
    BY <1>3 DEF StaticFinish
  <2> HIDE DEF y
  <2> QED  BY <1>1, <2>1, BeginOk DEF Free, Clean, k
<1> QED  BY <1>2, <1>3

LEMMA TranscodeOk ==
  ASSUME HttpPlayAssumption, Rest', NEW x, Counted(x, Cardinality(Holding)'), x.hs.alive,
         past'.impatient \/ Free(x),
         NEW opens \in BOOLEAN, NEW allowed \in BOOLEAN, NEW held \in Nat,
         Transcode(x, opens, allowed, held)
  PROVE  IInv'
<1> DEFINE y == TakeLane(x)
           k == Cardinality(Holding)'
<1>0. k \in Int
  BY RestHolding
<1> HIDE DEF k
<1>1. /\ Counted(y, k) /\ y.hs.att = x.hs.att /\ y.hs.alive /\ y.hs.mux = "vod"
      /\ ~x.hs.lane => y.lost = x.lost
  BY <1>0, TakeLaneOk DEF k
<1>2. /\ ~opens => Complete(x, held)
      /\ opens /\ ~allowed => Complete(y, held)
      /\ opens /\ allowed => Answered([Attach(y) EXCEPT !.hs.state = "streaming"],
                                      "coming", NoAnswer, held)
  BY DEF Transcode
<1> HIDE DEF y
<1>3. CASE opens /\ allowed
  <2> DEFINE z == Attach(y)
  <2>1. /\ Counted(z, k) /\ z.hs.att /\ z.hs.mux = "vod" /\ z.hs.alive
        /\ ~y.hs.att => z.lost = y.lost
    BY <1>0, <1>1, AttachOk
  <2> HIDE DEF z
  <2>2. [z EXCEPT !.hs.state = "streaming"] = [z EXCEPT !.hs.mux = "vod", !.hs.state = "streaming"]
    BY <2>1 DEF Counted, States, SessionType
  <2>3. Answered([z EXCEPT !.hs.state = "streaming"], "coming", NoAnswer, held)
    BY <1>2, <1>3 DEF z
  <2>4. Answered([z EXCEPT !.hs.mux = "vod", !.hs.state = "streaming"], "coming", NoAnswer, held)
    BY <2>2, <2>3
  <2> QED  BY <1>1, <2>1, <2>4, StreamOk DEF Free, Clean, k
<1>4. CASE ~opens
  BY <1>2, <1>4, CompleteOk DEF Free
<1>5. CASE opens /\ ~allowed
  BY <1>1, <1>2, <1>5, CompleteOk DEF Free, Clean, k
<1> QED  BY <1>3, <1>4, <1>5

-----------------------------------------------------------------------------
(* Requests.                                                               *)

\* What is asked of the session, and of the rest when no job is made.
Asking == /\ asks' = asks + 1
          /\ past' = [past EXCEPT !.impatient = @ \/ Overtakes]

LEMMA StoppedOk ==
  ASSUME HttpPlayAssumption, IInv, MayAsk, Asking
  PROVE  /\ Counted(Stopped, Cardinality(Holding)) /\ Cardinality(Holding) \in Int
         /\ Stopped.hs.alive /\ Held \in Nat
         /\ past'.impatient \/ (Free(Stopped) /\ Stopped.hs.state = "idle" /\ ~Overtakes)
         /\ past' \in Pasts /\ ~past'.touched /\ asks + 1 \in 1..MaxAsks
         /\ Stopped.hs.state = "file" => hs.state = "file" /\ Stopped.hs = hs
         /\ Stopped.hs.state \in {"streaming", "ws"} =>
              Stopped.hs.att /\ Stopped.hs.mux # "none"
<1> DEFINE k == Cardinality(Holding)
<1>1. Counted(Now, k) /\ Now.hs = hs /\ Now.lost = lost /\ hs.alive
  BY DEF IInv, MayAsk, Now
<1>2. Held \in Nat
  BY DEF IInv, Held
<1>3. k \in Int /\ past \in Pasts
  BY HoldingOk DEF IInv, Typed
<1>4. /\ past' \in Pasts /\ ~past'.touched
      /\ past'.impatient <=> past.impatient \/ Overtakes
  BY <1>3, <1>1 DEF Asking, Pasts, IInv
<1>5. asks + 1 \in 1..MaxAsks
  BY DEF IInv, Typed, MayAsk, HttpPlayAssumption
<1>6. ~past'.impatient =>
        ~burst /\ said # "complete" /\ Neat(hs, said) /\ lost = Nothing /\ ~Overtakes
  BY <1>1, <1>4 DEF Overtakes, IInv
<1> HIDE DEF k
<1>7. CASE Stays
  <2>1. Stopped = Now
    BY <1>7 DEF Stopped
  <2>2. ~past'.impatient => Free(Now) /\ hs.state = "idle"
    BY <1>1, <1>6, <1>7 DEF Stays, Neat, Free
  <2> QED  BY <1>1, <1>2, <1>3, <1>4, <1>5, <1>6, <2>1, <2>2 DEF IInv, Fits, k
<1>8. CASE ~Stays
  <2>1. Stopped = StopStream(Now)
    BY <1>8 DEF Stopped
  <2>2. /\ Stopped.lost = lost /\ Counted(Stopped, k) /\ Clean(Stopped.hs)
        /\ Stopped.hs.state = "idle" /\ Stopped.hs.alive
    BY <1>1, <1>3, <2>1, StopStreamOk
  <2> QED  BY <1>2, <1>3, <1>4, <1>5, <1>6, <2>2 DEF Free, k
<1> QED  BY <1>7, <1>8

LEMMA AskRest ==
  ASSUME HttpPlayAssumption, IInv, MayAsk, Asking, UNCHANGED jobs
  PROVE  Rest' /\ Cardinality(Holding)' = Cardinality(Holding)
<1>1. /\ past' \in Pasts /\ ~past'.touched /\ asks + 1 \in 1..MaxAsks
      /\ past'.impatient \/ ~Overtakes
  BY StoppedOk
<1>2. Typed /\ asks' = asks + 1
  BY DEF IInv, Asking
<1>3. Typed'
  BY <1>1, <1>2 DEF Typed
<1>4. ~past'.impatient => \A n \in 1..MaxAsks : jobs'[n] = NoJob
  BY <1>1 DEF Overtakes
<1>5. Holding' = Holding
  BY DEF Holding
<1> QED  BY <1>1, <1>3, <1>4, <1>5 DEF Rest

LEMMA AskFlvOk ==
  ASSUME HttpPlayAssumption, IInv, MayAsk, Asking, NEW req \in Requests, AskFlv(req)
  PROVE  IInv'
<1> DEFINE u == [Stopped EXCEPT !.hs.mux = "live"]
           x == Attach(u)
           st == IF req.kind = "ws" THEN "ws" ELSE "streaming"
           k == Cardinality(Holding)
<1>1. Rest' /\ Cardinality(Holding)' = k
  BY AskRest DEF AskFlv
<1>2. /\ Counted(Stopped, k) /\ k \in Int /\ Stopped.hs.alive /\ Held \in Nat
      /\ past'.impatient \/ Free(Stopped)
  BY StoppedOk
<1> HIDE DEF k
<1>3. /\ Counted(x, k) /\ x.hs.att /\ x.hs.alive /\ x.hs.mux = "live"
      /\ past'.impatient \/ x.lost = Nothing
  <2>1. /\ Counted(u, k) /\ u.hs.att = Stopped.hs.att /\ u.hs.alive /\ u.hs.mux = "live"
        /\ u.lost = Stopped.lost
    <3> DEFINE h == [Stopped.hs EXCEPT !.mux = "live"]
    <3>1. Stopped.hs \in SessionType
      BY <1>2 DEF Counted, States
    <3>2. /\ h \in SessionType /\ h.alive /\ h.mux = "live"
          /\ h.lane = Stopped.hs.lane /\ h.fp = Stopped.hs.fp /\ h.att = Stopped.hs.att
      BY <1>2, <3>1 DEF SessionType
    <3>3. u = [Stopped EXCEPT !.hs = h]
      BY <1>2 DEF Counted, States
    <3> HIDE DEF u, h
    <3> QED  BY <1>2, <3>2, <3>3 DEF Counted, States, One
  <2> HIDE DEF u
  <2> QED  BY <1>2, <2>1, AttachOk DEF Free, Clean
<1>4. \/ Complete(Stopped, Held)
      \/ Complete(x, Held)
      \/ Answered([x EXCEPT !.hs.state = st], "coming", NoAnswer, Held)
  BY DEF AskFlv
<1>5. st \in {"streaming", "ws"}
  OBVIOUS
<1> HIDE DEF x, st
<1>6. [x EXCEPT !.hs.state = st] = [x EXCEPT !.hs.mux = "live", !.hs.state = st]
  BY <1>3 DEF Counted, States, SessionType
<1>7. CASE Answered([x EXCEPT !.hs.state = st], "coming", NoAnswer, Held)
  <2>1. Answered([x EXCEPT !.hs.mux = "live", !.hs.state = st], "coming", NoAnswer, Held)
    BY <1>6, <1>7
  <2> QED  BY <1>1, <1>2, <1>3, <1>5, <2>1, StreamOk
<1>8. CASE Complete(Stopped, Held)
  BY <1>1, <1>2, <1>8, CompleteOk DEF Free
<1>9. CASE Complete(x, Held)
  BY <1>1, <1>2, <1>3, <1>9, CompleteOk
<1> QED  BY <1>4, <1>7, <1>8, <1>9

LEMMA AskTsOk ==
  ASSUME HttpPlayAssumption, IInv, MayAsk, Asking, NEW req \in Requests, AskTs(req)
  PROVE  IInv'
<1> DEFINE x == Attach(Stopped)
           k == Cardinality(Holding)
<1>1. Rest' /\ Cardinality(Holding)' = k
  BY AskRest DEF AskTs
<1>2. /\ Counted(Stopped, k) /\ k \in Int /\ Stopped.hs.alive /\ Held \in Nat
      /\ past'.impatient \/ Free(Stopped)
  BY StoppedOk
<1> HIDE DEF k
<1>3. /\ Counted(x, k) /\ x.hs.att /\ x.hs.alive
      /\ past'.impatient \/ x.lost = Nothing
  BY <1>2, AttachOk DEF Free, Clean
<1>4. \/ Complete(Stopped, Held)
      \/ Answered([x EXCEPT !.hs.mux = "ts", !.hs.state = "streaming"], "coming", NoAnswer, Held)
  BY DEF AskTs
<1> HIDE DEF x
<1>5. CASE Complete(Stopped, Held)
  BY <1>1, <1>2, <1>5, CompleteOk DEF Free
<1> QED  BY <1>1, <1>2, <1>3, <1>4, <1>5, StreamOk

LEMMA EnqueueOk ==
  ASSUME HttpPlayAssumption, IInv, MayAsk, Asking, NEW req \in Requests,
         NEW step \in {"open", "static", "cache", "m3u8", "seg"}, Enqueue(req, step),
         step \in {"static", "seg"} => req.kind = "seg"
  PROVE  IInv'
<1> DEFINE k == Cardinality(Holding)
           n == asks + 1
           j == Queued(req, step)
<1>1. /\ Counted(Stopped, k) /\ k \in Int /\ Stopped.hs.alive /\ Held \in Nat
      /\ past'.impatient \/ (Free(Stopped) /\ Stopped.hs.state = "idle" /\ ~Overtakes)
      /\ past' \in Pasts /\ ~past'.touched /\ n \in 1..MaxAsks
      /\ Stopped.hs.state = "file" => hs.state = "file" /\ Stopped.hs = hs
      /\ Stopped.hs.state \in {"streaming", "ws"} => Stopped.hs.att /\ Stopped.hs.mux # "none"
  BY StoppedOk
<1>2. /\ jobs' = [jobs EXCEPT ![n] = j] /\ pending' = Held /\ said' = "nothing"
      /\ answer' = IF Stopped.hs.state = "file" THEN answer ELSE NoAnswer
      /\ hs' = Stopped.hs /\ readers' = Stopped.readers /\ lanes' = Stopped.lanes
      /\ files' = Stopped.files /\ lost' = Stopped.lost /\ asks' = asks + 1
  BY DEF Enqueue, Become, Asking
<1>3. Now' = Stopped
  BY <1>1, <1>2 DEF Now, Counted, States
<1>4. j \in Jobs /\ ~HoldsFile(j) /\ j.kind = step /\ j.req = req
  BY DEF Queued, Jobs, HoldsFile
<1>5. Typed /\ jobs[n] = NoJob /\ ~HoldsFile(jobs[n])
  BY <1>1 DEF IInv, Typed, HoldsFile, NoJob
<1>6. Cardinality(Holding)' = k
  <2>1. k \in Int /\ Cardinality(Holding)' = k - One(HoldsFile(jobs[n])) + One(HoldsFile(j))
    BY <1>1, <1>2, <1>5, HoldingChange
  <2>2. One(HoldsFile(jobs[n])) = 0 /\ One(HoldsFile(j)) = 0
    BY <1>4, <1>5 DEF One
  <2> QED  BY <2>1, <2>2
<1> HIDE DEF k, j
<1>7. Typed' /\ \A m \in 1..MaxAsks : m # n => jobs'[m] = jobs[m]
  <2>1. /\ jobs' \in Slots /\ jobs'[n] = j
        /\ \A m \in 1..MaxAsks : m # n => jobs'[m] = jobs[m]
    BY <1>1, <1>2, <1>4, <1>5 DEF Typed, Slots
  <2> QED  BY <1>1, <1>2, <1>4, <1>5, <2>1 DEF Typed
<1>8. Fits(hs', answer')
  <2>1. NoAnswer \notin Answers
    BY Different
  <2>2. CASE Stopped.hs.state = "file"
    BY <1>1, <1>2, <2>2 DEF IInv
  <2>3. CASE Stopped.hs.state # "file"
    BY <1>1, <1>2, <2>1, <2>3 DEF Fits
  <2> QED  BY <2>2, <2>3
<1>9. ~past'.impatient => Neat(hs', said') /\ Waiting' /\ lost' = Nothing
  <2> SUFFICES ASSUME ~past'.impatient
               PROVE  Neat(hs', said') /\ Waiting' /\ lost' = Nothing
    OBVIOUS
  <2>1. Free(Stopped) /\ Stopped.hs.state = "idle" /\ \A m \in 1..MaxAsks : jobs[m] = NoJob
    BY <1>1 DEF Overtakes
  <2> QED  BY <1>2, <1>7, <2>1 DEF Free, Neat, Waiting
<1>10. said' \in Words
  BY <1>2 DEF Words
<1>11. Counted(Now, Cardinality(Holding))'
  BY <1>1, <1>3, <1>6
<1> QED  BY <1>1, <1>2, <1>7, <1>8, <1>9, <1>10, <1>11 DEF IInv

LEMMA AskOtherOk ==
  ASSUME HttpPlayAssumption, IInv, MayAsk, Asking, NEW req \in Requests, AskOther(req)
  PROVE  IInv'
<1> DEFINE x == [Stopped EXCEPT !.files = @ + 1]
           k == Cardinality(Holding)
<1>1. Rest' /\ Cardinality(Holding)' = k
  BY AskRest DEF AskOther
<1>2. /\ Counted(Stopped, k) /\ k \in Int /\ Stopped.hs.alive /\ Held \in Nat
      /\ past'.impatient \/ Free(Stopped)
  BY StoppedOk
<1> HIDE DEF k
<1>3. Counted(x, k + 1) /\ x.hs = Stopped.hs /\ x.lost = Stopped.lost
  BY <1>2 DEF Counted, States, Losses, One
<1>4. Begin(x, req, Interval(req.range), Held) \/ Complete(Stopped, Held)
  BY DEF AskOther
<1> HIDE DEF x
<1>5. CASE Begin(x, req, Interval(req.range), Held)
  BY <1>1, <1>2, <1>3, <1>5, BeginOk DEF Free, Clean
<1>6. CASE Complete(Stopped, Held)
  BY <1>1, <1>2, <1>6, CompleteOk DEF Free
<1> QED  BY <1>4, <1>5, <1>6

LEMMA AskOk ==
  ASSUME HttpPlayAssumption, IInv, NEW req \in Requests, Ask(req)
  PROVE  IInv'
<1>1. MayAsk /\ Asking
  BY DEF Ask, Asking
<1>2. CASE AskFlv(req)
  BY <1>1, <1>2, AskFlvOk
<1>3. CASE AskTs(req)
  BY <1>1, <1>3, AskTsOk
<1>4. CASE AskVodFlv(req) \/ AskMp4(req)
  <2>1. Enqueue(req, "open") \/ Enqueue(req, "cache")
    BY <1>4 DEF AskVodFlv, AskMp4
  <2> QED  BY <1>1, <2>1, EnqueueOk
<1>5. CASE AskHls(req)
  <2>1. \/ Enqueue(req, "m3u8")
        \/ req.kind = "seg" /\ (Enqueue(req, "static") \/ Enqueue(req, "seg"))
        \/ Complete(Stopped, Held) /\ UNCHANGED jobs
    BY <1>5 DEF AskHls
  <2>2. CASE Complete(Stopped, Held) /\ UNCHANGED jobs
    <3>1. Rest' /\ Cardinality(Holding)' = Cardinality(Holding)
      BY <1>1, <2>2, AskRest
    <3>2. /\ Counted(Stopped, Cardinality(Holding)) /\ Stopped.hs.alive /\ Held \in Nat
          /\ past'.impatient \/ Free(Stopped)
      BY <1>1, StoppedOk
    <3> QED  BY <2>2, <3>1, <3>2, CompleteOk DEF Free
  <2> QED  BY <1>1, <2>1, <2>2, EnqueueOk
<1>6. CASE AskOther(req)
  BY <1>1, <1>6, AskOtherOk
<1> QED  BY <1>2, <1>3, <1>4, <1>5, <1>6 DEF Ask

-----------------------------------------------------------------------------
(* Jobs.                                                                   *)

\* The blocking part: a FILE may be open now that the session has not got.
LEMMA RunOk ==
  ASSUME HttpPlayAssumption, IInv, NEW n \in 1..MaxAsks, NEW step, NEW ok \in BOOLEAN,
         step # "none", Run(n, step, ok),
         files' = files + One(step \in {"open", "static"} /\ ok /\ jobs[n].req.kind # "head")
  PROVE  IInv'
<1> DEFINE j == [jobs[n] EXCEPT !.at = "io", !.ok = ok]
           k == Cardinality(Holding)
<1>1. /\ jobs[n].kind = step /\ jobs[n].at = "pool"
      /\ jobs' = [jobs EXCEPT ![n].at = "io", ![n].ok = ok]
      /\ UNCHANGED <<hs, readers, lanes, lost, answer, pending, said, asks, burst, past>>
  BY DEF Run
<1>2. Typed /\ jobs[n] \in Jobs /\ ~HoldsFile(jobs[n])
  BY <1>1 DEF IInv, Typed, Slots, HoldsFile, NoJob
<1>3. jobs' = [jobs EXCEPT ![n] = j]
  BY <1>1, <1>2 DEF Typed, Slots
<1>4. j \in Jobs /\ j.at = "io" /\ j.ok = ok /\ j.kind = step /\ j.req = jobs[n].req
  BY <1>1, <1>2 DEF Jobs
<1> HIDE DEF j
<1>5. HoldsFile(j) <=> step \in {"open", "static"} /\ ok /\ jobs[n].req.kind # "head"
  BY <1>4 DEF HoldsFile
<1>6. k \in Int /\ Cardinality(Holding)' = k + One(HoldsFile(j))
  <2>1. k \in Int /\ Cardinality(Holding)' = k - One(HoldsFile(jobs[n])) + One(HoldsFile(j))
    BY <1>2, <1>3, HoldingChange
  <2>2. One(HoldsFile(jobs[n])) = 0 /\ One(HoldsFile(j)) \in Int
    BY <1>2 DEF One
  <2> QED  BY <2>1, <2>2
<1>7. Counted(Now, k)
  BY DEF IInv
<1> HIDE DEF k
<1>8. files' = files + One(HoldsFile(j))
  BY <1>5 DEF One
<1>9. Counted(Now', k + One(HoldsFile(j)))
  <2>1. One(HoldsFile(j)) \in Int
    BY DEF One
  <2> QED  BY <1>1, <1>6, <1>7, <1>8, <2>1 DEF Counted, Now, States, Losses, One
<1>10. Counted(Now, Cardinality(Holding))'
  BY <1>6, <1>9
<1>11. /\ jobs' \in Slots /\ jobs'[n] = j
       /\ \A m \in 1..MaxAsks : m # n => jobs'[m] = jobs[m]
  BY <1>2, <1>3, <1>4 DEF Typed, Slots
<1>12. jobs[n] # NoJob
  BY <1>2, Different
<1>13. Typed'
  <2>1. \A m \in 1..MaxAsks : m > asks' => jobs'[m] = NoJob
    BY <1>1, <1>2, <1>11, <1>12 DEF Typed
  <2>2. \A m \in 1..MaxAsks :
          jobs'[m].kind \in {"static", "seg"} => jobs'[m].req.kind = "seg"
    <3>1. jobs'[n].kind = jobs[n].kind /\ jobs'[n].req = jobs[n].req
      BY <1>1, <1>4, <1>11
    <3> QED  BY <1>2, <1>11, <3>1 DEF Typed
  <2> QED  BY <1>1, <1>2, <1>11, <2>1, <2>2 DEF Typed
<1>14. Waiting => Waiting'
  BY <1>1, <1>11, <1>12 DEF Waiting
<1> QED  BY <1>1, <1>10, <1>13, <1>14 DEF IInv

LEMMA BlockingOk ==
  ASSUME HttpPlayAssumption, IInv, NEW n \in 1..MaxAsks, NEW ok \in BOOLEAN,
         \/ OpenRun(n, ok) \/ StaticRun(n, ok) \/ MakeRun(n, "cache", ok)
         \/ MakeRun(n, "m3u8", ok) \/ MakeRun(n, "seg", ok)
  PROVE  IInv'
<1>1. files \in Int
  BY DEF IInv, Counted, Now, States
<1>2. CASE OpenRun(n, ok)
  BY <1>1, <1>2, RunOk DEF OpenRun, One
<1>3. CASE StaticRun(n, ok)
  <2>1. Run(n, "static", ok) /\ files' = IF ok THEN files + 1 ELSE files
    BY <1>3 DEF StaticRun
  <2>2. jobs[n].req.kind # "head"
    BY <2>1 DEF Run, IInv, Typed
  <2> QED  BY <1>1, <2>1, <2>2, RunOk DEF One
<1>4. ASSUME NEW step \in {"cache", "m3u8", "seg"}, MakeRun(n, step, ok)
      PROVE  IInv'
  BY <1>1, <1>4, RunOk DEF MakeRun, One
<1> QED  BY <1>2, <1>3, <1>4

\* What a finishing job finds, and the FILE it hands over.
LEMMA FinishHas ==
  ASSUME IInv, NEW n \in 1..MaxAsks, jobs[n] # NoJob, jobs[n].at = "io"
  PROVE  /\ jobs[n] \in Jobs /\ jobs[n].req \in Requests /\ pending \in Nat /\ Now.hs = hs
         /\ Counted(Now, Cardinality(Holding)) /\ Typed
         /\ hs.alive => ~past.touched /\ (past.impatient \/ Free(Now))
         /\ jobs[n].kind = "open" =>
              (HoldsFile(jobs[n]) <=> jobs[n].ok /\ jobs[n].req.kind # "head")
         /\ jobs[n].kind = "static" => (HoldsFile(jobs[n]) <=> jobs[n].ok)
         /\ jobs[n].kind \notin {"open", "static"} => ~HoldsFile(jobs[n])
<1>1. jobs[n] \in Jobs /\ jobs[n].req \in Requests
  BY DEF IInv, Typed, Slots, Jobs
<1>2. HoldsFile(jobs[n]) <=> jobs[n].kind \in {"open", "static"} /\ jobs[n].ok
                              /\ jobs[n].req.kind # "head"
  BY DEF HoldsFile
<1>3. jobs[n].kind = "static" => jobs[n].req.kind # "head"
  BY DEF IInv, Typed
<1>4. hs.alive /\ ~past.impatient => Clean(hs) /\ lost = Nothing
  BY DEF IInv, Waiting, Neat
<1>5. Now.hs = hs /\ Now.lost = lost
  BY DEF Now
<1> QED  BY <1>1, <1>2, <1>3, <1>4, <1>5 DEF IInv, Free

LEMMA TooLateOk ==
  ASSUME HttpPlayAssumption, IInv, NEW n \in 1..MaxAsks, jobs[n] # NoJob, jobs[n].at = "io",
         JobTooLate(n), UNCHANGED asks
  PROVE  IInv'
<1> DEFINE k == Cardinality(Holding)
           o == One(HoldsFile(jobs[n]))
<1>1. /\ ~hs.alive /\ Drop(n)
      /\ UNCHANGED <<hs, readers, lanes, answer, pending, said>>
      /\ \/ files' = files - o /\ UNCHANGED <<lost, past>>
         \/ /\ lost' = [lost EXCEPT !.files = @ + o]
            /\ past' = [past EXCEPT !.touched = TRUE] /\ UNCHANGED files
  BY DEF JobTooLate
<1>2. Counted(Now, k) /\ Typed /\ o \in Int
  BY DEF IInv, One
<1>3. /\ jobs' = [jobs EXCEPT ![n] = NoJob] /\ ~HoldsFile(NoJob)
  BY <1>1 DEF Drop, HoldsFile, NoJob
<1>4. k \in Int /\ Cardinality(Holding)' = k - o
  <2>1. k \in Int /\ Cardinality(Holding)' = k - o + One(HoldsFile(NoJob))
    BY <1>2, <1>3, HoldingChange
  <2>2. One(HoldsFile(NoJob)) = 0
    BY <1>3 DEF One
  <2> QED  BY <1>2, <2>1, <2>2
<1>5. /\ jobs' \in Slots /\ jobs'[n] = NoJob
      /\ \A m \in 1..MaxAsks : m # n => jobs'[m] = jobs[m]
  BY <1>2, <1>3 DEF Typed, Slots
<1> HIDE DEF k, o
<1>6. /\ Counted(Now', k - o) /\ past' \in Pasts
      /\ past'.impatient = past.impatient
      /\ lost' = Nothing \/ past'.impatient \/ past'.touched
  <2>1. past \in Pasts /\ lost \in Losses
    BY <1>2 DEF Typed, Counted, Now, States
  <2>2. CASE files' = files - o /\ UNCHANGED <<lost, past>>
    BY <1>1, <1>2, <1>4, <2>1, <2>2 DEF Counted, Now, States, One, IInv, Losses
  <2>3. CASE /\ lost' = [lost EXCEPT !.files = @ + o]
             /\ past' = [past EXCEPT !.touched = TRUE] /\ UNCHANGED files
    <3>1. /\ lost' \in Losses /\ lost'.files = lost.files + o
          /\ lost'.readers = lost.readers /\ lost'.lanes = lost.lanes
      BY <1>2, <2>1, <2>3 DEF Losses
    <3>2. past' \in Pasts /\ past'.touched /\ past'.impatient = past.impatient
      BY <2>1, <2>3 DEF Pasts
    <3> QED  BY <1>1, <1>2, <1>4, <2>1, <2>3, <3>1, <3>2
             DEF Counted, Now, States, One, Losses
  <2> QED  BY <1>1, <2>2, <2>3
<1>7. Typed'
  BY <1>2, <1>5, <1>6 DEF Typed, NoJob
<1>8. Waiting => Waiting'
  BY <1>1, <1>5 DEF Waiting
<1>9. Counted(Now, Cardinality(Holding))'
  BY <1>4, <1>6
<1> QED  BY <1>1, <1>6, <1>7, <1>8, <1>9 DEF IInv

LEMMA GoOnOk ==
  ASSUME HttpPlayAssumption, IInv, NEW n \in 1..MaxAsks, jobs[n] # NoJob, jobs[n].at = "io",
         NEW step \in {"open", "static"}, GoOn(n, step), UNCHANGED <<asks, past>>,
         jobs[n].kind \in {"cache", "seg"}, step = "static" => jobs[n].kind = "seg"
  PROVE  IInv'
<1> DEFINE j == Queued(jobs[n].req, step)
           k == Cardinality(Holding)
<1>1. /\ jobs' = [jobs EXCEPT ![n] = j]
      /\ UNCHANGED <<hs, readers, lanes, files, lost, answer, pending, said>>
  BY DEF GoOn
<1>2. jobs[n].req \in Requests /\ Counted(Now, k) /\ Typed /\ ~HoldsFile(jobs[n])
  BY FinishHas
<1>3. /\ j \in Jobs /\ ~HoldsFile(j) /\ j.kind = step /\ j.req = jobs[n].req
  BY <1>2 DEF Queued, Jobs, HoldsFile
<1>4. Cardinality(Holding)' = k
  <2>1. k \in Int /\ Cardinality(Holding)' = k - One(HoldsFile(jobs[n])) + One(HoldsFile(j))
    BY <1>1, <1>2, HoldingChange
  <2>2. One(HoldsFile(jobs[n])) = 0 /\ One(HoldsFile(j)) = 0
    BY <1>2, <1>3 DEF One
  <2> QED  BY <2>1, <2>2
<1> HIDE DEF j, k
<1>5. /\ jobs' \in Slots /\ jobs'[n] = j
      /\ \A m \in 1..MaxAsks : m # n => jobs'[m] = jobs[m]
  BY <1>1, <1>2, <1>3 DEF Typed, Slots
<1>6. Typed'
  BY <1>2, <1>3, <1>5 DEF Typed
<1>7. Waiting => Waiting'
  BY <1>1, <1>5 DEF Waiting
<1>8. Counted(Now, Cardinality(Holding))'
  BY <1>1, <1>2, <1>4 DEF Now
<1> QED  BY <1>1, <1>6, <1>7, <1>8 DEF IInv

LEMMA JobFinishOk ==
  ASSUME HttpPlayAssumption, IInv, NEW n \in 1..MaxAsks, JobFinish(n)
  PROVE  IInv'
<1> DEFINE job == jobs[n]
           k == Cardinality(Holding)'
<1>1. job # NoJob /\ job.at = "io" /\ UNCHANGED asks
  BY DEF JobFinish
<1>2. /\ job \in Jobs /\ job.req \in Requests /\ pending \in Nat /\ Now.hs = hs
      /\ Counted(Now, Cardinality(Holding)) /\ Typed
      /\ hs.alive => ~past.touched /\ (past.impatient \/ Free(Now))
      /\ job.kind = "open" => (HoldsFile(job) <=> job.ok /\ job.req.kind # "head")
      /\ job.kind = "static" => (HoldsFile(job) <=> job.ok)
      /\ job.kind \notin {"open", "static"} => ~HoldsFile(job)
  BY <1>1, FinishHas
<1> HIDE DEF job, k
<1>3. CASE ~hs.alive
  BY <1>1, <1>3, TooLateOk DEF JobFinish, job
<1>4. CASE hs.alive
  <2>1. PICK allowed \in BOOLEAN, known \in BOOLEAN, opens \in BOOLEAN :
          /\ job.kind = "open" => OpenFinish(n, allowed)
          /\ job.kind = "static" => StaticOpenFinish(n, known, allowed)
          /\ job.kind = "cache" => CacheFinish(n, opens, allowed)
          /\ job.kind = "m3u8" => M3u8Finish(n, known, allowed)
          /\ job.kind = "seg" => SegFinish(n)
    BY <1>4 DEF JobFinish, job
  <2>2. UNCHANGED past /\ Now.hs.alive /\ (past'.impatient \/ Free(Now))
    BY <1>2, <1>4 DEF JobFinish
  <2>3. Drop(n) => /\ Rest' /\ k \in Int
                   /\ Counted(Now, k + One(HoldsFile(job)))
    <3> SUFFICES ASSUME Drop(n)
                 PROVE  /\ Rest' /\ k \in Int /\ Counted(Now, k + One(HoldsFile(job)))
      OBVIOUS
    <3>1. /\ Typed' /\ jobs'[n] = NoJob
          /\ \A m \in 1..MaxAsks : m # n => jobs'[m] = jobs[m]
          /\ k \in Int /\ Cardinality(Holding) = k + One(HoldsFile(job))
      BY <1>1, <1>2, <2>2, DropOk DEF job, k
    <3>2. ~past'.impatient => \A m \in 1..MaxAsks : jobs'[m] = NoJob
      BY <1>1, <2>2, <3>1 DEF IInv, Waiting, job
    <3> QED  BY <1>2, <1>4, <2>2, <3>1, <3>2 DEF Rest
  <2>4. CASE job.kind = "open"
    <3>0. Drop(n)
      BY <2>1, <2>4 DEF OpenFinish
    <3>1. CASE ~job.ok
      <4>1. Counted(Now, k)
        BY <1>2, <2>3, <2>4, <3>0, <3>1 DEF One
      <4>2. Complete(Now, pending)
        BY <2>1, <2>4, <3>1 DEF OpenFinish, job
      <4> QED  BY <1>2, <2>2, <2>3, <3>0, <4>1, <4>2, CompleteOk DEF Free, k
    <3>2. CASE job.ok /\ job.req.kind \in {"vod-flv", "cached-flv"}
      <4>1. Counted(Now, k + 1)
        BY <1>2, <2>3, <2>4, <3>0, <3>2 DEF One
      <4>2. FlvFinish(Now, job.req, allowed, pending)
        BY <2>1, <2>4, <3>2 DEF OpenFinish, job
      <4> QED  BY <1>2, <2>2, <2>3, <3>0, <4>1, <4>2, FlvFinishOk DEF k
    <3>3. CASE job.ok /\ job.req.kind \notin {"vod-flv", "cached-flv"}
      <4>1. Counted(Now, k + One(job.req.kind # "head"))
        <5>1. HoldsFile(job) <=> job.req.kind # "head"
          BY <1>2, <2>4, <3>3
        <5>2. One(HoldsFile(job)) = One(job.req.kind # "head")
          BY <5>1 DEF One
        <5> QED  BY <2>3, <3>0, <5>2
      <4>2. Mp4Finish(Now, job.req, allowed, pending)
        BY <2>1, <2>4, <3>3 DEF OpenFinish, job
      <4> QED  BY <1>2, <2>2, <2>3, <3>0, <4>1, <4>2, Mp4FinishOk DEF k
    <3> QED  BY <3>1, <3>2, <3>3
  <2>5. CASE job.kind = "static"
    <3>1. Drop(n)
      BY <2>1, <2>5 DEF StaticOpenFinish
    <3>2. CASE job.ok
      <4>1. Counted(Now, k + 1)
        BY <1>2, <2>3, <2>5, <3>1, <3>2 DEF One
      <4>2. StaticFinish(Now, job.req, known, allowed, pending)
        BY <2>1, <2>5, <3>2 DEF StaticOpenFinish, job
      <4> QED  BY <1>2, <2>2, <2>3, <3>1, <4>1, <4>2, StaticFinishOk DEF k
    <3>3. CASE ~job.ok
      <4>1. Counted(Now, k)
        BY <1>2, <2>3, <2>5, <3>1, <3>3 DEF One
      <4>2. Complete(Now, pending)
        BY <2>1, <2>5, <3>3 DEF StaticOpenFinish, job
      <4> QED  BY <1>2, <2>2, <2>3, <3>1, <4>1, <4>2, CompleteOk DEF Free, k
    <3> QED  BY <3>2, <3>3
  <2>6. CASE job.kind = "cache"
    <3>1. CASE job.ok
      <4>1. GoOn(n, "open")
        BY <2>1, <2>6, <3>1 DEF CacheFinish, job
      <4> QED  BY <1>1, <2>2, <2>6, <4>1, GoOnOk DEF job
    <3>2. CASE ~job.ok
      <4>1. Drop(n) /\ Transcode(Now, opens, allowed, pending)
        BY <2>1, <2>6, <3>2 DEF CacheFinish, job
      <4>2. Counted(Now, k)
        BY <1>2, <2>3, <2>6, <4>1 DEF One
      <4> QED  BY <1>2, <2>2, <2>3, <4>1, <4>2, TranscodeOk DEF k
    <3> QED  BY <3>1, <3>2
  <2>7. CASE job.kind = "m3u8"
    <3> DEFINE x == IF job.ok THEN AttachPlay(Now, known, allowed) ELSE Now
    <3>1. Drop(n) /\ Complete(x, pending)
      BY <2>1, <2>7 DEF M3u8Finish, job
    <3>2. Rest' /\ k \in Int /\ Counted(Now, k)
      BY <1>2, <2>3, <2>7, <3>1 DEF One
    <3>3. Counted(x, k) /\ x.hs.alive /\ (past'.impatient \/ x.lost = Nothing)
      BY <1>2, <2>2, <3>2, AttachOk DEF AttachPlay, Free, Clean
    <3> HIDE DEF x
    <3> QED  BY <1>2, <3>1, <3>2, <3>3, CompleteOk DEF k
  <2>8. CASE job.kind = "seg"
    <3>1. CASE job.ok
      <4>1. GoOn(n, "static")
        BY <2>1, <2>8, <3>1 DEF SegFinish, job
      <4> QED  BY <1>1, <2>2, <2>8, <4>1, GoOnOk DEF job
    <3>2. CASE ~job.ok
      <4>1. Drop(n) /\ Complete(Now, pending)
        BY <2>1, <2>8, <3>2 DEF SegFinish, job
      <4>2. Counted(Now, k)
        BY <1>2, <2>3, <2>8, <4>1 DEF One
      <4> QED  BY <1>2, <2>2, <2>3, <4>1, <4>2, CompleteOk DEF Free, k
    <3> QED  BY <3>1, <3>2
  <2> QED  BY <1>2, <2>4, <2>5, <2>6, <2>7, <2>8 DEF Jobs
<1> QED  BY <1>3, <1>4

-----------------------------------------------------------------------------
(* The poller and the client.                                              *)

LEMMA ManagerOk ==
  ASSUME HttpPlayAssumption, IInv, Manager
  PROVE  IInv'
<1>1. /\ hs.alive /\ hs.state = "file" /\ UNCHANGED <<jobs, asks, past>>
      /\ Answered(Now, said, answer, pending)
  BY DEF Manager
<1>2. Holding' = Holding /\ Now.hs = hs /\ Now.lost = lost
  BY <1>1 DEF Holding, Now
<1>3. /\ said \in Words /\ pending \in Nat /\ Fits(Now.hs, answer)
      /\ Counted(Now, Cardinality(Holding)')
  BY <1>2 DEF IInv
<1>4. Rest'
  <2>1. Typed'
    BY <1>1 DEF IInv, Typed
  <2> QED  BY <1>1, <2>1 DEF IInv, Rest, Waiting
<1>5. past'.impatient \/ (Neat(Now.hs, said) /\ Now.lost = Nothing)
  BY <1>1, <1>2 DEF IInv
<1> QED  BY <1>1, <1>2, <1>3, <1>4, <1>5, AnsweredOk

LEMMA WsCloseOk ==
  ASSUME HttpPlayAssumption, IInv, WsClose
  PROVE  IInv'
<1> DEFINE z == StopStream(Now)
           k == Cardinality(Holding)
<1>1. /\ hs.alive /\ hs.state = "ws" /\ UNCHANGED <<jobs, asks, past>>
      /\ Become(z) /\ pending' = 0 /\ answer' = NoAnswer /\ said' = "complete"
  BY DEF WsClose
<1>2. Counted(Now, k) /\ k \in Int /\ Now.hs.alive /\ Now.lost = lost
  BY <1>1, HoldingOk DEF IInv, Now
<1> HIDE DEF k
<1>3. /\ Counted(z, k) /\ Clean(z.hs) /\ z.hs.state = "idle" /\ z.hs.alive /\ z.lost = lost
  BY <1>2, StopStreamOk
<1> HIDE DEF z
<1>4. Now' = z /\ hs' = z.hs /\ lost' = lost
  BY <1>1, <1>3 DEF Become, Now, Counted, States
<1>5. Holding' = Holding
  BY <1>1 DEF Holding
<1>6. Counted(Now, Cardinality(Holding))'
  BY <1>3, <1>4, <1>5 DEF k
<1>7. ~past.impatient => Neat(hs', said') /\ Waiting'
  BY <1>1, <1>3, <1>4 DEF IInv, Waiting, Neat
<1>8. Fits(hs', answer') /\ said' \in Words
  BY <1>1, <1>3, <1>4, Different DEF Fits, Words
<1>9. Typed'
  BY <1>1 DEF IInv, Typed
<1> QED  BY <1>1, <1>3, <1>4, <1>6, <1>7, <1>8, <1>9 DEF IInv

LEMMA HangupOk ==
  ASSUME HttpPlayAssumption, IInv, Hangup
  PROVE  IInv'
<1> DEFINE z == PlayTeardown(CloseFile(Now))
           y == [z EXCEPT !.hs.alive = FALSE, !.hs.state = "idle"]
           k == Cardinality(Holding)
<1>1. /\ hs.alive /\ Become(y) /\ pending' = 0 /\ answer' = NoAnswer
      /\ UNCHANGED <<jobs, said, asks, past>>
  BY DEF Hangup
<1>2. Counted(Now, k) /\ k \in Int /\ Now.lost = lost
  BY HoldingOk DEF IInv, Now
<1> HIDE DEF k
<1>3. Counted(z, k) /\ Clean(z.hs) /\ z.lost = lost
  BY <1>2, CloseFileOk, PlayTeardownOk DEF Clean
<1> HIDE DEF z
<1>4. Counted(y, k) /\ Clean(y.hs) /\ y.hs.state = "idle" /\ ~y.hs.alive /\ y.lost = lost
  <2> DEFINE h == [z.hs EXCEPT !.alive = FALSE, !.state = "idle"]
  <2>1. z.hs \in SessionType
    BY <1>3 DEF Counted, States
  <2>2. /\ h \in SessionType /\ h.state = "idle" /\ ~h.alive
        /\ h.lane = z.hs.lane /\ h.att = z.hs.att /\ h.fp = z.hs.fp
    BY <2>1 DEF SessionType
  <2>3. y = [z EXCEPT !.hs = h]
    BY <1>3 DEF Counted, States
  <2> HIDE DEF y, h
  <2> QED  BY <1>3, <2>2, <2>3 DEF Counted, Clean, States
<1> HIDE DEF y
<1>5. Now' = y /\ hs' = y.hs /\ lost' = lost
  BY <1>1, <1>4 DEF Become, Now, Counted, States
<1>6. Holding' = Holding
  BY <1>1 DEF Holding
<1>7. Counted(Now, Cardinality(Holding))'
  BY <1>4, <1>5, <1>6 DEF k
<1>8. Fits(hs', answer')
  BY <1>1, <1>4, <1>5, Different DEF Fits
<1>9. Typed'
  BY <1>1 DEF IInv, Typed
<1>10. ~past'.impatient => Neat(hs', said') /\ Waiting'
  BY <1>1, <1>4, <1>5 DEF IInv, Waiting, Neat
<1> QED  BY <1>1, <1>4, <1>5, <1>7, <1>8, <1>9, <1>10 DEF IInv

LEMMA InitIInv ==
  ASSUME HttpPlayAssumption, Init
  PROVE  IInv
<1>1. /\ \A n \in 1..MaxAsks : jobs[n] = NoJob /\ ~HoldsFile(jobs[n])
      /\ NoAnswer \notin Answers
  BY Different DEF Init, HoldsFile, NoJob
<1>2. Holding = {}
  BY <1>1 DEF Holding
<1>3. Cardinality(Holding) = 0
  BY <1>2, FS_EmptySet
<1>4. Counted(Now, 0)
  BY DEF Init, Quiet, Counted, Now, States, SessionType, Losses, Nothing, One
<1>5. Typed
  BY <1>1 DEF Init, Typed, Slots, Pasts, NoJob, HttpPlayAssumption
<1>6. Fits(hs, answer) /\ Neat(hs, said) /\ Waiting /\ said \in Words
  BY <1>1 DEF Init, Quiet, Fits, Neat, Clean, Waiting, Words
<1> QED  BY <1>3, <1>4, <1>5, <1>6 DEF Init, Quiet, IInv

LEMMA StepIInv ==
  ASSUME HttpPlayAssumption, IInv, [Next]_vars
  PROVE  IInv'
<1>1. CASE \E req \in Requests : Ask(req)
  BY <1>1, AskOk
<1>2. CASE \E n \in 1..MaxAsks : Job(n)
  BY <1>2, BlockingOk, JobFinishOk DEF Job
<1>3. CASE Manager
  BY <1>3, ManagerOk
<1>4. CASE Read
  <2>1. /\ pending' = 0
        /\ UNCHANGED <<hs, jobs, readers, lanes, files, lost, answer, said, asks, past>>
    BY <1>4 DEF Read
  <2>2. Holding' = Holding /\ Now' = Now /\ Typed' /\ (Waiting => Waiting')
    BY <2>1 DEF Holding, Now, Typed, IInv, Waiting
  <2> QED  BY <2>1, <2>2 DEF IInv
<1>5. CASE WsClose
  BY <1>5, WsCloseOk
<1>6. CASE Hangup
  BY <1>6, HangupOk
<1>7. CASE UNCHANGED vars
  <2>1. Holding' = Holding /\ Now' = Now /\ Typed' /\ (Waiting => Waiting')
    BY <1>7 DEF vars, Holding, Now, Typed, IInv, Waiting
  <2> QED  BY <1>7, <2>1 DEF vars, IInv
<1> QED  BY <1>1, <1>2, <1>3, <1>4, <1>5, <1>6, <1>7 DEF Next

-----------------------------------------------------------------------------
(* What it promises.                                                       *)

LEMMA Inductive == HttpPlayAssumption => (Spec => []IInv)
<1> SUFFICES ASSUME HttpPlayAssumption
             PROVE  Spec => []IInv
  OBVIOUS
<1>1. Init => IInv
  BY InitIInv
<1>2. IInv /\ [Next]_vars => IInv'
  BY StepIInv
<1> QED  BY <1>1, <1>2, PTL DEF Spec

\* Every player an HTTP connection counts, every lane and every FILE it opens
\* is the session's or a job's until it is given back or lost.  A client that
\* waits for its answers loses nothing, and neither does one that hangs up,
\* as long as the late job takes the freed session for what it is.
THEOREM HttpGivesBack == HttpPlayAssumption => (Spec => []GivenBack)
<1>1. IInv => GivenBack
  BY DEF IInv, GivenBack, Counted, Now, Clean, One
<1> QED  BY <1>1, Inductive, PTL

\* What is streamed or sent is counted as a player and sent from something
\* open, and what is left to send is what was promised and not yet sent.
THEOREM HttpSendsFromOpen == HttpPlayAssumption => (Spec => []SentFromOpen)
<1>1. IInv => SentFromOpen
  BY DEF IInv, SentFromOpen, Fits
<1> QED  BY <1>1, Inductive, PTL

\* Whatever Range a request carries, the answer promises the chunks RFC 9110
\* asks for, and a session that idles again has sent them all.
THEOREM HttpAnswersRange == HttpPlayAssumption => (Spec => []RightChunks)
<1>1. IInv => RightChunks
  BY DEF IInv, RightChunks, Fits, Promised
<1> QED  BY <1>1, Inductive, PTL
=============================================================================
