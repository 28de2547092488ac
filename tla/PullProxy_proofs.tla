-------------------------- MODULE PullProxy_proofs --------------------------
(***************************************************************************)
(* Theorems about PullProxy, for every limit on retries, one poller thread *)
(* or several, and any number of publications and API calls.  The          *)
(* inductive invariant has three parts: which calls a handler can have     *)
(* left (RunsOk), who holds the chain of retries (ChainOk), and what one   *)
(* poller thread adds to it (ThreadOk).                                    *)
(***************************************************************************)
EXTENDS PullProxy, SequenceTheorems, FiniteSetTheorems, TLAPS

ErrRun == <<"err_stop", "err_sched">>
SchedRun == <<"err_sched">>
RedialRun == <<"redial">>
ReadyRun == <<"rdy_cancel", "rdy_own", "try_publish">>
ReadyMediaRun == <<"rdy_cancel", "rdy_own", "try_publish", "frame", "try_publish">>
MediaRun == <<"frame", "try_publish">>
ReadyRuns == {ReadyRun, ReadyMediaRun}

\* What the proxy's poller can have left to do that retries nothing.
OtherRuns == {<<>>, MediaRun, <<"try_publish">>, <<"rdy_own", "try_publish">>,
              <<"rdy_own", "try_publish", "frame", "try_publish">>,
              <<"try_publish", "frame", "try_publish">>}
RetryRuns == {ErrRun, SchedRun, RedialRun}
IoRuns == RetryRuns \cup ReadyRuns \cup OtherRuns

TakeRuns == {<<"take">>, <<"take", "publish", "setpub">>}
DestroyRun == <<"cancel", "stop", "free">>
StopFreeRun == <<"stop", "free">>

LastOnly(part, s) == \A i \in 1 .. Len(s) : s[i] = part => i = Len(s)
Left(h) == Range(todo[h])
Others == {"push", "api"}

RunsOk ==
    /\ todo["io"] \in IoRuns
    /\ "cancel" \in Left("api") => todo["api"] = DestroyRun
    /\ LastOnly("setpub", todo["push"]) /\ LastOnly("free", todo["api"])
    /\ \A h \in Others : "take" \in Left(h) => todo[h] \in TakeRuns

-----------------------------------------------------------------------------
\* Before its start a proxy has nothing; once stopped it is never started again.
FreshOk ==
    proxy.fresh => /\ ~proxy.started /\ ~proxy.freed
                   /\ Phase = "idle" /\ timers = {} /\ todo["io"] = <<>>
StoppedOk ==
    /\ \A h \in Others : "hangup" \in Left(h) => ~proxy.started /\ ~proxy.fresh
    /\ "free" \in Left("api") => ~proxy.fresh
    /\ "free" \in Left("api") /\ proxy.started => todo["api"] \in {DestroyRun, StopFreeRun}
    /\ proxy.freed => ~proxy.started /\ ~proxy.fresh

\* A started proxy has one pursuit at most; whoever holds it knows the phase.
Started ==
    /\ ~({"tracked", "orphan"} \subseteq timers)
    /\ todo["io"] \in RetryRuns => timers = {}
    /\ todo["io"] = SchedRun \/ timers # {} => Phase = "idle"
    /\ Phase = "failed" <=> todo["io"] = ErrRun
    /\ todo["io"] \in ReadyRuns => Phase \in {"dialing", "ready"}

\* Unless it is being destroyed, it has one, or has used up its retries.
Pursued ==
    \/ Phase \in {"dialing", "ready"} \/ timers # {} \/ todo["io"] \in RetryRuns
    \/ GivenUp

Linked == cl.link # "none" => ~cl.stopping
RedialIdle == todo["io"] = RedialRun => Phase = "idle"
RetriesOk == cfg.retry >= 0 => proxy.failed <= cfg.retry
TimersOk ==
    /\ "orphan" \in timers => redialFailed
    /\ "tracked" \in timers => proxy.started

ChainOk ==
    /\ FreshOk /\ StoppedOk /\ Linked /\ RedialIdle /\ RetriesOk /\ TimersOk
    /\ proxy.started => Started
    /\ proxy.started /\ ~Doomed => Pursued

-----------------------------------------------------------------------------
\* With one poller thread a handler that stops the proxy is seen by nobody half way.
Alone == \A g, h \in Handlers : ~Idle(g) /\ ~Idle(h) => g = h
StopsWhole ==
    /\ ~proxy.started /\ cl.link # "none" => \E h \in Others : "hangup" \in Left(h)
    /\ ~proxy.started /\ src.publisher = "proxy" => \E h \in Others : "letgo" \in Left(h)
StopsLive == \A h \in Others : "stop" \in Left(h) => ~proxy.freed
ThreadOk ==
    cfg.one => /\ Alone /\ StopsWhole /\ StopsLive
               /\ todo["io"] # <<>> => proxy.started
               /\ touched => redialFailed

IInv == TypeOK /\ RunsOk /\ ChainOk /\ ThreadOk

-----------------------------------------------------------------------------
(* Sequences of parts.                                                     *)

LEMMA RangeOf ==
  ASSUME NEW s \in Seq(Parts)
  PROVE  /\ Range(s) = {s[i] : i \in 1 .. Len(s)} /\ Len(s) \in Nat
         /\ s = <<>> <=> Range(s) = {}
         /\ \A i \in 1 .. Len(s) : s[i] \in Parts
BY DEF Range

LEMMA RangeTail ==
  ASSUME NEW s \in Seq(Parts), s # <<>>
  PROVE  /\ Tail(s) \in Seq(Parts) /\ Head(s) \in Parts
         /\ Range(s) = {Head(s)} \cup Range(Tail(s))
<1>1. /\ Tail(s) \in Seq(Parts) /\ Head(s) = s[1] /\ Len(Tail(s)) = Len(s) - 1
      /\ Len(s) \in Nat /\ Len(s) >= 1 /\ \A i \in 1 .. Len(s) - 1 : Tail(s)[i] = s[i + 1]
  OBVIOUS
<1>2. /\ Range(s) = {s[i] : i \in 1 .. Len(s)}
      /\ Range(Tail(s)) = {Tail(s)[i] : i \in 1 .. Len(s) - 1}
  BY <1>1, RangeOf
<1>3. Range(Tail(s)) \subseteq Range(s) /\ Head(s) \in Range(s)
  BY <1>1, <1>2
<1>4. ASSUME NEW x \in Range(s), x # Head(s) PROVE x \in Range(Tail(s))
  <2>1. PICK i \in 1 .. Len(s) : x = s[i]
    BY <1>2
  <2>2. i # 1 /\ i - 1 \in 1 .. Len(s) - 1 /\ (i - 1) + 1 = i
    BY <1>1, <1>4, <2>1
  <2>3. Tail(s)[i - 1] = x
    BY <1>1, <2>1, <2>2
  <2> QED  BY <1>2, <2>2, <2>3
<1>5. Head(s) \in Parts
  BY <1>1, RangeOf
<1> QED  BY <1>1, <1>3, <1>4, <1>5

LEMMA RangeConcat ==
  ASSUME NEW a \in Seq(Parts), NEW b \in Seq(Parts)
  PROVE  a \o b \in Seq(Parts) /\ Range(a \o b) = Range(a) \cup Range(b)
<1>1. /\ a \o b \in Seq(Parts) /\ Len(a \o b) = Len(a) + Len(b)
      /\ Len(a) \in Nat /\ Len(b) \in Nat
      /\ \A i \in 1 .. Len(a) + Len(b) :
             (a \o b)[i] = IF i <= Len(a) THEN a[i] ELSE b[i - Len(a)]
  BY ConcatProperties
<1>2. /\ Range(a) = {a[i] : i \in 1 .. Len(a)} /\ Range(b) = {b[i] : i \in 1 .. Len(b)}
      /\ Range(a \o b) = {(a \o b)[i] : i \in 1 .. Len(a) + Len(b)}
  BY <1>1, RangeOf
<1>3. ASSUME NEW x \in Range(a \o b) PROVE x \in Range(a) \cup Range(b)
  <2>1. PICK i \in 1 .. Len(a) + Len(b) : x = (a \o b)[i]
    BY <1>2
  <2>2. CASE i <= Len(a)
    BY <1>1, <1>2, <2>1, <2>2
  <2>3. CASE ~(i <= Len(a))
    <3>1. i - Len(a) \in 1 .. Len(b) /\ x = b[i - Len(a)]
      BY <1>1, <2>1, <2>3
    <3> QED  BY <1>2, <3>1
  <2> QED  BY <2>2, <2>3
<1>4. ASSUME NEW x \in Range(a) PROVE x \in Range(a \o b)
  <2>1. PICK i \in 1 .. Len(a) : x = a[i]
    BY <1>2
  <2>2. i \in 1 .. Len(a) + Len(b) /\ (a \o b)[i] = x
    BY <1>1, <2>1
  <2> QED  BY <1>2, <2>2
<1>5. ASSUME NEW x \in Range(b) PROVE x \in Range(a \o b)
  <2>1. PICK i \in 1 .. Len(b) : x = b[i]
    BY <1>2
  <2>2. i + Len(a) \in 1 .. Len(a) + Len(b) /\ (a \o b)[i + Len(a)] = b[i]
    BY <1>1, <2>1
  <2> QED  BY <1>2, <2>1, <2>2
<1> QED  BY <1>1, <1>3, <1>4, <1>5

LEMMA LastTail ==
  ASSUME NEW s \in Seq(Parts), s # <<>>, NEW part, LastOnly(part, s)
  PROVE  LastOnly(part, Tail(s)) /\ (Head(s) = part => Tail(s) = <<>>)
<1> DEFINE n == Len(s)
           t == Tail(s)
<1>1. /\ Head(s) = s[1] /\ Len(t) = n - 1 /\ t \in Seq(Parts) /\ n \in Nat /\ n >= 1
  OBVIOUS
<1>2. \A i \in 1 .. n - 1 : t[i] = s[i + 1]
  OBVIOUS
<1>3. \A i \in 1 .. n : s[i] = part => i = n
  BY DEF LastOnly
<1>4. Head(s) = part => t = <<>>
  <2>1. Len(t) = 0 => t = <<>>
    <3> HIDE DEF n, t
    <3>1. t # <<>> => Len(t) \in Nat \ {0}
      BY <1>1, EmptySeq
    <3> QED  BY <3>1
  <2> HIDE DEF n, t
  <2>2. Head(s) = part => Len(t) = 0
    BY <1>1, <1>3
  <2> QED  BY <2>1, <2>2
<1>5. \A i \in 1 .. n - 1 : t[i] = part => i = n - 1
  <2> HIDE DEF n, t
  <2> TAKE i \in 1 .. n - 1
  <2>1. i \in Int /\ i + 1 \in 1 .. n /\ s[i + 1] = t[i]
    BY <1>1, <1>2
  <2>2. t[i] = part => i + 1 = n
    BY <1>3, <2>1
  <2> QED  BY <1>1, <2>1, <2>2
<1>6. LastOnly(part, t)
  <2> HIDE DEF n, t
  <2> QED  BY <1>1, <1>5 DEF LastOnly
<1> QED  BY <1>4, <1>6

LEMMA LastConcat ==
  ASSUME NEW a \in Seq(Parts), NEW b \in Seq(Parts), NEW part,
         part \notin Range(a), LastOnly(part, b)
  PROVE  LastOnly(part, a \o b)
<1>1. /\ Len(a \o b) = Len(a) + Len(b)
      /\ Len(a) \in Nat /\ Len(b) \in Nat
      /\ \A i \in 1 .. Len(a) + Len(b) :
             (a \o b)[i] = IF i <= Len(a) THEN a[i] ELSE b[i - Len(a)]
  BY ConcatProperties
<1>2. ASSUME NEW i \in 1 .. Len(a) + Len(b), (a \o b)[i] = part PROVE i = Len(a) + Len(b)
  <2>1. i \in Int /\ (i <= Len(a) => a[i] \in Range(a))
    BY <1>1, RangeOf
  <2>2. ~(i <= Len(a))
    BY <1>1, <1>2, <2>1
  <2>3. i - Len(a) \in 1 .. Len(b) /\ b[i - Len(a)] = part
    BY <1>1, <1>2, <2>2
  <2>4. i - Len(a) = Len(b)
    BY <2>3 DEF LastOnly
  <2> QED  BY <1>1, <2>4
<1> QED  BY <1>1, <1>2 DEF LastOnly

LEMMA TupleTails ==
  /\ \A a : Tail(<<a>>) = <<>> /\ Head(<<a>>) = a
  /\ \A a, b : Tail(<<a, b>>) = <<b>> /\ Head(<<a, b>>) = a
  /\ \A a, b, c : Tail(<<a, b, c>>) = <<b, c>> /\ Head(<<a, b, c>>) = a
  /\ \A a, b, c, d : Tail(<<a, b, c, d>>) = <<b, c, d>> /\ Head(<<a, b, c, d>>) = a
  /\ \A a, b, c, d, e :
         Tail(<<a, b, c, d, e>>) = <<b, c, d, e>> /\ Head(<<a, b, c, d, e>>) = a
OBVIOUS

LEMMA TupleRanges ==
  /\ Range(<<>>) = {}
  /\ \A a : Range(<<a>>) = {a}
  /\ \A a, b : Range(<<a, b>>) = {a, b}
  /\ \A a, b, c : Range(<<a, b, c>>) = {a, b, c}
BY DEF Range

\* What the proxy's poller has left after each part.
LEMMA IoStep ==
  ASSUME NEW s \in IoRuns, s # <<>>
  PROVE  /\ s \in Seq(Parts) /\ Tail(s) \in IoRuns
         /\ Head(s) = "err_stop" => s = ErrRun /\ Tail(s) = SchedRun
         /\ Head(s) = "err_sched" => s = SchedRun /\ Tail(s) = <<>>
         /\ Head(s) = "redial" => s = RedialRun /\ Tail(s) = <<>>
         /\ Head(s) = "rdy_cancel" => s \in ReadyRuns
         /\ Head(s) # "err_stop" => Tail(s) \in OtherRuns
         /\ Head(s) \in {"rdy_own", "try_publish", "frame"} => s \in OtherRuns
         /\ Head(s) \in {"err_stop", "err_sched", "redial", "rdy_cancel", "rdy_own",
                         "try_publish", "frame"}
<1>1. CASE s = ErrRun
  BY <1>1, TupleTails DEF IoRuns, RetryRuns, OtherRuns, ReadyRuns, Parts, ErrRun, SchedRun
<1>2. CASE s = SchedRun
  BY <1>2, TupleTails DEF IoRuns, RetryRuns, OtherRuns, ReadyRuns, Parts, ErrRun, SchedRun
<1>3. CASE s = RedialRun
  BY <1>3, TupleTails DEF IoRuns, RetryRuns, OtherRuns, ReadyRuns, Parts, RedialRun
<1>4. CASE s = ReadyRun
  BY <1>4, TupleTails DEF IoRuns, RetryRuns, OtherRuns, ReadyRuns, Parts, ReadyRun
<1>5. CASE s = ReadyMediaRun
  BY <1>5, TupleTails DEF IoRuns, RetryRuns, OtherRuns, ReadyRuns, Parts, ReadyMediaRun
<1>6. CASE s = MediaRun
  BY <1>6, TupleTails DEF IoRuns, RetryRuns, OtherRuns, ReadyRuns, Parts, MediaRun
<1>7. CASE s = <<"try_publish">>
  BY <1>7, TupleTails DEF IoRuns, RetryRuns, OtherRuns, ReadyRuns, Parts
<1>8. CASE s = <<"rdy_own", "try_publish">>
  BY <1>8, TupleTails DEF IoRuns, RetryRuns, OtherRuns, ReadyRuns, Parts
<1>9. CASE s = <<"rdy_own", "try_publish", "frame", "try_publish">>
  BY <1>9, TupleTails DEF IoRuns, RetryRuns, OtherRuns, ReadyRuns, Parts, MediaRun
<1>10. CASE s = <<"try_publish", "frame", "try_publish">>
  BY <1>10, TupleTails DEF IoRuns, RetryRuns, OtherRuns, ReadyRuns, Parts, MediaRun
<1> QED  BY <1>1, <1>2, <1>3, <1>4, <1>5, <1>6, <1>7, <1>8, <1>9, <1>10
         DEF IoRuns, RetryRuns, OtherRuns, ReadyRuns

\* The runs tell the parts apart: no run is of two kinds.
LEMMA RunsDiffer ==
  /\ ErrRun # SchedRun /\ ErrRun # RedialRun /\ SchedRun # RedialRun
  /\ RetryRuns \cap OtherRuns = {} /\ RetryRuns \cap ReadyRuns = {}
  /\ ReadyRuns \cap OtherRuns = {} /\ <<>> \in OtherRuns
BY DEF RetryRuns, OtherRuns, ReadyRuns, ErrRun, SchedRun, RedialRun, ReadyRun,
       ReadyMediaRun, MediaRun

\* The callbacks that OneChain counts as pursuits.
LEMMA PendingParts ==
  ASSUME NEW s \in IoRuns
  PROVE  Cardinality({i \in 1 .. Len(s) : s[i] \in {"err_sched", "redial"}})
             = IF s \in RetryRuns THEN 1 ELSE 0
<1> DEFINE P == {i \in 1 .. Len(s) : s[i] \in {"err_sched", "redial"}}
<1>1. CASE s = ErrRun
  <2>1. P = {2}
    BY <1>1 DEF ErrRun
  <2> QED  BY <1>1, <2>1, FS_Singleton DEF RetryRuns
<1>2. CASE s = SchedRun \/ s = RedialRun
  <2>1. P = {1}
    BY <1>2 DEF SchedRun, RedialRun
  <2> QED  BY <1>2, <2>1, FS_Singleton DEF RetryRuns
<1>3. CASE s \in ReadyRuns \cup OtherRuns
  <2>1. P = {}
    <3>1. CASE s \in {ReadyRun, ReadyMediaRun, MediaRun}
      BY <3>1 DEF ReadyRun, ReadyMediaRun, MediaRun
    <3>2. CASE s \in {<<>>, <<"try_publish">>, <<"rdy_own", "try_publish">>}
      BY <3>2
    <3>3. CASE s \in {<<"rdy_own", "try_publish", "frame", "try_publish">>,
                      <<"try_publish", "frame", "try_publish">>}
      BY <3>3
    <3> QED  BY <1>3, <3>1, <3>2, <3>3 DEF ReadyRuns, OtherRuns
  <2> QED  BY <1>3, <2>1, FS_EmptySet, RunsDiffer
<1> QED  BY <1>1, <1>2, <1>3 DEF IoRuns, RetryRuns

-----------------------------------------------------------------------------
(* The client.                                                             *)

LEMMA ClientCalls ==
  ASSUME NEW c \in Clients
  PROVE  /\ ClientPlay(c) \in Clients /\ ClientPlay(c).link = "dialing"
         /\ ~ClientPlay(c).failed /\ ~ClientPlay(c).ready_sent /\ ~ClientPlay(c).stopping
         /\ ClientPlayFailed(c) \in Clients /\ ~ClientPlayFailed(c).stopping
         /\ ClientPlayFailed(c).link = c.link /\ ClientPlayFailed(c).failed = c.failed
         /\ ClientStop(c) \in Clients /\ ClientStop(c).link = "none"
         /\ ~ClientStop(c).failed
BY DEF Clients, States, ClientPlay, ClientPlayFailed, ClientStop

\* A handler ends the play with an error and nothing else, or goes on.
Goes(c, r) ==
    /\ r.c \in Clients /\ r.c.link = c.link /\ r.c.stopping = c.stopping
    /\ r.sent \in {"nothing", "connect", "createStream", "play"} /\ r.say \in Callbacks
    /\ \/ r.say = <<"error">> /\ r.c.failed
       \/ r.say # <<"error">> /\ r.c.failed = c.failed
    /\ c.ready_sent => r.c.ready_sent

LEMMA SayDiffer ==
  /\ <<>> # <<"error">> /\ <<"ready">> # <<"error">> /\ <<"media">> # <<"error">>
  /\ <<"ready", "media">> # <<"error">>
  /\ Append(<<>>, "media") = <<"media">>
  /\ Append(<<"ready">>, "media") = <<"ready", "media">>
<1>1. /\ <<>> # <<"error">> /\ <<"ready">> # <<"error">> /\ <<"media">> # <<"error">>
      /\ <<"ready", "media">> # <<"error">>
  OBVIOUS
<1>2. Append(<<>>, "media") = <<"media">>
  <2>1. <<>> \in Seq({"media"}) /\ <<"media">> \in Seq({"media"})
    OBVIOUS
  <2>2. /\ Append(<<>>, "media") \in Seq({"media"})
        /\ Len(Append(<<>>, "media")) = 1 /\ Append(<<>>, "media")[1] = "media"
    BY <2>1, AppendProperties, EmptySeq
  <2> QED  BY <2>1, <2>2, SeqEqual
<1>3. Append(<<"ready">>, "media") = <<"ready", "media">>
  <2> DEFINE S == {"ready", "media"}
  <2>1. <<"ready">> \in Seq(S) /\ <<"ready", "media">> \in Seq(S) /\ "media" \in S
    OBVIOUS
  <2>2. /\ Len(<<"ready">>) = 1 /\ <<"ready">>[1] = "ready"
        /\ Len(<<"ready", "media">>) = 2 /\ <<"ready", "media">>[1] = "ready"
        /\ <<"ready", "media">>[2] = "media"
    OBVIOUS
  <2> DEFINE a == Append(<<"ready">>, "media")
  <2>3. a \in Seq(S) /\ Len(a) = 1 + 1 /\ a[1] = "ready" /\ a[1 + 1] = "media"
    <3> HIDE DEF S
    <3> QED  BY <2>1, <2>2, AppendProperties
  <2> HIDE DEF S, a
  <2>4. \A i \in 1 .. Len(a) : a[i] = <<"ready", "media">>[i]
    BY <2>2, <2>3
  <2>5. Len(a) = Len(<<"ready", "media">>)
    BY <2>2, <2>3
  <2>6. a = <<"ready", "media">>
    BY <2>1, <2>3, <2>4, <2>5, SeqEqual
  <2> QED  BY <2>6 DEF a
<1> QED  BY <1>1, <1>2, <1>3

LEMMA FailGoes ==
  ASSUME NEW c \in Clients, ~c.stopping
  PROVE  Goes(c, Fail(c)) /\ Fail(c).say = <<"error">> /\ Fail(c).c.failed
BY DEF Goes, Fail, Out, Clients, States, Callbacks

LEMMA QuietGoes ==
  ASSUME NEW c \in Clients
  PROVE  Goes(c, Quietly(c))
BY SayDiffer DEF Goes, Quietly, Out, Callbacks

LEMMA MarkGoes ==
  ASSUME NEW c \in Clients
  PROVE  Goes(c, MarkPlaying(c)) /\ MarkPlaying(c).say \in {<<>>, <<"ready">>}
<1> DEFINE d == [c EXCEPT !.state = "playing", !.ready_sent = TRUE]
<1>1. /\ d \in Clients /\ d.link = c.link /\ d.stopping = c.stopping /\ d.failed = c.failed
      /\ d.ready_sent
  BY DEF Clients, States
<1>2. /\ MarkPlaying(c).c = d /\ MarkPlaying(c).sent = "nothing"
      /\ MarkPlaying(c).say \in {<<>>, <<"ready">>}
  BY DEF MarkPlaying, Out
<1> HIDE DEF d
<1> QED  BY <1>1, <1>2, SayDiffer DEF Goes, Callbacks

LEMMA SendGoes ==
  ASSUME NEW c \in Clients
  PROVE  Goes(c, SendCreateStream(c)) /\ Goes(c, SendPlay(c))
<1> DEFINE d == [c EXCEPT !.create_sent = TRUE, !.state = "create"]
           e == [c EXCEPT !.play_sent = TRUE, !.state = "play"]
<1>1. /\ d \in Clients /\ d.link = c.link /\ d.stopping = c.stopping /\ d.failed = c.failed
      /\ d.ready_sent = c.ready_sent
      /\ e \in Clients /\ e.link = c.link /\ e.stopping = c.stopping /\ e.failed = c.failed
      /\ e.ready_sent = c.ready_sent
  BY DEF Clients, States
<1>2. Goes(c, Out(d, "createStream", <<>>)) /\ Goes(c, Out(e, "play", <<>>))
  <2> HIDE DEF d, e
  <2> QED  BY <1>1, SayDiffer DEF Goes, Out, Callbacks
<1> QED  BY <1>2, QuietGoes DEF SendCreateStream, SendPlay

LEMMA BeginGoes ==
  ASSUME NEW c \in Clients, ~c.stopping, NEW r \in BeginSession(c)
  PROVE  Goes(c, r)
<1> DEFINE d == [c EXCEPT !.proto = TRUE, !.create_sent = FALSE, !.play_sent = FALSE,
                          !.state = "connect"]
           e == [c EXCEPT !.proto = TRUE]
<1>1. /\ d \in Clients /\ d.link = c.link /\ d.stopping = c.stopping /\ d.failed = c.failed
      /\ d.ready_sent = c.ready_sent
      /\ e \in Clients /\ e.link = c.link /\ e.stopping = c.stopping
      /\ e.ready_sent = c.ready_sent
  BY DEF Clients, States
<1>2. r = Out(d, "connect", <<>>) \/ r = Fail(e)
  BY DEF BeginSession
<1> HIDE DEF d, e
<1>3. CASE r = Out(d, "connect", <<>>)
  BY <1>1, <1>3, SayDiffer DEF Goes, Out, Callbacks
<1>4. CASE r = Fail(e)
  <2>1. Goes(e, r) /\ r.say = <<"error">> /\ r.c.failed
    BY <1>1, <1>4, FailGoes
  <2> QED  BY <1>1, <2>1 DEF Goes
<1> QED  BY <1>2, <1>3, <1>4

LEMMA MediaGoes ==
  ASSUME NEW c \in Clients
  PROVE  Goes(c, OnMedia(c))
<1> DEFINE r == IF c.state # "playing" THEN MarkPlaying(c) ELSE Quietly(c)
<1>1. Goes(c, r) /\ r.say \in {<<>>, <<"ready">>}
  BY MarkGoes, QuietGoes DEF Quietly, Out
<1>2. r = [c |-> r.c, sent |-> r.sent, say |-> r.say]
  BY DEF MarkPlaying, Quietly, Out
<1>3. OnMedia(c) = [r EXCEPT !.say = Append(@, "media")]
  BY DEF OnMedia
<1> HIDE DEF r
<1>4. /\ OnMedia(c).c = r.c /\ OnMedia(c).sent = r.sent
      /\ OnMedia(c).say = Append(r.say, "media")
  BY <1>2, <1>3
<1>5. OnMedia(c).say \in {<<"media">>, <<"ready", "media">>}
  BY <1>1, <1>4, SayDiffer
<1>6. OnMedia(c).c.failed = c.failed
  BY <1>1, <1>4, SayDiffer DEF Goes
<1> QED  BY <1>1, <1>4, <1>5, <1>6, SayDiffer DEF Goes, Callbacks

LEMMA MessageGoes ==
  ASSUME NEW c \in Clients, ~c.stopping, NEW m \in Messages, NEW r \in OnMessage(c, m)
  PROVE  Goes(c, r)
<1>1. CASE c.stopping \/ (m # "hs") # c.proto
  BY <1>1, QuietGoes DEF OnMessage
<1>2. CASE ~(c.stopping \/ (m # "hs") # c.proto) /\ m = "hs"
  BY <1>2, BeginGoes DEF OnMessage
<1>3. CASE ~(c.stopping \/ (m # "hs") # c.proto) /\ m # "hs"
  <2>1. \/ m \in {"_error", "Play.Failed"} /\ r = Fail(c)
        \/ m = "_result" /\ r = OnResult(c)
        \/ m = "onBWDone" /\ r = SendCreateStream(c)
        \/ m = "Play.Start" /\ r = MarkPlaying(c)
        \/ m = "media" /\ r = OnMedia(c)
    BY <1>3 DEF OnMessage, Messages
  <2>2. Goes(c, OnResult(c))
    BY SendGoes, QuietGoes DEF OnResult
  <2> QED  BY <2>1, <2>2, FailGoes, SendGoes, MarkGoes, MediaGoes
<1> QED  BY <1>1, <1>2, <1>3

LEMMA AnswersOk ==
  ASSUME NEW sent \in {"nothing", "c0c1", "connect", "createStream", "play"},
         NEW a \in Answers(sent)
  PROVE  a \in Seq(Messages)
<1>1. a \in {<<>>, <<"hs">>, <<"_result">>, <<"onBWDone", "_result">>,
             <<"_result", "onBWDone">>, <<"Play.Start">>, <<"media">>, <<"_error">>,
             <<"Play.Failed">>}
  <2>1. CASE sent = "nothing"
    BY <2>1 DEF Answers
  <2>2. CASE sent = "c0c1"
    BY <2>2 DEF Answers
  <2>3. CASE sent = "connect"
    BY <2>3 DEF Answers
  <2>4. CASE sent = "createStream"
    BY <2>4 DEF Answers
  <2>5. CASE sent = "play"
    BY <2>5 DEF Answers
  <2> QED  BY <2>1, <2>2, <2>3, <2>4, <2>5
<1>2. /\ <<>> \in Seq(Messages) /\ \A m \in Messages : <<m>> \in Seq(Messages)
      /\ \A m, n \in Messages : <<m, n>> \in Seq(Messages)
  OBVIOUS
<1>3. {"hs", "_result", "onBWDone", "Play.Start", "media", "_error", "Play.Failed"}
          \subseteq Messages
  BY DEF Messages
<1>4. CASE a \in {<<"onBWDone", "_result">>, <<"_result", "onBWDone">>}
  BY <1>2, <1>3, <1>4
<1>5. CASE a \in {<<"hs">>, <<"_result">>, <<"Play.Start">>, <<"media">>, <<"_error">>,
                  <<"Play.Failed">>}
  BY <1>2, <1>3, <1>5
<1> QED  BY <1>1, <1>2, <1>4, <1>5

\* What a callback of the TCP client does to the client, whatever it is.
LEMMA EventIs ==
  ASSUME cl \in Clients, net \in Seq(Messages), cl.link # "none" => ~cl.stopping,
         NEW say, TcpConnected(say) \/ TcpError(say) \/ Receive(say)
  PROVE  /\ cl.link # "none" /\ cl' \in Clients /\ net' \in Seq(Messages)
         /\ cl'.link # "none" => ~cl'.stopping
         /\ say \in Callbacks
         /\ \/ say = <<"error">> /\ cl'.failed
            \/ say # <<"error">> /\ cl'.failed = cl.failed /\ cl'.link # "none"
         /\ cl.ready_sent => cl'.ready_sent
<1>1. CASE TcpConnected(say)
  <2>1. /\ cl' \in Clients /\ cl'.link = "open" /\ cl'.stopping = cl.stopping
        /\ cl'.failed = cl.failed /\ cl'.ready_sent = cl.ready_sent /\ say = <<>>
        /\ cl.link = "dialing"
    BY <1>1 DEF TcpConnected, Clients, States
  <2>2. net' \in Seq(Messages)
    BY <1>1, AnswersOk DEF TcpConnected
  <2> QED  BY <2>1, <2>2, SayDiffer DEF Callbacks
<1>2. CASE TcpError(say)
  <2> DEFINE d == [cl EXCEPT !.link = "none"]
  <2>1. /\ d \in Clients /\ d.link = "none" /\ d.stopping = cl.stopping
        /\ d.ready_sent = cl.ready_sent
    BY DEF Clients
  <2>2. cl.link # "none" /\ cl' = Fail(d).c /\ say = Fail(d).say /\ net' = <<>>
    BY <1>2 DEF TcpError
  <2> HIDE DEF d
  <2>3. Goes(d, Fail(d)) /\ say = <<"error">> /\ cl'.failed
    BY <2>1, <2>2, FailGoes
  <2> QED  BY <2>1, <2>2, <2>3 DEF Goes
<1>3. CASE Receive(say)
  <2>1. cl.link = "open" /\ net # <<>> /\ ~cl.stopping
    BY <1>3 DEF Receive
  <2>2. Head(net) \in Messages /\ Tail(net) \in Seq(Messages)
    BY <2>1, HeadTailProperties
  <2>3. PICK r \in OnMessage(cl, Head(net)) :
            /\ cl' = r.c /\ say = r.say
            /\ \E a \in Answers(r.sent) : net' = Tail(net) \o a
    BY <1>3 DEF Receive
  <2>4. Goes(cl, r)
    BY <2>1, <2>2, MessageGoes
  <2>5. net' \in Seq(Messages)
    <3>1. PICK a \in Answers(r.sent) : net' = Tail(net) \o a
      BY <2>3
    <3>2. a \in Seq(Messages)
      BY <2>4, AnswersOk DEF Goes
    <3> QED  BY <2>2, <3>1, <3>2, ConcatProperties
  <2> QED  BY <2>1, <2>3, <2>4, <2>5 DEF Goes
<1> QED  BY <1>1, <1>2, <1>3

LEMMA CallbackIs ==
  ASSUME NEW say \in Callbacks
  PROVE  /\ say = <<"error">> => Callback(say) = ErrRun
         /\ say # <<"error">> => Callback(say) \in {<<>>, MediaRun} \cup ReadyRuns
<1>1. CASE say = <<>>
  BY <1>1, SayDiffer DEF Callback
<1>2. CASE say \in {<<"error">>, <<"ready">>, <<"media">>}
  <2>1. say # <<>> /\ Len(say) = 1
    BY <1>2
  <2>2. CASE say = <<"error">>
    BY <2>1, <2>2 DEF Callback, ErrRun
  <2>3. CASE say = <<"ready">>
    BY <2>1, <2>3 DEF Callback, ReadyRun, ReadyRuns
  <2>4. CASE say = <<"media">>
    BY <2>1, <2>4 DEF Callback, MediaRun
  <2> QED  BY <1>2, <2>2, <2>3, <2>4, SayDiffer
<1>3. CASE say = <<"ready", "media">>
  <2>1. say # <<>> /\ Len(say) # 1 /\ say[1] = "ready" /\ say[2] = "media"
    BY <1>3
  <2>2. Callback(say) = ReadyRun \o MediaRun
    BY <2>1 DEF Callback, ReadyRun, MediaRun
  <2>3. ReadyRun \o MediaRun = ReadyMediaRun
    <3> DEFINE S == Parts
               a == ReadyRun \o MediaRun
    <3>1. ReadyRun \in Seq(S) /\ MediaRun \in Seq(S) /\ ReadyMediaRun \in Seq(S)
      BY DEF ReadyRun, MediaRun, ReadyMediaRun, Parts
    <3>2. /\ Len(ReadyRun) = 3 /\ Len(MediaRun) = 2 /\ Len(ReadyMediaRun) = 5
          /\ ReadyRun[1] = ReadyMediaRun[1] /\ ReadyRun[2] = ReadyMediaRun[2]
          /\ ReadyRun[3] = ReadyMediaRun[3]
          /\ MediaRun[1] = ReadyMediaRun[4] /\ MediaRun[2] = ReadyMediaRun[5]
      BY DEF ReadyRun, MediaRun, ReadyMediaRun
    <3>3. /\ a \in Seq(S) /\ Len(a) = Len(ReadyRun) + Len(MediaRun)
          /\ \A i \in 1 .. Len(ReadyRun) + Len(MediaRun) :
                 a[i] = IF i <= Len(ReadyRun) THEN ReadyRun[i]
                        ELSE MediaRun[i - Len(ReadyRun)]
      <4> HIDE DEF S
      <4> QED  BY <3>1, ConcatProperties
    <3> HIDE DEF S, a
    <3>4. Len(a) = Len(ReadyMediaRun)
      BY <3>2, <3>3
    <3>5. \A i \in 1 .. Len(a) : a[i] = ReadyMediaRun[i]
      <4> TAKE i \in 1 .. Len(a)
      <4>1. i \in {1, 2, 3, 4, 5} /\ i \in 1 .. Len(ReadyRun) + Len(MediaRun)
        BY <3>2, <3>3
      <4>2. a[i] = IF i <= 3 THEN ReadyRun[i] ELSE MediaRun[i - 3]
        BY <3>2, <3>3, <4>1
      <4> QED  BY <3>2, <4>1, <4>2
    <3>6. a = ReadyMediaRun
      BY <3>1, <3>3, <3>4, <3>5, SeqEqual
    <3> QED  BY <3>6 DEF a
  <2> QED  BY <1>3, <2>2, <2>3, SayDiffer DEF ReadyRuns
<1> QED  BY <1>1, <1>2, <1>3 DEF Callbacks

-----------------------------------------------------------------------------
(* The handlers.                                                           *)

TodoOk == todo \in [Handlers -> Seq(Parts)]

\* Handler h ran the part it was at, and has "rest" put before what was left.
Ran(h, part, rest) ==
    /\ ~Idle(h) /\ todo[h] # <<>> /\ Head(todo[h]) = part
    /\ part \in Parts /\ Tail(todo[h]) \in Seq(Parts)
    /\ Left(h) = {part} \cup Range(Tail(todo[h]))
    /\ todo'[h] = rest \o Tail(todo[h])
    /\ Range(todo'[h]) = Range(rest) \cup Range(Tail(todo[h]))
    /\ TodoOk' /\ \A g \in Handlers \ {h} : todo'[g] = todo[g]
    /\ cfg.one => \A g \in Handlers \ {h} : todo[g] = <<>>

LEMMA ThenRan ==
  ASSUME TodoOk, NEW h \in Handlers, NEW part, At(h, part), NEW rest \in Seq(Parts),
         Then(h, rest)
  PROVE  Ran(h, part, rest)
<1>1. /\ todo[h] # <<>> /\ todo[h] \in Seq(Parts) /\ Head(todo[h]) = part
      /\ todo' = [todo EXCEPT ![h] = rest \o Tail(todo[h])]
      /\ cfg.one => \A g \in Handlers \ {h} : todo[g] = <<>>
  BY DEF TodoOk, At, Idle, MayRun, Then
<1>2. /\ Tail(todo[h]) \in Seq(Parts) /\ part \in Parts
      /\ Range(todo[h]) = {part} \cup Range(Tail(todo[h]))
  BY <1>1, RangeTail
<1>3. /\ rest \o Tail(todo[h]) \in Seq(Parts)
      /\ Range(rest \o Tail(todo[h])) = Range(rest) \cup Range(Tail(todo[h]))
  BY <1>2, RangeConcat
<1>4. /\ todo'[h] = rest \o Tail(todo[h]) /\ TodoOk'
      /\ \A g \in Handlers \ {h} : todo'[g] = todo[g]
  BY <1>1, <1>3 DEF TodoOk
<1> QED  BY <1>1, <1>2, <1>3, <1>4 DEF Ran, Left, Idle

LEMMA DoneRan ==
  ASSUME TodoOk, NEW h \in Handlers, NEW part, At(h, part), Done(h)
  PROVE  Ran(h, part, <<>>) /\ todo'[h] = Tail(todo[h])
<1>1. todo[h] \in Seq(Parts) /\ todo[h] # <<>> /\ <<>> \in Seq(Parts)
  BY DEF TodoOk, At, Idle
<1>2. Tail(todo[h]) \in Seq(Parts)
  BY <1>1, RangeTail
<1>3. <<>> \o Tail(todo[h]) = Tail(todo[h])
  BY <1>2, ConcatEmptySeq
<1>4. Then(h, <<>>)
  BY <1>3 DEF Done, Then
<1>5. Ran(h, part, <<>>)
  BY <1>1, <1>4, ThenRan
<1> QED  BY <1>3, <1>5 DEF Ran

\* Handler h, idle before, starts on "parts".
Began(h, parts) ==
    /\ todo[h] = <<>> /\ todo'[h] = parts
    /\ TodoOk' /\ \A g \in Handlers \ {h} : todo'[g] = todo[g]
    /\ cfg.one => \A g \in Handlers \ {h} : todo[g] = <<>>

LEMMA StartsBegan ==
  ASSUME TodoOk, NEW h \in Handlers, NEW parts \in Seq(Parts), Starts(h, parts)
  PROVE  Began(h, parts)
BY DEF TodoOk, Starts, Idle, MayRun, Began

\* What a handler may begin with, and what may be put before what is left.
Begins(h) == CASE h = "io" -> IoRuns
               [] h = "push" -> {<<"take", "publish", "setpub">>, <<"reset", "unpub", "fini">>}
               [] h = "api" -> {<<"take">>, DestroyRun}
Middles == {"stop", "kickpush", "fini", "clear", "own", "letgo", "end", "hangup"}

LEMMA BeginsTyped ==
  ASSUME NEW h \in Handlers, NEW s \in Begins(h)
  PROVE  s \in Seq(Parts)
<1>1. CASE h = "io"
  <2>1. s \in IoRuns
    BY <1>1 DEF Begins
  <2> QED  BY <2>1, IoStep, EmptySeq
<1>2. CASE h = "push"
  <2>1. CASE s = <<"take", "publish", "setpub">>
    BY <2>1 DEF Parts
  <2>2. CASE s = <<"reset", "unpub", "fini">>
    BY <2>2 DEF Parts
  <2> QED  BY <1>2, <2>1, <2>2 DEF Begins
<1>3. CASE h = "api"
  <2>1. CASE s = <<"take">>
    BY <2>1 DEF Parts
  <2>2. CASE s = DestroyRun
    BY <2>2 DEF DestroyRun, Parts
  <2> QED  BY <1>3, <2>1, <2>2 DEF Begins
<1> QED  BY <1>1, <1>2, <1>3 DEF Handlers

LEMMA TakeTails ==
  ASSUME NEW s \in TakeRuns
  PROVE  /\ s # <<>> /\ Head(s) = "take" /\ "take" \notin Range(Tail(s))
         /\ Range(s) \cap {"letgo", "hangup", "stop", "free", "cancel"} = {}
         /\ Range(Tail(s)) \cap {"stop", "letgo", "hangup", "free"} = {}
<1>1. CASE s = <<"take">>
  BY <1>1, TupleTails, TupleRanges
<1>2. CASE s = <<"take", "publish", "setpub">>
  BY <1>2, TupleTails, TupleRanges
<1> QED  BY <1>1, <1>2 DEF TakeRuns

LEMMA DestroyTails ==
  /\ Head(DestroyRun) = "cancel" /\ Tail(DestroyRun) = StopFreeRun
  /\ Head(StopFreeRun) = "stop" /\ Tail(StopFreeRun) = <<"free">>
  /\ Range(DestroyRun) = {"cancel", "stop", "free"} /\ Range(StopFreeRun) = {"stop", "free"}
  /\ DestroyRun \in Seq(Parts) /\ StopFreeRun \in Seq(Parts)
<1>1. DestroyRun \in Seq(Parts) /\ StopFreeRun \in Seq(Parts)
  BY DEF DestroyRun, StopFreeRun, Parts
<1> QED  BY <1>1, TupleTails, TupleRanges DEF DestroyRun, StopFreeRun

LEMMA RunsBegan ==
  ASSUME TodoOk, RunsOk, NEW h \in Handlers, NEW s \in Begins(h), Began(h, s)
  PROVE  RunsOk'
<1>1. s \in Seq(Parts) /\ "io" \in Handlers /\ "push" \in Handlers /\ "api" \in Handlers
  BY BeginsTyped DEF Handlers
<1>2. CASE h = "io"
  <2>1. /\ todo'["io"] \in IoRuns /\ todo'["push"] = todo["push"]
        /\ todo'["api"] = todo["api"]
    BY <1>1, <1>2 DEF Began, Begins
  <2> QED  BY <2>1 DEF RunsOk, Left, Others
<1>3. CASE h = "push"
  <2>1. todo'["io"] = todo["io"] /\ todo'["api"] = todo["api"] /\ todo'["push"] = s
    BY <1>1, <1>3 DEF Began
  <2>2. LastOnly("setpub", s) /\ ("take" \in Range(s) => s \in TakeRuns)
    <3>1. CASE s = <<"take", "publish", "setpub">>
      BY <3>1 DEF LastOnly, TakeRuns
    <3>2. CASE s = <<"reset", "unpub", "fini">>
      BY <3>2, TupleRanges DEF LastOnly
    <3> QED  BY <1>3, <3>1, <3>2 DEF Begins
  <2> QED  BY <2>1, <2>2 DEF RunsOk, Left, Others
<1>4. CASE h = "api"
  <2>1. todo'["io"] = todo["io"] /\ todo'["push"] = todo["push"] /\ todo'["api"] = s
    BY <1>1, <1>4 DEF Began
  <2>2. /\ LastOnly("free", s) /\ ("take" \in Range(s) => s \in TakeRuns)
        /\ "cancel" \in Range(s) => s = DestroyRun
    <3>1. CASE s = <<"take">>
      BY <3>1, TupleRanges DEF LastOnly, TakeRuns
    <3>2. CASE s = DestroyRun
      BY <3>2, DestroyTails DEF LastOnly, DestroyRun
    <3> QED  BY <1>4, <3>1, <3>2 DEF Begins
  <2> QED  BY <2>1, <2>2 DEF RunsOk, Left, Others
<1> QED  BY <1>2, <1>3, <1>4 DEF Handlers

LEMMA RunsRan ==
  ASSUME TodoOk, RunsOk, NEW h \in Handlers, NEW part, NEW rest \in Seq(Parts),
         Range(rest) \subseteq Middles, h = "io" => rest = <<>>, Ran(h, part, rest)
  PROVE  RunsOk'
<1>1. /\ todo[h] \in Seq(Parts) /\ todo[h] # <<>>
      /\ "io" \in Handlers /\ "push" \in Handlers /\ "api" \in Handlers
  BY DEF TodoOk, Ran, Handlers
<1>2. CASE h = "io"
  <2>1. Tail(todo["io"]) \in IoRuns /\ <<>> \o Tail(todo["io"]) = Tail(todo["io"])
    BY <1>1, <1>2, IoStep, ConcatEmptySeq DEF RunsOk, Ran
  <2>2. /\ todo'["io"] \in IoRuns /\ todo'["push"] = todo["push"]
        /\ todo'["api"] = todo["api"]
    BY <1>1, <1>2, <2>1 DEF Ran
  <2> QED  BY <2>2 DEF RunsOk, Left, Others
<1>3. ASSUME h \in Others
      PROVE  /\ "take" \notin Range(todo'[h]) /\ (h = "api" => "cancel" \notin Range(todo'[h]))
             /\ (h = "push" => LastOnly("setpub", todo'[h]))
             /\ (h = "api" => LastOnly("free", todo'[h]))
  <2>1. /\ Left(h) = Range(todo[h]) /\ Range(Tail(todo[h])) \subseteq Left(h)
        /\ Range(todo'[h]) = Range(rest) \cup Range(Tail(todo[h]))
        /\ todo'[h] = rest \o Tail(todo[h]) /\ Tail(todo[h]) \in Seq(Parts)
    BY DEF Ran, Left
  <2>2. "take" \notin Range(Tail(todo[h]))
    <3>1. "take" \in Left(h) => todo[h] \in TakeRuns
      BY <1>3 DEF RunsOk
    <3> QED  BY <2>1, <3>1, TakeTails
  <2>3. h = "api" => "cancel" \notin Range(Tail(todo[h]))
    <3>1. h = "api" /\ "cancel" \in Left(h) => todo[h] = DestroyRun
      BY DEF RunsOk
    <3> QED  BY <2>1, <3>1, DestroyTails
  <2>4. {"take", "cancel", "setpub", "free"} \cap Range(rest) = {}
    BY DEF Middles
  <2>5. (h = "push" => LastOnly("setpub", todo'[h])) /\ (h = "api" => LastOnly("free", todo'[h]))
    <3>1. (h = "push" => LastOnly("setpub", todo[h])) /\ (h = "api" => LastOnly("free", todo[h]))
      BY DEF RunsOk
    <3>2. ASSUME NEW p, LastOnly(p, todo[h]), p \notin Range(rest)
          PROVE  LastOnly(p, rest \o Tail(todo[h]))
      <4>1. LastOnly(p, Tail(todo[h]))
        BY <1>1, <3>2, LastTail
      <4> QED  BY <2>1, <3>2, <4>1, LastConcat
    <3> QED  BY <2>1, <2>4, <3>1, <3>2
  <2> QED  BY <2>1, <2>2, <2>3, <2>4, <2>5
<1>4. CASE h = "push"
  <2>1. todo'["io"] = todo["io"] /\ todo'["api"] = todo["api"]
    BY <1>1, <1>4 DEF Ran
  <2> QED  BY <1>3, <1>4, <2>1 DEF RunsOk, Left, Others
<1>5. CASE h = "api"
  <2>1. todo'["io"] = todo["io"] /\ todo'["push"] = todo["push"]
    BY <1>1, <1>5 DEF Ran
  <2> QED  BY <1>3, <1>5, <2>1 DEF RunsOk, Left, Others
<1> QED  BY <1>2, <1>4, <1>5 DEF Handlers

-----------------------------------------------------------------------------
(* What each action does to the handlers.                                  *)

LEMMA RestOk ==
  /\ StopParts \in Seq(Parts) /\ Range(StopParts) = {"letgo", "end", "hangup"}
  /\ \A p : /\ KickOf(p) \in Seq(Parts) /\ Range(KickOf(p)) \subseteq {"stop", "kickpush"}
            /\ "stop" \in Range(KickOf(p)) => p = "proxy"
  /\ \A p : LET k == KickOf(p) \o <<"own">>
            IN  /\ k \in Seq(Parts) /\ Range(k) \subseteq {"stop", "kickpush", "own"}
                /\ "stop" \in Range(k) => p = "proxy"
  /\ \A p : \A b \in BOOLEAN :
         LET k == KickOf(p) \o (IF b THEN <<"fini">> ELSE <<>>) \o <<"clear">>
         IN  /\ k \in Seq(Parts) /\ Range(k) \subseteq {"stop", "kickpush", "fini", "clear"}
             /\ "stop" \in Range(k) => p = "proxy"
<1>1. StopParts \in Seq(Parts) /\ Range(StopParts) = {"letgo", "end", "hangup"}
  BY TupleRanges DEF StopParts, Parts
<1>2. ASSUME NEW p
      PROVE  /\ KickOf(p) \in Seq(Parts) /\ Range(KickOf(p)) \subseteq {"stop", "kickpush"}
             /\ "stop" \in Range(KickOf(p)) => p = "proxy"
  <2>1. CASE p = "proxy"
    BY <2>1, TupleRanges DEF KickOf, Parts
  <2>2. CASE p = "push"
    BY <2>2, TupleRanges DEF KickOf, Parts
  <2>3. CASE p \notin {"proxy", "push"}
    BY <2>3, TupleRanges DEF KickOf
  <2> QED  BY <2>1, <2>2, <2>3
<1>3. /\ <<"own">> \in Seq(Parts) /\ <<"fini">> \in Seq(Parts) /\ <<"clear">> \in Seq(Parts)
      /\ <<>> \in Seq(Parts)
  BY DEF Parts
<1>7. /\ Range(<<"own">>) = {"own"} /\ Range(<<"fini">>) = {"fini"}
      /\ Range(<<"clear">>) = {"clear"} /\ Range(<<>>) = {}
  BY TupleRanges
<1>4. ASSUME NEW p, NEW s \in Seq(Parts)
      PROVE  KickOf(p) \o s \in Seq(Parts) /\ Range(KickOf(p) \o s) = Range(KickOf(p)) \cup Range(s)
  BY <1>2, RangeConcat
<1>5. ASSUME NEW p
      PROVE  LET k == KickOf(p) \o <<"own">>
             IN  /\ k \in Seq(Parts) /\ Range(k) \subseteq {"stop", "kickpush", "own"}
                 /\ "stop" \in Range(k) => p = "proxy"
  <2> DEFINE k == KickOf(p) \o <<"own">>
  <2>1. k \in Seq(Parts) /\ Range(k) = Range(KickOf(p)) \cup {"own"}
    BY <1>3, <1>4, <1>7
  <2> HIDE DEF k
  <2>2. /\ Range(k) \subseteq {"stop", "kickpush", "own"}
        /\ "stop" \in Range(k) => p = "proxy"
    BY <1>2, <2>1
  <2> QED  BY <2>1, <2>2 DEF k
<1>6. ASSUME NEW p, NEW b \in BOOLEAN
      PROVE  LET k == KickOf(p) \o (IF b THEN <<"fini">> ELSE <<>>) \o <<"clear">>
             IN  /\ k \in Seq(Parts)
                 /\ Range(k) \subseteq {"stop", "kickpush", "fini", "clear"}
                 /\ "stop" \in Range(k) => p = "proxy"
  <2> DEFINE f == IF b THEN <<"fini">> ELSE <<>>
             m == KickOf(p) \o f
  <2>1. f \in Seq(Parts) /\ Range(f) \subseteq {"fini"}
    BY <1>3, <1>7
  <2> HIDE DEF f
  <2>2. m \in Seq(Parts) /\ Range(m) = Range(KickOf(p)) \cup Range(f)
    BY <1>4, <2>1
  <2> HIDE DEF m
  <2>3. m \o <<"clear">> \in Seq(Parts) /\ Range(m \o <<"clear">>) = Range(m) \cup {"clear"}
    BY <1>3, <1>7, <2>2, RangeConcat
  <2>4. /\ Range(m \o <<"clear">>) \subseteq {"stop", "kickpush", "fini", "clear"}
        /\ "stop" \in Range(m \o <<"clear">>) => p = "proxy"
    BY <1>2, <2>1, <2>2, <2>3
  <2> QED  BY <2>3, <2>4 DEF m, f
<1> QED  BY <1>1, <1>2, <1>5, <1>6

\* The parts of the io handler, but for a freed proxy.
IoDoes(part) ==
    /\ Ran("io", part, <<>>) /\ todo'["io"] = Tail(todo["io"])
    /\ todo'["push"] = todo["push"] /\ todo'["api"] = todo["api"]

LEMMA IoParts ==
  ASSUME TodoOk
  PROVE  /\ ErrStop => IoDoes("err_stop")
         /\ ScheduleRetry => IoDoes("err_sched")
         /\ RedialFails \/ Redial => IoDoes("redial")
         /\ ReadyCancel => IoDoes("rdy_cancel")
         /\ ReadyOwn => IoDoes("rdy_own")
         /\ TryPublish => IoDoes("try_publish")
         /\ Frame => IoDoes("frame")
<1>1. ASSUME NEW part, At("io", part), Done("io") PROVE IoDoes(part)
  BY <1>1, DoneRan DEF IoDoes, Ran, Handlers
<1> QED  BY <1>1 DEF ErrStop, ScheduleRetry, RedialFails, Redial, ReadyCancel, ReadyOwn,
                     TryPublish, Frame

\* The parts of the others that run once.
LEMMA OtherParts ==
  ASSUME TodoOk, NEW h \in Others
  PROVE  /\ LetGo(h) => Ran(h, "letgo", <<>>)
         /\ EndPublication(h) => Ran(h, "end", <<>>) \/ Ran(h, "fini", <<>>)
         /\ Hangup(h) => Ran(h, "hangup", <<>>)
         /\ KickPush(h) => Ran(h, "kickpush", <<>>)
         /\ Clear(h) => Ran(h, "clear", <<>>) \/ Ran(h, "reset", <<>>)
         /\ PushPublish => Ran("push", "publish", <<>>)
         /\ Own => Ran("push", "own", <<>>)
         /\ Unpublish => Ran("push", "unpub", <<>>)
         /\ CancelRetry => Ran("api", "cancel", <<>>)
         /\ Free => Ran("api", "free", <<>>)
<1>1. ASSUME NEW g \in Handlers, NEW part, At(g, part), Done(g) PROVE Ran(g, part, <<>>)
  BY <1>1, DoneRan
<1>2. h \in Handlers /\ "push" \in Handlers /\ "api" \in Handlers
  BY DEF Others, Handlers
<1> QED  BY <1>1, <1>2 DEF LetGo, EndPublication, Hangup, KickPush, Clear, PushPublish, Own,
                           Unpublish, CancelRetry, Free

\* The parts that call other parts.
LEMMA CallingParts ==
  ASSUME TodoOk, NEW h \in Others
  PROVE  /\ Stop(h) /\ proxy.started /\ ~proxy.freed => Ran(h, "stop", StopParts)
         /\ Stop(h) /\ ~(proxy.started /\ ~proxy.freed) => Ran(h, "stop", <<>>)
         /\ Take(h) /\ src.publishing \in BOOLEAN =>
                \E rest \in Seq(Parts) :
                    /\ Range(rest) \subseteq {"stop", "kickpush", "fini", "clear"}
                    /\ "stop" \in Range(rest) => src.publisher = "proxy"
                    /\ Ran(h, "take", rest)
         /\ SetPublisher =>
                \E rest \in Seq(Parts) :
                    /\ Range(rest) \subseteq {"stop", "kickpush", "own"}
                    /\ "stop" \in Range(rest) => src.publisher = "proxy"
                    /\ Ran("push", "setpub", rest)
<1>1. h \in Handlers /\ "push" \in Handlers /\ "api" \in Handlers
  BY DEF Others, Handlers
<1>2. ASSUME Stop(h), proxy.started /\ ~proxy.freed PROVE Ran(h, "stop", StopParts)
  BY <1>1, <1>2, ThenRan, RestOk DEF Stop
<1>3. ASSUME Stop(h), ~(proxy.started /\ ~proxy.freed) PROVE Ran(h, "stop", <<>>)
  BY <1>1, <1>3, DoneRan DEF Stop
<1>4. ASSUME Take(h), src.publishing \in BOOLEAN
      PROVE  \E rest \in Seq(Parts) :
                 /\ Range(rest) \subseteq {"stop", "kickpush", "fini", "clear"}
                 /\ "stop" \in Range(rest) => src.publisher = "proxy"
                 /\ Ran(h, "take", rest)
  <2> DEFINE k == KickOf(src.publisher) \o (IF src.publishing THEN <<"fini">> ELSE <<>>)
                      \o <<"clear">>
  <2>1. /\ k \in Seq(Parts) /\ Range(k) \subseteq {"stop", "kickpush", "fini", "clear"}
        /\ "stop" \in Range(k) => src.publisher = "proxy"
    BY <1>4, RestOk
  <2>2. At(h, "take") /\ Then(h, k)
    BY <1>4 DEF Take
  <2> HIDE DEF k
  <2>3. Ran(h, "take", k)
    BY <1>1, <2>1, <2>2, ThenRan
  <2> QED  BY <2>1, <2>3
<1>5. ASSUME SetPublisher
      PROVE  \E rest \in Seq(Parts) :
                 /\ Range(rest) \subseteq {"stop", "kickpush", "own"}
                 /\ "stop" \in Range(rest) => src.publisher = "proxy"
                 /\ Ran("push", "setpub", rest)
  <2> DEFINE k == KickOf(src.publisher) \o <<"own">>
  <2>1. /\ k \in Seq(Parts) /\ Range(k) \subseteq {"stop", "kickpush", "own"}
        /\ "stop" \in Range(k) => src.publisher = "proxy"
    BY RestOk
  <2>2. At("push", "setpub") /\ Then("push", k)
    BY <1>5 DEF SetPublisher
  <2> HIDE DEF k
  <2>3. Ran("push", "setpub", k)
    BY <1>1, <2>1, <2>2, ThenRan
  <2> QED  BY <2>1, <2>3
<1> QED  BY <1>2, <1>3, <1>4, <1>5

\* The disjuncts of Next, one action each.
LEMMA NextIs ==
  ASSUME Next
  PROVE  \/ Start \/ ClientEvent \/ (\E t \in {"tracked", "orphan"} : RetryFires(t))
         \/ ErrStop \/ ScheduleRetry \/ RedialFails \/ Redial \/ ReadyCancel \/ ReadyOwn
         \/ TryPublish \/ Frame \/ UseFreed
         \/ (\E h \in Others : \/ Stop(h) \/ LetGo(h) \/ EndPublication(h) \/ Hangup(h)
                               \/ Take(h) \/ KickPush(h) \/ Clear(h))
         \/ PushPublish \/ SetPublisher \/ Own \/ Unpublish \/ CancelRetry \/ Free
         \/ Upstream \/ Destroy \/ Close \/ PushStart \/ PushEnds
BY DEF Next, Retry, IoPart, PushPart, ApiPart, Part, Others

\* A step of the handlers.
TodoStep ==
    \/ todo' = todo
    \/ \E h \in Handlers : \E s \in Begins(h) : Began(h, s)
    \/ \E h \in Handlers, part \in Parts, rest \in Seq(Parts) :
           Range(rest) \subseteq Middles /\ (h = "io" => rest = <<>>) /\ Ran(h, part, rest)
    \/ /\ proxy.freed /\ TodoOk' /\ todo'["io"] = <<>>
       /\ todo'["push"] = todo["push"] /\ todo'["api"] = todo["api"]

LEMMA RanIsStep ==
  ASSUME NEW h \in Handlers, NEW part, NEW rest \in Seq(Parts),
         Range(rest) \subseteq Middles, h = "io" => rest = <<>>, Ran(h, part, rest)
  PROVE  TodoStep
BY DEF TodoStep, Ran

LEMMA BeganIsStep ==
  ASSUME TodoOk, NEW h \in Handlers, NEW s \in Begins(h), Starts(h, s)
  PROVE  TodoStep /\ Began(h, s)
<1>1. s \in Seq(Parts)
  BY BeginsTyped
<1>2. Began(h, s)
  BY <1>1, StartsBegan
<1> QED  BY <1>2 DEF TodoStep

LEMMA BeginsAre ==
  /\ <<>> \in Begins("io") /\ RedialRun \in Begins("io") /\ ErrRun \in Begins("io")
  /\ \A s \in {<<>>, MediaRun} \cup ReadyRuns : s \in Begins("io")
  /\ <<"take", "publish", "setpub">> \in Begins("push")
  /\ <<"reset", "unpub", "fini">> \in Begins("push")
  /\ <<"take">> \in Begins("api") /\ DestroyRun \in Begins("api")
<1>1. Begins("io") = IoRuns
  BY DEF Begins
<1>2. /\ <<"take", "publish", "setpub">> \in Begins("push")
      /\ <<"reset", "unpub", "fini">> \in Begins("push")
  BY DEF Begins
<1>3. <<"take">> \in Begins("api") /\ DestroyRun \in Begins("api")
  BY DEF Begins
<1> QED  BY <1>1, <1>2, <1>3 DEF IoRuns, RetryRuns, OtherRuns

LEMMA TodoSteps ==
  ASSUME TypeOK, Linked, Next
  PROVE  TodoStep
<1>0. /\ TodoOk /\ src.publishing \in BOOLEAN /\ cl \in Clients /\ net \in Seq(Messages)
      /\ "io" \in Handlers /\ "push" \in Handlers /\ "api" \in Handlers
      /\ <<>> \in Seq(Parts) /\ Range(<<>>) \subseteq Middles /\ Others \subseteq Handlers
      /\ "io" \notin Others
  BY TupleRanges DEF TypeOK, TodoOk, Handlers, Others
<1>1. ASSUME NEW part, IoDoes(part) PROVE TodoStep
  BY <1>0, <1>1, RanIsStep DEF IoDoes
<1>2. ASSUME NEW h \in Others, NEW part, Ran(h, part, <<>>) PROVE TodoStep
  BY <1>0, <1>2, RanIsStep DEF Others
<1>3. CASE ErrStop \/ ScheduleRetry \/ RedialFails \/ Redial \/ ReadyCancel \/ ReadyOwn
           \/ TryPublish \/ Frame
  BY <1>0, <1>1, <1>3, IoParts
<1>4. CASE UseFreed
  BY <1>4, <1>0 DEF UseFreed, TodoStep, TodoOk, Handlers
<1>5. CASE \E h \in Others : LetGo(h) \/ EndPublication(h) \/ Hangup(h) \/ KickPush(h) \/ Clear(h)
  BY <1>0, <1>2, <1>5, OtherParts
<1>6. CASE PushPublish \/ Own \/ Unpublish \/ CancelRetry \/ Free
  BY <1>0, <1>2, <1>6, OtherParts DEF Others
<1>7. ASSUME NEW h \in Others, Stop(h) PROVE TodoStep
  <2>1. CASE proxy.started /\ ~proxy.freed
    <3>1. Ran(h, "stop", StopParts)
      BY <1>0, <1>7, <2>1, CallingParts
    <3> QED  BY <1>0, <3>1, RanIsStep, RestOk DEF Middles
  <2>2. CASE ~(proxy.started /\ ~proxy.freed)
    BY <1>0, <1>2, <1>7, <2>2, CallingParts
  <2> QED  BY <2>1, <2>2
<1>8. ASSUME NEW h \in Others, Take(h) PROVE TodoStep
  <2>1. PICK rest \in Seq(Parts) :
            /\ Range(rest) \subseteq {"stop", "kickpush", "fini", "clear"}
            /\ Ran(h, "take", rest)
    BY <1>0, <1>8, CallingParts
  <2>2. Range(rest) \subseteq Middles
    BY <2>1 DEF Middles
  <2> QED  BY <1>0, <2>1, <2>2, RanIsStep
<1>9. CASE SetPublisher
  <2>1. PICK rest \in Seq(Parts) :
            /\ Range(rest) \subseteq {"stop", "kickpush", "own"}
            /\ Ran("push", "setpub", rest)
    BY <1>0, <1>9, CallingParts DEF Others
  <2>2. Range(rest) \subseteq Middles
    BY <2>1 DEF Middles
  <2> QED  BY <1>0, <2>1, <2>2, RanIsStep
<1>10. CASE Start \/ Upstream
  BY <1>10 DEF Start, Upstream, TodoStep
<1>11. CASE ClientEvent
  <2>1. PICK say \in Callbacks : /\ TcpConnected(say) \/ TcpError(say) \/ Receive(say)
                                 /\ Starts("io", Callback(say))
    BY <1>11 DEF ClientEvent
  <2>2. Callback(say) \in Begins("io")
    BY CallbackIs, BeginsAre
  <2> QED  BY <1>0, <2>1, <2>2, BeganIsStep
<1>12. ASSUME NEW t \in {"tracked", "orphan"}, RetryFires(t) PROVE TodoStep
  <2>1. \E s \in {<<>>, RedialRun} : Starts("io", s)
    BY <1>12 DEF RetryFires, RedialRun
  <2> QED  BY <1>0, <2>1, BeganIsStep, BeginsAre
<1>13. CASE Destroy \/ Close
  <2>1. \E s \in {<<"take">>, DestroyRun} : Starts("api", s)
    BY <1>13 DEF Destroy, Close, DestroyRun
  <2> QED  BY <1>0, <2>1, BeganIsStep, BeginsAre
<1>14. CASE PushStart \/ PushEnds
  <2>1. \E s \in {<<"take", "publish", "setpub">>, <<"reset", "unpub", "fini">>} :
            Starts("push", s)
    BY <1>14 DEF PushStart, PushEnds
  <2> QED  BY <1>0, <2>1, BeganIsStep, BeginsAre
<1> QED  BY <1>3, <1>4, <1>5, <1>6, <1>7, <1>8, <1>9, <1>10, <1>11, <1>12, <1>13, <1>14,
            NextIs

LEMMA RunsKept ==
  ASSUME TypeOK, RunsOk, Linked, Next
  PROVE  RunsOk' /\ TodoOk'
<1>0. TodoOk
  BY DEF TypeOK, TodoOk
<1>1. CASE todo' = todo
  BY <1>0, <1>1 DEF RunsOk, Left, TodoOk
<1>2. CASE \E h \in Handlers : \E s \in Begins(h) : Began(h, s)
  BY <1>0, <1>2, RunsBegan DEF Began
<1>3. CASE \E h \in Handlers, part \in Parts, rest \in Seq(Parts) :
               Range(rest) \subseteq Middles /\ (h = "io" => rest = <<>>) /\ Ran(h, part, rest)
  BY <1>0, <1>3, RunsRan DEF Ran
<1>4. CASE /\ proxy.freed /\ TodoOk' /\ todo'["io"] = <<>>
           /\ todo'["push"] = todo["push"] /\ todo'["api"] = todo["api"]
  BY <1>4, RunsDiffer DEF RunsOk, Left, IoRuns, Others
<1> QED  BY <1>1, <1>2, <1>3, <1>4, TodoSteps DEF TodoStep

TypeRest ==
    /\ cl \in Clients /\ net \in Seq(Messages) /\ up \in BOOLEAN /\ cfg \in Configs
    /\ proxy \in [fresh : BOOLEAN, started : BOOLEAN, failed : 0 .. MaxFailed,
                  freed : BOOLEAN]
    /\ timers \subseteq {"tracked", "orphan"}
    /\ src \in [publisher : {Nobody, "proxy", "push"}, publishing : BOOLEAN, video : BOOLEAN]
    /\ lock \in {Nobody, "push"}
    /\ push \in {"out", "registering", "live", "kicked"}
    /\ touched \in BOOLEAN /\ redialFailed \in BOOLEAN
    /\ budget \in [push : 0 .. MaxPushes, api : 0 .. MaxApis]

LEMMA TypesAre == TypeOK <=> TypeRest /\ TodoOk
BY DEF TypeOK, TypeRest, TodoOk

LEMMA TypesKept ==
  ASSUME TypeOK, RunsOk, Linked, Next, ProxyAssumption
  PROVE  TypeOK'
<1>0. TypeRest /\ TodoOk' /\ TodoOk
  BY TypesAre, RunsKept
<1> SUFFICES TypeRest'
  BY <1>0 DEF TypeRest, TodoOk, TypeOK
<1>1. CASE ErrStop \/ Redial \/ RedialFails
  <2>1. /\ cl' \in {ClientStop(cl), ClientPlay(cl), ClientPlayFailed(cl)}
        /\ net' = <<>> \/ net' = net
    BY <1>1 DEF ErrStop, Redial, RedialFails
  <2>2. cl' \in Clients
    BY <1>0, <2>1, ClientCalls DEF TypeRest
  <2>5. net' \in Seq(Messages)
    BY <1>0, <2>1, EmptySeq DEF TypeRest
  <2>3. timers' \subseteq {"tracked", "orphan"} /\ redialFailed' \in BOOLEAN
    BY <1>0, <1>1 DEF TypeRest, ErrStop, Redial, RedialFails
  <2>4. UNCHANGED <<up, cfg, proxy, src, lock, push, touched, budget>>
    BY <1>1 DEF ErrStop, Redial, RedialFails
  <2> QED  BY <1>0, <2>2, <2>3, <2>4, <2>5 DEF TypeRest
<1>2. CASE ScheduleRetry
  <2>1. proxy' \in [fresh : BOOLEAN, started : BOOLEAN, failed : 0 .. MaxFailed,
                    freed : BOOLEAN]
    <3>1. CASE proxy' = proxy
      BY <1>0, <3>1 DEF TypeRest
    <3>2. CASE proxy' = [proxy EXCEPT !.failed = IF @ < MaxFailed THEN @ + 1 ELSE @]
      <4>1. (IF proxy.failed < MaxFailed THEN proxy.failed + 1 ELSE proxy.failed)
                \in 0 .. MaxFailed
        BY <1>0 DEF TypeRest, ProxyAssumption
      <4> QED  BY <1>0, <3>2, <4>1 DEF TypeRest
    <3> QED  BY <1>2, <3>1, <3>2 DEF ScheduleRetry
  <2>2. timers' \subseteq {"tracked", "orphan"}
    BY <1>0, <1>2 DEF ScheduleRetry, TypeRest
  <2> QED  BY <1>0, <1>2, <2>1, <2>2 DEF ScheduleRetry, TypeRest
<1>3. CASE ReadyCancel
  <2>1. 0 \in 0 .. MaxFailed
    BY DEF ProxyAssumption
  <2> QED  BY <1>0, <1>3, <2>1 DEF ReadyCancel, TypeRest
<1>4. CASE ReadyOwn \/ TryPublish \/ Frame \/ UseFreed
  BY <1>0, <1>4 DEF ReadyOwn, TryPublish, Frame, UseFreed, TypeRest
<1>5. ASSUME NEW h \in Others, Stop(h) PROVE TypeRest'
  <2>1. /\ proxy' \in [fresh : BOOLEAN, started : BOOLEAN, failed : 0 .. MaxFailed,
                       freed : BOOLEAN]
        /\ timers' \subseteq {"tracked", "orphan"} /\ touched' \in BOOLEAN
    <3>1. touched' = (touched \/ proxy.freed)
      BY <1>5 DEF Stop
    <3>2. touched' \in BOOLEAN
      BY <3>1
    <3> QED  BY <1>0, <1>5, <3>2 DEF Stop, TypeRest
  <2> QED  BY <1>0, <1>5, <2>1 DEF Stop, TypeRest
<1>6. ASSUME NEW h \in Others, Hangup(h) \/ Free PROVE TypeRest'
  <2>1. cl' = ClientStop(cl) /\ net' = <<>>
    BY <1>6 DEF Hangup, Free
  <2>2. cl' \in Clients /\ net' \in Seq(Messages)
    BY <1>0, <2>1, ClientCalls DEF TypeRest
  <2>3. CASE Hangup(h)
    BY <1>0, <2>2, <2>3 DEF Hangup, TypeRest
  <2>4. CASE Free
    BY <1>0, <2>2, <2>4 DEF Free, TypeRest
  <2> QED  BY <1>6, <2>3, <2>4
<1>7. ASSUME NEW h \in Others, LetGo(h) \/ EndPublication(h) \/ Take(h) \/ KickPush(h) \/ Clear(h)
      PROVE  TypeRest'
  BY <1>0, <1>7 DEF LetGo, EndPublication, Take, KickPush, Clear, TypeRest
<1>8. CASE PushPublish \/ SetPublisher \/ Own \/ Unpublish \/ CancelRetry
  BY <1>0, <1>8 DEF PushPublish, SetPublisher, Own, Unpublish, CancelRetry, TypeRest
<1>9. CASE Start
  BY <1>0, <1>9, ClientCalls DEF Start, TypeRest
<1>10. CASE ClientEvent
  <2>1. PICK say \in Callbacks : TcpConnected(say) \/ TcpError(say) \/ Receive(say)
    BY <1>10 DEF ClientEvent
  <2>2. cl' \in Clients /\ net' \in Seq(Messages)
    BY <1>0, <2>1, EventIs DEF TypeRest, Linked
  <2> QED  BY <1>0, <1>10, <2>2 DEF ClientEvent, TypeRest
<1>11. ASSUME NEW t \in {"tracked", "orphan"}, RetryFires(t) PROVE TypeRest'
  <2>1. touched' = (touched \/ proxy.freed)
    BY <1>11 DEF RetryFires
  <2>2. touched' \in BOOLEAN
    BY <2>1
  <2> QED  BY <1>0, <1>11, <2>2 DEF RetryFires, TypeRest
<1>12. CASE Upstream
  <2>1. <<"media">> \in Seq(Messages)
    BY DEF Messages
  <2>2. /\ cl' = cl /\ (net' = <<"media">> \/ net' = net) /\ (up' = TRUE \/ up' = up)
        /\ UNCHANGED <<cfg, proxy, timers, src, lock, push, touched, redialFailed, budget>>
    BY <1>12 DEF Upstream, SendMedia, ComesUp
  <2>3. net' \in Seq(Messages) /\ up' \in BOOLEAN
    BY <1>0, <2>1, <2>2 DEF TypeRest
  <2> QED  BY <1>0, <2>2, <2>3 DEF TypeRest
<1>13. CASE Destroy \/ Close \/ PushStart
  <2>1. budget' \in [push : 0 .. MaxPushes, api : 0 .. MaxApis]
    <3>1. \/ budget.api > 0 /\ budget' = [budget EXCEPT !.api = @ - 1]
          \/ budget.push > 0 /\ budget' = [budget EXCEPT !.push = @ - 1]
      BY <1>13 DEF Destroy, Close, PushStart
    <3>2. budget.api \in 0 .. MaxApis /\ budget.push \in 0 .. MaxPushes
      BY <1>0 DEF TypeRest
    <3>3. /\ budget.api > 0 => budget.api - 1 \in 0 .. MaxApis
          /\ budget.push > 0 => budget.push - 1 \in 0 .. MaxPushes
      BY <3>2 DEF ProxyAssumption
    <3> QED  BY <1>0, <3>1, <3>3 DEF TypeRest
  <2> QED  BY <1>0, <1>13, <2>1 DEF Destroy, Close, PushStart, TypeRest
<1>14. CASE PushEnds
  BY <1>0, <1>14 DEF PushEnds, TypeRest
<1>15. "api" \in Others /\ (Free => TypeRest')
  BY <1>6 DEF Others
<1> QED  BY <1>1, <1>2, <1>3, <1>4, <1>5, <1>6, <1>7, <1>8, <1>9, <1>10, <1>11, <1>12, <1>13,
            <1>14, <1>15, NextIs

-----------------------------------------------------------------------------
(* The chain of retries.                                                   *)

LEMMA PhaseIs ==
  ASSUME cl \in Clients, cl' \in Clients
  PROVE  /\ Phase = "idle" <=> cl.link = "none" /\ ~cl.failed
         /\ Phase = "failed" <=> cl.failed
         /\ Phase \in {"dialing", "ready"} <=> cl.link # "none" /\ ~cl.failed
         /\ Phase' = "idle" <=> cl'.link = "none" /\ ~cl'.failed
         /\ Phase' = "failed" <=> cl'.failed
         /\ Phase' \in {"dialing", "ready"} <=> cl'.link # "none" /\ ~cl'.failed
BY DEF Phase, Clients

\* Nobody's step but the stop's hangs up, and no other touches a destruction.
OthersQuiet ==
    /\ \A h \in Others : "hangup" \in Range(todo'[h]) => "hangup" \in Left(h)
    /\ "free" \in Range(todo'["api"]) => "free" \in Left("api")
    /\ "free" \in Left("api") /\ proxy.started => todo'["api"] = todo["api"]

LEMMA QuietRan ==
  ASSUME StoppedOk, NEW h \in Others, NEW part, NEW rest,
         Ran(h, part, rest), Range(rest) \cap {"hangup", "free"} = {},
         part \notin {"cancel", "stop"} \/ ~proxy.started
  PROVE  OthersQuiet /\ todo'["io"] = todo["io"]
<1>1. /\ \A g \in Handlers \ {h} : todo'[g] = todo[g]
      /\ Left(h) = {part} \cup Range(Tail(todo[h])) /\ Head(todo[h]) = part
      /\ Range(todo'[h]) = Range(rest) \cup Range(Tail(todo[h]))
  BY DEF Ran
<1>2. CASE h = "push"
  <2>1. todo'["io"] = todo["io"] /\ todo'["api"] = todo["api"]
    BY <1>1, <1>2 DEF Handlers
  <2> QED  BY <1>1, <1>2, <2>1 DEF OthersQuiet, Left, Others
<1>3. CASE h = "api"
  <2>1. todo'["io"] = todo["io"] /\ todo'["push"] = todo["push"]
    BY <1>1, <1>3 DEF Handlers
  <2>2. ~("free" \in Left("api") /\ proxy.started)
    BY <1>1, <1>3, DestroyTails DEF StoppedOk
  <2> QED  BY <1>1, <1>3, <2>1, <2>2 DEF OthersQuiet, Left, Others
<1> QED  BY <1>2, <1>3 DEF Others

LEMMA QuietBegan ==
  ASSUME NEW h \in Others, NEW s, Began(h, s), Range(s) \cap {"hangup", "free"} = {}
  PROVE  OthersQuiet /\ todo'["io"] = todo["io"]
<1>1. /\ \A g \in Handlers \ {h} : todo'[g] = todo[g]
      /\ todo[h] = <<>> /\ todo'[h] = s
  BY DEF Began
<1>2. CASE h = "push"
  <2>1. todo'["io"] = todo["io"] /\ todo'["api"] = todo["api"]
    BY <1>1, <1>2 DEF Handlers
  <2> QED  BY <1>1, <1>2, <2>1 DEF OthersQuiet, Left, Others
<1>3. CASE h = "api"
  <2>1. todo'["io"] = todo["io"] /\ todo'["push"] = todo["push"]
    BY <1>1, <1>3 DEF Handlers
  <2>2. "free" \notin Left("api")
    BY <1>1, <1>3, TupleRanges DEF Left
  <2> QED  BY <1>1, <1>3, <2>1, <2>2 DEF OthersQuiet, Left, Others
<1> QED  BY <1>2, <1>3 DEF Others

\* What the stopped proxy's promises need of a step.
LEMMA StoppedQuiet ==
  ASSUME StoppedOk, OthersQuiet, proxy'.fresh => proxy.fresh,
         proxy'.started => proxy.started, proxy'.freed = proxy.freed
  PROVE  StoppedOk'
<1>1. ASSUME NEW h \in Others, "hangup" \in Range(todo'[h])
      PROVE  ~proxy'.started /\ ~proxy'.fresh
  BY <1>1 DEF StoppedOk, OthersQuiet
<1>2. ASSUME "free" \in Range(todo'["api"])
      PROVE  /\ ~proxy'.fresh
             /\ proxy'.started => todo'["api"] \in {DestroyRun, StopFreeRun}
  BY <1>2 DEF StoppedOk, OthersQuiet
<1>3. proxy'.freed => ~proxy'.started /\ ~proxy'.fresh
  BY DEF StoppedOk
<1> QED  BY <1>1, <1>2, <1>3 DEF StoppedOk, Left

IoQuiet == \/ todo'["io"] = todo["io"]
           \/ todo["io"] # <<>> /\ todo["io"] \in OtherRuns /\ todo'["io"] \in OtherRuns

LEMMA ChainQuiet ==
  ASSUME ChainOk, cl' = cl, cfg' = cfg, proxy' = proxy, timers' = timers,
         redialFailed' = redialFailed, OthersQuiet, IoQuiet
  PROVE  ChainOk'
<1>1. Phase' = Phase
  BY DEF Phase
<1>2. /\ todo'["io"] = <<>> <=> todo["io"] = <<>> \/ (todo["io"] \in OtherRuns /\ todo'["io"] = <<>>)
      /\ todo["io"] = <<>> => todo'["io"] = <<>>
      /\ todo'["io"] \in RetryRuns <=> todo["io"] \in RetryRuns
      /\ \A r \in RetryRuns : todo'["io"] = r <=> todo["io"] = r
      /\ todo'["io"] \in ReadyRuns <=> todo["io"] \in ReadyRuns
  BY RunsDiffer DEF IoQuiet
<1>3. ErrRun \in RetryRuns /\ SchedRun \in RetryRuns /\ RedialRun \in RetryRuns
  BY DEF RetryRuns
<1>4. FreshOk'
  BY <1>1, <1>2 DEF ChainOk, FreshOk
<1>5. StoppedOk'
  BY StoppedQuiet DEF ChainOk
<1>6. Linked' /\ RedialIdle' /\ RetriesOk' /\ TimersOk'
  BY <1>1, <1>2, <1>3 DEF ChainOk, Linked, RedialIdle, RetriesOk, TimersOk
<1>7. proxy.started => Started'
  BY <1>1, <1>2, <1>3 DEF ChainOk, Started
<1>8. proxy.started /\ ~Doomed' => ~Doomed
  BY DEF OthersQuiet, Doomed, Left
<1>9. proxy.started /\ ~Doomed' => Pursued'
  BY <1>1, <1>2, <1>8 DEF ChainOk, Pursued, GivenUp
<1> QED  BY <1>4, <1>5, <1>6, <1>7, <1>9 DEF ChainOk

LEMMA IoLeavesOthers ==
  ASSUME NEW part, IoDoes(part)
  PROVE  /\ OthersQuiet /\ (Doomed' <=> Doomed)
         /\ todo["io"] # <<>> /\ Head(todo["io"]) = part
BY DEF IoDoes, OthersQuiet, Left, Others, Doomed, Ran

LEMMA ChainErrStop ==
  ASSUME TypeOK, RunsOk, ChainOk, ErrStop, cl' \in Clients
  PROVE  ChainOk'
<1>1. IoDoes("err_stop") /\ OthersQuiet /\ (Doomed' <=> Doomed) /\ cl \in Clients
  BY IoParts, IoLeavesOthers DEF TypeOK, TodoOk
<1>2. /\ todo["io"] = ErrRun /\ todo'["io"] = SchedRun
  BY <1>1, IoStep, IoLeavesOthers DEF RunsOk, IoDoes
<1>3. /\ cl' = ClientStop(cl) /\ UNCHANGED <<cfg, proxy, timers, redialFailed>>
  BY DEF ErrStop
<1>4. Phase' = "idle" /\ cl'.link = "none"
  BY <1>1, <1>3, ClientCalls, PhaseIs
<1>5. ErrRun # <<>> /\ SchedRun \in RetryRuns /\ ErrRun \in RetryRuns /\ SchedRun \notin ReadyRuns
  BY RunsDiffer DEF RetryRuns
<1>6. ~proxy.fresh
  BY <1>2, <1>5 DEF ChainOk, FreshOk
<1>7. StoppedOk'
  BY <1>1, <1>3, StoppedQuiet DEF ChainOk
<1>8. /\ FreshOk' /\ Linked' /\ RedialIdle' /\ RetriesOk' /\ TimersOk'
  BY <1>2, <1>3, <1>4, <1>6, RunsDiffer
     DEF ChainOk, FreshOk, Linked, RedialIdle, RetriesOk, TimersOk
<1>9. proxy'.started => Started' /\ Pursued'
  BY <1>2, <1>3, <1>4, <1>5, RunsDiffer DEF ChainOk, Started, Pursued
<1> QED  BY <1>7, <1>8, <1>9 DEF ChainOk

LEMMA ChainScheduleRetry ==
  ASSUME TypeOK, RunsOk, ChainOk, ScheduleRetry, cl' \in Clients, ProxyAssumption
  PROVE  ChainOk'
<1>1. IoDoes("err_sched") /\ OthersQuiet /\ (Doomed' <=> Doomed) /\ cl \in Clients
  BY IoParts, IoLeavesOthers DEF TypeOK, TodoOk
<1>2. /\ todo["io"] = SchedRun /\ todo'["io"] = <<>>
  BY <1>1, IoStep, IoLeavesOthers DEF RunsOk, IoDoes
<1>3. /\ cl' = cl /\ UNCHANGED <<cfg, redialFailed>> /\ Phase' = Phase
      /\ UNCHANGED <<proxy.fresh, proxy.started, proxy.freed>>
  BY DEF ScheduleRetry, Phase, TypeOK
<1>5. SchedRun # <<>> /\ SchedRun \in RetryRuns /\ <<>> \notin ReadyRuns \cup RetryRuns
  BY RunsDiffer DEF RetryRuns
<1>6. ~proxy.fresh
  BY <1>2, <1>5 DEF ChainOk, FreshOk
<1>7. StoppedOk'
  BY <1>1, <1>3, StoppedQuiet DEF ChainOk
<1>8. /\ FreshOk' /\ Linked' /\ RedialIdle'
  BY <1>2, <1>3, <1>6, RunsDiffer DEF ChainOk, FreshOk, Linked, RedialIdle, RetryRuns
<1>9. CASE MayRetry
  <2>1. /\ proxy.started /\ (cfg.retry >= 0 => proxy.failed < cfg.retry)
        /\ proxy'.failed = IF proxy.failed < MaxFailed THEN proxy.failed + 1 ELSE proxy.failed
        /\ timers' = timers \cup {"tracked"}
    BY <1>9 DEF ScheduleRetry, MayRetry, TypeOK
  <2>2. timers = {} /\ Phase = "idle"
    BY <1>2, <1>5, <2>1 DEF ChainOk, Started
  <2>3. proxy.failed \in Nat /\ cfg.retry \in Int
    BY DEF TypeOK, Configs, RetryLimit, ProxyAssumption
  <2>4. RetriesOk'
    BY <1>3, <2>1, <2>3 DEF RetriesOk
  <2>5. TimersOk' /\ Started' /\ Pursued'
    BY <1>2, <1>3, <1>5, <2>1, <2>2 DEF TimersOk, Started, Pursued, ErrRun
  <2> QED  BY <1>7, <1>8, <2>4, <2>5 DEF ChainOk
<1>10. CASE ~MayRetry
  <2>1. UNCHANGED <<proxy, timers>>
    BY <1>10 DEF ScheduleRetry
  <2>2. proxy.failed \in Nat /\ cfg.retry \in Int
    BY DEF TypeOK, Configs, RetryLimit, ProxyAssumption
  <2>3. proxy.started => GivenUp
    BY <1>10, <2>2 DEF MayRetry, GivenUp, ChainOk, RetriesOk
  <2>4. RetriesOk' /\ TimersOk' /\ (GivenUp => GivenUp')
    BY <1>3, <2>1 DEF ChainOk, RetriesOk, TimersOk, GivenUp
  <2>5. proxy.started => Started'
    BY <1>2, <1>3, <1>5, <2>1, RunsDiffer DEF ChainOk, Started, ErrRun
  <2> QED  BY <1>3, <1>7, <1>8, <2>3, <2>4, <2>5 DEF ChainOk, Pursued
<1> QED  BY <1>9, <1>10

LEMMA ChainRedial ==
  ASSUME TypeOK, RunsOk, ChainOk, Redial \/ RedialFails, cl' \in Clients
  PROVE  ChainOk'
<1>1. IoDoes("redial") /\ OthersQuiet /\ (Doomed' <=> Doomed) /\ cl \in Clients
  BY IoParts, IoLeavesOthers DEF TypeOK, TodoOk
<1>2. /\ todo["io"] = RedialRun /\ todo'["io"] = <<>>
  BY <1>1, IoStep, IoLeavesOthers DEF RunsOk, IoDoes
<1>3. UNCHANGED <<cfg, proxy>>
  BY DEF Redial, RedialFails
<1>4. Phase = "idle" /\ (proxy.started => timers = {})
  BY <1>2 DEF ChainOk, RedialIdle, Started, RetryRuns
<1>5. RedialRun # <<>> /\ <<>> \notin ReadyRuns \cup RetryRuns
  BY RunsDiffer DEF RedialRun
<1>6. ~proxy.fresh
  BY <1>2, <1>5 DEF ChainOk, FreshOk
<1>7. StoppedOk' /\ FreshOk' /\ RetriesOk'
  BY <1>1, <1>3, <1>6, StoppedQuiet DEF ChainOk, FreshOk, RetriesOk
<1>8. RedialIdle' /\ todo'["io"] # ErrRun /\ todo'["io"] # SchedRun
  BY <1>2, <1>5 DEF RedialIdle, ErrRun, SchedRun, RedialRun
<1>9. CASE Redial
  <2>1. cl' = ClientPlay(cl) /\ UNCHANGED <<timers, redialFailed>>
    BY <1>9 DEF Redial
  <2>2. Phase' \in {"dialing", "ready"} /\ ~cl'.stopping
    BY <1>1, <2>1, ClientCalls, PhaseIs
  <2>3. Linked' /\ TimersOk'
    BY <1>3, <2>1, <2>2 DEF Linked, TimersOk, ChainOk
  <2>4. proxy.started => Started' /\ Pursued'
    BY <1>2, <1>4, <1>5, <1>8, <2>1, <2>2 DEF Started, Pursued
  <2> QED  BY <1>3, <1>7, <1>8, <2>3, <2>4 DEF ChainOk
<1>10. CASE RedialFails
  <2>1. cl' = ClientPlayFailed(cl) /\ timers' = timers \cup {"orphan"} /\ redialFailed'
    BY <1>10 DEF RedialFails
  <2>2. Phase' = "idle" /\ ~cl'.stopping
    BY <1>1, <1>4, <2>1, ClientCalls, PhaseIs
  <2>3. Linked' /\ TimersOk'
    BY <1>3, <2>1, <2>2 DEF Linked, TimersOk, ChainOk
  <2>4. proxy.started => Started' /\ Pursued'
    BY <1>2, <1>4, <1>5, <1>8, <2>1, <2>2 DEF Started, Pursued
  <2> QED  BY <1>3, <1>7, <1>8, <2>3, <2>4 DEF ChainOk
<1> QED  BY <1>9, <1>10

LEMMA ChainReadyCancel ==
  ASSUME TypeOK, RunsOk, ChainOk, ReadyCancel, cl' \in Clients
  PROVE  ChainOk'
<1>1. IoDoes("rdy_cancel") /\ OthersQuiet /\ (Doomed' <=> Doomed) /\ cl \in Clients
  BY IoParts, IoLeavesOthers DEF TypeOK, TodoOk
<1>2. todo["io"] \in ReadyRuns /\ todo'["io"] \in OtherRuns
  BY <1>1, IoStep, IoLeavesOthers DEF RunsOk, IoDoes
<1>3. /\ cl' = cl /\ Phase' = Phase /\ UNCHANGED <<cfg, redialFailed>>
      /\ UNCHANGED <<proxy.fresh, proxy.started, proxy.freed>>
      /\ proxy'.failed = 0 /\ timers' = timers \ {"tracked"}
  BY DEF ReadyCancel, Phase, TypeOK
<1>4. todo["io"] # <<>> /\ todo'["io"] \notin ReadyRuns \cup RetryRuns
  BY <1>2, RunsDiffer
<1>5. ~proxy.fresh
  BY <1>4 DEF ChainOk, FreshOk
<1>6. StoppedOk' /\ FreshOk' /\ RetriesOk'
  BY <1>1, <1>3, <1>5, StoppedQuiet DEF ChainOk, FreshOk, RetriesOk
<1>7. Linked' /\ RedialIdle' /\ TimersOk'
  BY <1>3, <1>4 DEF ChainOk, Linked, RedialIdle, TimersOk, RetryRuns
<1>8. proxy.started => Phase \in {"dialing", "ready"} /\ timers = {}
  BY <1>2 DEF ChainOk, Started
<1>9. proxy.started => Started' /\ Pursued'
  BY <1>2, <1>3, <1>4, <1>8 DEF Started, Pursued, RetryRuns
<1> QED  BY <1>3, <1>6, <1>7, <1>9 DEF ChainOk

LEMMA ChainUseFreed ==
  ASSUME TypeOK, RunsOk, ChainOk, UseFreed
  PROVE  ChainOk'
<1>1. /\ proxy.freed /\ todo'["io"] = <<>> /\ todo'["push"] = todo["push"]
      /\ todo'["api"] = todo["api"]
      /\ UNCHANGED <<cl, cfg, proxy, timers, redialFailed>>
  BY DEF UseFreed, TypeOK, Handlers
<1>2. ~proxy.started /\ ~proxy.fresh
  BY <1>1 DEF ChainOk, StoppedOk
<1>3. OthersQuiet
  BY <1>1 DEF OthersQuiet, Left, Others
<1>4. StoppedOk'
  BY <1>1, <1>3, StoppedQuiet DEF ChainOk
<1>5. FreshOk' /\ Linked' /\ RetriesOk' /\ TimersOk' /\ RedialIdle'
  BY <1>1, <1>2 DEF ChainOk, FreshOk, Linked, RetriesOk, TimersOk, RedialIdle, RedialRun
<1> QED  BY <1>1, <1>2, <1>4, <1>5 DEF ChainOk

LEMMA ChainStart ==
  ASSUME TypeOK, RunsOk, ChainOk, Start, cl' \in Clients
  PROVE  ChainOk'
<1>1. /\ proxy.fresh /\ ~proxy'.fresh /\ proxy'.started /\ proxy'.freed = proxy.freed
      /\ proxy'.failed = proxy.failed
      /\ cl' = ClientPlay(cl) /\ UNCHANGED <<todo, cfg, timers, redialFailed>>
  BY DEF Start, TypeOK
<1>2. timers = {} /\ todo["io"] = <<>> /\ ~proxy.freed /\ todo' = todo
  BY <1>1 DEF ChainOk, FreshOk
<1>3. Phase' \in {"dialing", "ready"} /\ ~cl'.stopping
  BY <1>1, ClientCalls, PhaseIs DEF TypeOK
<1>4. <<>> \notin ReadyRuns \cup RetryRuns
  BY RunsDiffer
<1>5. StoppedOk'
  BY <1>1, <1>2 DEF ChainOk, StoppedOk, Left
<1>6. FreshOk' /\ Linked' /\ RetriesOk' /\ TimersOk' /\ RedialIdle'
  BY <1>1, <1>2, <1>3, <1>4
     DEF ChainOk, FreshOk, Linked, RetriesOk, TimersOk, RedialIdle, RetryRuns
<1>7. Started' /\ Pursued'
  BY <1>1, <1>2, <1>3, <1>4 DEF Started, Pursued, RetryRuns
<1> QED  BY <1>5, <1>6, <1>7 DEF ChainOk

\* A handler that began on the proxy's poller.
LEMMA IoBegan ==
  ASSUME NEW s, Began("io", s)
  PROVE  OthersQuiet /\ (Doomed' <=> Doomed) /\ todo["io"] = <<>> /\ todo'["io"] = s
BY DEF Began, OthersQuiet, Left, Others, Handlers, Doomed

LEMMA ChainClientEvent ==
  ASSUME TypeOK, RunsOk, ChainOk, ClientEvent
  PROVE  ChainOk'
<1>1. PICK say \in Callbacks : /\ TcpConnected(say) \/ TcpError(say) \/ Receive(say)
                               /\ Starts("io", Callback(say))
  BY DEF ClientEvent
<1>2. /\ cl.link # "none" /\ cl' \in Clients /\ cl \in Clients
      /\ cl'.link # "none" => ~cl'.stopping
      /\ \/ say = <<"error">> /\ cl'.failed
         \/ say # <<"error">> /\ cl'.failed = cl.failed /\ cl'.link # "none"
  BY <1>1, EventIs DEF TypeOK, ChainOk, Linked
<1>3. Began("io", Callback(say))
  <2>1. Callback(say) \in Begins("io")
    BY CallbackIs, BeginsAre
  <2> QED  BY <1>1, <2>1, BeganIsStep DEF TypeOK, TodoOk, Handlers
<1>4. /\ OthersQuiet /\ (Doomed' <=> Doomed) /\ todo["io"] = <<>>
      /\ todo'["io"] = Callback(say)
  BY <1>3, IoBegan
<1>5. UNCHANGED <<cfg, proxy, timers, redialFailed>>
  BY DEF ClientEvent
<1>6. ~proxy.fresh
  BY <1>2, PhaseIs DEF ChainOk, FreshOk
<1>7. /\ say = <<"error">> => todo'["io"] = ErrRun
      /\ say # <<"error">> => todo'["io"] \notin RetryRuns
      /\ todo'["io"] # RedialRun /\ todo'["io"] # SchedRun
  BY <1>4, CallbackIs, RunsDiffer DEF RetryRuns, OtherRuns
<1>8. StoppedOk' /\ FreshOk' /\ Linked' /\ RetriesOk' /\ TimersOk' /\ RedialIdle'
  BY <1>2, <1>4, <1>5, <1>6, <1>7, StoppedQuiet
     DEF ChainOk, FreshOk, Linked, RetriesOk, TimersOk, RedialIdle
<1>9. ASSUME proxy.started PROVE Started' /\ Pursued'
  <2>1. Started
    BY <1>9 DEF ChainOk
  <2>2. Phase # "failed" /\ timers = {}
    <3>1. ErrRun # <<>>
      BY DEF ErrRun
    <3>2. Phase # "idle"
      BY <1>2, PhaseIs
    <3> QED  BY <1>4, <2>1, <3>1, <3>2 DEF Started
  <2>3. ErrRun \in RetryRuns /\ ErrRun \notin ReadyRuns
    BY RunsDiffer DEF RetryRuns
  <2>4. CASE say = <<"error">>
    <3>1. Phase' = "failed" /\ todo'["io"] = ErrRun
      BY <1>2, <1>7, <2>4, PhaseIs
    <3> QED  BY <1>5, <1>7, <2>2, <2>3, <3>1 DEF Started, Pursued
  <2>5. CASE say # <<"error">>
    <3>1. Phase' \in {"dialing", "ready"} /\ todo'["io"] # ErrRun
      BY <1>2, <1>7, <2>2, <2>3, <2>5, PhaseIs
    <3> QED  BY <1>5, <1>7, <2>2, <3>1 DEF Started, Pursued
  <2> QED  BY <2>4, <2>5
<1> QED  BY <1>4, <1>5, <1>8, <1>9 DEF ChainOk

LEMMA ChainRetryFires ==
  ASSUME TypeOK, RunsOk, ChainOk, NEW t \in {"tracked", "orphan"}, RetryFires(t)
  PROVE  ChainOk'
<1> DEFINE s == IF proxy.started /\ ~proxy.freed THEN RedialRun ELSE <<>>
<1>1. /\ t \in timers /\ timers' = timers \ {t}
      /\ UNCHANGED <<cl, cfg, proxy, redialFailed>> /\ Phase' = Phase
  BY DEF RetryFires, Phase
<1>2. Starts("io", s) /\ s \in {<<>>, RedialRun}
  BY DEF RetryFires, RedialRun
<1> HIDE DEF s
<1>3. OthersQuiet /\ (Doomed' <=> Doomed) /\ todo["io"] = <<>> /\ todo'["io"] = s
  BY <1>2, BeganIsStep, BeginsAre, IoBegan DEF TypeOK, TodoOk, Handlers
<1>4. ~proxy.fresh /\ (proxy.freed => ~proxy.started)
  BY <1>1 DEF ChainOk, FreshOk, StoppedOk
<1>5. proxy.started => Phase = "idle" /\ timers' = {} /\ s = RedialRun
  <2>1. timers \subseteq {"tracked", "orphan"}
    BY DEF TypeOK
  <2>2. proxy.started => Phase = "idle" /\ ~({"tracked", "orphan"} \subseteq timers)
    BY <1>1 DEF ChainOk, Started
  <2> QED  BY <1>1, <1>4, <2>1, <2>2 DEF s
<1>6. ~proxy.started => s = <<>>
  BY DEF s
<1>7. StoppedOk' /\ FreshOk' /\ Linked' /\ RetriesOk' /\ TimersOk'
  BY <1>1, <1>3, <1>4, StoppedQuiet DEF ChainOk, FreshOk, Linked, RetriesOk, TimersOk
<1>8. RedialIdle'
  BY <1>1, <1>3, <1>5, <1>6 DEF RedialIdle, RedialRun
<1>9. /\ RedialRun \in RetryRuns /\ RedialRun \notin ReadyRuns /\ RedialRun # ErrRun
      /\ RedialRun # SchedRun
  BY RunsDiffer DEF RetryRuns
<1>10. proxy.started => Started' /\ Pursued'
  BY <1>1, <1>3, <1>5, <1>9 DEF Started, Pursued
<1> QED  BY <1>1, <1>7, <1>8, <1>10 DEF ChainOk

\* The proxy is stopped by a kick or by its destruction.
LEMMA ChainStop ==
  ASSUME TypeOK, RunsOk, ChainOk, NEW h \in Others, Stop(h), proxy.started, ~proxy.freed
  PROVE  ChainOk'
<1>1. Ran(h, "stop", StopParts) /\ "io" \in Handlers \ {h}
  BY CallingParts DEF TypeOK, TodoOk, Handlers, Others
<1>2. /\ ~proxy'.started /\ proxy'.fresh = proxy.fresh /\ proxy'.freed = proxy.freed
      /\ proxy'.failed = proxy.failed
      /\ timers' = timers \ {"tracked"} /\ UNCHANGED <<cl, cfg, redialFailed>>
      /\ Phase' = Phase
  BY DEF Stop, TypeOK, Phase
<1>3. todo'["io"] = todo["io"] /\ ~proxy.fresh
  BY <1>1 DEF Ran, ChainOk, FreshOk
<1>4. StoppedOk'
  BY <1>2, <1>3 DEF StoppedOk
<1>5. FreshOk' /\ Linked' /\ RetriesOk' /\ TimersOk' /\ RedialIdle'
  BY <1>2, <1>3 DEF ChainOk, FreshOk, Linked, RetriesOk, TimersOk, RedialIdle
<1> QED  BY <1>2, <1>4, <1>5 DEF ChainOk

LEMMA ChainHangup ==
  ASSUME TypeOK, RunsOk, ChainOk, NEW h \in Others, Hangup(h), cl' \in Clients
  PROVE  ChainOk'
<1>1. Ran(h, "hangup", <<>>)
  BY OtherParts DEF TypeOK, TodoOk
<1>2. cl' = ClientStop(cl) /\ UNCHANGED <<cfg, proxy, timers, redialFailed>>
  BY DEF Hangup
<1>3. Phase' = "idle" /\ cl'.link = "none"
  BY <1>2, ClientCalls, PhaseIs DEF TypeOK
<1>4. ~proxy.started /\ ~proxy.fresh
  BY <1>1 DEF Ran, ChainOk, StoppedOk
<1>5. OthersQuiet /\ todo'["io"] = todo["io"]
  BY <1>1, QuietRan, TupleRanges DEF ChainOk
<1>6. StoppedOk'
  BY <1>2, <1>5, StoppedQuiet DEF ChainOk
<1>7. FreshOk' /\ Linked' /\ RetriesOk' /\ TimersOk' /\ RedialIdle'
  BY <1>2, <1>3, <1>4, <1>5 DEF ChainOk, FreshOk, Linked, RetriesOk, TimersOk, RedialIdle
<1> QED  BY <1>2, <1>4, <1>6, <1>7 DEF ChainOk

LEMMA ChainCancel ==
  ASSUME TypeOK, RunsOk, ChainOk, CancelRetry
  PROVE  ChainOk'
<1>1. Ran("api", "cancel", <<>>)
  BY OtherParts DEF TypeOK, TodoOk, Others
<1>2. /\ timers' = timers \ {"tracked"} /\ UNCHANGED <<cl, cfg, proxy, redialFailed>>
      /\ Phase' = Phase
  BY DEF CancelRetry, Phase
<1>3. todo["api"] = DestroyRun
  BY <1>1 DEF Ran, RunsOk
<1>4. /\ todo'["api"] = StopFreeRun /\ todo'["io"] = todo["io"]
      /\ todo'["push"] = todo["push"]
  <2>1. todo'["api"] = <<>> \o StopFreeRun
    BY <1>1, <1>3, DestroyTails DEF Ran
  <2>2. <<>> \o StopFreeRun = StopFreeRun
    BY DestroyTails, ConcatEmptySeq
  <2> QED  BY <1>1, <2>1, <2>2 DEF Ran, Handlers
<1>5. StoppedOk'
  BY <1>2, <1>3, <1>4, DestroyTails DEF ChainOk, StoppedOk, Left, Others
<1>6. FreshOk' /\ Linked' /\ RetriesOk' /\ TimersOk' /\ RedialIdle'
  BY <1>2, <1>4 DEF ChainOk, FreshOk, Linked, RetriesOk, TimersOk, RedialIdle
<1>7. Doomed' /\ (proxy.started => Started')
  BY <1>2, <1>4, DestroyTails DEF ChainOk, Started, Doomed
<1> QED  BY <1>2, <1>5, <1>6, <1>7 DEF ChainOk

LEMMA ChainFree ==
  ASSUME TypeOK, RunsOk, ChainOk, Free, cl' \in Clients
  PROVE  ChainOk'
<1>1. Ran("api", "free", <<>>)
  BY OtherParts DEF TypeOK, TodoOk, Others
<1>2. /\ cl' = ClientStop(cl) /\ UNCHANGED <<cfg, timers, redialFailed>>
      /\ proxy'.fresh = proxy.fresh /\ proxy'.started = proxy.started
      /\ proxy'.failed = proxy.failed
  BY DEF Free, TypeOK
<1>3. Phase' = "idle" /\ cl'.link = "none"
  BY <1>2, ClientCalls, PhaseIs DEF TypeOK
<1>4. ~proxy.started /\ ~proxy.fresh
  BY <1>1, DestroyTails DEF Ran, ChainOk, StoppedOk
<1>5. todo'["io"] = todo["io"]
  BY <1>1 DEF Ran, Handlers
<1>6. StoppedOk'
  BY <1>2, <1>4 DEF StoppedOk
<1>7. FreshOk' /\ Linked' /\ RetriesOk' /\ TimersOk' /\ RedialIdle'
  BY <1>2, <1>3, <1>4, <1>5 DEF ChainOk, FreshOk, Linked, RetriesOk, TimersOk, RedialIdle
<1> QED  BY <1>2, <1>4, <1>6, <1>7 DEF ChainOk

LEMMA ChainDestroy ==
  ASSUME TypeOK, RunsOk, ChainOk, Destroy
  PROVE  ChainOk'
<1>1. proxy.started /\ UNCHANGED <<cl, cfg, proxy, timers, redialFailed>> /\ Phase' = Phase
  BY DEF Destroy, Phase
<1>2. Began("api", DestroyRun)
  BY BeganIsStep, BeginsAre DEF Destroy, DestroyRun, TypeOK, TodoOk, Handlers
<1>3. /\ todo'["api"] = DestroyRun /\ todo'["io"] = todo["io"]
      /\ todo'["push"] = todo["push"]
  BY <1>2 DEF Began, Handlers
<1>4. ~proxy.fresh
  BY <1>1 DEF ChainOk, FreshOk
<1>5. StoppedOk'
  BY <1>1, <1>3, <1>4, DestroyTails DEF ChainOk, StoppedOk, Left, Others
<1>6. FreshOk' /\ Linked' /\ RetriesOk' /\ TimersOk' /\ RedialIdle'
  BY <1>1, <1>3 DEF ChainOk, FreshOk, Linked, RetriesOk, TimersOk, RedialIdle
<1>7. Doomed' /\ Started'
  BY <1>1, <1>3, DestroyTails DEF ChainOk, Started, Doomed
<1> QED  BY <1>1, <1>5, <1>6, <1>7 DEF ChainOk

\* Every other action leaves the chain alone.
LEMMA ChainOther ==
  ASSUME TypeOK, RunsOk, ChainOk, NEW h \in Others,
         \/ ReadyOwn \/ TryPublish \/ Frame
         \/ LetGo(h) \/ EndPublication(h) \/ Take(h) \/ KickPush(h) \/ Clear(h)
         \/ Stop(h) /\ ~(proxy.started /\ ~proxy.freed)
         \/ PushPublish \/ SetPublisher \/ Own \/ Unpublish
         \/ Close \/ PushStart \/ PushEnds \/ Upstream
  PROVE  ChainOk'
<1>1. UNCHANGED <<cl, cfg, proxy, timers, redialFailed>>
  BY DEF ReadyOwn, TryPublish, Frame, LetGo, EndPublication, Take, KickPush, Clear, Stop,
         PushPublish, SetPublisher, Own, Unpublish, Close, PushStart, PushEnds, Upstream,
         SendMedia, ComesUp
<1>2. /\ TodoOk /\ src.publishing \in BOOLEAN /\ StoppedOk /\ Range(<<>>) = {}
      /\ "push" \in Others /\ "api" \in Others /\ (proxy.freed => ~proxy.started)
  BY TupleRanges DEF TypeOK, TodoOk, ChainOk, StoppedOk, Others
<1>3. ASSUME NEW part \in {"rdy_own", "try_publish", "frame"}, IoDoes(part)
      PROVE  OthersQuiet /\ IoQuiet
  <2>1. OthersQuiet /\ todo["io"] # <<>> /\ Head(todo["io"]) = part
    BY <1>3, IoLeavesOthers
  <2>2. todo["io"] \in OtherRuns /\ Tail(todo["io"]) \in OtherRuns
    BY <2>1, IoStep DEF RunsOk
  <2> QED  BY <1>3, <2>1, <2>2 DEF IoDoes, IoQuiet
<1>4. ASSUME NEW g \in Others, NEW part, NEW rest, Ran(g, part, rest),
             Range(rest) \cap {"hangup", "free"} = {},
             part \notin {"cancel", "stop"} \/ ~proxy.started
      PROVE  OthersQuiet /\ IoQuiet
  BY <1>2, <1>4, QuietRan DEF IoQuiet
<1>5. CASE ReadyOwn \/ TryPublish \/ Frame
  BY <1>1, <1>2, <1>3, <1>5, IoParts, ChainQuiet
<1>6. CASE LetGo(h) \/ EndPublication(h) \/ KickPush(h) \/ Clear(h)
  <2>1. PICK part \in {"letgo", "end", "fini", "kickpush", "clear", "reset"} : Ran(h, part, <<>>)
    BY <1>2, <1>6, OtherParts
  <2>2. OthersQuiet /\ IoQuiet
    BY <1>2, <1>4, <2>1
  <2> QED  BY <1>1, <2>2, ChainQuiet
<1>7. CASE PushPublish \/ Own \/ Unpublish
  <2>1. PICK part \in {"publish", "own", "unpub"} : Ran("push", part, <<>>)
    BY <1>2, <1>7, OtherParts
  <2>2. OthersQuiet /\ IoQuiet
    BY <1>2, <1>4, <2>1
  <2> QED  BY <1>1, <2>2, ChainQuiet
<1>8. CASE Take(h)
  <2>1. PICK rest \in Seq(Parts) :
            /\ Range(rest) \subseteq {"stop", "kickpush", "fini", "clear"}
            /\ Ran(h, "take", rest)
    BY <1>2, <1>8, CallingParts
  <2>2. OthersQuiet /\ IoQuiet
    BY <1>2, <1>4, <2>1
  <2> QED  BY <1>1, <2>2, ChainQuiet
<1>9. CASE SetPublisher
  <2>1. PICK rest \in Seq(Parts) :
            /\ Range(rest) \subseteq {"stop", "kickpush", "own"}
            /\ Ran("push", "setpub", rest)
    BY <1>2, <1>9, CallingParts
  <2>2. OthersQuiet /\ IoQuiet
    BY <1>2, <1>4, <2>1
  <2> QED  BY <1>1, <2>2, ChainQuiet
<1>10. CASE Stop(h) /\ ~(proxy.started /\ ~proxy.freed)
  <2>1. Ran(h, "stop", <<>>) /\ ~proxy.started
    BY <1>2, <1>10, CallingParts
  <2>2. OthersQuiet /\ IoQuiet
    BY <1>2, <1>4, <2>1
  <2> QED  BY <1>1, <2>2, ChainQuiet
<1>11. CASE Close \/ PushStart \/ PushEnds
  <2>1. PICK g \in Others, s \in {<<"take">>, <<"take", "publish", "setpub">>,
                                  <<"reset", "unpub", "fini">>} : Began(g, s)
    <3>1. \/ Starts("api", <<"take">>) \/ Starts("push", <<"take", "publish", "setpub">>)
          \/ Starts("push", <<"reset", "unpub", "fini">>)
      BY <1>11 DEF Close, PushStart, PushEnds
    <3> QED  BY <1>2, <3>1, BeganIsStep, BeginsAre DEF Handlers
  <2>2. Range(s) \cap {"hangup", "free"} = {}
    BY TupleRanges
  <2>3. OthersQuiet /\ IoQuiet
    BY <2>1, <2>2, QuietBegan DEF IoQuiet
  <2> QED  BY <1>1, <2>3, ChainQuiet
<1>12. CASE Upstream
  <2>1. todo' = todo
    BY <1>12 DEF Upstream
  <2>2. OthersQuiet /\ IoQuiet
    BY <2>1 DEF OthersQuiet, IoQuiet, Left
  <2> QED  BY <1>1, <2>2, ChainQuiet
<1> QED  BY <1>5, <1>6, <1>7, <1>8, <1>9, <1>10, <1>11, <1>12

LEMMA ChainKept ==
  ASSUME TypeOK, RunsOk, ChainOk, Next, ProxyAssumption
  PROVE  ChainOk'
<1>1. cl' \in Clients
  <2>1. TypeOK'
    BY TypesKept DEF ChainOk
  <2> QED  BY <2>1 DEF TypeOK
<1>2. CASE \/ ErrStop \/ ScheduleRetry \/ RedialFails \/ Redial \/ ReadyCancel \/ UseFreed
           \/ Start \/ ClientEvent
  BY <1>1, <1>2, ChainErrStop, ChainScheduleRetry, ChainRedial, ChainReadyCancel,
     ChainUseFreed, ChainStart, ChainClientEvent
<1>3. CASE \E t \in {"tracked", "orphan"} : RetryFires(t)
  BY <1>3, ChainRetryFires
<1>4. ASSUME NEW h \in Others, Stop(h) \/ Hangup(h) PROVE ChainOk'
  BY <1>1, <1>4, ChainStop, ChainHangup, ChainOther
<1>5. CASE CancelRetry \/ Free \/ Destroy
  BY <1>1, <1>5, ChainCancel, ChainFree, ChainDestroy
<1>6. ASSUME NEW h \in Others, LetGo(h) \/ EndPublication(h) \/ Take(h) \/ KickPush(h) \/ Clear(h)
      PROVE  ChainOk'
  BY <1>6, ChainOther
<1>7. CASE \/ ReadyOwn \/ TryPublish \/ Frame \/ PushPublish \/ SetPublisher \/ Own \/ Unpublish
           \/ Close \/ PushStart \/ PushEnds \/ Upstream
  <2>1. "push" \in Others
    BY DEF Others
  <2> QED  BY <1>7, <2>1, ChainOther
<1> QED  BY <1>2, <1>3, <1>4, <1>5, <1>6, <1>7, NextIs

-----------------------------------------------------------------------------
(* One poller thread.                                                      *)

LEMMA AloneKept ==
  ASSUME TodoOk, TodoStep, cfg.one, Alone, RunsOk
  PROVE  Alone'
<1>0. \A g, h \in Handlers : todo[g] # <<>> /\ todo[h] # <<>> => g = h
  BY DEF Alone, Idle
<1> SUFFICES \A g, h \in Handlers : todo'[g] # <<>> /\ todo'[h] # <<>> => g = h
  BY DEF Alone, Idle
<1>1. ASSUME NEW h \in Handlers, \A g \in Handlers \ {h} : todo'[g] = <<>>
      PROVE  \A g, i \in Handlers : todo'[g] # <<>> /\ todo'[i] # <<>> => g = i
  BY <1>1
<1>2. CASE todo' = todo
  BY <1>0, <1>2
<1>3. CASE \E h \in Handlers : \E s \in Begins(h) : Began(h, s)
  BY <1>1, <1>3 DEF Began
<1>4. CASE \E h \in Handlers, part \in Parts, rest \in Seq(Parts) : Ran(h, part, rest)
  BY <1>1, <1>4 DEF Ran
<1>5. CASE /\ todo'["io"] = <<>>
           /\ todo'["push"] = todo["push"] /\ todo'["api"] = todo["api"]
  BY <1>0, <1>5 DEF Handlers
<1> QED  BY <1>2, <1>3, <1>4, <1>5 DEF TodoStep

LEMMA NobodyElse ==
  ASSUME Alone, NEW h \in Handlers, todo[h] # <<>>, NEW g \in Handlers, g # h
  PROVE  todo[g] = <<>> /\ Left(g) = {}
BY TupleRanges DEF Alone, Idle, Left

\* A part of the others, with what it must keep.
LEMMA ThreadRan ==
  ASSUME cfg.one, ThreadOk, cfg' = cfg, Alone', NEW h \in Others, NEW part, NEW rest,
         Ran(h, part, rest),
         proxy'.started = proxy.started, proxy'.freed = proxy.freed,
         cl'.link # "none" => cl.link # "none",
         part = "hangup" => cl'.link = "none",
         src'.publisher = "proxy" => src.publisher = "proxy",
         part = "letgo" => src'.publisher # "proxy",
         "stop" \in Range(rest) => ~proxy.freed,
         touched' => touched \/ redialFailed, redialFailed' = redialFailed
  PROVE  ThreadOk'
<1>1. /\ \A g \in Handlers \ {h} : todo'[g] = todo[g] /\ todo[g] = <<>>
      /\ Left(h) = {part} \cup Range(Tail(todo[h]))
      /\ Range(todo'[h]) = Range(rest) \cup Range(Tail(todo[h]))
  BY DEF Ran
<1>2. /\ Others \subseteq Handlers /\ "io" \in Handlers \ {h}
      /\ \A g \in Others \ {h} : Left(g) = {} /\ Range(todo'[g]) = {}
  BY <1>1, TupleRanges DEF Others, Handlers, Left
<1>3. StopsWhole'
  <2>1. ASSUME ~proxy'.started, cl'.link # "none" PROVE "hangup" \in Range(todo'[h])
    <3>1. "hangup" \in Left(h)
      BY <1>2, <2>1 DEF ThreadOk, StopsWhole
    <3> QED  BY <1>1, <2>1, <3>1
  <2>2. ASSUME ~proxy'.started, src'.publisher = "proxy" PROVE "letgo" \in Range(todo'[h])
    <3>1. "letgo" \in Left(h)
      BY <1>2, <2>2 DEF ThreadOk, StopsWhole
    <3> QED  BY <1>1, <2>2, <3>1
  <2> QED  BY <2>1, <2>2 DEF StopsWhole, Left
<1>4. StopsLive'
  <2>1. "stop" \in Range(todo'[h]) => ~proxy.freed
    BY <1>1 DEF ThreadOk, StopsLive
  <2> QED  BY <1>2, <2>1 DEF StopsLive, Left
<1>5. todo'["io"] = <<>>
  BY <1>1, <1>2
<1> QED  BY <1>3, <1>4, <1>5 DEF ThreadOk

\* With one thread, whoever is to stop the proxy that owns the source finds it alive.
LEMMA OwnerAlive ==
  ASSUME cfg.one, ChainOk, ThreadOk, NEW h \in Others, todo[h] # <<>>,
         "letgo" \notin Left(h), src.publisher = "proxy"
  PROVE  ~proxy.freed
<1>1. \A g \in Others : "letgo" \notin Left(g)
  BY NobodyElse DEF ThreadOk, Others, Handlers
<1>2. proxy.started
  BY <1>1 DEF ThreadOk, StopsWhole
<1> QED  BY <1>2 DEF ChainOk, StoppedOk

\* The parts of the poller's handler run for a started proxy.
LEMMA ThreadIo ==
  ASSUME TodoOk, cfg.one, ChainOk, ThreadOk, Alone',
         ErrStop \/ ScheduleRetry \/ RedialFails \/ Redial \/ ReadyCancel \/ ReadyOwn
             \/ TryPublish \/ Frame \/ UseFreed,
         TypeOK
  PROVE  ThreadOk'
<1>1. todo["io"] # <<>>
  BY IoParts, IoLeavesOthers DEF UseFreed, Idle
<1>2. proxy.started /\ ~proxy.freed
  BY <1>1 DEF ThreadOk, ChainOk, StoppedOk
<1>3. ~UseFreed
  BY <1>2 DEF UseFreed
<1>4. /\ todo'["push"] = <<>> /\ todo'["api"] = <<>>
  BY <1>3, IoParts DEF IoDoes, Ran, Handlers
<1>5. /\ cfg' = cfg /\ proxy'.started = proxy.started /\ touched' = touched
      /\ redialFailed => redialFailed'
  BY <1>3 DEF ErrStop, ScheduleRetry, RedialFails, Redial, ReadyCancel, ReadyOwn,
     TryPublish, Frame, TypeOK
<1>6. StopsLive'
  BY <1>4, TupleRanges DEF StopsLive, Left, Others
<1>7. StopsWhole'
  BY <1>2, <1>5 DEF StopsWhole
<1> QED  BY <1>2, <1>5, <1>6, <1>7 DEF ThreadOk

\* A handler that begins finds nobody at work.
LEMMA ThreadBegins ==
  ASSUME TypeOK, cfg.one, ChainOk, ThreadOk, Alone',
         Destroy \/ Close \/ PushStart \/ PushEnds
  PROVE  ThreadOk'
<1>1. /\ UNCHANGED <<cl, cfg, proxy, src, touched, redialFailed>> /\ (Destroy => ~proxy.freed)
  BY DEF Destroy, Close, PushStart, PushEnds
<1>2. PICK h \in Others, s \in {<<"take">>, <<"take", "publish", "setpub">>,
                                <<"reset", "unpub", "fini">>, DestroyRun} :
          Began(h, s) /\ (s = DestroyRun => Destroy)
  <2>1. \/ Destroy /\ Starts("api", DestroyRun)
        \/ Starts("api", <<"take">>) \/ Starts("push", <<"take", "publish", "setpub">>)
        \/ Starts("push", <<"reset", "unpub", "fini">>)
    BY DEF Destroy, Close, PushStart, PushEnds, DestroyRun
  <2>2. /\ DestroyRun # <<"take">> /\ DestroyRun # <<"take", "publish", "setpub">>
        /\ DestroyRun # <<"reset", "unpub", "fini">>
    BY DEF DestroyRun
  <2> QED  BY <2>1, <2>2, BeganIsStep, BeginsAre DEF Handlers, Others, TypeOK, TodoOk
<1>3. \A g \in Handlers : todo[g] = <<>> /\ Left(g) = {}
  BY <1>1, <1>2, TupleRanges DEF Began, Left
<1>4. /\ \A g \in Handlers \ {h} : todo'[g] = <<>>
      /\ todo'[h] = s /\ "io" \in Handlers \ {h} /\ Others \subseteq Handlers
  BY <1>2, <1>3 DEF Began, Others, Handlers
<1>5. StopsWhole'
  BY <1>1, <1>3, <1>4 DEF ThreadOk, StopsWhole
<1>6. "stop" \in Range(s) => ~proxy.freed
  BY <1>1, <1>2, TupleRanges
<1>7. StopsLive'
  BY <1>1, <1>4, <1>6, TupleRanges DEF StopsLive, Left
<1> QED  BY <1>1, <1>4, <1>5, <1>7 DEF ThreadOk

\* The proxy's poller: a start, a callback of the client, a retry.
LEMMA ThreadPoller ==
  ASSUME TypeOK, RunsOk, cfg.one, ChainOk, ThreadOk, Alone',
         \/ Start \/ ClientEvent \/ Upstream
         \/ \E t \in {"tracked", "orphan"} : RetryFires(t)
  PROVE  ThreadOk'
<1>1. CASE Start
  <2>1. /\ proxy'.started /\ proxy'.freed = proxy.freed /\ todo' = todo
        /\ UNCHANGED <<cfg, src, touched, redialFailed>>
    BY <1>1 DEF Start, TypeOK
  <2> QED  BY <2>1 DEF ThreadOk, StopsWhole, StopsLive, Left
<1>2. CASE Upstream
  BY <1>2 DEF Upstream, SendMedia, ComesUp, ThreadOk, StopsWhole, StopsLive, Left
<1>3. CASE ClientEvent
  <2>1. PICK say \in Callbacks : /\ TcpConnected(say) \/ TcpError(say) \/ Receive(say)
                                 /\ Starts("io", Callback(say))
    BY <1>3 DEF ClientEvent
  <2>2. cl.link # "none"
    BY <2>1 DEF TcpConnected, TcpError, Receive
  <2>3. Callback(say) \in Begins("io")
    BY CallbackIs, BeginsAre
  <2>4. Began("io", Callback(say))
    BY <2>1, <2>3, BeganIsStep DEF TypeOK, TodoOk, Handlers
  <2>5. \A g \in Others : todo[g] = <<>> /\ todo'[g] = <<>> /\ Left(g) = {}
    BY <2>4, TupleRanges DEF Began, Left, Others, Handlers
  <2>6. proxy.started
    BY <2>2, <2>5 DEF ThreadOk, StopsWhole
  <2>7. UNCHANGED <<cfg, proxy, src, touched, redialFailed>>
    BY <1>3 DEF ClientEvent
  <2> QED  BY <2>5, <2>6, <2>7, TupleRanges DEF ThreadOk, StopsWhole, StopsLive, Left
<1>4. ASSUME NEW t \in {"tracked", "orphan"}, RetryFires(t) PROVE ThreadOk'
  <2>1. \E s \in {<<>>, RedialRun} : Starts("io", s) /\ (s # <<>> => proxy.started)
    BY <1>4 DEF RetryFires, RedialRun
  <2>2. PICK s \in {<<>>, RedialRun} : Began("io", s) /\ (s # <<>> => proxy.started)
    BY <2>1, BeganIsStep, BeginsAre DEF TypeOK, TodoOk, Handlers
  <2>3. \A g \in Others : todo'[g] = todo[g]
    BY <2>2 DEF Began, Others, Handlers
  <2>4. /\ UNCHANGED <<cl, cfg, proxy, src, redialFailed>>
        /\ touched' = (touched \/ proxy.freed) /\ t \in timers
    BY <1>4 DEF RetryFires
  <2>5. touched' => redialFailed
    BY <2>4 DEF ThreadOk, ChainOk, StoppedOk, TimersOk
  <2>6. todo'["io"] # <<>> => proxy.started
    BY <2>2 DEF Began
  <2>7. StopsWhole' /\ StopsLive'
    BY <2>3, <2>4 DEF ThreadOk, StopsWhole, StopsLive, Left
  <2> QED  BY <2>4, <2>5, <2>6, <2>7 DEF ThreadOk
<1> QED  BY <1>1, <1>2, <1>3, <1>4

LEMMA ThreadStop ==
  ASSUME TypeOK, RunsOk, cfg.one, ChainOk, ThreadOk, Alone', NEW h \in Others, Stop(h)
  PROVE  ThreadOk'
<1>0. TodoOk /\ h \in Handlers /\ Others \subseteq Handlers /\ "io" \in Handlers \ {h}
  BY DEF TypeOK, TodoOk, Others, Handlers
<1>1. CASE proxy.started /\ ~proxy.freed
  <2>1. /\ UNCHANGED <<cl, cfg, src, redialFailed>> /\ proxy'.freed = proxy.freed
        /\ touched' = (touched \/ proxy.freed)
    BY <1>1 DEF Stop, TypeOK
  <2>2. Ran(h, "stop", StopParts)
    BY <1>0, <1>1, CallingParts
  <2>3. {"letgo", "hangup"} \subseteq Range(todo'[h]) /\ todo'["io"] = <<>>
    BY <1>0, <2>2, RestOk DEF Ran
  <2>4. StopsWhole'
    BY <2>3 DEF StopsWhole, Left
  <2>5. StopsLive'
    BY <1>1, <2>1 DEF StopsLive
  <2> QED  BY <1>1, <2>1, <2>3, <2>4, <2>5 DEF ThreadOk
<1>2. CASE ~(proxy.started /\ ~proxy.freed)
  <2>1. Ran(h, "stop", <<>>)
    BY <1>0, <1>2, CallingParts
  <2>2. ~proxy.freed
    BY <2>1 DEF Ran, ThreadOk, StopsLive
  <2>3. /\ UNCHANGED <<cl, cfg, src, redialFailed, proxy>>
        /\ touched' = (touched \/ proxy.freed)
    BY <1>2 DEF Stop
  <2> QED  BY <2>1, <2>2, <2>3, ThreadRan, TupleRanges
<1> QED  BY <1>1, <1>2

LEMMA ThreadFree ==
  ASSUME TypeOK, RunsOk, cfg.one, ChainOk, ThreadOk, Alone', Free
  PROVE  ThreadOk'
<1>0. TodoOk /\ "api" \in Others /\ cl \in Clients /\ todo["api"] \in Seq(Parts)
  BY DEF TypeOK, TodoOk, Others, Handlers
<1>1. Ran("api", "free", <<>>)
  BY <1>0, OtherParts
<1>2. Tail(todo["api"]) = <<>>
  BY <1>0, <1>1, LastTail DEF Ran, RunsOk
<1>3. Left("api") = {"free"} /\ Range(todo'["api"]) = {}
  BY <1>1, <1>2, TupleRanges DEF Ran
<1>4. todo'["push"] = <<>> /\ todo["push"] = <<>> /\ todo'["io"] = <<>>
  BY <1>1 DEF Ran, Handlers
<1>5. \A g \in Others : "letgo" \notin Left(g) /\ Range(todo'[g]) = {}
  BY <1>3, <1>4, TupleRanges DEF Left, Others
<1>6. /\ UNCHANGED <<cfg, src, touched, redialFailed>> /\ cl' = ClientStop(cl)
      /\ proxy'.started = proxy.started
  BY DEF Free, TypeOK
<1>7. StopsWhole'
  <2>1. cl'.link = "none"
    BY <1>0, <1>6, ClientCalls
  <2> QED  BY <1>5, <1>6, <2>1 DEF ThreadOk, StopsWhole
<1>8. StopsLive'
  BY <1>5 DEF StopsLive, Left
<1> QED  BY <1>4, <1>6, <1>7, <1>8 DEF ThreadOk

LEMMA ThreadOther ==
  ASSUME TypeOK, RunsOk, cfg.one, ChainOk, ThreadOk, Alone', NEW h \in Others,
         \/ LetGo(h) \/ EndPublication(h) \/ Hangup(h) \/ Take(h) \/ KickPush(h) \/ Clear(h)
         \/ PushPublish \/ SetPublisher \/ Own \/ Unpublish \/ CancelRetry
  PROVE  ThreadOk'
<1>0. /\ TodoOk /\ "push" \in Others /\ "api" \in Others /\ cl \in Clients
      /\ src.publishing \in BOOLEAN /\ Range(<<>>) = {} /\ todo["push"] \in Seq(Parts)
  BY TupleRanges DEF TypeOK, TodoOk, Others, Handlers
<1>1. UNCHANGED <<cfg, proxy, touched, redialFailed>>
  BY DEF LetGo, EndPublication, Hangup, Take, KickPush, Clear, PushPublish, SetPublisher, Own,
         Unpublish, CancelRetry
<1>2. CASE LetGo(h)
  <2>1. Ran(h, "letgo", <<>>)
    BY <1>0, <1>2, OtherParts
  <2>2. cl' = cl /\ src'.publisher # "proxy"
    BY <1>2 DEF LetGo, TypeOK, Nobody
  <2> QED  BY <1>0, <1>1, <2>1, <2>2, ThreadRan
<1>3. CASE Hangup(h)
  <2>1. Ran(h, "hangup", <<>>)
    BY <1>0, <1>3, OtherParts
  <2>2. cl'.link = "none" /\ src'.publisher = src.publisher
    BY <1>0, <1>3, ClientCalls DEF Hangup, TypeOK
  <2> QED  BY <1>0, <1>1, <2>1, <2>2, ThreadRan
<1>4. CASE \/ EndPublication(h) \/ KickPush(h) \/ Clear(h) \/ PushPublish \/ Own \/ Unpublish
           \/ CancelRetry
  <2>1. PICK g \in Others, part \in {"end", "fini", "kickpush", "clear", "reset", "publish",
                                     "own", "unpub", "cancel"} : Ran(g, part, <<>>)
    BY <1>0, <1>4, OtherParts
  <2>2. cl' = cl /\ (src'.publisher = "proxy" => src.publisher = "proxy")
    BY <1>4 DEF EndPublication, KickPush, Clear, PushPublish, Own, Unpublish, CancelRetry,
                TypeOK, Nobody
  <2> QED  BY <1>0, <1>1, <2>1, <2>2, ThreadRan
<1>5. CASE Take(h)
  <2>1. PICK rest \in Seq(Parts) :
            /\ "stop" \in Range(rest) => src.publisher = "proxy"
            /\ Ran(h, "take", rest)
    BY <1>0, <1>5, CallingParts
  <2>2. todo[h] # <<>> /\ "letgo" \notin Left(h)
    BY <2>1, TakeTails DEF Ran, RunsOk, Left
  <2>3. "stop" \in Range(rest) => ~proxy.freed
    BY <2>1, <2>2, OwnerAlive
  <2>4. cl' = cl /\ (src'.publisher = "proxy" => src.publisher = "proxy")
    BY <1>5 DEF Take, TypeOK, Nobody
  <2> QED  BY <1>0, <1>1, <2>1, <2>3, <2>4, ThreadRan
<1>6. CASE SetPublisher
  <2>1. PICK rest \in Seq(Parts) :
            /\ "stop" \in Range(rest) => src.publisher = "proxy"
            /\ Ran("push", "setpub", rest)
    BY <1>0, <1>6, CallingParts
  <2>2. Tail(todo["push"]) = <<>> /\ todo["push"] # <<>>
    BY <1>0, <2>1, LastTail DEF Ran, RunsOk
  <2>3. "letgo" \notin Left("push")
    BY <1>0, <2>1, <2>2 DEF Ran
  <2>4. "stop" \in Range(rest) => ~proxy.freed
    BY <1>0, <2>1, <2>2, <2>3, OwnerAlive
  <2>5. cl' = cl /\ src' = src
    BY <1>6 DEF SetPublisher
  <2> QED  BY <1>0, <1>1, <2>1, <2>4, <2>5, ThreadRan
<1> QED  BY <1>2, <1>3, <1>4, <1>5, <1>6

LEMMA ConfigFixed == Next => cfg' = cfg
BY DEF Next, Start, ClientEvent, Retry, RetryFires, IoPart, ErrStop, ScheduleRetry, RedialFails,
       Redial, ReadyCancel, ReadyOwn, TryPublish, Frame, UseFreed, PushPart, ApiPart, Part,
       Stop, LetGo, EndPublication, Hangup, Take, KickPush, Clear, PushPublish, SetPublisher,
       Own, Unpublish, CancelRetry, Free, Upstream, Destroy, Close, PushStart, PushEnds

LEMMA ThreadKept ==
  ASSUME TypeOK, RunsOk, ChainOk, ThreadOk, Next
  PROVE  ThreadOk'
<1>1. CASE ~cfg.one
  BY <1>1, ConfigFixed DEF ThreadOk
<1>2. CASE cfg.one
  <2>1. Alone' /\ TodoOk
    BY <1>2, TodoSteps, AloneKept DEF TypeOK, TodoOk, ChainOk, ThreadOk
  <2>2. CASE \/ ErrStop \/ ScheduleRetry \/ RedialFails \/ Redial \/ ReadyCancel \/ ReadyOwn
             \/ TryPublish \/ Frame \/ UseFreed
    BY <1>2, <2>1, <2>2, ThreadIo
  <2>3. CASE \/ Start \/ ClientEvent \/ Upstream
             \/ \E t \in {"tracked", "orphan"} : RetryFires(t)
    BY <1>2, <2>1, <2>3, ThreadPoller
  <2>4. CASE Destroy \/ Close \/ PushStart \/ PushEnds
    BY <1>2, <2>1, <2>4, ThreadBegins
  <2>5. ASSUME NEW h \in Others,
               \/ Stop(h) \/ LetGo(h) \/ EndPublication(h) \/ Hangup(h)
               \/ Take(h) \/ KickPush(h) \/ Clear(h)
        PROVE  ThreadOk'
    BY <1>2, <2>1, <2>5, ThreadStop, ThreadOther
  <2>6. CASE PushPublish \/ SetPublisher \/ Own \/ Unpublish \/ CancelRetry \/ Free
    <3>1. "push" \in Others
      BY DEF Others
    <3> QED  BY <1>2, <2>1, <2>6, <3>1, ThreadOther, ThreadFree
  <2> QED  BY <2>2, <2>3, <2>4, <2>5, <2>6, NextIs
<1>3. cfg.one \in BOOLEAN
  BY ProxyAssumption DEF TypeOK, Configs, ProxyAssumption
<1> QED  BY <1>1, <1>2, <1>3
-----------------------------------------------------------------------------
(* The theorems.                                                           *)

LEMMA InitInv == Init => IInv
<1> SUFFICES ASSUME Init PROVE IInv
  OBVIOUS
<1>1. /\ cl = ClientCreate /\ cl \in Clients /\ cl.link = "none" /\ ~cl.failed
      /\ net = <<>> /\ net \in Seq(Messages) /\ up = FALSE
  BY DEF Init, ClientInit, ClientCreate, Clients, States
<1>2. /\ \A h \in Handlers : todo[h] = <<>> /\ Left(h) = {}
      /\ todo \in [Handlers -> Seq(Parts)]
      /\ "io" \in Handlers /\ "push" \in Handlers /\ "api" \in Handlers
      /\ Others \subseteq Handlers
  BY TupleRanges DEF Init, Left, Handlers, Others
<1>3. /\ proxy = [fresh |-> TRUE, started |-> FALSE, failed |-> 0, freed |-> FALSE]
      /\ timers = {} /\ src = [publisher |-> Nobody, publishing |-> FALSE, video |-> FALSE]
      /\ lock = Nobody /\ push = "out" /\ touched = FALSE /\ redialFailed = FALSE
      /\ budget = [push |-> MaxPushes, api |-> MaxApis] /\ cfg \in Configs
  BY DEF Init
<1>4. TypeOK
  <2>1. MaxFailed \in Nat /\ MaxPushes \in Nat /\ MaxApis \in Nat
    BY ProxyAssumption DEF ProxyAssumption
  <2>2. proxy \in [fresh : BOOLEAN, started : BOOLEAN, failed : 0 .. MaxFailed, freed : BOOLEAN]
    BY <1>3, <2>1
  <2>3. /\ src \in [publisher : {Nobody, "proxy", "push"}, publishing : BOOLEAN, video : BOOLEAN]
        /\ lock \in {Nobody, "push"} /\ push \in {"out", "registering", "live", "kicked"}
    BY <1>3
  <2>4. budget \in [push : 0 .. MaxPushes, api : 0 .. MaxApis]
    BY <1>3, <2>1
  <2> QED  BY <1>1, <1>2, <1>3, <2>2, <2>3, <2>4 DEF TypeOK
<1>5. RunsOk
  BY <1>2, RunsDiffer DEF RunsOk, LastOnly, IoRuns
<1>6. Phase = "idle"
  BY <1>1 DEF Phase
<1>7. ChainOk
  <2>1. cfg.retry >= 0 => proxy.failed <= cfg.retry
    BY <1>3
  <2> QED  BY <1>1, <1>2, <1>3, <1>6, <2>1
           DEF ChainOk, FreshOk, StoppedOk, Linked, RedialIdle, RetriesOk, TimersOk, Others
<1>8. ThreadOk
  BY <1>1, <1>2, <1>3
     DEF ThreadOk, Alone, StopsWhole, StopsLive, Idle, Nobody
<1> QED  BY <1>4, <1>5, <1>7, <1>8 DEF IInv

LEMMA StutterInv == IInv /\ UNCHANGED vars => IInv'
BY DEF IInv, vars, TypeOK, RunsOk, Left, ChainOk, FreshOk, StoppedOk, Linked, RedialIdle,
       RetriesOk, TimersOk, Started, Pursued, GivenUp, Doomed, ThreadOk, Alone, Idle,
       StopsWhole, StopsLive, Phase

LEMMA NextInv == IInv /\ [Next]_vars => IInv'
<1>1. ASSUME IInv, Next PROVE IInv'
  <2>1. TypeOK' /\ RunsOk'
    BY <1>1, TypesKept, RunsKept, ProxyAssumption DEF IInv, ChainOk
  <2>2. ChainOk' /\ ThreadOk'
    BY <1>1, ChainKept, ThreadKept, ProxyAssumption DEF IInv
  <2> QED  BY <2>1, <2>2 DEF IInv
<1> QED  BY <1>1, StutterInv

\* Types of the variables, the runs of the handlers, the chain of retries, and
\* what one poller thread adds: the inductive invariant holds.
THEOREM ProxyInvariant == Spec => []IInv
<1> QED  BY InitInv, NextInv, PTL DEF Spec

LEMMA ChainImplied == IInv => OneChain
<1> SUFFICES ASSUME IInv, proxy.started, ~Doomed
             PROVE  Pursuits = 1 \/ (Pursuits = 0 /\ GivenUp)
  BY DEF OneChain
<1>1. Started /\ Pursued /\ todo["io"] \in IoRuns /\ timers \subseteq {"tracked", "orphan"}
      /\ cl \in Clients
  BY DEF IInv, ChainOk, RunsOk, TypeOK
<1> DEFINE busy == IF Phase \in {"dialing", "ready"} THEN 1 ELSE 0
           armed == Cardinality(timers)
           pending == Cardinality({i \in 1 .. Len(todo["io"]) :
                                       todo["io"][i] \in {"err_sched", "redial"}})
<1>2. pending = IF todo["io"] \in RetryRuns THEN 1 ELSE 0
  BY <1>1, PendingParts
<1>3. armed = IF timers = {} THEN 0 ELSE 1
  <2>1. timers = {} \/ timers = {"tracked"} \/ timers = {"orphan"}
    BY <1>1 DEF Started
  <2> QED  BY <2>1, FS_EmptySet, FS_Singleton
<1>4. Pursuits = busy + armed + pending
  BY DEF Pursuits
<1>5. todo["io"] \in RetryRuns => Phase \notin {"dialing", "ready"}
  <2>1. todo["io"] = RedialRun => Phase = "idle"
    BY DEF IInv, ChainOk, RedialIdle
  <2> QED  BY <1>1, <2>1 DEF RetryRuns, Started
<1>6. /\ todo["io"] \in RetryRuns => timers = {}
      /\ timers # {} => Phase \notin {"dialing", "ready"}
  BY <1>1 DEF Started
<1>7. \/ Phase \in {"dialing", "ready"} \/ timers # {} \/ todo["io"] \in RetryRuns \/ GivenUp
  BY <1>1 DEF Pursued
<1> HIDE DEF armed, pending
<1> QED  BY <1>2, <1>3, <1>4, <1>5, <1>6, <1>7

\* A started proxy that is not being destroyed has exactly one pursuit, or has
\* used up its retries, however its callbacks, its timer and the API interleave.
THEOREM OneChainAlways == Spec => []OneChain
<1> QED  BY ProxyInvariant, ChainImplied, PTL

LEMMA QuietImplied == IInv => StoppedIsQuiet /\ FreedUntouched
<1>1. ASSUME IInv, cfg.one, ~proxy.started, \A h \in Handlers : Idle(h)
      PROVE  cl.link = "none" /\ src.publisher # "proxy" /\ "tracked" \notin timers
  <2>1. \A h \in Others : Left(h) = {}
    BY <1>1, TupleRanges DEF Idle, Left, Others, Handlers
  <2> QED  BY <1>1, <2>1 DEF IInv, ThreadOk, StopsWhole, ChainOk, TimersOk
<1> QED  BY <1>1 DEF StoppedIsQuiet, FreedUntouched, IInv, ThreadOk

\* With one poller thread, a stopped proxy has hung up, let go of the source
\* and left no timer that would be found; and none that was freed is used but
\* by the retry task that the poller re-armed.
THEOREM StoppedStaysQuiet == Spec => []StoppedIsQuiet
<1> QED  BY ProxyInvariant, QuietImplied, PTL

\* With one poller thread a freed proxy is used only by a task the poller re-armed.
THEOREM FreedStaysUntouched == Spec => []FreedUntouched
<1> QED  BY ProxyInvariant, QuietImplied, PTL

\* The client and its user keep the contract of PullClient, step by step.
LEMMA ContractStep == IInv /\ [Next]_vars => [Client!Next]_Phase
<1>1. ASSUME IInv, Next PROVE Client!Next \/ Phase' = Phase
  <2>0. /\ cl \in Clients /\ cl' \in Clients /\ TodoOk
        /\ (cl.link # "none" => ~cl.stopping) /\ net \in Seq(Messages)
    BY <1>1, TypesKept, ProxyAssumption DEF IInv, ChainOk, Linked, TypeOK, TodoOk
  <2>1. ASSUME cl' = ClientPlay(cl), Phase = "idle" PROVE Client!Next
    <3>1. Phase' = "dialing"
      BY <2>0, <2>1, ClientCalls DEF Phase
    <3> QED  BY <2>1, <3>1 DEF Client!Next, Client!Play
  <2>2. ASSUME cl' = ClientStop(cl) PROVE Client!Next
    <3>1. Phase' = "idle"
      BY <2>0, <2>2, ClientCalls DEF Phase
    <3> QED  BY <3>1 DEF Client!Next, Client!Stop
  <2>3. CASE cl' = cl
    BY <2>3 DEF Phase
  <2>4. CASE Start
    <3>1. Phase = "idle" /\ cl' = ClientPlay(cl)
      BY <1>1, <2>4 DEF Start, IInv, ChainOk, FreshOk
    <3> QED  BY <2>1, <3>1
  <2>5. CASE Redial \/ RedialFails
    <3>1. Phase = "idle"
      <4>1. todo["io"] = RedialRun
        BY <1>1, <2>0, <2>5, IoParts, IoLeavesOthers, IoStep DEF IInv, RunsOk
      <4> QED  BY <1>1, <4>1 DEF IInv, ChainOk, RedialIdle
    <3>2. CASE Redial
      BY <2>1, <3>1, <3>2 DEF Redial
    <3>3. CASE RedialFails
      BY <2>0, <3>1, <3>3, ClientCalls, PhaseIs DEF RedialFails
    <3> QED  BY <2>5, <3>2, <3>3
  <2>6. CASE ClientEvent
    <3>1. PICK say \in Callbacks : TcpConnected(say) \/ TcpError(say) \/ Receive(say)
      BY <2>6 DEF ClientEvent
    <3>2. /\ cl.link # "none" /\ (cl.ready_sent => cl'.ready_sent)
          /\ \/ cl'.failed
             \/ cl'.failed = cl.failed /\ cl'.link # "none"
      BY <2>0, <3>1, EventIs
    <3>3. \/ Phase' = Phase
          \/ Phase \in {"dialing", "ready"} /\ Phase' = "failed"
          \/ Phase = "dialing" /\ Phase' = "ready"
      BY <2>0, <3>2 DEF Phase, Clients
    <3> QED  BY <3>3 DEF Client!Next, Client!Error, Client!Ready
  <2>7. CASE ErrStop \/ Free
    BY <2>2, <2>7 DEF ErrStop, Free
  <2>8. ASSUME NEW h \in Others, Hangup(h) PROVE Client!Next
    BY <2>2, <2>8 DEF Hangup
  <2>9. ASSUME NEW h \in Others,
               Stop(h) \/ LetGo(h) \/ EndPublication(h) \/ Take(h) \/ KickPush(h) \/ Clear(h)
        PROVE  Phase' = Phase
    <3>1. cl' = cl
      BY <2>9 DEF Stop, LetGo, EndPublication, Take, KickPush, Clear
    <3> QED  BY <3>1 DEF Phase
  <2>10. CASE \/ ScheduleRetry \/ ReadyCancel \/ ReadyOwn \/ TryPublish \/ Frame \/ UseFreed
              \/ \E t \in {"tracked", "orphan"} : RetryFires(t)
    BY <2>3, <2>10 DEF ScheduleRetry, ReadyCancel, ReadyOwn, TryPublish, Frame, UseFreed,
                       RetryFires
  <2>11. CASE \/ PushPublish \/ SetPublisher \/ Own \/ Unpublish \/ CancelRetry \/ Upstream
              \/ Destroy \/ Close \/ PushStart \/ PushEnds
    BY <2>3, <2>11 DEF PushPublish, SetPublisher, Own, Unpublish, CancelRetry, Upstream,
                       SendMedia, ComesUp, Destroy, Close, PushStart, PushEnds
  <2> QED  BY <1>1, <2>4, <2>5, <2>6, <2>7, <2>8, <2>9, <2>10, <2>11, NextIs
<1>2. ASSUME UNCHANGED vars PROVE Phase' = Phase
  BY <1>2 DEF vars, Phase
<1> QED  BY <1>1, <1>2

\* The RTMP client under the proxy implements the client that the proxy is
\* written for: no callback after stop, ready once per play, an error ends the
\* play, and the proxy plays only a client that is idle.
THEOREM ClientKeepsContract == Spec => ClientContract
<1>1. Init => Client!Init
  BY DEF Init, ClientInit, ClientCreate, Client!Init, Phase
<1> QED  BY <1>1, ContractStep, ProxyInvariant, PTL DEF Spec, ClientContract, Client!Spec
=============================================================================
