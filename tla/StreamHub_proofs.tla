-------------------------- MODULE StreamHub_proofs --------------------------
(***************************************************************************)
(* However many connections contend for a stream's name, whatever they ask *)
(* for and in whatever order take-overs, closes and late teardowns come:   *)
(* nothing of a session that still was a publisher of the stream outlives  *)
(* it, and a publication is ended at most once.                            *)
(***************************************************************************)
EXTENDS StreamHub, TLAPS

\* The conjunction is inductive: each clause of NoOrphans follows one resource
\* from the step that takes it to the step that must give it back.
IInv == TypeOK /\ NoOrphans /\ EndsMatchBegins

\* The points of a teardown after which something is given back already.
Ending == TeardownPcs \cup {"gone"}
-----------------------------------------------------------------------------
\* The initial states.
LEMMA InitInv == Init => IInv
<1> SUFFICES ASSUME Init  PROVE IInv
  OBVIOUS
<1>1. pc \in [Actors -> Pcs]
  BY DEF Init, Pcs
<1>2. saved \in [Actors -> [pub : Sessions \cup {Nobody}, was : BOOLEAN]]
  BY DEF Init
<1>3. TypeOK
  BY <1>1, <1>2 DEF Init, TypeOK, Modes, Places
<1>4. NoOrphans /\ EndsMatchBegins
  BY DEF Init, NoOrphans, EndsMatchBegins
<1> QED  BY <1>3, <1>4 DEF IInv

\* A thread moves from one point to another: the program counters keep their
\* type and nobody else moves.
LEMMA GotoType ==
  ASSUME pc \in [Actors -> Pcs], NEW a \in Actors, NEW p \in Pcs, Goto(a, p)
  PROVE  /\ pc' \in [Actors -> Pcs]
         /\ pc'[a] = p
         /\ \A b \in Actors : b # a => pc'[b] = pc[b]
  BY DEF Goto

\* A step of a thread that is not ending, before it or after it, that gives
\* something of the stream back or takes it for itself, orphans nothing.
LEMMA KeepsOrTakes ==
  ASSUME IInv, NEW a \in Actors,
         pc'[a] \notin Ending,
         \A b \in Actors : b # a => pc'[b] = pc[b],
         \A s \in Sessions : s # a => (Owns(s)' <=> Owns(s)) /\ (Feeds(s)' <=> Feeds(s)),
         publishing' \in {publishing, Nobody, a},
         recording' \in {recording, Nobody, a},
         publisher' \in {publisher, Nobody, a},
         queued' \subseteq queued \cup {a}
  PROVE  NoOrphans'
<1>0. Sessions \subseteq Actors
  BY DEF Actors
<1>1. /\ publishing # Nobody => publishing \in Sessions
      /\ recording # Nobody => recording \in Sessions
      /\ publisher # Nobody => publisher \in Sessions
      /\ queued \subseteq Sessions
  BY DEF IInv, TypeOK
<1>2. ASSUME publishing' # Nobody, Owns(publishing)'
      PROVE  pc'[publishing'] # "gone"
  BY <1>0, <1>1, <1>2 DEF IInv, NoOrphans, Ending
<1>3. ASSUME recording' # Nobody, Owns(recording)'
      PROVE  pc'[recording'] \notin {"endfini", "gone"}
  BY <1>0, <1>1, <1>3 DEF IInv, NoOrphans, Ending, TeardownPcs
<1>4. ASSUME publisher' # Nobody, Owns(publisher)'
      PROVE  pc'[publisher'] \notin {"endstop", "endfini", "gone"}
  BY <1>0, <1>1, <1>4 DEF IInv, NoOrphans, Ending, TeardownPcs
<1>5. ASSUME NEW s \in queued', Feeds(s)'
      PROVE  pc'[s] \notin (TeardownPcs \ {"reset"}) \cup {"gone"}
  BY <1>0, <1>1, <1>5 DEF IInv, NoOrphans, Ending
<1> QED  BY <1>2, <1>3, <1>4, <1>5 DEF NoOrphans

\* A step of a session that is ending and changes nothing of what it is.
LEMMA Ends ==
  ASSUME IInv, NEW s \in Sessions,
         \A b \in Actors : b # s => pc'[b] = pc[b],
         UNCHANGED session,
         publishing' \in {publishing, Nobody}, recording' \in {recording, Nobody},
         publisher' \in {publisher, Nobody}, queued' \subseteq queued,
         publishing' = s /\ Owns(s) => pc'[s] # "gone",
         recording' = s /\ Owns(s) => pc'[s] \notin {"endfini", "gone"},
         publisher' = s /\ Owns(s) => pc'[s] \notin {"endstop", "endfini", "gone"},
         s \in queued' /\ Feeds(s) =>
             pc'[s] \notin (TeardownPcs \ {"reset"}) \cup {"gone"}
  PROVE  NoOrphans'
<1>0. Sessions \subseteq Actors
  BY DEF Actors
<1>1. /\ publishing # Nobody => publishing \in Sessions
      /\ recording # Nobody => recording \in Sessions
      /\ publisher # Nobody => publisher \in Sessions
      /\ queued \subseteq Sessions
  BY DEF IInv, TypeOK
<1>2. \A t \in Sessions : (Owns(t)' <=> Owns(t)) /\ (Feeds(t)' <=> Feeds(t))
  BY DEF Owns, Feeds, session
<1>3. ASSUME publishing' # Nobody, Owns(publishing)'
      PROVE  pc'[publishing'] # "gone"
  BY <1>0, <1>1, <1>2, <1>3 DEF IInv, NoOrphans
<1>4. ASSUME recording' # Nobody, Owns(recording)'
      PROVE  pc'[recording'] \notin {"endfini", "gone"}
  BY <1>0, <1>1, <1>2, <1>4 DEF IInv, NoOrphans
<1>5. ASSUME publisher' # Nobody, Owns(publisher)'
      PROVE  pc'[publisher'] \notin {"endstop", "endfini", "gone"}
  BY <1>0, <1>1, <1>2, <1>5 DEF IInv, NoOrphans
<1>6. ASSUME NEW t \in queued', Feeds(t)'
      PROVE  pc'[t] \notin (TeardownPcs \ {"reset"}) \cup {"gone"}
  BY <1>0, <1>1, <1>2, <1>6 DEF IInv, NoOrphans
<1> QED  BY <1>3, <1>4, <1>5, <1>6 DEF NoOrphans

\* The HTTP API starts to close.
LEMMA ApiInv == IInv /\ (CloseStream \/ CloseStreams) => IInv'
<1> SUFFICES ASSUME IInv, CloseStream \/ CloseStreams  PROVE IInv'
  OBVIOUS
<1>1. Api \in Actors /\ Api \notin Sessions
  BY SessionAssumption DEF Actors
<1>2. Goto(Api, "take") /\ "take" \in Pcs
  BY DEF CloseStream, CloseStreams, Pcs, TakePcs
<1>3. /\ pc' \in [Actors -> Pcs] /\ pc'[Api] = "take"
      /\ \A b \in Actors : b # Api => pc'[b] = pc[b]
  BY <1>1, <1>2, GotoType DEF IInv, TypeOK
<1>4. UNCHANGED <<source, session, saved, closing, begun, unended, requests>>
  BY DEF CloseStream, CloseStreams
<1>5. TypeOK'
  BY <1>3, <1>4, CloseAssumption
  DEF IInv, TypeOK, CloseStream, CloseStreams, source, session
<1>6. NoOrphans'
  BY <1>1, <1>3, <1>4, KeepsOrTakes
  DEF Ending, TeardownPcs, source, session, Owns, Feeds
<1>7. EndsMatchBegins'
  BY <1>4 DEF IInv, EndsMatchBegins, source
<1> QED  BY <1>5, <1>6, <1>7 DEF IInv

\* Binding a session to a place keeps the types and no other session's binding.
LEMMA BindType ==
  ASSUME TypeOK, NEW s \in Sessions, NEW p \in Places, Bind(s, p)
  PROVE  /\ src' \in [Sessions -> Places] /\ ing' \in [Sessions -> Places]
         /\ \A t \in Sessions : t # s => src'[t] = src[t] /\ ing'[t] = ing[t]
  BY DEF TypeOK, Bind

\* Taking over, or closing: the source forgets its publisher, no session that
\* holds something of it moves.
LEMMA TakeOverInv ==
  ASSUME IInv, NEW a \in Actors,
         Take(a) \/ AfterTake(a)
  PROVE  IInv'
<1>0. /\ Sessions \subseteq Actors /\ Api \notin Sessions
      /\ a \in Sessions \/ a = Api
  BY SessionAssumption DEF Actors
<1>1. PICK p \in {"kick", "stop", "fini", "clear", "idle", "waiting", "allow"} : Goto(a, p)
  BY DEF Take, AfterTake, Kick, Clear, StopRecorder, PublishFini
<1>2. p \in Pcs /\ p \notin Ending
  BY DEF Pcs, TakePcs, PublishPcs, Ending, TeardownPcs
<1>3. /\ pc' \in [Actors -> Pcs] /\ pc'[a] = p
      /\ \A b \in Actors : b # a => pc'[b] = pc[b]
  BY <1>1, <1>2, GotoType DEF IInv, TypeOK
<1>4. /\ mode' = mode /\ src' \in [Sessions -> Places] /\ ing' \in [Sessions -> Places]
      /\ \A t \in Sessions : t # a => src'[t] = src[t] /\ ing'[t] = ing[t]
  <2>1. CASE Clear(a)
    <3>1. CASE UNCHANGED <<src, ing>>
      BY <2>1, <3>1 DEF Clear, IInv, TypeOK
    <3>2. ASSUME NEW q \in {"here", "none"}, Bind(a, q), a \in Sessions
          PROVE  /\ src' \in [Sessions -> Places] /\ ing' \in [Sessions -> Places]
                 /\ \A t \in Sessions : t # a => src'[t] = src[t] /\ ing'[t] = ing[t]
      BY <3>2, BindType DEF IInv, Places
    <3>3. \/ UNCHANGED <<src, ing>>
          \/ a \in Sessions /\ (Bind(a, "here") \/ Bind(a, "none"))
      BY <2>1, SessionAssumption DEF Clear
    <3> QED  BY <2>1, <3>1, <3>2, <3>3 DEF Clear
  <2>2. CASE ~Clear(a)
    BY <2>2 DEF Take, AfterTake, Kick, StopRecorder, PublishFini, session, IInv, TypeOK
  <2> QED  BY <2>1, <2>2
<1>5. TypeOK'
  <2>1. CASE Take(a)
    BY <2>1, <1>3, <1>4 DEF IInv, TypeOK, Take, session, counters
  <2>2. CASE Kick(a)
    <3>1. \A k \in Kicked(saved[a].pub) : k \subseteq Sessions
      BY DEF Kicked, IInv, TypeOK
    <3> QED  BY <2>2, <3>1, <1>3, <1>4 DEF IInv, TypeOK, Kick, source, session, counters
  <2>3. CASE Clear(a)
    BY <2>3, <1>3, <1>4 DEF IInv, TypeOK, Clear, counters
  <2>4. CASE StopRecorder(a, "stop", "fini")
    BY <2>4, <1>3, <1>4 DEF IInv, TypeOK, StopRecorder, session, counters
  <2>5. CASE PublishFini(a, "fini", "clear")
    BY <2>5, <1>3, <1>4 DEF IInv, TypeOK, PublishFini, session, counters
  <2> QED  BY <2>1, <2>2, <2>3, <2>4, <2>5 DEF AfterTake
<1>6. NoOrphans'
  <2>1. \A t \in Sessions : t # a => (Owns(t)' <=> Owns(t)) /\ (Feeds(t)' <=> Feeds(t))
    BY <1>4 DEF Owns, Feeds
  <2>2. /\ publishing' \in {publishing, Nobody} /\ recording' \in {recording, Nobody}
        /\ publisher' \in {publisher, Nobody} /\ queued' \subseteq queued
    BY DEF Take, AfterTake, Kick, Clear, StopRecorder, PublishFini, source
  <2> QED  BY <1>2, <1>3, <2>1, <2>2, KeepsOrTakes
<1>7. EndsMatchBegins'
  BY DEF IInv, TypeOK, EndsMatchBegins, Take, AfterTake, Kick, Clear, StopRecorder,
         PublishFini, source
<1> QED  BY <1>5, <1>6, <1>7 DEF IInv

\* A connection asks for something: what the session is changes, the stream does not.
LEMMA AsksInv ==
  ASSUME IInv, NEW s \in Sessions, Asks(s)
  PROVE  IInv'
<1>0. s \in Actors /\ Sessions \subseteq Actors /\ pc[s] = "waiting"
  BY DEF Actors, Asks, Register, RegisterElsewhere, Describe, Play, Record, Request
<1>1. /\ UNCHANGED <<lock, source, saved, closing, begun, unended, closes>>
      /\ requests' = requests + 1
  BY DEF Asks, Register, RegisterElsewhere, Describe, Play, Record, Request
<1>2. UNCHANGED pc \/ Goto(s, "take") \/ Goto(s, "allow")
  BY DEF Asks, Register, RegisterElsewhere, Describe, Play, Record
<1>3. /\ pc' \in [Actors -> Pcs] /\ pc'[s] \notin Ending
      /\ \A b \in Actors : b # s => pc'[b] = pc[b]
  <2>1. "take" \in Pcs /\ "allow" \in Pcs /\ {"take", "allow", "waiting"} \cap Ending = {}
    BY DEF Pcs, TakePcs, PublishPcs, Ending, TeardownPcs
  <2> QED  BY <2>1, <1>0, <1>2, GotoType DEF IInv, TypeOK
<1>4. /\ mode' \in [Sessions -> Modes] /\ src' \in [Sessions -> Places]
      /\ ing' \in [Sessions -> Places] /\ piped' \subseteq Rtsp
      /\ \A t \in Sessions : t # s => /\ mode'[t] = mode[t] /\ src'[t] = src[t]
                                      /\ ing'[t] = ing[t]
  <2>0. "publish" \in Modes /\ "play" \in Modes /\ TypeOK
    BY DEF Modes, IInv
  <2>1. CASE Register(s)
    BY <2>0, <2>1 DEF Register, TypeOK, session
  <2>2. CASE RegisterElsewhere(s)
    <3>1. PICK p \in {"there", "none"} : Bind(s, p)
      BY <2>2 DEF RegisterElsewhere
    <3> QED  BY <2>0, <2>2, <3>1, BindType DEF RegisterElsewhere, TypeOK, Places
  <2>3. CASE Describe(s)
    BY <2>0, <2>3 DEF Describe, TypeOK
  <2>4. CASE Play(s)
    BY <2>0, <2>4 DEF Play, TypeOK
  <2>5. CASE Record(s)
    <3>1. piped' \subseteq Rtsp
      BY <2>0, <2>5 DEF Record, TypeOK
    <3> QED  BY <2>0, <2>5, <3>1 DEF Record, TypeOK
  <2> QED  BY <2>1, <2>2, <2>3, <2>4, <2>5 DEF Asks
<1>5. TypeOK'
  BY <1>1, <1>3, <1>4 DEF IInv, TypeOK, source
<1>6. NoOrphans'
  BY <1>0, <1>1, <1>3, <1>4, KeepsOrTakes DEF Owns, Feeds, source
<1>7. EndsMatchBegins'
  BY <1>1 DEF IInv, EndsMatchBegins, source
<1> QED  BY <1>5, <1>6, <1>7 DEF IInv

\* A session publishes: what it takes it may still give back.
LEMMA PublishInv ==
  ASSUME IInv, NEW s \in Sessions,
         Deny(s) \/ Allow(s) \/ Publish(s) \/ SetPublisher(s) \/ StartRecorder(s)
  PROVE  IInv'
<1>0. s \in Actors /\ Sessions \subseteq Actors /\ Nobody \notin Sessions
  BY SessionAssumption DEF Actors
<1>1. PICK p \in {"waiting", "publish", "setpub", "record"} : Goto(s, p)
  BY DEF Deny, Allow, Publish, SetPublisher, StartRecorder
<1>2. p \in Pcs /\ p \notin Ending
  BY DEF Pcs, PublishPcs, Ending, TeardownPcs
<1>3. /\ pc' \in [Actors -> Pcs] /\ pc'[s] = p
      /\ \A b \in Actors : b # s => pc'[b] = pc[b]
  BY <1>0, <1>1, <1>2, GotoType DEF IInv, TypeOK
<1>4. /\ mode' \in [Sessions -> Modes] /\ src' \in [Sessions -> Places]
      /\ ing' \in [Sessions -> Places] /\ piped' \subseteq Rtsp
      /\ \A t \in Sessions : t # s => /\ mode'[t] = mode[t] /\ src'[t] = src[t]
                                      /\ ing'[t] = ing[t]
  <2>0. "publish" \in Modes /\ "none" \in Places /\ TypeOK
    BY DEF Modes, Places, IInv
  <2>1. CASE Deny(s)
    <3>1. CASE s \in Rtsp
      BY <2>0, <2>1, <3>1 DEF Deny, TypeOK
    <3>2. CASE s \notin Rtsp
      <4>1. Bind(s, "none")
        BY <2>1, <3>2 DEF Deny
      <4>2. /\ src' \in [Sessions -> Places] /\ ing' \in [Sessions -> Places]
            /\ \A t \in Sessions : t # s => src'[t] = src[t] /\ ing'[t] = ing[t]
        BY <2>0, <4>1, BindType
      <4> QED  BY <2>0, <2>1, <3>2, <4>2 DEF Deny, TypeOK
    <3> QED  BY <3>1, <3>2
  <2>2. CASE Allow(s)
    BY <2>0, <2>2 DEF Allow, TypeOK
  <2>3. CASE Publish(s) \/ SetPublisher(s) \/ StartRecorder(s)
    BY <2>0, <2>3 DEF Publish, SetPublisher, StartRecorder, TypeOK, session
  <2> QED  BY <2>1, <2>2, <2>3
<1>5. TypeOK'
  <2>1. CASE Deny(s) \/ Allow(s)
    BY <2>1, <1>3, <1>4 DEF IInv, TypeOK, Deny, Allow, source, counters
  <2>2. CASE Publish(s)
    BY <2>2, <1>3, <1>4 DEF IInv, TypeOK, Publish, counters
  <2>3. CASE SetPublisher(s)
    <3>1. closing' \subseteq Sessions
      <4>1. \A k \in Kicked(publisher) : k \subseteq Sessions
        BY DEF Kicked, IInv, TypeOK
      <4> QED  BY <4>1, <2>3 DEF SetPublisher, IInv, TypeOK
    <3> QED  BY <2>3, <3>1, <1>3, <1>4 DEF IInv, TypeOK, SetPublisher, counters
  <2>4. CASE StartRecorder(s)
    BY <2>4, <1>3, <1>4 DEF IInv, TypeOK, StartRecorder, counters
  <2> QED  BY <2>1, <2>2, <2>3, <2>4
<1>6. NoOrphans'
  <2>1. \A t \in Sessions : t # s => (Owns(t)' <=> Owns(t)) /\ (Feeds(t)' <=> Feeds(t))
    BY <1>4 DEF Owns, Feeds
  <2>2. /\ publishing' \in {publishing, Nobody, s} /\ recording' \in {recording, Nobody, s}
        /\ publisher' \in {publisher, Nobody, s} /\ queued' \subseteq queued \cup {s}
    BY DEF Deny, Allow, Publish, SetPublisher, StartRecorder, source
  <2> QED  BY <1>0, <1>2, <1>3, <2>1, <2>2, KeepsOrTakes
<1>7. EndsMatchBegins'
  BY <1>0 DEF IInv, TypeOK, EndsMatchBegins, Deny, Allow, Publish, SetPublisher,
              StartRecorder, source
<1> QED  BY <1>5, <1>6, <1>7 DEF IInv

\* A session writes, a peer leaves.
LEMMA LiveInv ==
  ASSUME IInv, NEW s \in Sessions, Write(s) \/ Disconnect(s)
  PROVE  IInv'
<1>0. s \in Actors /\ pc[s] = "waiting" /\ "waiting" \notin Ending
  BY DEF Actors, Write, Disconnect, Ending, TeardownPcs
<1>1. TypeOK'
  BY DEF IInv, TypeOK, Write, Disconnect, source, session, counters
<1>2. NoOrphans'
  BY <1>0, KeepsOrTakes DEF Write, Disconnect, source, session, Owns, Feeds
<1>3. EndsMatchBegins'
  BY DEF IInv, EndsMatchBegins, Write, Disconnect, source
<1> QED  BY <1>1, <1>2, <1>3 DEF IInv

\* A session is torn down.
LEMMA TeardownInv ==
  ASSUME IInv, NEW s \in Sessions, Teardown(s)
  PROVE  IInv'
<1>0. s \in Actors /\ Nobody \notin Sessions
  BY SessionAssumption DEF Actors
<1>1. PICK p \in {"reset", "gone", "clearpub", "endstop", "endfini"} : Goto(s, p)
  BY DEF Teardown, OnError, Reset, ClearPublisher, StopRecorder, PublishFini
<1>2. p \in Pcs
  BY DEF Pcs, TeardownPcs
<1>3. /\ pc' \in [Actors -> Pcs] /\ pc'[s] = p
      /\ \A b \in Actors : b # s => pc'[b] = pc[b]
  BY <1>0, <1>1, <1>2, GotoType DEF IInv, TypeOK
<1>4. CASE OnError(s)
  <2>1. pc'[s] = IF mode[s] = "publish" THEN "reset" ELSE "gone"
    BY <1>0, <1>4 DEF OnError, Goto, IInv, TypeOK
  <2>2. TypeOK'
    BY <1>4, <1>3 DEF IInv, TypeOK, OnError, source, counters
  <2>3. \A t \in Sessions : (Owns(t)' <=> Owns(t)) /\ (Feeds(t)' <=> Feeds(t))
    BY <1>4 DEF OnError, Owns, Feeds
  <2>4. CASE mode[s] = "publish"
    <3>1. pc'[s] = "reset"
      BY <2>1, <2>4
    <3> QED  BY <1>3, <1>4, <2>2, <2>3, <3>1
             DEF IInv, TypeOK, NoOrphans, EndsMatchBegins, OnError, source, Actors
  <2>5. CASE mode[s] # "publish"
    <3>1. ~Owns(s) /\ ~Feeds(s)
      BY <2>5 DEF Owns, Feeds
    <3> QED  BY <1>3, <1>4, <2>2, <2>3, <3>1
             DEF IInv, TypeOK, NoOrphans, EndsMatchBegins, OnError, source, Actors
  <2> QED  BY <2>4, <2>5
<1>5. CASE Reset(s)
  <2>1. pc'[s] = IF src[s] = "here" THEN "clearpub" ELSE "gone"
    BY <1>0, <1>5 DEF Reset, Goto, IInv, TypeOK
  <2>2. TypeOK'
    BY <1>5, <1>3 DEF IInv, TypeOK, Reset, session, counters
  <2>3. NoOrphans'
    <3>1. s \in queued' => ~Feeds(s)
      BY <1>5 DEF Reset, Feeds
    <3>2. Owns(s) => pc'[s] = "clearpub"
      BY <2>1 DEF Owns
    <3>3. /\ UNCHANGED <<publishing, recording, publisher, session>>
          /\ queued' \subseteq queued
      BY <1>5 DEF Reset
    <3> QED  BY <1>3, <3>1, <3>2, <3>3, Ends
  <2>4. EndsMatchBegins'
    BY <1>5 DEF IInv, EndsMatchBegins, Reset
  <2> QED  BY <2>2, <2>3, <2>4 DEF IInv
<1>6. CASE ClearPublisher(s)
  <2>1. pc'[s] = "endstop" /\ pc[s] = "clearpub"
    BY <1>0, <1>6 DEF ClearPublisher, Goto, IInv, TypeOK
  <2>2. TypeOK'
    BY <1>6, <1>3 DEF IInv, TypeOK, ClearPublisher, session, counters
  <2>3. NoOrphans'
    <3>1. s \in queued => ~Feeds(s)
      BY <2>1 DEF IInv, NoOrphans, TeardownPcs
    <3>2. publisher' # s /\ publisher' \in {publisher, Nobody}
      BY <1>0, <1>6 DEF ClearPublisher
    <3>3. UNCHANGED <<publishing, recording, queued, session>>
      BY <1>6 DEF ClearPublisher
    <3> QED  BY <1>3, <2>1, <3>1, <3>2, <3>3, Ends
  <2>4. EndsMatchBegins'
    BY <1>6 DEF IInv, EndsMatchBegins, ClearPublisher
  <2> QED  BY <2>2, <2>3, <2>4 DEF IInv
<1>7. CASE StopRecorder(s, "endstop", "endfini")
  <2>1. pc'[s] = "endfini" /\ pc[s] = "endstop"
    BY <1>0, <1>7 DEF StopRecorder, Goto, IInv, TypeOK
  <2>2. TypeOK'
    BY <1>7, <1>3 DEF IInv, TypeOK, StopRecorder, session, counters
  <2>3. NoOrphans'
    <3>1. s \in queued => ~Feeds(s)
      BY <2>1 DEF IInv, NoOrphans, TeardownPcs
    <3>2. publisher = s => ~Owns(s)
      BY <1>0, <2>1 DEF IInv, NoOrphans
    <3>3. UNCHANGED <<publishing, publisher, queued, session>> /\ recording' = Nobody
      BY <1>7 DEF StopRecorder
    <3> QED  BY <1>0, <1>3, <2>1, <3>1, <3>2, <3>3, Ends
  <2>4. EndsMatchBegins'
    BY <1>7 DEF IInv, EndsMatchBegins, StopRecorder
  <2> QED  BY <2>2, <2>3, <2>4 DEF IInv
<1>8. CASE PublishFini(s, "endfini", "gone")
  <2>1. pc'[s] = "gone" /\ pc[s] = "endfini"
    BY <1>0, <1>8 DEF PublishFini, Goto, IInv, TypeOK
  <2>2. TypeOK'
    BY <1>8, <1>3 DEF IInv, TypeOK, PublishFini, session, counters
  <2>3. NoOrphans'
    <3>1. s \in queued => ~Feeds(s)
      BY <2>1 DEF IInv, NoOrphans, TeardownPcs
    <3>2. publisher = s \/ recording = s => ~Owns(s)
      BY <1>0, <2>1 DEF IInv, NoOrphans
    <3>3. UNCHANGED <<recording, publisher, queued, session>> /\ publishing' = Nobody
      BY <1>8 DEF PublishFini
    <3> QED  BY <1>0, <1>3, <2>1, <3>1, <3>2, <3>3, Ends
  <2>4. EndsMatchBegins'
    BY <1>8 DEF IInv, TypeOK, EndsMatchBegins, PublishFini
  <2> QED  BY <2>2, <2>3, <2>4 DEF IInv
<1> QED  BY <1>4, <1>5, <1>6, <1>7, <1>8 DEF Teardown

\* Nothing happens.
LEMMA StutterInv == IInv /\ UNCHANGED vars => IInv'
  BY DEF IInv, TypeOK, NoOrphans, EndsMatchBegins, vars, source, session, counters,
         Owns, Feeds

\* Every step keeps the invariant.
LEMMA NextInv == IInv /\ [Next]_vars => IInv'
<1> SUFFICES ASSUME IInv, [Next]_vars  PROVE IInv'
  OBVIOUS
<1>1. Sessions \subseteq Actors /\ Api \in Actors
  BY DEF Actors
<1>2. ASSUME NEW s \in Sessions,
             Asks(s) \/ Write(s) \/ Disconnect(s) \/ Handler(s) \/ Teardown(s)
      PROVE  IInv'
  <2>1. s \in Actors
    BY <1>1
  <2>2. CASE Take(s) \/ AfterTake(s)
    BY <2>1, <2>2, TakeOverInv
  <2>3. CASE Write(s) \/ Disconnect(s)
    BY <2>3, LiveInv
  <2>4. CASE Teardown(s)
    BY <2>4, TeardownInv
  <2>5. CASE Deny(s) \/ Allow(s) \/ Publish(s) \/ SetPublisher(s) \/ StartRecorder(s)
    BY <2>5, PublishInv
  <2>6. CASE Asks(s)
    BY <2>6, AsksInv
  <2> QED  BY <1>2, <2>2, <2>3, <2>4, <2>5, <2>6 DEF Handler
<1>3. CASE Take(Api) \/ AfterTake(Api)
  BY <1>1, <1>3, TakeOverInv
<1> QED  BY <1>2, <1>3, ApiInv, StutterInv DEF Next

\* In every reachable state of the hub its bookkeeping is consistent.
THEOREM HubInvariant == Spec => []IInv
<1>1. Init => IInv
  BY InitInv
<1>2. IInv /\ [Next]_vars => IInv'
  BY NextInv
<1> QED  BY <1>1, <1>2, PTL DEF Spec

\* Nothing of a session that is still a publisher of the stream when it ends
\* outlives it, for any sequence of requests on any number of connections
\* (teardown handlers, set_publisher and clear_publisher, mp4_recorder_stop).
THEOREM NothingOrphaned == Spec => []NoOrphans
<1>1. IInv => NoOrphans
  BY DEF IInv
<1> QED  BY <1>1, HubInvariant, PTL

\* on_media_publish_fini is sent at most once for each on_media_publish, however
\* many threads end the same publication (zms_media_event_publish_fini).
THEOREM EndsAtMostOnce == Spec => []EndsMatchBegins
<1>1. IInv => EndsMatchBegins
  BY DEF IInv
<1> QED  BY <1>1, HubInvariant, PTL
=============================================================================
