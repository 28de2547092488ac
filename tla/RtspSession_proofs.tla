-------------------------- MODULE RtspSession_proofs --------------------------
(***************************************************************************)
(* What RtspSession promises, proved for any number of lanes opened and    *)
(* every order of requests, completions and timers the module has.         *)
(*                                                                         *)
(* Lanes: no two of the session, the opens under way and the lost lanes    *)
(* share one (Distinct), and without a PLAY into an open under way there is *)
(* one open at a time, and no lane meanwhile (OneOpen).  Readers, packets: *)
(* on one source, what the session is attached to, has told the client and *)
(* counts with the source follows from one another (Binding).  Together    *)
(* they are the inductive invariant.                                       *)
(***************************************************************************)
EXTENDS RtspSession, TLAPS

Opening == {j.lane : j \in {i \in jobs : i.stage = "open"}}

\* Nobody shares a lane.
Distinct == /\ \A i, j \in jobs : i.lane = j.lane => i = j
            /\ \A j \in jobs : j.lane # lane /\ j.lane \notin past.dropped
            /\ lane \notin past.dropped

\* One open at a time, and only without a lane.
OneOpen == /\ \A i, j \in jobs : i = j
           /\ jobs # {} => lane = 0

\* What being attached, having a muxer and sending imply.
Binding ==
    /\ attached => /\ source # "none" /\ mode = "play" /\ ~scheduled
                   /\ source = "vod" /\ tcp => lane # 0
                   /\ ~paused /\ tcp => told = "playing"
    /\ mux /\ tcp => attached
    /\ flow => attached /\ told = "playing" /\ mode = "play" /\ tcp

IInv == /\ TypeOK
        /\ closing \/ scheduled => ~tcp
        /\ jobs # {} => mode = "play"
        /\ Distinct
        /\ ~past.hasty => OneOpen
        /\ ~past.moved => Binding
        /\ LanesHeld
        /\ ReadersCounted

LEMMA AnsweredTypes ==
    ASSUME NEW src \in Kinds, NEW p \in BOOLEAN, NEW h \in BOOLEAN, Answered(src, p, h),
           readers \in [Kinds -> Int], tcp \in BOOLEAN, closing \in BOOLEAN
    PROVE  attached' \in BOOLEAN /\ flow' \in BOOLEAN /\ readers' \in [Kinds -> Int] /\ told' = "playing"
<1>1. flow' \in BOOLEAN
  BY DEF Answered, Sends
<1>2. readers' \in [Kinds -> Int]
  BY DEF Answered
<1> QED  BY <1>1, <1>2 DEF Answered

LEMMA AnsweredCounts ==
    ASSUME NEW src \in Kinds, NEW p \in BOOLEAN, NEW h \in BOOLEAN, Answered(src, p, h),
           readers \in [Kinds -> Int], attached \in BOOLEAN,
           \A k \in Kinds : readers[k] = (IF attached /\ src = k THEN 1 ELSE 0)
    PROVE  \A k \in Kinds : readers'[k] = (IF src = k THEN 1 ELSE 0)
<1>1. CASE attached
  BY <1>1 DEF Answered
<1>2. CASE ~attached
  <2>1. \A k \in Kinds : readers[k] = 0
    BY <1>2
  <2>2. readers' = [readers EXCEPT ![src] = @ + 1]
    BY <1>2 DEF Answered
  <2> QED  BY <2>1, <2>2
<1> QED  BY <1>1, <1>2

LEMMA DescribeStep == ASSUME IInv, NEW src \in Kinds \cup {"none"}, Describe(src) PROVE IInv'
<1> USE DEF Describe, Receiving
<1>1. TypeOK'
  <2>1. past' \in Past
    BY DEF IInv, TypeOK, Past
  <2> QED  BY <2>1 DEF IInv, TypeOK, Kinds
<1>2. closing' \/ scheduled' => ~tcp'
  BY DEF IInv
<1>3. jobs' # {} => mode' = "play"
  BY DEF IInv
<1>4. Distinct'
  BY DEF IInv, TypeOK, Past, Distinct
<1>5. ~past'.hasty => OneOpen'
  BY DEF IInv, TypeOK, Past, OneOpen
<1>6. ~past'.moved => Binding'
  BY DEF IInv, TypeOK, Past, Binding, Kinds
<1>7. LanesHeld'
  BY DEF IInv, TypeOK, Past, Distinct, LanesHeld, Own
<1>8. ReadersCounted'
  BY DEF IInv, TypeOK, Past, Binding, ReadersCounted, Kinds
<1> QED  BY <1>1, <1>2, <1>3, <1>4, <1>5, <1>6, <1>7, <1>8 DEF IInv

LEMMA PlayLiveStep == ASSUME IInv, NEW src \in Kinds, NEW allow \in BOOLEAN, PlayLive(src, allow) PROVE IInv'
<1> USE DEF PlayLive, Receiving, Target, LanesWithout, Answered, Refused, Sends
<1>1. TypeOK'
  <2>1. paused \in BOOLEAN /\ tcp \in BOOLEAN /\ closing \in BOOLEAN /\ attached \in BOOLEAN /\ gop \in BOOLEAN /\ mux \in BOOLEAN
    BY DEF IInv, TypeOK
  <2>2. gop' \in BOOLEAN /\ past' = past /\ source' = "live"
    OBVIOUS
  <2>3. /\ attached' \in BOOLEAN /\ flow' \in BOOLEAN /\ readers' \in [Kinds -> Int]
        /\ told' \in {"none", "playing", "paused", "over"}
    <3>1. CASE allow
      <4>1. flow' \in BOOLEAN
        BY <3>1
      <4> QED  BY <3>1, <4>1 DEF IInv, TypeOK, Kinds
    <3>2. CASE ~allow
      BY <3>2 DEF IInv, TypeOK
    <3> QED  BY <3>1, <3>2
  <2>4. mode' \in {"none", "play"} /\ mux' \in BOOLEAN
    BY DEF IInv, TypeOK
  <2>5. lane' \in 0..opened' /\ lanes' \subseteq 1..opened' /\ opened' \in 0..MaxOpens
    BY DEF IInv, TypeOK
  <2> QED  BY <2>1, <2>2, <2>3, <2>4, <2>5 DEF IInv, TypeOK, Kinds
<1>2. closing' \/ scheduled' => ~tcp'
  BY DEF IInv
<1>3. jobs' # {} => mode' = "play"
  BY DEF IInv
<1>4. Distinct'
  BY DEF IInv, TypeOK, Past, Distinct
<1>5. ~past'.hasty => OneOpen'
  BY DEF IInv, TypeOK, Past, OneOpen
<1>6. ~past'.moved => Binding'
  BY DEF IInv, TypeOK, Past, Binding, Kinds
<1>7. LanesHeld'
  BY DEF IInv, TypeOK, Past, Distinct, LanesHeld, Own
<1>8. ReadersCounted'
  <2> SUFFICES ASSUME ~past.moved PROVE \A k \in Kinds : readers'[k] = (IF attached' /\ source' = k THEN 1 ELSE 0)
    BY DEF ReadersCounted
  <2>1. source' = "live" /\ source \in {"none", "live"}
    BY DEF IInv, TypeOK, Kinds
  <2>2. \A k \in Kinds : readers[k] = (IF attached /\ "live" = k THEN 1 ELSE 0)
    BY <2>1 DEF IInv, Binding, ReadersCounted
  <2>3. readers \in [Kinds -> Int] /\ attached \in BOOLEAN /\ "live" \in Kinds
    BY DEF IInv, TypeOK, Kinds
  <2>4. CASE allow
    <3>1. attached'
      BY <2>4
    <3>2. readers' = IF attached THEN readers ELSE [readers EXCEPT !["live"] = @ + 1]
      BY <2>4
    <3> QED  BY <2>1, <2>2, <2>3, <3>1, <3>2
  <2>5. CASE ~allow
    <3>1. readers' = readers /\ attached' = attached
      BY <2>5
    <3> QED  BY <2>1, <2>2, <3>1
  <2> QED  BY <2>4, <2>5
<1> QED  BY <1>1, <1>2, <1>3, <1>4, <1>5, <1>6, <1>7, <1>8 DEF IInv

LEMMA PlayVodDeniedStep == ASSUME IInv, NEW src \in Kinds, PlayVodDenied(src) PROVE IInv'
<1> USE DEF PlayVodDenied, Receiving, Target
<1>1. TypeOK'
  BY DEF IInv, TypeOK, Kinds
<1>2. closing' \/ scheduled' => ~tcp'
  BY DEF IInv
<1>3. jobs' # {} => mode' = "play"
  BY DEF IInv
<1>4. Distinct'
  BY DEF IInv, TypeOK, Past, Distinct
<1>5. ~past'.hasty => OneOpen'
  BY DEF IInv, TypeOK, Past, OneOpen
<1>6. ~past'.moved => Binding'
  BY DEF IInv, TypeOK, Past, Binding, Kinds
<1>7. LanesHeld'
  BY DEF IInv, TypeOK, Past, Distinct, LanesHeld, Own
<1>8. ReadersCounted'
  BY DEF IInv, TypeOK, Past, Binding, ReadersCounted, Kinds
<1> QED  BY <1>1, <1>2, <1>3, <1>4, <1>5, <1>6, <1>7, <1>8 DEF IInv

LEMMA PlayVodAsyncStep == ASSUME IInv, RtspAssumption, NEW src \in Kinds, NEW range \in Ranges, PlayVodAsync(src, range) PROVE IInv'
<1> USE DEF PlayVodAsync, PlayVodStart, NeedsLane, Receiving, Target
<1>1. TypeOK'
  <2>1. jobs' \subseteq [lane : 1..opened', stage : {"opening", "open", "failed"}, replay : BOOLEAN]
    <3>1. opened \in Nat /\ opened' = opened + 1 /\ attached \in BOOLEAN
      BY DEF IInv, TypeOK
    <3>2. [lane |-> opened + 1, stage |-> "opening", replay |-> attached]
             \in [lane : 1..opened', stage : {"opening", "open", "failed"}, replay : BOOLEAN]
      BY <3>1
    <3>3. jobs \subseteq [lane : 1..opened', stage : {"opening", "open", "failed"}, replay : BOOLEAN]
      BY <3>1 DEF IInv, TypeOK
    <3> QED  BY <3>2, <3>3
  <2>2. lane' \in 0..opened' /\ lanes' \subseteq 1..opened' /\ opened' \in 0..MaxOpens
    BY DEF IInv, TypeOK, RtspAssumption
  <2>3. past' \in Past
    BY DEF IInv, TypeOK, Past
  <2> QED  BY <2>1, <2>2, <2>3 DEF IInv, TypeOK, Kinds
<1>2. closing' \/ scheduled' => ~tcp'
  BY DEF IInv
<1>3. jobs' # {} => mode' = "play"
  BY DEF IInv
<1>4. Distinct'
  <2>0. \A n \in past.dropped : n \in 1..opened
    BY DEF IInv, TypeOK, LanesHeld
  <2>1. past'.dropped = past.dropped /\ opened \in Nat
    BY DEF IInv, TypeOK, Past
  <2>2. /\ \A j \in jobs : j.lane \in 1..opened
        /\ \A j \in jobs' : j \in jobs \/ j.lane = opened + 1
    BY DEF IInv, TypeOK
  <2>3. opened + 1 \notin past.dropped
    BY <2>0, <2>1
  <2>4. \A i, j \in jobs' : i.lane = j.lane => i = j
    BY <2>1, <2>2 DEF IInv, Distinct
  <2> QED  BY <2>0, <2>1, <2>2, <2>3, <2>4 DEF IInv, Distinct
<1>5. ~past'.hasty => OneOpen'
  BY DEF IInv, TypeOK, Past, OneOpen
<1>6. ~past'.moved => Binding'
  BY DEF IInv, TypeOK, Past, Binding, Kinds
<1>7. LanesHeld'
  BY DEF IInv, TypeOK, Past, Distinct, LanesHeld, Own
<1>8. ReadersCounted'
  BY DEF IInv, TypeOK, Past, Binding, ReadersCounted, Kinds
<1> QED  BY <1>1, <1>2, <1>3, <1>4, <1>5, <1>6, <1>7, <1>8 DEF IInv

LEMMA PlayVodSeekStep == ASSUME IInv, RtspAssumption, NEW src \in Kinds, NEW range \in Ranges, PlayVodSeek(src, range) PROVE IInv'
<1> USE DEF PlayVodSeek, PlayVodStart, NeedsLane, Receiving, Target, Answered, Refused, Sends
<1>1. TypeOK'
  <2>1. paused \in BOOLEAN /\ tcp \in BOOLEAN /\ closing \in BOOLEAN /\ attached \in BOOLEAN /\ gop \in BOOLEAN /\ mux \in BOOLEAN
    BY DEF IInv, TypeOK
  <2>2. /\ attached' \in BOOLEAN /\ flow' \in BOOLEAN /\ readers' \in [Kinds -> Int]
        /\ told' \in {"none", "playing", "paused", "over"}
    <3>1. CASE Answered("vod", paused', TRUE)
      BY <3>1, <2>1, AnsweredTypes DEF IInv, TypeOK, Kinds
    <3>2. CASE Refused
      BY <3>2 DEF IInv, TypeOK
    <3> QED  BY <3>1, <3>2
  <2>3. lane' \in 0..opened' /\ lanes' \subseteq 1..opened' /\ opened' \in 0..MaxOpens /\ opened' >= opened
    <3>1. MaxOpens \in Nat /\ opened \in 0..MaxOpens /\ lane \in 0..opened /\ lanes \subseteq 1..opened
      BY DEF IInv, TypeOK, RtspAssumption
    <3>2. CASE opened < MaxOpens /\ opened' = opened + 1 /\ lane' = opened + 1 /\ lanes' = lanes \cup {opened + 1}
      BY <3>1, <3>2
    <3>3. CASE UNCHANGED <<opened, lane, lanes>>
      BY <3>1, <3>3
    <3> QED  BY <3>2, <3>3
  <2>4. jobs' \subseteq [lane : 1..opened', stage : {"opening", "open", "failed"}, replay : BOOLEAN]
    BY <2>3 DEF IInv, TypeOK
  <2>5. mux' \in BOOLEAN /\ past' \in Past
    BY DEF IInv, TypeOK, Past
  <2> QED  BY <2>1, <2>2, <2>3, <2>4, <2>5 DEF IInv, TypeOK, Kinds
<1>2. closing' \/ scheduled' => ~tcp'
  BY DEF IInv
<1>3. jobs' # {} => mode' = "play"
  BY DEF IInv
<1>4. Distinct'
  <2>0. \A n \in past.dropped : n \in 1..opened
    BY DEF IInv, TypeOK, LanesHeld
  <2>1. past'.dropped = past.dropped /\ opened \in Nat
    BY DEF IInv, TypeOK, Past
  <2>2. \A j \in jobs : j.lane \in 1..opened
    BY DEF IInv, TypeOK
  <2>3. lane' = lane \/ lane' = opened + 1
    OBVIOUS
  <2>4. opened + 1 \notin past.dropped /\ \A j \in jobs : j.lane # opened + 1
    BY <2>0, <2>1, <2>2
  <2> QED  BY <2>1, <2>3, <2>4 DEF IInv, Distinct
<1>5. ~past'.hasty => OneOpen'
  BY DEF IInv, TypeOK, Past, OneOpen
<1>6. ~past'.moved => Binding'
  BY DEF IInv, TypeOK, Past, Binding, Kinds
<1>7. LanesHeld'
  BY DEF IInv, TypeOK, Past, Distinct, LanesHeld, Own
<1>8. ReadersCounted'
  <2> SUFFICES ASSUME ~past'.moved PROVE \A k \in Kinds : readers'[k] = (IF attached' /\ source' = k THEN 1 ELSE 0)
    BY DEF ReadersCounted
  <2>0. ~past.moved
    BY DEF IInv, TypeOK, Past
  <2>1. source' = "vod" /\ source \in {"none", "vod"}
    BY <2>0 DEF IInv, TypeOK, Kinds
  <2>2. \A k \in Kinds : readers[k] = (IF attached /\ "vod" = k THEN 1 ELSE 0)
    BY <2>0, <2>1 DEF IInv, Binding, ReadersCounted
  <2>3. readers \in [Kinds -> Int] /\ attached \in BOOLEAN /\ "vod" \in Kinds
    BY DEF IInv, TypeOK, Kinds
  <2>4. CASE Answered("vod", paused', TRUE)
    <3>1. attached'
      BY <2>4
    <3>2. readers' = IF attached THEN readers ELSE [readers EXCEPT !["vod"] = @ + 1]
      BY <2>4
    <3> QED  BY <2>1, <2>2, <2>3, <3>1, <3>2
  <2>5. CASE Refused
    <3>1. readers' = readers /\ attached' = attached
      BY <2>5
    <3> QED  BY <2>1, <2>2, <3>1
  <2> QED  BY <2>4, <2>5
<1> QED  BY <1>1, <1>2, <1>3, <1>4, <1>5, <1>6, <1>7, <1>8 DEF IInv

LEMMA PlayVodResumeStep == ASSUME IInv, NEW src \in Kinds, NEW range \in Ranges, PlayVodResume(src, range) PROVE IInv'
<1> USE DEF PlayVodResume, PlayVodStart, NeedsLane, Receiving, Target, Answered, Refused, Sends
<1>1. TypeOK'
  BY DEF IInv, TypeOK, Kinds, Past
<1>2. closing' \/ scheduled' => ~tcp'
  BY DEF IInv
<1>3. jobs' # {} => mode' = "play"
  BY DEF IInv
<1>4. Distinct'
  BY DEF IInv, TypeOK, Past, Distinct
<1>5. ~past'.hasty => OneOpen'
  BY DEF IInv, TypeOK, Past, OneOpen
<1>6. ~past'.moved => Binding'
  BY DEF IInv, TypeOK, Past, Binding, Kinds
<1>7. LanesHeld'
  BY DEF IInv, TypeOK, Past, Distinct, LanesHeld, Own
<1>8. ReadersCounted'
  BY DEF IInv, TypeOK, Past, Binding, ReadersCounted, Kinds
<1> QED  BY <1>1, <1>2, <1>3, <1>4, <1>5, <1>6, <1>7, <1>8 DEF IInv

LEMMA PauseStep == ASSUME IInv, Pause PROVE IInv'
<1> USE DEF Pause, Receiving
<1>1. TypeOK'
  BY DEF IInv, TypeOK, Kinds, Past
<1>2. closing' \/ scheduled' => ~tcp'
  BY DEF IInv
<1>3. jobs' # {} => mode' = "play"
  BY DEF IInv
<1>4. Distinct'
  BY DEF IInv, TypeOK, Past, Distinct
<1>5. ~past'.hasty => OneOpen'
  BY DEF IInv, TypeOK, Past, OneOpen
<1>6. ~past'.moved => Binding'
  BY DEF IInv, TypeOK, Past, Binding, Kinds
<1>7. LanesHeld'
  BY DEF IInv, TypeOK, Past, Distinct, LanesHeld, Own
<1>8. ReadersCounted'
  BY DEF IInv, TypeOK, Past, Binding, ReadersCounted, Kinds
<1> QED  BY <1>1, <1>2, <1>3, <1>4, <1>5, <1>6, <1>7, <1>8 DEF IInv

LEMMA TeardownStep == ASSUME IInv, Teardown PROVE IInv'
<1> USE DEF Teardown, Receiving
<1>1. TypeOK'
  BY DEF IInv, TypeOK, Kinds
<1>2. closing' \/ scheduled' => ~tcp'
  BY DEF IInv
<1>3. jobs' # {} => mode' = "play"
  BY DEF IInv
<1>4. Distinct'
  BY DEF IInv, TypeOK, Past, Distinct
<1>5. ~past'.hasty => OneOpen'
  BY DEF IInv, TypeOK, Past, OneOpen
<1>6. ~past'.moved => Binding'
  BY DEF IInv, TypeOK, Past, Binding, Kinds
<1>7. LanesHeld'
  BY DEF IInv, TypeOK, Past, Distinct, LanesHeld, Own
<1>8. ReadersCounted'
  BY DEF IInv, TypeOK, Past, Binding, ReadersCounted, Kinds
<1> QED  BY <1>1, <1>2, <1>3, <1>4, <1>5, <1>6, <1>7, <1>8 DEF IInv

LEMMA OpenLaneStep == ASSUME IInv, NEW j \in jobs, OpenLane(j) PROVE IInv'
<1> USE DEF OpenLane, session
<1>1. TypeOK'
  <2>1. jobs' \subseteq [lane : 1..opened', stage : {"opening", "open", "failed"}, replay : BOOLEAN]
    BY DEF IInv, TypeOK
  <2>2. lanes' \subseteq 1..opened'
    BY DEF IInv, TypeOK
  <2> QED  BY <2>1, <2>2 DEF IInv, TypeOK
<1>2. closing' \/ scheduled' => ~tcp'
  BY DEF IInv
<1>3. jobs' # {} => mode' = "play"
  BY DEF IInv
<1>4. Distinct'
  <2>1. \A i \in jobs' : \E k \in jobs : i.lane = k.lane
    BY DEF IInv, TypeOK
  <2>2. \A i, k \in jobs' : i.lane = k.lane => i = k
    BY DEF IInv, TypeOK, Distinct
  <2> QED  BY <2>1, <2>2 DEF IInv, Distinct
<1>5. ~past'.hasty => OneOpen'
  BY DEF IInv, TypeOK, Past, OneOpen
<1>6. ~past'.moved => Binding'
  BY DEF IInv, TypeOK, Past, Binding, Kinds
<1>7. LanesHeld'
  <2>1. \A i \in jobs : i.lane = j.lane => i = j
    BY DEF IInv, Distinct
  <2>2. lanes = Own \cup Opening \cup past.dropped
    BY DEF IInv, LanesHeld, Opening
  <2>3. CASE lanes' = lanes \cup {j.lane} /\ jobs' = (jobs \ {j}) \cup {[j EXCEPT !.stage = "open"]}
    <3>1. [j EXCEPT !.stage = "open"].stage = "open" /\ [j EXCEPT !.stage = "open"].lane = j.lane
      BY DEF IInv, TypeOK
    <3>2. Opening' = Opening \cup {j.lane}
      BY <2>3, <3>1 DEF Opening
    <3> QED  BY <2>2, <2>3, <3>2 DEF IInv, LanesHeld, Opening, Own
  <2>4. CASE lanes' = lanes /\ jobs' = (jobs \ {j}) \cup {[j EXCEPT !.stage = "failed"]}
    <3>1. [j EXCEPT !.stage = "failed"].stage = "failed"
      BY DEF IInv, TypeOK
    <3>2. Opening' = Opening
      BY <2>4, <3>1 DEF Opening
    <3> QED  BY <2>2, <2>4, <3>2 DEF IInv, LanesHeld, Opening, Own
  <2> QED  BY <2>3, <2>4
<1>8. ReadersCounted'
  BY DEF IInv, TypeOK, Past, Binding, ReadersCounted, Kinds
<1> QED  BY <1>1, <1>2, <1>3, <1>4, <1>5, <1>6, <1>7, <1>8 DEF IInv

LEMMA OpenedLateStep == ASSUME IInv, RtspAssumption, NEW j \in jobs, OpenedLate(j) PROVE IInv'
<1> USE DEF OpenedLate, LanesWithout, session
<1>1. TypeOK'
  <2>1. past' \in Past
    BY DEF IInv, TypeOK, Past, RtspAssumption
  <2> QED  BY <2>1 DEF IInv, TypeOK, Kinds
<1>2. closing' \/ scheduled' => ~tcp'
  BY DEF IInv
<1>3. jobs' # {} => mode' = "play"
  BY DEF IInv
<1>4. Distinct'
  BY DEF IInv, TypeOK, Past, Distinct
<1>5. ~past'.hasty => OneOpen'
  BY DEF IInv, TypeOK, Past, OneOpen
<1>6. ~past'.moved => Binding'
  BY DEF IInv, TypeOK, Past, Binding, Kinds
<1>7. LanesHeld'
  <2>1. Opening' = Opening \ {j.lane}
    BY DEF IInv, Distinct, Opening
  <2>2. lanes = Own \cup Opening \cup past.dropped
    BY DEF IInv, LanesHeld, Opening
  <2>3. j.lane \notin Own /\ j.lane \notin past.dropped
    BY DEF IInv, Distinct, Own
  <2>4. CASE lanes' = lanes \ {j.lane} /\ past' = past
    <3>1. lanes' = Own \cup Opening' \cup past.dropped
      BY <2>1, <2>2, <2>3, <2>4
    <3> QED  BY <2>4, <3>1 DEF IInv, LanesHeld, Opening, Own
  <2>5. CASE freed /\ j.stage = "open" /\ past' = [past EXCEPT !.dropped = @ \cup {j.lane}] /\ lanes' = lanes
    <3>1. past'.dropped = past.dropped \cup {j.lane} /\ j.lane \in Opening /\ touched'
      BY <2>5 DEF IInv, TypeOK, Past, Opening
    <3>2. lanes' = Own \cup Opening' \cup past'.dropped
      BY <2>1, <2>2, <2>5, <3>1
    <3> QED  BY <3>1, <3>2 DEF LanesHeld, Opening, Own
  <2> QED  BY <2>4, <2>5
<1>8. ReadersCounted'
  BY DEF IInv, TypeOK, Past, Binding, ReadersCounted, Kinds
<1> QED  BY <1>1, <1>2, <1>3, <1>4, <1>5, <1>6, <1>7, <1>8 DEF IInv

LEMMA OpenFailedStep == ASSUME IInv, NEW j \in jobs, OpenFailed(j) PROVE IInv'
<1> USE DEF OpenFailed, session
<1>1. TypeOK'
  BY DEF IInv, TypeOK, Kinds
<1>2. closing' \/ scheduled' => ~tcp'
  BY DEF IInv
<1>3. jobs' # {} => mode' = "play"
  BY DEF IInv
<1>4. Distinct'
  BY DEF IInv, TypeOK, Past, Distinct
<1>5. ~past'.hasty => OneOpen'
  BY DEF IInv, TypeOK, Past, OneOpen
<1>6. ~past'.moved => Binding'
  BY DEF IInv, TypeOK, Past, Binding, Kinds
<1>7. LanesHeld'
  BY DEF IInv, TypeOK, Past, Distinct, LanesHeld, Own
<1>8. ReadersCounted'
  BY DEF IInv, TypeOK, Past, Binding, ReadersCounted, Kinds
<1> QED  BY <1>1, <1>2, <1>3, <1>4, <1>5, <1>6, <1>7, <1>8 DEF IInv

LEMMA OpenDoneStep == ASSUME IInv, RtspAssumption, NEW j \in jobs, OpenDone(j) PROVE IInv'
<1> USE DEF OpenDone, Answered, Sends
<1>1. TypeOK'
  <2>1. past' \in Past
    BY DEF IInv, TypeOK, Past, RtspAssumption, Own
  <2>2. lane' \in 0..opened' /\ jobs' \subseteq jobs /\ source \in Kinds
    BY DEF IInv, TypeOK
  <2>3. Answered(source, paused, TRUE) /\ paused \in BOOLEAN /\ tcp \in BOOLEAN /\ closing \in BOOLEAN
    BY DEF IInv, TypeOK
  <2>4. attached' \in BOOLEAN /\ flow' \in BOOLEAN /\ readers' \in [Kinds -> Int] /\ told' = "playing"
    BY <2>2, <2>3, AnsweredTypes DEF IInv, TypeOK
  <2> QED  BY <2>1, <2>2, <2>4 DEF IInv, TypeOK
<1>2. closing' \/ scheduled' => ~tcp'
  BY DEF IInv
<1>3. jobs' # {} => mode' = "play"
  BY DEF IInv
<1>4. Distinct'
  <2>1. past'.dropped = past.dropped \cup Own
    BY DEF IInv, TypeOK, Past
  <2>2. j.lane \in 1..opened /\ j.lane \notin Own
    BY DEF IInv, TypeOK, Own, Distinct
  <2>3. \A i \in jobs' : i \in jobs /\ i.lane # j.lane /\ i.lane \notin Own
    BY DEF IInv, Distinct, Own
  <2> QED  BY <2>1, <2>2, <2>3 DEF IInv, Distinct
<1>5. ~past'.hasty => OneOpen'
  BY DEF IInv, TypeOK, Past, OneOpen
<1>6. ~past'.moved => Binding'
  BY DEF IInv, TypeOK, Past, Binding, Kinds
<1>7. LanesHeld'
  <2>1. past'.dropped = past.dropped \cup Own
    BY DEF IInv, TypeOK, Past
  <2>2. past'.hasty = past.hasty
    BY DEF IInv, TypeOK, Past
  <2>3. Own' = {j.lane} /\ j.lane \in Opening
    BY DEF IInv, TypeOK, Own, Opening
  <2>4. Opening = Opening' \cup {j.lane}
    BY DEF Opening
  <2>5. lanes = Own \cup Opening \cup past.dropped
    BY DEF IInv, LanesHeld, Opening
  <2>6. lanes' = Own' \cup Opening' \cup past'.dropped
    BY <2>1, <2>3, <2>4, <2>5
  <2>7. past'.dropped # {} => past'.hasty \/ touched'
    BY <2>1, <2>2 DEF IInv, LanesHeld, OneOpen, Own
  <2> QED  BY <2>6, <2>7 DEF LanesHeld, Opening
<1>8. ReadersCounted'
  <2> SUFFICES ASSUME ~past.moved PROVE \A k \in Kinds : readers'[k] = (IF source = k THEN 1 ELSE 0)
    BY DEF IInv, TypeOK, Past, ReadersCounted
  <2>1. source \in Kinds /\ readers \in [Kinds -> Int] /\ attached \in BOOLEAN
    BY DEF IInv, TypeOK, Kinds
  <2>2. \A k \in Kinds : readers[k] = (IF attached /\ source = k THEN 1 ELSE 0)
    BY DEF IInv, ReadersCounted
  <2>3. readers' = IF attached THEN readers ELSE [readers EXCEPT ![source] = @ + 1]
    OBVIOUS
  <2> QED  BY <2>1, <2>2, <2>3
<1> QED  BY <1>1, <1>2, <1>3, <1>4, <1>5, <1>6, <1>7, <1>8 DEF IInv

LEMMA TickStep == ASSUME IInv, Tick PROVE IInv'
<1> USE DEF Tick, Receiving, Sends, session
<1>1. TypeOK'
  BY DEF IInv, TypeOK, Kinds
<1>2. closing' \/ scheduled' => ~tcp'
  BY DEF IInv
<1>3. jobs' # {} => mode' = "play"
  BY DEF IInv
<1>4. Distinct'
  BY DEF IInv, TypeOK, Past, Distinct
<1>5. ~past'.hasty => OneOpen'
  BY DEF IInv, TypeOK, Past, OneOpen
<1>6. ~past'.moved => Binding'
  BY DEF IInv, TypeOK, Past, Binding, Kinds
<1>7. LanesHeld'
  BY DEF IInv, TypeOK, Past, Distinct, LanesHeld, Own
<1>8. ReadersCounted'
  BY DEF IInv, TypeOK, Past, Binding, ReadersCounted, Kinds
<1> QED  BY <1>1, <1>2, <1>3, <1>4, <1>5, <1>6, <1>7, <1>8 DEF IInv

LEMMA ScheduleDestroyStep == ASSUME IInv, ScheduleDestroy PROVE IInv'
<1> USE DEF ScheduleDestroy, LanesWithout
<1>1. TypeOK'
  <2>1. readers' \in [Kinds -> Int]
    <3>1. CASE attached /\ source # "none"
      <4>1. readers' \in {readers, [readers EXCEPT ![source] = @ - 1]}
        BY <3>1
      <4>2. source \in Kinds /\ readers[source] - 1 \in Int
        BY <3>1 DEF IInv, TypeOK
      <4> QED  BY <4>1, <4>2 DEF IInv, TypeOK
    <3>2. CASE ~(attached /\ source # "none")
      BY <3>2 DEF IInv, TypeOK
    <3> QED  BY <3>1, <3>2
  <2>2. lane' \in 0..opened' /\ lanes' \subseteq 1..opened' /\ told' = "over"
    BY DEF IInv, TypeOK
  <2>3. {paused, mux, freed, touched} \subseteq BOOLEAN
    BY DEF IInv, TypeOK
  <2>4. {paused', gop', mux', attached', tcp', closing', scheduled', freed', flow', touched'}
           \subseteq BOOLEAN
    BY <2>3
  <2> QED  BY <2>1, <2>2, <2>4 DEF IInv, TypeOK
<1>2. closing' \/ scheduled' => ~tcp'
  BY DEF IInv
<1>3. jobs' # {} => mode' = "play"
  BY DEF IInv
<1>4. Distinct'
  BY DEF IInv, TypeOK, Past, Distinct
<1>5. ~past'.hasty => OneOpen'
  BY DEF IInv, TypeOK, Past, OneOpen
<1>6. ~past'.moved => Binding'
  BY DEF IInv, TypeOK, Past, Binding, Kinds
<1>7. LanesHeld'
  BY DEF IInv, TypeOK, Past, Distinct, LanesHeld, Own
<1>8. ReadersCounted'
  <2> SUFFICES ASSUME ~past.moved PROVE \A k \in Kinds : readers'[k] = 0
    BY DEF ReadersCounted
  <2>1. readers \in [Kinds -> Int] /\ attached \in BOOLEAN
    BY DEF IInv, TypeOK
  <2>2. \A k \in Kinds : readers[k] = (IF attached /\ source = k THEN 1 ELSE 0)
    BY DEF IInv, ReadersCounted
  <2>3. CASE attached
    <3>1. source # "none" /\ source \in Kinds
      BY <2>3 DEF IInv, TypeOK, Binding
    <3>2. readers' = [readers EXCEPT ![source] = @ - 1]
      BY <2>2, <2>3, <3>1
    <3> QED  BY <2>1, <2>2, <2>3, <3>1, <3>2
  <2>4. CASE ~attached
    BY <2>2, <2>4
  <2> QED  BY <2>1, <2>3, <2>4
<1> QED  BY <1>1, <1>2, <1>3, <1>4, <1>5, <1>6, <1>7, <1>8 DEF IInv

LEMMA DestroyStep == ASSUME IInv, Destroy PROVE IInv'
<1> USE DEF Destroy
<1>1. TypeOK'
  BY DEF IInv, TypeOK, Kinds
<1>2. closing' \/ scheduled' => ~tcp'
  BY DEF IInv
<1>3. jobs' # {} => mode' = "play"
  BY DEF IInv
<1>4. Distinct'
  BY DEF IInv, TypeOK, Past, Distinct
<1>5. ~past'.hasty => OneOpen'
  BY DEF IInv, TypeOK, Past, OneOpen
<1>6. ~past'.moved => Binding'
  BY DEF IInv, TypeOK, Past, Binding, Kinds
<1>7. LanesHeld'
  BY DEF IInv, TypeOK, Past, Distinct, LanesHeld, Own
<1>8. ReadersCounted'
  BY DEF IInv, TypeOK, Past, Binding, ReadersCounted, Kinds
<1> QED  BY <1>1, <1>2, <1>3, <1>4, <1>5, <1>6, <1>7, <1>8 DEF IInv

LEMMA NextStep == ASSUME RtspAssumption, IInv, [Next]_vars PROVE IInv'
<1>1. CASE Client
  BY <1>1, DescribeStep, PlayLiveStep, PlayVodDeniedStep, PlayVodAsyncStep, PlayVodSeekStep,
     PlayVodResumeStep, PauseStep, TeardownStep DEF Client
<1>2. CASE Completion
  BY <1>2, OpenLaneStep, OpenedLateStep, OpenFailedStep, OpenDoneStep DEF Completion
<1>3. CASE UNCHANGED vars
  <2> USE <1>3 DEF vars, session
  <2>1. TypeOK' /\ LanesHeld' /\ ReadersCounted'
    BY DEF IInv, TypeOK, LanesHeld, Own, ReadersCounted
  <2>2. Distinct' /\ (OneOpen => OneOpen') /\ (Binding => Binding')
    BY DEF IInv, Distinct, OneOpen, Binding
  <2> QED  BY <2>1, <2>2 DEF IInv
<1> QED  BY <1>1, <1>2, <1>3, TickStep, ScheduleDestroyStep, DestroyStep DEF Next

LEMMA InitStep == ASSUME RtspAssumption, Init PROVE IInv
<1>1. TypeOK
  <2>1. readers \in [Kinds -> Int] /\ opened \in 0..MaxOpens /\ jobs = {} /\ lanes = {}
    BY DEF Init, RtspAssumption
  <2>2. {paused, gop, mux, attached, tcp, closing, scheduled, freed, flow, touched}
           \subseteq BOOLEAN
    BY DEF Init
  <2>3. source = "none" /\ mode = "none" /\ lane = 0 /\ told = "none" /\ opened = 0
    BY DEF Init
  <2>4. past \in Past
    BY DEF Init, Past
  <2> QED  BY <2>1, <2>2, <2>3, <2>4 DEF TypeOK
<1>2. LanesHeld /\ ReadersCounted
  BY DEF Init, LanesHeld, Own, ReadersCounted, Kinds
<1> QED  BY <1>1, <1>2 DEF Init, IInv, Distinct, OneOpen, Binding

(* Whatever the client, the pool and the timers do: every open lane is the  *)
(* session's, on its way to it, or one of those the code loses, which takes *)
(* a PLAY into an open under way or a session freed before its open ended   *)
(* (rtsp_vod_open_on_io closes every other one).                            *)
THEOREM LanesNeverLeak == ASSUME RtspAssumption PROVE Spec => []LanesHeld
<1>1. Init => IInv  BY InitStep
<1>2. IInv /\ [Next]_vars => IInv'  BY NextStep
<1>3. IInv => LanesHeld  BY DEF IInv
<1> QED  BY <1>1, <1>2, <1>3, PTL DEF Spec

(* The source's reader count is right at every moment, whatever PLAYs,      *)
(* PAUSEs and opens cross, as long as no DESCRIBE moves an attached session *)
(* to another source: PLAY adds the session once, zms_rtsp_session_teardown *)
(* takes it back once.                                                      *)
THEOREM ReadersAlwaysCounted == ASSUME RtspAssumption PROVE Spec => []ReadersCounted
<1>1. Init => IInv  BY InitStep
<1>2. IInv /\ [Next]_vars => IInv'  BY NextStep
<1>3. IInv => ReadersCounted  BY DEF IInv
<1> QED  BY <1>1, <1>2, <1>3, PTL DEF Spec

(* No packet leaves a session that stays on its source unless PLAY was the  *)
(* last it answered (zms_rtsp_session_play_tick and play_kick).             *)
THEOREM SilentUnlessPlaying == ASSUME RtspAssumption PROVE Spec => []Quiet
<1>1. Init => IInv  BY InitStep
<1>2. IInv /\ [Next]_vars => IInv'  BY NextStep
<1>3. IInv => Quiet  BY DEF IInv, Binding, Quiet
<1> QED  BY <1>1, <1>2, <1>3, PTL DEF Spec
===============================================================================
