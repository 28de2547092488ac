-------------------------- MODULE WebrtcHub_proofs --------------------------
(***************************************************************************)
(* What the registry of WebRTC sessions promises for any number of         *)
(* requests and any size: it never overflows, what a session held is given *)
(* back, players are counted once, and publications come in pairs.         *)
(*                                                                         *)
(* The inductive invariant adds in which phases a session may hold what:   *)
(* a counted player and a publisher with demuxers are open, hence in the   *)
(* registry, which is finite.                                              *)
(***************************************************************************)
EXTENDS WebrtcHub, FiniteSetTheorems, TLAPS

Things == Sockets \cup {"ingest", "reader", "count", "demux"}
CountedPlayers == {s \in Players : "count" \in holds[s]}

\* What a session may hold in its phase.
Fits(s) ==
    /\ "reader" \in holds[s] => phase[s] \in {"attached", "open"}
    /\ "count" \in holds[s] => phase[s] = "open" /\ s \in Players
    /\ "demux" \in holds[s] => phase[s] = "open" /\ s \in Publishers

Accounted == Bounded /\ GivenBack /\ Counted

IInv == /\ TypeOK /\ Accounted /\ Paired
        /\ IsFiniteSet(registry) /\ \A s \in Sessions : Fits(s)

\* Only sessions of the registry are counted players.
LEMMA CountedAreEntered ==
  ASSUME IInv
  PROVE  CountedPlayers \subseteq registry /\ IsFiniteSet(CountedPlayers)
<1>1. CountedPlayers \subseteq registry
  BY DEF IInv, CountedPlayers, Fits, Accounted, GivenBack, Sessions
<1> QED  BY <1>1, FS_Subset DEF IInv

\* A step that leaves the counted players alone keeps their number.
LEMMA SameCounted ==
  ASSUME IInv, CountedPlayers' = CountedPlayers, readers' = readers
  PROVE  Counted'
BY DEF IInv, Accounted, Counted, CountedPlayers

LEMMA InitIInv ==
  ASSUME WebrtcHubAssumption, Init
  PROVE  IInv
<1>1. TypeOK
  BY DEF Init, TypeOK, Phases
<1>2. IsFiniteSet(registry) /\ Cardinality(registry) = 0
  BY FS_EmptySet DEF Init
<1>3. CountedPlayers = {}
  BY DEF Init, CountedPlayers, Sessions
<1>4. Counted
  BY <1>3, FS_EmptySet DEF Init, Counted, CountedPlayers
<1>5. Bounded
  BY <1>2 DEF Bounded, WebrtcHubAssumption
<1>6. GivenBack /\ Paired /\ \A s \in Sessions : Fits(s)
  BY DEF Init, GivenBack, Paired, Fits
<1> QED  BY <1>1, <1>2, <1>4, <1>5, <1>6 DEF IInv, Accounted
-----------------------------------------------------------------------------
(* One lemma for each operation.                                           *)

LEMMA PostOk ==
  ASSUME IInv, NEW s \in Sessions, Post(s)
  PROVE  IInv'
<1>1. /\ phase[s] = "none"
      /\ phase' = [phase EXCEPT ![s] = IF Full THEN "gone" ELSE "checked"]
      /\ UNCHANGED <<registry, holds, ready, readers, publishing, begun, ended, down, deletes>>
  BY DEF Post, Become
<1>2. TypeOK'
  BY <1>1 DEF IInv, TypeOK, deletes, Phases
<1>3. GivenBack'
  BY <1>1 DEF IInv, TypeOK, Accounted, GivenBack
<1>4. \A t \in Sessions : Fits(t)'
  BY <1>1 DEF IInv, TypeOK, Fits
<1>5. Counted' /\ Bounded' /\ Paired'
  BY <1>1 DEF IInv, Accounted, Counted, Bounded, Paired
<1> QED  BY <1>1, <1>2, <1>3, <1>4, <1>5 DEF IInv, Accounted

LEMMA BindUdpOk ==
  ASSUME IInv, NEW s \in Sessions, BindUdp(s)
  PROVE  IInv'
<1>1. /\ phase[s] = "checked"
      /\ UNCHANGED <<registry, ready, readers, publishing, begun, ended, down, deletes>>
  BY DEF BindUdp
<1>2. PICK p \in {"bound", "stuck", "gone"}, h \in SUBSET (Sockets \cup {"ingest"}) :
        /\ phase' = [phase EXCEPT ![s] = p] /\ holds' = [holds EXCEPT ![s] = h]
        /\ p = "gone" => h = {}
        /\ p = "stuck" => h = {"udp"}
  <2>1. holds[s] = {}
    BY <1>1 DEF IInv, Accounted, GivenBack
  <2>2. CASE Become(s, "bound") /\ Hold(s, Sockets \cup (IF s \in Publishers THEN {"ingest"} ELSE {}))
    <3> DEFINE h == Sockets \cup (IF s \in Publishers THEN {"ingest"} ELSE {})
    <3>1. holds' = [holds EXCEPT ![s] = h]
      BY <2>1, <2>2 DEF Hold
    <3> QED  BY <2>2, <3>1 DEF Become
  <2>3. CASE Become(s, "gone") /\ UNCHANGED holds
    <3>1. holds' = [holds EXCEPT ![s] = {}]
      BY <2>1, <2>3 DEF IInv, TypeOK
    <3> QED  BY <2>3, <3>1 DEF Become
  <2>4. CASE Become(s, "stuck") /\ Hold(s, {"udp"})
    <3>1. holds' = [holds EXCEPT ![s] = {"udp"}]
      BY <2>1, <2>4 DEF Hold
    <3> QED  BY <2>4, <3>1 DEF Become, Sockets
  <2> QED  BY <2>2, <2>3, <2>4 DEF BindUdp
<1>3. TypeOK'
  BY <1>1, <1>2 DEF IInv, TypeOK, deletes, Phases
<1>4. "count" \notin holds'[s] /\ "demux" \notin holds'[s] /\ "reader" \notin holds'[s]
  BY <1>2 DEF IInv, TypeOK, Sockets, Agent
<1>5. "count" \notin holds[s] /\ "demux" \notin holds[s]
  BY <1>1 DEF IInv, Fits
<1>6. GivenBack'
  BY <1>1, <1>2 DEF IInv, TypeOK, Accounted, GivenBack
<1>7. \A t \in Sessions : Fits(t)'
  BY <1>1, <1>2, <1>4 DEF IInv, TypeOK, Fits
<1>8. CountedPlayers' = CountedPlayers
  BY <1>2, <1>4, <1>5 DEF IInv, TypeOK, CountedPlayers, Sessions
<1>9. Paired'
  BY <1>1, <1>2, <1>5 DEF IInv, TypeOK, Paired, Sessions
<1> QED  BY <1>1, <1>3, <1>6, <1>7, <1>8, <1>9, SameCounted DEF IInv, Accounted, Bounded

LEMMA RegAddOk ==
  ASSUME WebrtcHubAssumption, IInv, NEW s \in Sessions, RegAdd(s)
  PROVE  IInv'
<1>1. phase[s] = "bound" /\ UNCHANGED <<ready, readers, publishing, begun, ended, down, deletes>>
  BY DEF RegAdd
<1>2. /\ "count" \notin holds[s] /\ "demux" \notin holds[s] /\ "reader" \notin holds[s]
      /\ s \notin registry
  BY <1>1 DEF IInv, Fits, Accounted, GivenBack
<1>3. CASE Full
  <2>1. /\ phase' = [phase EXCEPT ![s] = "gone"] /\ registry' = registry
        /\ holds' = [holds EXCEPT ![s] = {}]
    <3>1. holds[s] \subseteq Things
      BY DEF IInv, TypeOK, Things
    <3>2. Unbind(holds[s] \ {"ingest"}) = {}
      BY <1>2, <3>1 DEF Unbind, IceDestroy, Things, Sockets, Agent
    <3> QED  BY <1>3, <3>2 DEF RegAdd, Become
  <2>2. TypeOK'
    BY <1>1, <2>1 DEF IInv, TypeOK, deletes, Phases
  <2>3. GivenBack'
    BY <1>1, <1>2, <2>1 DEF IInv, TypeOK, Accounted, GivenBack
  <2>4. \A t \in Sessions : Fits(t)'
    BY <2>1 DEF IInv, TypeOK, Fits
  <2>5. CountedPlayers' = CountedPlayers
    BY <1>2, <2>1 DEF IInv, TypeOK, CountedPlayers, Sessions
  <2>6. Paired'
    BY <1>1, <1>2, <2>1 DEF IInv, TypeOK, Paired, Sessions
  <2> QED  BY <1>1, <2>1, <2>2, <2>3, <2>4, <2>5, <2>6, SameCounted
           DEF IInv, Accounted, Bounded
<1>4. CASE ~Full
  <2>1. /\ phase' = [phase EXCEPT ![s] = "entered"] /\ registry' = registry \cup {s}
        /\ holds' = holds
    BY <1>4 DEF RegAdd, Become
  <2>2. TypeOK'
    BY <1>1, <2>1 DEF IInv, TypeOK, deletes, Phases
  <2>3. IsFiniteSet(registry') /\ Bounded'
    <3>1. IsFiniteSet(registry) /\ Cardinality(registry) \in Nat
      BY FS_CardinalityType DEF IInv
    <3>2. Cardinality(registry \cup {s}) = Cardinality(registry) + 1 /\ IsFiniteSet(registry \cup {s})
      BY <1>2, <3>1, FS_AddElement
    <3> QED  BY <1>4, <2>1, <3>1, <3>2 DEF Full, Bounded, WebrtcHubAssumption
  <2>4. GivenBack'
    BY <1>1, <2>1 DEF IInv, TypeOK, Accounted, GivenBack
  <2>5. \A t \in Sessions : Fits(t)'
    BY <1>2, <2>1 DEF IInv, TypeOK, Fits
  <2>6. Counted' /\ Paired'
    BY <1>1, <2>1 DEF IInv, Accounted, Counted, Paired
  <2> QED  BY <2>2, <2>3, <2>4, <2>5, <2>6 DEF IInv, Accounted
<1> QED  BY <1>3, <1>4

\* A session that ends gives back everything.
LEMMA DestroyedOk ==
  ASSUME WebrtcHubAssumption, IInv, NEW s \in Sessions, s \in registry, Destroyed(s),
         found' \in [Sessions -> Nat], twice' \in BOOLEAN
  PROVE  IInv'
<1>1. /\ registry' = registry \ {s} /\ phase' = [phase EXCEPT ![s] = "gone"]
      /\ holds' = [holds EXCEPT ![s] = {}] /\ ready' = ready \ {s}
      /\ UNCHANGED <<begun, down>>
  <2>1. holds[s] \subseteq Things
    BY DEF IInv, TypeOK, Things
  <2>2. Unbind(holds[s] \ {"reader", "count", "ingest", "demux"}) = {}
    BY <2>1 DEF Unbind, IceDestroy, Things, Sockets, Agent
  <2> QED  BY <2>2 DEF Destroyed, Remove, Become
<1>2. GivenBack'
  BY <1>1 DEF IInv, TypeOK, Accounted, GivenBack
<1>3. \A t \in Sessions : Fits(t)'
  BY <1>1 DEF IInv, TypeOK, Fits
<1>4. IsFiniteSet(registry') /\ Bounded'
  <2>1. IsFiniteSet(registry) /\ Cardinality(registry) \in Nat
    BY FS_CardinalityType DEF IInv
  <2>2. IsFiniteSet(registry \ {s}) /\ Cardinality(registry \ {s}) = Cardinality(registry) - 1
    BY <2>1, FS_RemoveElement
  <2> QED  BY <1>1, <2>1, <2>2 DEF IInv, Accounted, Bounded, WebrtcHubAssumption
<1>5. CASE s \in Publishers
  <2>1. UNCHANGED readers /\ publishing' = FALSE /\ ended' = ended + (IF publishing THEN 1 ELSE 0)
    BY <1>5 DEF Destroyed, IngressStop
  <2>2. CountedPlayers' = CountedPlayers
    BY <1>1, <1>5 DEF IInv, TypeOK, CountedPlayers, Sessions, WebrtcHubAssumption
  <2>3. TypeOK'
    <3>1. ended' \in Nat /\ begun' \in Nat /\ readers' \in Nat
      <4>1. begun \in Nat /\ ended \in Nat /\ readers \in Nat
        BY DEF IInv, TypeOK
      <4>2. ended' = ended + 1 \/ ended' = ended + 0
        BY <2>1
      <4> QED  BY <1>1, <2>1, <4>1, <4>2
    <3>2. publishing' \in BOOLEAN
      BY <2>1
    <3>3. /\ registry' \subseteq Sessions /\ ready' \subseteq Sessions /\ down' \in BOOLEAN
          /\ phase' \in [Sessions -> Phases]
      BY <1>1 DEF IInv, TypeOK, Phases
    <3>4. holds' \in [Sessions -> SUBSET (Sockets \cup {"ingest", "reader", "count", "demux"})]
      BY <1>1 DEF IInv, TypeOK
    <3> QED  BY <3>1, <3>2, <3>3, <3>4 DEF TypeOK
  <2>4. Paired'
    BY <1>1, <2>1 DEF IInv, TypeOK, Paired
  <2> QED  BY <1>2, <1>3, <1>4, <2>1, <2>2, <2>3, <2>4, SameCounted DEF IInv, Accounted
<1>6. CASE s \notin Publishers
  <2>1. /\ s \in Players /\ UNCHANGED <<publishing, ended>>
        /\ readers' = IF "count" \in holds[s] THEN readers - 1 ELSE readers
    BY <1>6 DEF Destroyed, Teardown, Sessions
  <2>2. CountedPlayers' = CountedPlayers \ {s}
    BY <1>1 DEF IInv, TypeOK, CountedPlayers, Sessions
  <2>3. Counted' /\ readers' \in Nat
    <3>1. IsFiniteSet(CountedPlayers) /\ readers = Cardinality(CountedPlayers)
      BY CountedAreEntered DEF IInv, Accounted, Counted, CountedPlayers
    <3>2. CASE "count" \in holds[s]
      <4>1. s \in CountedPlayers
        BY <2>1, <3>2 DEF CountedPlayers
      <4>2. Cardinality(CountedPlayers') = readers - 1 /\ Cardinality(CountedPlayers') \in Nat
        BY <2>2, <3>1, <4>1, FS_RemoveElement, FS_CardinalityType
      <4> QED  BY <2>1, <3>2, <4>2 DEF Counted, CountedPlayers
    <3>3. CASE "count" \notin holds[s]
      <4>1. CountedPlayers' = CountedPlayers
        BY <2>2, <3>3 DEF CountedPlayers
      <4> QED  BY <2>1, <3>3, <4>1, SameCounted DEF IInv, TypeOK
    <3> QED  BY <3>2, <3>3
  <2>4. TypeOK'
    BY <1>1, <2>1, <2>3 DEF IInv, TypeOK, Phases
  <2>5. Paired'
    BY <1>1, <1>6, <2>1 DEF IInv, TypeOK, Paired, Sessions
  <2> QED  BY <1>2, <1>3, <1>4, <2>3, <2>4, <2>5 DEF IInv, Accounted
<1> QED  BY <1>5, <1>6

LEMMA AttachPlayOk ==
  ASSUME WebrtcHubAssumption, IInv, NEW s \in Sessions, AttachPlay(s)
  PROVE  IInv'
<1>1. s \in Players /\ phase[s] = "entered" /\ s \in registry
  BY DEF AttachPlay, IInv, Accounted, GivenBack
<1>2. CASE Become(s, "attached") /\ Hold(s, {"reader"})
           /\ UNCHANGED <<registry, ready, readers, publishing, begun, ended, down, deletes>>
  <2>1. /\ phase' = [phase EXCEPT ![s] = "attached"]
        /\ holds' = [holds EXCEPT ![s] = @ \cup {"reader"}]
        /\ UNCHANGED <<registry, ready, readers, publishing, begun, ended, down, deletes>>
    BY <1>2 DEF Become, Hold
  <2>2. TypeOK'
    BY <2>1 DEF IInv, TypeOK, deletes, Phases
  <2>3. "count" \notin holds[s] /\ "demux" \notin holds[s]
    BY <1>1 DEF IInv, Fits
  <2>4. GivenBack'
    BY <1>1, <2>1 DEF IInv, TypeOK, Accounted, GivenBack
  <2>5. \A t \in Sessions : Fits(t)'
    BY <2>1, <2>3 DEF IInv, TypeOK, Fits
  <2>6. CountedPlayers' = CountedPlayers
    BY <2>1 DEF IInv, TypeOK, CountedPlayers, Sessions
  <2>7. Paired'
    BY <2>1 DEF IInv, TypeOK, Paired, Sessions
  <2> QED  BY <2>1, <2>2, <2>4, <2>5, <2>6, <2>7, SameCounted DEF IInv, Accounted, Bounded
<1> QED  BY <1>1, <1>2, DestroyedOk DEF AttachPlay, deletes, IInv, TypeOK

LEMMA AnswerOk ==
  ASSUME WebrtcHubAssumption, IInv, NEW s \in Sessions, Answer(s)
  PROVE  IInv'
<1>1. phase[s] = (IF s \in Players THEN "attached" ELSE "entered") /\ s \in registry
  BY DEF Answer, IInv, Accounted, GivenBack
<1>2. "count" \notin holds[s] /\ "demux" \notin holds[s]
  BY <1>1 DEF IInv, Fits
<1>3. CASE /\ Become(s, "open")
           /\ IF s \in Players THEN Hold(s, {"count"}) /\ readers' = readers + 1
              ELSE UNCHANGED <<holds, readers>>
           /\ UNCHANGED <<registry, ready, publishing, begun, ended, down, deletes>>
  <2>1. /\ phase' = [phase EXCEPT ![s] = "open"]
        /\ UNCHANGED <<registry, ready, publishing, begun, ended, down, deletes>>
    BY <1>3 DEF Become
  <2>2. CASE s \in Players
    <3>1. holds' = [holds EXCEPT ![s] = @ \cup {"count"}] /\ readers' = readers + 1
      BY <1>3, <2>2 DEF Hold
    <3>2. TypeOK'
      BY <2>1, <3>1 DEF IInv, TypeOK, deletes, Phases
    <3>3. GivenBack'
      BY <1>1, <2>1, <2>2, <3>1 DEF IInv, TypeOK, Accounted, GivenBack
    <3>4. \A t \in Sessions : Fits(t)'
      BY <1>2, <2>1, <2>2, <3>1 DEF IInv, TypeOK, Fits
    <3>5. CountedPlayers' = CountedPlayers \cup {s} /\ s \notin CountedPlayers
      BY <1>2, <2>2, <3>1 DEF IInv, TypeOK, CountedPlayers, Sessions
    <3>6. Counted'
      <4>1. IsFiniteSet(CountedPlayers) /\ readers = Cardinality(CountedPlayers)
        BY CountedAreEntered DEF IInv, Accounted, Counted, CountedPlayers
      <4>2. Cardinality(CountedPlayers') = readers + 1
        BY <3>5, <4>1, FS_AddElement
      <4> QED  BY <3>1, <4>2 DEF Counted, CountedPlayers
    <3>7. Paired'
      BY <2>1, <3>1 DEF IInv, TypeOK, Paired, Sessions
    <3> QED  BY <2>1, <3>2, <3>3, <3>4, <3>6, <3>7 DEF IInv, Accounted, Bounded
  <2>3. CASE s \notin Players
    <3>1. UNCHANGED <<holds, readers>>
      BY <1>3, <2>3
    <3>2. TypeOK'
      BY <2>1, <3>1 DEF IInv, TypeOK, deletes, Phases
    <3>3. GivenBack'
      BY <1>1, <2>1, <2>3, <3>1 DEF IInv, TypeOK, Accounted, GivenBack
    <3>4. \A t \in Sessions : Fits(t)'
      BY <1>2, <2>1, <3>1 DEF IInv, TypeOK, Fits
    <3>5. Counted' /\ Paired'
      BY <2>1, <3>1 DEF IInv, Accounted, Counted, Paired
    <3> QED  BY <2>1, <3>2, <3>3, <3>4, <3>5 DEF IInv, Accounted, Bounded
  <2> QED  BY <2>2, <2>3
<1> QED  BY <1>1, <1>3, DestroyedOk DEF Answer, deletes, IInv, TypeOK

LEMMA StartMediaOk ==
  ASSUME WebrtcHubAssumption, IInv, NEW s \in Sessions, StartMedia(s)
  PROVE  IInv'
<1>1. /\ s \in Publishers /\ phase[s] = "open" /\ ready' = ready \cup {s}
      /\ UNCHANGED <<registry, phase, readers, ended, down, deletes>>
  BY DEF StartMedia
<1>2. CASE /\ Hold(s, {"demux"}) /\ publishing' = TRUE
           /\ begun' = begun + (IF publishing THEN 0 ELSE 1)
  <2>1. holds' = [holds EXCEPT ![s] = @ \cup {"demux"}]
    BY <1>2 DEF Hold
  <2>2. TypeOK'
    BY <1>1, <1>2, <2>1 DEF IInv, TypeOK, deletes
  <2>3. GivenBack'
    BY <1>1, <2>1 DEF IInv, TypeOK, Accounted, GivenBack
  <2>4. \A t \in Sessions : Fits(t)'
    BY <1>1, <2>1 DEF IInv, TypeOK, Fits
  <2>5. CountedPlayers' = CountedPlayers
    BY <2>1 DEF IInv, TypeOK, CountedPlayers, Sessions
  <2>6. Paired'
    <3>1. "demux" \in holds'[s]
      BY <2>1 DEF IInv, TypeOK
    <3> QED  BY <1>1, <1>2, <3>1 DEF IInv, TypeOK, Paired
  <2> QED  BY <1>1, <2>2, <2>3, <2>4, <2>5, <2>6, SameCounted DEF IInv, Accounted, Bounded
<1>3. CASE UNCHANGED <<holds, publishing, begun>>
  BY <1>1, <1>3 DEF IInv, TypeOK, deletes, Accounted, Bounded, GivenBack, Counted, Paired, Fits
<1> QED  BY <1>2, <1>3 DEF StartMedia

LEMMA DestroyAllOk ==
  ASSUME IInv, WebrtcHubAssumption, DestroyAll
  PROVE  IInv'
<1>1. /\ registry' = {} /\ ready' = {} /\ readers' = 0 /\ down' = TRUE
      /\ phase' = [s \in Sessions |-> IF s \in registry THEN "gone" ELSE phase[s]]
      /\ holds' = [s \in Sessions |-> IF s \in registry THEN {} ELSE holds[s]]
      /\ UNCHANGED begun
      /\ \A s \in Sessions : phase[s] \in {"none", "stuck", "open", "gone"}
      /\ UNCHANGED deletes
  BY DEF DestroyAll
<1>2. \A s \in Sessions : phase'[s] \in {"none", "stuck", "gone"}
                       /\ holds'[s] = IF phase'[s] = "stuck" THEN {"udp"} ELSE {}
  BY <1>1 DEF IInv, Accounted, GivenBack
<1>3. publishing' = FALSE /\ ended' = ended + (IF publishing THEN 1 ELSE 0)
  <2>1. CASE registry \cap Publishers = {}
    <3>1. ~publishing
      BY <2>1 DEF IInv, Paired, Fits, Accounted, GivenBack, Sessions
    <3>2. UNCHANGED <<publishing, ended>>
      BY <2>1 DEF DestroyAll
    <3> QED  BY <3>1, <3>2 DEF IInv, TypeOK
  <2>2. CASE registry \cap Publishers # {}
    BY <2>2 DEF DestroyAll
  <2> QED  BY <2>1, <2>2
<1>4. TypeOK'
  <2>1. ended' \in Nat /\ begun' \in Nat /\ readers' \in Nat
    <3>1. begun \in Nat /\ ended \in Nat
      BY DEF IInv, TypeOK
    <3>2. ended' = ended + 1 \/ ended' = ended + 0
      BY <1>3
    <3> QED  BY <1>1, <3>1, <3>2
  <2>2. publishing' \in BOOLEAN
    BY <1>3
  <2>3. phase' \in [Sessions -> Phases]
    BY <1>1 DEF IInv, TypeOK, Phases
  <2>4. holds' \in [Sessions -> SUBSET (Sockets \cup {"ingest", "reader", "count", "demux"})]
    BY <1>1 DEF IInv, TypeOK
  <2>5. found' \in [Sessions -> Nat] /\ twice' \in BOOLEAN
    BY <1>1 DEF IInv, TypeOK, deletes
  <2> QED  BY <1>1, <2>1, <2>2, <2>3, <2>4, <2>5 DEF TypeOK
<1>5. GivenBack' /\ \A s \in Sessions : Fits(s)'
  BY <1>1, <1>2 DEF GivenBack, Fits
<1>6. Counted'
  <2>1. CountedPlayers' = {}
    BY <1>2 DEF CountedPlayers, Sessions
  <2> QED  BY <1>1, <2>1, FS_EmptySet DEF Counted, CountedPlayers
<1>7. IsFiniteSet(registry') /\ Bounded'
  BY <1>1, FS_EmptySet DEF Bounded, WebrtcHubAssumption
<1>8. Paired'
  BY <1>1, <1>3 DEF IInv, TypeOK, Paired
<1> QED  BY <1>4, <1>5, <1>6, <1>7, <1>8 DEF IInv, Accounted

LEMMA StepIInv ==
  ASSUME WebrtcHubAssumption, IInv, [Next]_vars
  PROVE  IInv'
<1>1. ASSUME NEW s \in Sessions, Post(s) \/ BindUdp(s) \/ RegAdd(s) \/ AttachPlay(s)
                                 \/ Answer(s) \/ StartMedia(s)
      PROVE  IInv'
  BY <1>1, PostOk, BindUdpOk, RegAddOk, AttachPlayOk, AnswerOk, StartMediaOk
<1>2. ASSUME NEW s \in Sessions, Delete(s)
      PROVE  IInv'
  <2>1. UNCHANGED <<registry, phase, holds, ready, readers, publishing, begun, ended, down, twice>>
    BY <1>2 DEF Delete
  <2>2. found' \in [Sessions -> Nat]
    BY <1>2 DEF Delete, IInv, TypeOK
  <2> QED  BY <2>1, <2>2 DEF IInv, TypeOK, Accounted, Bounded, GivenBack, Counted, Paired, Fits
<1>5. ASSUME NEW s \in Sessions, DestroyFound(s)
      PROVE  IInv'
  <2>1. found' \in [Sessions -> Nat] /\ twice' \in BOOLEAN
    <3>1. found \in [Sessions -> Nat] /\ twice \in BOOLEAN
      BY DEF IInv, TypeOK
    <3>2. found' = [found EXCEPT ![s] = @ - 1] /\ found[s] > 0
      BY <1>5 DEF DestroyFound
    <3>3. found[s] - 1 \in Nat
      BY <3>1, <3>2
    <3>4. twice' = twice \/ twice' = TRUE
      BY <1>5 DEF DestroyFound
    <3>5. twice' \in BOOLEAN
      BY <3>1, <3>4
    <3> QED  BY <3>1, <3>2, <3>3, <3>5
  <2>2. CASE phase[s] = "open" /\ Destroyed(s)
    <3>1. s \in registry
      BY <2>2 DEF IInv, Accounted, GivenBack
    <3> QED  BY <2>1, <2>2, <3>1, DestroyedOk
  <2>3. CASE UNCHANGED <<registry, phase, holds, ready, readers, publishing, begun, ended, down>>
    BY <2>1, <2>3 DEF IInv, TypeOK, Accounted, Bounded, GivenBack, Counted, Paired, Fits
  <2> QED  BY <1>5, <2>2, <2>3 DEF DestroyFound
<1>3. CASE DestroyAll
  BY <1>3, DestroyAllOk
<1>4. CASE UNCHANGED vars
  BY <1>4 DEF vars, IInv, TypeOK, deletes, Accounted, Bounded, GivenBack, Counted,
              Paired, Fits
<1> QED  BY <1>1, <1>2, <1>3, <1>4, <1>5 DEF Next

LEMMA Inductive == WebrtcHubAssumption => (Spec => []IInv)
<1> SUFFICES ASSUME WebrtcHubAssumption
             PROVE  Spec => []IInv
  OBVIOUS
<1>1. Init => IInv
  BY InitIInv
<1>2. IInv /\ [Next]_vars => IInv'
  BY StepIInv
<1> QED  BY <1>1, <1>2, PTL DEF Spec
-----------------------------------------------------------------------------
\* However many requests race for the registry and wherever they fail, it
\* never holds more sessions than ZMS_WEBRTC_SESSION_MAX, a session that is
\* gone holds nothing (one whose socket did not start still holds that), and
\* each player is counted once, until two DELETEs free one session.
THEOREM WebrtcAccounts == WebrtcHubAssumption => (Spec => []SessionsAccounted)
<1>1. IInv => SessionsAccounted
  BY DEF IInv, Accounted, SessionsAccounted
<1> QED  BY <1>1, Inductive, PTL

\* However many publishers feed the stream, a publication that begins ends
\* once before the next begins, and none goes on without a publisher, until
\* two DELETEs free one session.
THEOREM WebrtcPublishesInPairs == WebrtcHubAssumption => (Spec => []PublishPaired)
<1>1. IInv => PublishPaired
  BY DEF IInv, PublishPaired
<1> QED  BY <1>1, Inductive, PTL
=============================================================================
