----------------------------- MODULE WebrtcHub ------------------------------
(***************************************************************************)
(* The WebRTC sessions of the server: the requests that create players     *)
(* (WHEP) and publishers (WHIP) on the pollers of their connections, the   *)
(* bounded registry they are entered in, the handshake after which media   *)
(* flows, DELETE, and the shutdown.  webrtc_session.c, the two routes, the *)
(* life cycle of webrtc_whip_ingress.c and of webrtc_ice.c.  A DELETE      *)
(* looks its session up under the registry's lock and destroys it without: *)
(* another DELETE may do so in between.                                    *)
(*                                                                         *)
(* A creation takes the registry's lock twice, to ask whether there is     *)
(* room and to enter the session, and may fail in between and afterwards;  *)
(* requests on different pollers interleave between these steps.  All      *)
(* players watch one stream and all publishers feed another.               *)
(***************************************************************************)
EXTENDS Integers, FiniteSets

CONSTANTS
    Players, Publishers,   \* the requests that are made, each once
    SessionMax,            \* ZMS_WEBRTC_SESSION_MAX
    MaxDeletes             \* bound: DELETEs of one session under way

WebrtcHubAssumption ==
    Players \cap Publishers = {} /\ SessionMax \in Nat \ {0} /\ MaxDeletes \in Nat

Sessions == Players \cup Publishers

VARIABLES
    registry,    \* the sessions entered
    phase,       \* how far the creation of each has come
    holds,       \* what each holds: "udp", "ice", "agent", "ingest", "reader", "count", "demux"
    ready,       \* dtls_ready
    readers,     \* reader count of the stream watched
    publishing,  \* the stream fed is published
    begun,       \* publish events so far
    ended,       \* and their ends
    down,        \* the service was destroyed
    found,       \* the DELETEs that have found each and not yet destroyed it
    twice        \* a session was freed twice

deletes == <<found, twice>>
vars == <<registry, phase, holds, ready, readers, publishing, begun, ended, down, deletes>>

Phases == {"none", "checked", "bound", "stuck", "entered", "attached", "open", "gone"}

Init ==
    /\ registry = {} /\ phase = [s \in Sessions |-> "none"]
    /\ holds = [s \in Sessions |-> {}] /\ ready = {}
    /\ readers = 0 /\ publishing = FALSE /\ begun = 0 /\ ended = 0 /\ down = FALSE
    /\ found = [s \in Sessions |-> 0] /\ twice = FALSE

Become(s, p) == phase' = [phase EXCEPT ![s] = p]
Hold(s, x) == holds' = [holds EXCEPT ![s] = @ \cup x]
Release(s, x) == holds' = [holds EXCEPT ![s] = @ \ x]
-----------------------------------------------------------------------------
(* What sessions are made of and how it is taken apart.                    *)

\* zms_webrtc_ice_create: the agent and its entry in the table that finds
\* the poller of its timers.
Agent == {"ice", "agent"}

\* zms_webrtc_ice_destroy
IceDestroy(h) == h \ Agent

\* webrtc_session_bind_udp, webrtc_session_unbind_udp
Sockets == {"udp"} \cup Agent
Unbind(h) == IceDestroy(h) \ {"udp"}

\* webrtc_session_registry_full
Full == Cardinality(registry) >= SessionMax

\* A bug: the reader is detached and stays counted.
TeardownKeepsCount(s) == readers' = readers

\* zms_webrtc_session_teardown of a player.
Teardown(s) == readers' = IF "count" \in holds[s] THEN readers - 1 ELSE readers

\* zms_webrtc_whip_ingress_stop: the demuxers, then the end of the
\* publication if the stream is published, whoever published it.
IngressStop(s) ==
    /\ publishing' = FALSE
    /\ ended' = ended + (IF publishing THEN 1 ELSE 0)

\* webrtc_session_reg_remove, zms_webrtc_session_find
Remove(s) == registry' = registry \ {s}
Found(s) == s \in registry

\* zms_webrtc_session_destroy
Destroyed(s) ==
    /\ Remove(s) /\ Become(s, "gone")
    /\ holds' = [holds EXCEPT ![s] = Unbind(@ \ {"reader", "count", "ingest", "demux"})]
    /\ ready' = ready \ {s}
    /\ IF s \in Publishers THEN IngressStop(s) /\ UNCHANGED readers
       ELSE Teardown(s) /\ UNCHANGED <<publishing, ended>>
    /\ UNCHANGED <<begun, down>>
-----------------------------------------------------------------------------
(* Creating a session.                                                     *)

\* webrtc_session_registry_full, asked under the lock; 503 when it is.
Post(s) ==
    /\ ~down /\ phase[s] = "none"
    /\ Become(s, IF Full THEN "gone" ELSE "checked")
    /\ UNCHANGED <<registry, holds, ready, readers, publishing, begun, ended, down, deletes>>

\* zms_webrtc_session_create and zms_webrtc_session_create_publish: a
\* publisher registers its stream first; binding may fail, and gives that
\* back, but not a socket that was made and does not start.
BindUdp(s) ==
    /\ phase[s] = "checked"
    /\ \/ Become(s, "bound") /\ Hold(s, Sockets \cup (IF s \in Publishers THEN {"ingest"} ELSE {}))
       \/ Become(s, "gone") /\ UNCHANGED holds
       \/ Become(s, "stuck") /\ Hold(s, {"udp"})
    /\ UNCHANGED <<registry, ready, readers, publishing, begun, ended, down, deletes>>

\* A bug: the second question is not asked.
RegAddUnasked(s) ==
    /\ phase[s] = "bound"
    /\ registry' = registry \cup {s} /\ Become(s, "entered")
    /\ UNCHANGED <<holds, ready, readers, publishing, begun, ended, down, deletes>>

\* webrtc_session_reg_add asks again: without room all is given back.
RegAdd(s) ==
    /\ phase[s] = "bound"
    /\ IF Full
       THEN /\ Become(s, "gone") /\ UNCHANGED registry
            /\ holds' = [holds EXCEPT ![s] = Unbind(@ \ {"ingest"})]
       ELSE registry' = registry \cup {s} /\ Become(s, "entered") /\ UNCHANGED holds
    /\ UNCHANGED <<ready, readers, publishing, begun, ended, down, deletes>>

\* webrtc_protocol_on_play_live: the player becomes a reader of the ring, or
\* is destroyed with a 500.
AttachPlay(s) ==
    /\ s \in Players /\ phase[s] = "entered"
    /\ \/ /\ Become(s, "attached") /\ Hold(s, {"reader"})
          /\ UNCHANGED <<registry, ready, readers, publishing, begun, ended, down, deletes>>
       \/ Destroyed(s) /\ UNCHANGED deletes

\* The answer: a player is counted and announced with it, an offer nothing
\* can be answered to ends the session with a 400.
Answer(s) ==
    /\ phase[s] = IF s \in Players THEN "attached" ELSE "entered"
    /\ \/ /\ Become(s, "open")
          /\ IF s \in Players THEN Hold(s, {"count"}) /\ readers' = readers + 1
             ELSE UNCHANGED <<holds, readers>>
          /\ UNCHANGED <<registry, ready, publishing, begun, ended, down, deletes>>
       \/ Destroyed(s) /\ UNCHANGED deletes
-----------------------------------------------------------------------------
(* The session's life.                                                     *)

\* A bug: every publisher announces the stream.
StartMediaAgain(s) ==
    /\ s \in Publishers /\ phase[s] = "open" /\ s \notin ready
    /\ ready' = ready \cup {s}
    /\ Hold(s, {"demux"}) /\ publishing' = TRUE /\ begun' = begun + 1
    /\ UNCHANGED <<registry, phase, readers, ended, down, deletes>>

\* zms_webrtc_whip_ingress_on_udp and webrtc_whip_start_media: the packet
\* that completes the handshake starts the media; a demuxer that cannot be
\* made leaves the session ready and silent for good.
StartMedia(s) ==
    /\ s \in Publishers /\ phase[s] = "open" /\ s \notin ready
    /\ ready' = ready \cup {s}
    /\ \/ /\ Hold(s, {"demux"}) /\ publishing' = TRUE
          /\ begun' = begun + (IF publishing THEN 0 ELSE 1)
       \/ UNCHANGED <<holds, publishing, begun>>
    /\ UNCHANGED <<registry, phase, readers, ended, down, deletes>>

\* webrtc_whep_delete and webrtc_whip_delete: an id of the other kind is not
\* found.  (The client knows the id from the answer.)
Delete(s) ==
    /\ ~down /\ phase[s] = "open" /\ Found(s) /\ found[s] < MaxDeletes
    /\ found' = [found EXCEPT ![s] = @ + 1]
    /\ UNCHANGED <<registry, phase, holds, ready, readers, publishing, begun, ended, down, twice>>

\* The rest of it: what another DELETE destroyed meanwhile is freed again,
\* and anything may follow.
DestroyFound(s) ==
    /\ found[s] > 0 /\ found' = [found EXCEPT ![s] = @ - 1]
    /\ \/ phase[s] = "open" /\ Destroyed(s) /\ UNCHANGED twice
       \/ /\ phase[s] = "gone" /\ twice' = TRUE
          /\ UNCHANGED <<registry, phase, holds, ready, readers, publishing, begun, ended, down>>

\* zms_webrtc_session_destroy_all when the service goes down, with the
\* servers that take requests already stopped: the registry is emptied
\* under the lock and its sessions destroyed one by one.
DestroyAll ==
    /\ ~down /\ down' = TRUE
    /\ \A s \in Sessions : phase[s] \in {"none", "stuck", "open", "gone"} /\ found[s] = 0
    /\ registry' = {} /\ ready' = {} /\ readers' = 0
    /\ phase' = [s \in Sessions |-> IF s \in registry THEN "gone" ELSE phase[s]]
    /\ holds' = [s \in Sessions |-> IF s \in registry THEN {} ELSE holds[s]]
    /\ IF registry \cap Publishers = {} THEN UNCHANGED <<publishing, ended>>
       ELSE publishing' = FALSE /\ ended' = ended + (IF publishing THEN 1 ELSE 0)
    /\ UNCHANGED <<begun, deletes>>

Next ==
    \/ \E s \in Sessions : Post(s) \/ BindUdp(s) \/ RegAdd(s) \/ AttachPlay(s) \/ Answer(s)
                           \/ StartMedia(s) \/ Delete(s) \/ DestroyFound(s)
    \/ DestroyAll

Spec == Init /\ [][Next]_vars
-----------------------------------------------------------------------------
(* Properties.                                                             *)

TypeOK ==
    /\ registry \subseteq Sessions /\ phase \in [Sessions -> Phases]
    /\ holds \in [Sessions -> SUBSET (Sockets \cup {"ingest", "reader", "count", "demux"})]
    /\ ready \subseteq Sessions /\ readers \in Nat
    /\ publishing \in BOOLEAN /\ begun \in Nat /\ ended \in Nat /\ down \in BOOLEAN
    /\ found \in [Sessions -> Nat] /\ twice \in BOOLEAN

\* However the requests interleave and wherever they fail, the registry
\* never holds more sessions than it has room for, and a session outside it
\* that is no longer being created holds nothing: no socket, no agent, no
\* reader of the ring, no stream (webrtc_session_reg_add,
\* zms_webrtc_session_destroy).  Two things the code does are left out: the
\* socket that was made and does not start stays ("stuck"), and nothing is
\* claimed once two DELETEs freed one session.
Bounded == Cardinality(registry) <= SessionMax
GivenBack == \A s \in Sessions :
    /\ phase[s] \in {"none", "checked", "gone"} => holds[s] = {}
    /\ phase[s] = "stuck" => holds[s] = {"udp"}
    /\ s \in registry <=> phase[s] \in {"entered", "attached", "open"}
Counted == readers = Cardinality({s \in Players : "count" \in holds[s]})
SessionsAccounted == ~twice => Bounded /\ GivenBack /\ Counted

\* A publication that begins ends once before the next begins, and none
\* outlives the publishers that feed it (webrtc_whip_start_media,
\* zms_webrtc_whip_ingress_stop), as long as no session was freed twice.
Paired ==
    /\ begun = ended + (IF publishing THEN 1 ELSE 0)
    /\ publishing => \E s \in Publishers : "demux" \in holds[s]
PublishPaired == ~twice => Paired
=============================================================================
