----------------------------- MODULE StreamHub -----------------------------
(***************************************************************************)
(* One live stream of the hub (engine/stream/stream_hub.c, media_event.c)  *)
(* and the publishers that contend for its name (it was used before, so    *)
(* the source exists; live sources are never freed).  Every RTMP or RTSP   *)
(* session runs on a poller thread of its own: its handlers run to their   *)
(* end there, but the hub's mutex is released between the parts of a       *)
(* take-over and of a teardown, so these are steps.                        *)
(*                                                                         *)
(* Publishing again under a used name reuses the source: the previous      *)
(* publisher is kicked, which only closes its socket; its own thread       *)
(* notices later and tears the session down.  The HTTP API closes streams  *)
(* with the same parts, from a thread of its own.                          *)
(*                                                                         *)
(* A connection may ask for anything at any time: publish here again, or   *)
(* somewhere else, look at another stream, play.  Nothing undoes what it   *)
(* did before, so what its teardown does is decided by what it asked last. *)
(*                                                                         *)
(* External (ztk): closing a TCP session asks its poller to report the     *)
(* error later; a handler that already runs is not interrupted.            *)
(***************************************************************************)
EXTENDS Integers, FiniteSets

CONSTANTS
    Sessions,       \* sessions that contend for the stream
    Rtsp,           \* those that register (ANNOUNCE) before they publish (RECORD)
    Api,            \* the thread that serves the HTTP API
    Nobody,         \* NULL publisher_ctx, and nobody holds the hub's mutex
    MaxCloses,      \* bound: calls of close_stream(s)
    MaxRequests     \* bound: requests of all sessions

ASSUME SessionAssumption == /\ Rtsp \subseteq Sessions
                            /\ Api \notin Sessions
                            /\ Nobody \notin Sessions \cup {Api}
ASSUME CloseAssumption == MaxCloses \in Nat /\ MaxRequests \in Nat

Actors == Sessions \cup {Api}

\* What a session's source and ingress point at: nothing, this stream, another.
Places == {"none", "here", "there"}

\* rtmp state PUBLISHING or rtsp mode RECORD; PLAYING or PLAY; neither yet.
Modes == {"new", "publish", "play"}

VARIABLES
    lock,           \* who holds g_registry_mtx across steps
    publishing,     \* of the source: who began the publication that is on, or Nobody
    publisher,      \* of the source: publisher_ctx
    queued,         \* whose frames the source's GOP queue has had since it was cleared
    recording,      \* of the source: who started its mp4_recorder, or Nobody
    pc,             \* where each thread is in its handler
    saved,          \* of a take-over or close: publisher_ctx and publishing it found
    mode, src, ing, \* of each session: its mode, source, ingress
    piped,          \* RTSP sessions whose record_pipeline exists
    closing,        \* sessions whose TCP connection is closed
    begun,          \* sessions that have published here (history)
    unended,        \* publications begun minus ended; both are decided under the
                    \* mutex, the on_media_publish(_fini) events follow outside it
    closes, requests

source == <<publishing, publisher, queued, recording>>
session == <<mode, src, ing, piped>>
counters == <<closes, requests>>
vars == <<lock, source, pc, saved, session, closing, begun, unended, counters>>

TakePcs == {"take", "kick", "stop", "fini", "clear"}
PublishPcs == {"allow", "publish", "setpub", "record"}
TeardownPcs == {"reset", "clearpub", "endstop", "endfini"}

\* A session waits between its handlers, where its poller takes the next event;
\* gone is freed, or about to be by the task its teardown left to the poller.
Pcs == TakePcs \cup PublishPcs \cup TeardownPcs \cup {"idle", "waiting", "gone"}

Goto(a, p) == pc' = [pc EXCEPT ![a] = p]

\* The hub's mutex is free; steps that take and release it need that.
LockFree == lock = Nobody

\* What a teardown asks: is this a publisher, is this its stream?
Owns(s) == mode[s] = "publish" /\ src[s] = "here"
Feeds(s) == mode[s] = "publish" /\ ing[s] = "here"

Init ==
    /\ lock = Nobody
    /\ publishing = Nobody /\ publisher = Nobody /\ queued = {}
    /\ recording = Nobody
    /\ pc = [a \in Actors |-> IF a = Api THEN "idle" ELSE "waiting"]
    /\ saved = [a \in Actors |-> [pub |-> Nobody, was |-> FALSE]]
    /\ mode = [s \in Sessions |-> "new"]
    /\ src = [s \in Sessions |-> "none"] /\ ing = [s \in Sessions |-> "none"]
    /\ piped = {} /\ closing = {} /\ begun = {}
    /\ unended = 0 /\ closes = 0 /\ requests = 0
-----------------------------------------------------------------------------
(* Take-over and close: zms_media_source_register_publish on a name that   *)
(* is in use, zms_media_source_close.                                      *)

\* /index/api/close_stream, and a webhook that answers none_reader with close.
\* (The API asks is_online first, which a stream with a known track is even
\* when nobody publishes it.)
CloseStream ==
    /\ pc[Api] = "idle"
    /\ closes < MaxCloses
    /\ closes' = closes + 1
    /\ Goto(Api, "take")
    /\ UNCHANGED <<lock, source, saved, session, closing, begun, unended, requests>>

\* /index/api/close_streams: zms_media_source_foreach calls the same close with
\* the mutex held.
CloseStreams ==
    /\ pc[Api] = "idle"
    /\ closes < MaxCloses
    /\ LockFree
    /\ closes' = closes + 1
    /\ lock' = Api
    /\ Goto(Api, "take")
    /\ UNCHANGED <<source, saved, session, closing, begun, unended, requests>>

\* A publisher comes (RTMP publish, RTSP ANNOUNCE), or the API closes.
\* Under the mutex: remember the publisher and forget it in the source.
Take(a) ==
    /\ pc[a] = "take"
    /\ LockFree
    /\ saved' = [saved EXCEPT ![a] = [pub |-> publisher, was |-> publishing # Nobody]]
    /\ publishing' = Nobody
    /\ publisher' = Nobody
    /\ Goto(a, "kick")
    /\ UNCHANGED <<lock, queued, recording, session, closing, begun, unended, counters>>

\* publisher_kick of p: its connection is closed.  When p was freed before, that
\* reads the tcp of freed memory: nothing happens, or, where the memory went to
\* another session, that one is closed.
Kicked(p) ==
    IF p = Nobody THEN {{}}
    ELSE IF pc[p] # "gone" THEN {{p}}
    ELSE {{}} \cup {{s} : s \in Sessions}

\* Without the mutex: the publisher found may have gone since.
Kick(a) ==
    /\ pc[a] = "kick"
    /\ \E k \in Kicked(saved[a].pub) : closing' = closing \cup k
    /\ Goto(a, IF saved[a].was THEN "stop" ELSE "clear")
    /\ UNCHANGED <<lock, source, saved, session, begun, unended, counters>>

\* zms_media_event_publish_fini: first the recorder is stopped, ...
StopRecorder(a, from, to) ==
    /\ pc[a] = from
    /\ recording' = Nobody
    /\ Goto(a, to)
    /\ UNCHANGED <<lock, publishing, publisher, queued, saved, session, closing, begun,
                   unended, counters>>

\* ... then, if the stream is still publishing, it ends and that is announced.
PublishFiniAlways(a, from, to) ==         \* mutant: publishing is not looked at
    /\ pc[a] = from
    /\ LockFree
    /\ publishing' = Nobody
    /\ unended' = unended - 1
    /\ Goto(a, to)
    /\ UNCHANGED <<lock, publisher, queued, recording, saved, session, closing, begun,
                   counters>>

PublishFini(a, from, to) ==
    /\ pc[a] = from
    /\ LockFree
    /\ publishing' = Nobody
    /\ unended' = IF publishing = Nobody THEN unended ELSE unended - 1
    /\ Goto(a, to)
    /\ UNCHANGED <<lock, publisher, queued, recording, saved, session, closing, begun,
                   counters>>

\* The source and the ingress of a session; an ANNOUNCE without a track it can
\* take, or a refusal, leaves none.
Bind(s, place) == src' = [src EXCEPT ![s] = place] /\ ing' = [ing EXCEPT ![s] = place]

\* zms_media_source_clear; then the handler goes on (RTMP) or ends (RTSP, API).
Clear(a) ==
    /\ pc[a] = "clear"
    /\ queued' = {}
    /\ saved' = [saved EXCEPT ![a] = [pub |-> Nobody, was |-> FALSE]]
    /\ \/ /\ a = Api
          /\ lock' = IF lock = Api THEN Nobody ELSE lock
          /\ Goto(a, "idle")
          /\ UNCHANGED <<src, ing>>
       \/ a \in Rtsp /\ Goto(a, "waiting") /\ (Bind(a, "here") \/ Bind(a, "none"))
          /\ UNCHANGED lock
       \/ a \in Sessions \ Rtsp /\ Goto(a, "allow") /\ Bind(a, "here") /\ UNCHANGED lock
    /\ UNCHANGED <<publishing, publisher, recording, mode, piped, closing, begun, unended,
                   counters>>

AfterTake(a) ==
    \/ Kick(a) \/ Clear(a)
    \/ StopRecorder(a, "stop", "fini")
    \/ PublishFini(a, "fini", "clear")
-----------------------------------------------------------------------------
(* What a connection asks for.                                             *)

\* The next request; the connection may be closed but the handler does not look.
Request(s) ==
    /\ pc[s] = "waiting"
    /\ requests < MaxRequests
    /\ requests' = requests + 1
    /\ UNCHANGED <<lock, source, saved, closing, begun, unended, closes>>

\* RTMP publish or RTSP ANNOUNCE under the stream's name, also once more.
Register(s) == Request(s) /\ Goto(s, "take") /\ UNCHANGED session

\* The same under another name, with or without success.
RegisterElsewhere(s) ==
    /\ Request(s)
    /\ Bind(s, "there") \/ Bind(s, "none")
    /\ \/ UNCHANGED mode
       \/ s \notin Rtsp /\ mode' = [mode EXCEPT ![s] = "publish"]
    /\ UNCHANGED <<pc, piped>>

\* RTSP DESCRIBE looks up any stream and points the session at it.
Describe(s) ==
    /\ Request(s)
    /\ s \in Rtsp
    /\ \E p \in Places : src' = [src EXCEPT ![s] = p]
    /\ UNCHANGED <<pc, mode, ing, piped>>

\* RTMP play looks its stream up, RTSP PLAY only when the session has no source.
\* A live PLAY closes what the session had open, record_pipeline included, before
\* the hook is asked; when the hook agrees the mode is PLAY.
Play(s) ==
    /\ Request(s)
    /\ \E p \in Places :
           /\ s \in Rtsp /\ src[s] # "none" => p = src[s]
           /\ src' = [src EXCEPT ![s] = p]
    /\ \/ UNCHANGED mode
       \/ src'[s] # "none" /\ mode' = [mode EXCEPT ![s] = "play"]
    /\ piped' \in {piped, piped \ {s}}
    /\ UNCHANGED <<pc, ing>>

\* RTSP RECORD publishes the source and takes frames for the ingress, whatever
\* these are by now.
Record(s) ==
    /\ Request(s)
    /\ s \in Rtsp /\ src[s] # "none" /\ ing[s] # "none"
    /\ mode' = [mode EXCEPT ![s] = "publish"]
    /\ IF src[s] = "here" THEN Goto(s, "allow") /\ UNCHANGED piped
       ELSE piped' \in {piped, piped \cup {s}} /\ UNCHANGED pc
    /\ UNCHANGED <<src, ing>>
-----------------------------------------------------------------------------
(* A session publishes.                                                    *)

\* zms_webhook_allow_publish (external) refuses, or the session cannot be attached.
\* An RTSP session is in mode RECORD by now; an RTMP session drops its source, is
\* PUBLISHING in the second case, and stays so if it was.
Deny(s) ==
    /\ pc[s] = "allow"
    /\ Goto(s, "waiting")
    /\ IF s \in Rtsp THEN UNCHANGED <<mode, src, ing>>
       ELSE /\ Bind(s, "none")
            /\ UNCHANGED mode \/ mode' = [mode EXCEPT ![s] = "publish"]
    /\ UNCHANGED <<lock, source, saved, piped, closing, begun, unended, counters>>

Allow(s) ==
    /\ pc[s] = "allow"
    /\ Goto(s, "publish")
    /\ mode' = [mode EXCEPT ![s] = "publish"]
    /\ piped' = IF s \in Rtsp THEN piped \cup {s} ELSE piped
    /\ UNCHANGED <<lock, source, saved, src, ing, closing, begun, unended, counters>>

\* zms_media_event_publish
Publish(s) ==
    /\ pc[s] = "publish"
    /\ LockFree
    /\ publishing' = s
    /\ unended' = unended + 1
    /\ begun' = begun \cup {s}
    /\ Goto(s, "setpub")
    /\ UNCHANGED <<lock, publisher, queued, recording, saved, session, closing, counters>>

\* zms_media_source_set_publisher kicks whoever was set meanwhile.
SetPublisherQuiet(s) ==                   \* mutant: without the kick
    /\ pc[s] = "setpub"
    /\ LockFree
    /\ publisher' = s
    /\ Goto(s, "record")
    /\ UNCHANGED <<lock, publishing, queued, recording, saved, session, closing, begun,
                   unended, counters>>

SetPublisher(s) ==
    /\ pc[s] = "setpub"
    /\ LockFree
    /\ IF publisher = s THEN UNCHANGED closing
       ELSE \E k \in Kicked(publisher) : closing' = closing \cup k
    /\ publisher' = s
    /\ Goto(s, "record")
    /\ UNCHANGED <<lock, publishing, queued, recording, saved, session, begun, unended,
                   counters>>

\* zms_mp4_recorder_start when the webhook said enable_mp4
StartRecorder(s) ==
    /\ pc[s] = "record"
    /\ recording' \in {recording, s}
    /\ Goto(s, "waiting")
    /\ UNCHANGED <<lock, publishing, publisher, queued, saved, session, closing, begun,
                   unended, counters>>

\* A frame reaches the GOP queue.
Write(s) ==
    /\ pc[s] = "waiting"
    /\ Feeds(s) /\ (s \in Rtsp => s \in piped)
    /\ queued' = queued \cup {s}
    /\ UNCHANGED <<lock, publishing, publisher, recording, pc, saved, session, closing,
                   begun, unended, counters>>
-----------------------------------------------------------------------------
(* A session ends.                                                         *)

\* The peer closes the connection; a session notices between handlers only.
Disconnect(s) ==
    /\ pc[s] = "waiting"
    /\ closing' = closing \cup {s}
    /\ UNCHANGED <<lock, source, pc, saved, session, begun, unended, counters>>

\* on_error: only a session that is PUBLISHING or in mode RECORD has something to
\* tear down; the pipeline goes in any case.
OnError(s) ==
    /\ s \in closing
    /\ pc[s] = "waiting"
    /\ Goto(s, IF mode[s] = "publish" THEN "reset" ELSE "gone")
    /\ piped' = piped \ {s}
    /\ UNCHANGED <<lock, source, saved, mode, src, ing, closing, begun, unended, counters>>

\* zms_live_ingest_reset clears the ingress's source, whoever writes to it by now.
Reset(s) ==
    /\ pc[s] = "reset"
    /\ queued' = IF ing[s] = "here" THEN {} ELSE queued
    /\ Goto(s, IF src[s] = "here" THEN "clearpub" ELSE "gone")
    /\ UNCHANGED <<lock, publishing, publisher, recording, saved, session, closing, begun,
                   unended, counters>>

\* zms_media_source_clear_publisher
ClearPublisherOffline(s) ==               \* mutant: only while publishing
    /\ pc[s] = "clearpub"
    /\ LockFree
    /\ publisher' = IF publisher = s /\ publishing # Nobody THEN Nobody ELSE publisher
    /\ Goto(s, "endstop")
    /\ UNCHANGED <<lock, publishing, queued, recording, saved, session, closing, begun,
                   unended, counters>>

ClearPublisher(s) ==
    /\ pc[s] = "clearpub"
    /\ LockFree
    /\ publisher' = IF publisher = s THEN Nobody ELSE publisher
    /\ Goto(s, "endstop")
    /\ UNCHANGED <<lock, publishing, queued, recording, saved, session, closing, begun,
                   unended, counters>>

Teardown(s) ==
    \/ OnError(s) \/ Reset(s) \/ ClearPublisher(s)
    \/ StopRecorder(s, "endstop", "endfini")
    \/ PublishFini(s, "endfini", "gone")
-----------------------------------------------------------------------------
\* What a started handler does next.
Handler(s) ==
    \/ Take(s) \/ AfterTake(s) \/ Deny(s) \/ Allow(s) \/ Publish(s) \/ SetPublisher(s)
    \/ StartRecorder(s)

Asks(s) == Register(s) \/ RegisterElsewhere(s) \/ Describe(s) \/ Play(s) \/ Record(s)

Next ==
    \/ \E s \in Sessions : \/ Asks(s) \/ Write(s) \/ Disconnect(s)
                           \/ Handler(s) \/ Teardown(s)
    \/ CloseStream \/ CloseStreams \/ Take(Api) \/ AfterTake(Api)

Spec == Init /\ [][Next]_vars

\* Handlers run to their end and a poller reports a closed connection.  Peers
\* are free to come, send and leave.
Fairness == /\ \A s \in Sessions : WF_vars(Handler(s) \/ Teardown(s))
            /\ WF_vars(Take(Api) \/ AfterTake(Api))

FairSpec == Spec /\ Fairness
-----------------------------------------------------------------------------
(* Properties.                                                             *)

\* Types of the variables.
TypeOK ==
    /\ lock \in {Nobody, Api}
    /\ {publishing, recording, publisher} \subseteq Sessions \cup {Nobody}
    /\ queued \subseteq Sessions
    /\ pc \in [Actors -> Pcs]
    /\ saved \in [Actors -> [pub : Sessions \cup {Nobody}, was : BOOLEAN]]
    /\ mode \in [Sessions -> Modes] /\ src \in [Sessions -> Places]
    /\ ing \in [Sessions -> Places] /\ piped \subseteq Rtsp
    /\ closing \subseteq Sessions /\ begun \subseteq Sessions
    /\ unended \in Int /\ closes \in Nat /\ requests \in Nat

\* Whatever order requests, take-overs, closes and late teardowns come in, nothing
\* of a session outlives it, unless the session had stopped being a publisher of
\* this stream on the same connection before it ended (PLAY, another name): a
\* publication is ended and a recording stopped by a session that began one,
\* publisher_ctx (the pointer the next take-over calls back) is a session that
\* exists, and no frame of a gone session waits in the queue.
NoOrphans ==
    /\ publishing # Nobody /\ Owns(publishing) => pc[publishing] # "gone"
    /\ recording # Nobody /\ Owns(recording) => pc[recording] \notin {"endfini", "gone"}
    /\ publisher # Nobody /\ Owns(publisher) =>
           pc[publisher] \notin {"endstop", "endfini", "gone"}
    /\ \A s \in queued : Feeds(s) => pc[s] \notin (TeardownPcs \ {"reset"}) \cup {"gone"}

\* on_media_publish_fini is never decided for a stream that did not begin, nor
\* twice for one on_media_publish, although take-over, close and teardown may
\* all try to end the same publication.
EndsMatchBegins == unended >= IF publishing = Nobody THEN 0 ELSE 1

\* Two publishers stay connected to one stream only for a while: whichever way
\* their registrations interleave, and whatever else they ask for meanwhile, all
\* but one of those that published here are kicked and end (unless the hub's mutex
\* was lost, see ApiReturns).
Live == {s \in begun : pc[s] = "waiting"}
OneSurvives == <>[](Cardinality(Live) <= 1) \/ <>[](lock # Nobody)

\* An HTTP API request is answered.
ApiReturns == pc[Api] # "idle" ~> pc[Api] = "idle"
=============================================================================
