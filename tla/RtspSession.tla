---------------------------- MODULE RtspSession -----------------------------
(***************************************************************************)
(* One RTSP player's session: DESCRIBE, PLAY, PAUSE and TEARDOWN, the      *)
(* blocking open of a VOD lane on the thread pool (rtsp_session_vod.c),    *)
(* the pump of the manager timer and the delayed destruction of the        *)
(* session (rtsp_service.c).  Handlers, timer and completions run on the   *)
(* session's poller thread, one at a time; only the open itself runs on    *)
(* another thread.                                                         *)
(***************************************************************************)
EXTENDS Integers, FiniteSets

CONSTANT MaxOpens    \* bound: VOD lanes opened

RtspAssumption == MaxOpens \in Nat

Kinds == {"live", "vod"}

VARIABLES
    source,      \* rs->source: "none" or its kind
    mode,        \* "none", "play"
    paused,      \* play_paused
    gop,         \* gop_reader is open
    lane,        \* vod_lane, 0: none
    mux,         \* play_rtp_muxer exists
    attached,    \* play_reader_attached
    tcp,         \* rs->tcp is set
    closing,     \* close_pending
    scheduled,   \* destroy_scheduled
    freed,       \* the session's memory is gone
    jobs,        \* VOD opens under way: [lane, stage, replay]
    lanes,       \* lanes open in the process
    opened,      \* lanes opened so far
    readers,     \* reader count of the two sources, this session's part
    told,        \* what the client was told last: "none", "playing", "paused", "over"
    flow,        \* packets left since it was told
    past,        \* what happened to the session that its fields do not show
    touched      \* the freed session was read

session == <<source, mode, paused, gop, lane, mux, attached, tcp, closing, scheduled>>
vars == <<session, freed, jobs, lanes, opened, readers, told, flow, past, touched>>

\* The history: moved, a DESCRIBE changed the source of an attached session;
\* hasty, a PLAY of a file came with an open under way; crossed, a PAUSE did, and
\* no PLAY since; dropped, the lanes whose pointer was lost.
Past == [moved : BOOLEAN, crossed : BOOLEAN, hasty : BOOLEAN, dropped : SUBSET (1..MaxOpens)]

Init ==
    /\ source = "none" /\ mode = "none" /\ paused = FALSE
    /\ gop = FALSE /\ lane = 0 /\ mux = FALSE /\ attached = FALSE
    /\ tcp = TRUE /\ closing = FALSE /\ scheduled = FALSE /\ freed = FALSE
    /\ jobs = {} /\ lanes = {} /\ opened = 0
    /\ readers = [k \in Kinds |-> 0]
    /\ told = "none" /\ flow = FALSE /\ touched = FALSE
    /\ past = [moved |-> FALSE, crossed |-> FALSE, hasty |-> FALSE, dropped |-> {}]

Receiving == tcp /\ ~closing /\ ~scheduled
-----------------------------------------------------------------------------
(* Playing.                                                                *)

\* zms_rtsp_session_play_kick and play_tick: what it takes to send.
Sends(isPaused, hasReader) == ~isPaused /\ hasReader /\ tcp /\ ~closing

AnsweredAgain(src, isPaused, hasReader) ==       \* mutant: every PLAY adds a reader
    /\ attached' = TRUE
    /\ readers' = [readers EXCEPT ![src] = @ + 1]
    /\ told' = "playing"
    /\ flow' = Sends(isPaused, hasReader)

\* The end of PLAY: reader_add on the first one, 200, play_kick.
Answered(src, isPaused, hasReader) ==
    /\ attached' = TRUE
    /\ readers' = IF attached THEN readers ELSE [readers EXCEPT ![src] = @ + 1]
    /\ told' = "playing"
    /\ flow' = Sends(isPaused, hasReader)

Refused == UNCHANGED <<attached, readers, told, flow>>       \* 403, 404

Describe(src) ==
    /\ Receiving
    /\ source' = src
    /\ past' = [past EXCEPT !.moved = @ \/ (attached /\ src # source)]
    /\ UNCHANGED <<mode, paused, gop, lane, mux, attached, tcp, closing, scheduled, freed,
                   jobs, lanes, opened, readers, told, flow, touched>>

\* The source DESCRIBE found, or one PLAY looks up itself.
Target(src) == source' = IF source # "none" THEN source ELSE src

\* zms_session_detach_play on RTSP: zms_rtsp_session_egress_close.
LanesWithout(l) == lanes \ {l}
Own == {lane} \ {0}

PlayLive(found, allow) ==
    /\ Receiving
    /\ Target(found) /\ source' = "live"
    /\ \E ok \in BOOLEAN : gop' = ok             \* attach may fail, PLAY goes on
    /\ lane' = 0 /\ lanes' = LanesWithout(lane)
    /\ IF allow
       THEN mode' = "play" /\ mux' = TRUE /\ Answered("live", paused, gop')
       ELSE UNCHANGED <<mode, mux>> /\ Refused
    /\ UNCHANGED <<paused, tcp, closing, scheduled, freed, jobs, opened, past, touched>>

\* PLAY of a file: denied by the hook, nothing changes.
PlayVodDenied(found) ==
    /\ Receiving
    /\ Target(found) /\ source' = "vod"
    /\ UNCHANGED <<mode, paused, gop, lane, mux, attached, tcp, closing, scheduled, freed,
                   jobs, lanes, opened, readers, told, flow, past, touched>>

PlayVodStartPaused(found) ==                     \* mutant: play_paused stays set
    /\ Receiving
    /\ Target(found) /\ source' = "vod"
    /\ past' = [past EXCEPT !.crossed = FALSE, !.hasty = @ \/ jobs # {}]
    /\ paused' = paused /\ mode' = "play"
    /\ UNCHANGED <<gop, tcp, closing, scheduled, freed, touched>>

PlayVodStart(found) ==
    /\ Receiving
    /\ Target(found) /\ source' = "vod"
    /\ past' = [past EXCEPT !.crossed = FALSE, !.hasty = @ \/ jobs # {}]
    /\ paused' = FALSE /\ mode' = "play"
    /\ UNCHANGED <<gop, tcp, closing, scheduled, freed, touched>>

\* A first PLAY seeks, a later one does so when its Range asks for another
\* position ("same" is the position the session is at).
NeedsLane(range) == ~attached \/ range = "other"

\* No lane yet: the open goes to the thread pool, if there is one and it takes
\* the job, and PLAY is answered later.
PlayVodAsync(found, range) ==
    /\ PlayVodStart(found)
    /\ NeedsLane(range) /\ lane = 0 /\ opened < MaxOpens
    /\ opened' = opened + 1
    /\ jobs' = jobs \cup {[lane |-> opened + 1, stage |-> "opening", replay |-> attached]}
    /\ UNCHANGED <<lane, mux, attached, lanes, readers, told, flow>>

\* zms_rtsp_session_play_vod_lane_attach: opens a lane when there is none, seeks.
PlayVodSeek(found, range) ==
    /\ PlayVodStart(found)
    /\ NeedsLane(range)
    /\ \/ /\ lane = 0 /\ opened < MaxOpens
          /\ opened' = opened + 1 /\ lane' = opened + 1 /\ lanes' = lanes \cup {opened + 1}
          /\ Answered("vod", paused', TRUE)
       \/ /\ lane # 0
          /\ Answered("vod", paused', TRUE)
          /\ UNCHANGED <<opened, lane, lanes>>
       \/ /\ lane = 0                             \* the file does not open: 404
          /\ Refused /\ UNCHANGED <<opened, lane, lanes>>
    /\ mux' = (mux \/ (~attached /\ attached'))
    /\ UNCHANGED jobs

\* PLAY without a seek goes on with the lane there is.
PlayVodResume(found, range) ==
    /\ PlayVodStart(found)
    /\ ~NeedsLane(range)
    /\ IF range = "same" \/ lane # 0 THEN Answered("vod", paused', lane # 0 \/ gop) ELSE Refused
    /\ UNCHANGED <<lane, mux, jobs, lanes, opened>>

\* rtsp_vod_open_blocking, on a pool thread.
OpenLane(j) ==
    /\ j.stage = "opening"
    /\ \/ /\ lanes' = lanes \cup {j.lane}
          /\ jobs' = (jobs \ {j}) \cup {[j EXCEPT !.stage = "open"]}
       \/ /\ jobs' = (jobs \ {j}) \cup {[j EXCEPT !.stage = "failed"]}
          /\ UNCHANGED lanes
    /\ UNCHANGED <<session, freed, opened, readers, told, flow, past, touched>>

\* rtsp_vod_open_on_io, back on the poller, when the connection is gone.
OpenedStale(j) ==                                \* mutant: the lane is not closed
    /\ j.stage # "opening" /\ ~tcp
    /\ jobs' = jobs \ {j}
    /\ touched' = (touched \/ freed)
    /\ UNCHANGED <<session, freed, lanes, opened, readers, told, flow, past>>

\* zms_rtsp_session_alive reads the session, which may be freed: if what it finds
\* there looks alive (another session in the same memory), the lane is handed to it.
OpenedLate(j) ==
    /\ j.stage # "opening" /\ ~tcp
    /\ jobs' = jobs \ {j} /\ touched' = (touched \/ freed)
    /\ \/ lanes' = LanesWithout(j.lane) /\ past' = past
       \/ /\ freed /\ j.stage = "open"
          /\ past' = [past EXCEPT !.dropped = @ \cup {j.lane}] /\ lanes' = lanes
    /\ UNCHANGED <<session, freed, opened, readers, told, flow>>

OpenFailed(j) ==
    /\ j.stage = "failed" /\ tcp
    /\ jobs' = jobs \ {j}
    /\ UNCHANGED <<session, freed, lanes, opened, readers, told, flow, past, touched>>

\* A lane the session got meanwhile is overwritten, not closed.  A DESCRIBE that
\* found nothing meanwhile leaves no source: the code then dereferences a null
\* pointer, so such runs end here.
OpenDone(j) ==
    /\ j.stage = "open" /\ tcp /\ source # "none"
    /\ jobs' = jobs \ {j}
    /\ lane' = j.lane /\ past' = [past EXCEPT !.dropped = @ \cup Own]
    /\ mux' = (mux \/ ~j.replay)
    /\ Answered(source, paused, TRUE)
    /\ UNCHANGED <<source, mode, paused, gop, tcp, closing, scheduled, freed,
                   lanes, opened, touched>>

\* on_manager
Tick ==
    /\ Receiving /\ mode = "play" /\ mux
    /\ Sends(paused, gop \/ lane # 0)
    /\ flow' = TRUE
    /\ UNCHANGED <<session, freed, jobs, lanes, opened, readers, told, past, touched>>
-----------------------------------------------------------------------------
(* Stopping.                                                               *)

PauseFlagless ==                                 \* mutant: only the muxer is paused
    /\ Receiving
    /\ past' = [past EXCEPT !.crossed = @ \/ (mode = "play" /\ jobs # {})]
    /\ IF mode = "play" THEN told' = "paused" /\ flow' = FALSE ELSE UNCHANGED <<told, flow>>
    /\ UNCHANGED <<session, freed, jobs, lanes, opened, readers, touched>>

Pause ==
    /\ Receiving
    /\ past' = [past EXCEPT !.crossed = @ \/ (mode = "play" /\ jobs # {})]
    /\ IF mode = "play" THEN paused' = TRUE /\ told' = "paused" /\ flow' = FALSE
       ELSE UNCHANGED <<paused, told, flow>>
    /\ UNCHANGED <<source, mode, gop, lane, mux, attached, tcp, closing, scheduled, freed,
                   jobs, lanes, opened, readers, touched>>

\* TEARDOWN, and the close of on_recv that follows it.
Teardown ==
    /\ Receiving
    /\ closing' = TRUE /\ tcp' = FALSE
    /\ told' = "over" /\ flow' = FALSE
    /\ UNCHANGED <<source, mode, paused, gop, lane, mux, attached, scheduled, freed,
                   jobs, lanes, opened, readers, past, touched>>

\* on_error, or a slow consumer found by play_tick: schedule_destroy and
\* zms_rtsp_session_teardown, which closes the readers and takes the reader back
\* from the source the session points at now (zms_media_source_reader_remove stops
\* at 0).
ScheduleDestroy ==
    /\ ~scheduled
    /\ scheduled' = TRUE /\ closing' = TRUE /\ tcp' = FALSE
    /\ gop' = FALSE /\ lane' = 0 /\ lanes' = LanesWithout(lane)
    /\ attached' = FALSE
    /\ IF attached /\ source # "none"
       THEN \/ readers' = [readers EXCEPT ![source] = @ - 1]
            \/ readers[source] <= 0 /\ readers' = readers
       ELSE readers' = readers
    /\ told' = "over" /\ flow' = FALSE
    /\ UNCHANGED <<source, mode, paused, mux, freed, jobs, opened, past, touched>>

\* zms_rtsp_session_destroy_task
Destroy ==
    /\ scheduled /\ ~freed
    /\ freed' = TRUE /\ mux' = FALSE
    /\ UNCHANGED <<source, mode, paused, gop, lane, attached, tcp, closing, scheduled, jobs,
                   lanes, opened, readers, told, flow, past, touched>>
-----------------------------------------------------------------------------
Ranges == {"none", "same", "other"}

Client ==
    \/ \E src \in Kinds \cup {"none"} : Describe(src)
    \/ \E src \in Kinds :
         \/ \E allow \in BOOLEAN : PlayLive(src, allow)
         \/ PlayVodDenied(src)
         \/ \E range \in Ranges : PlayVodAsync(src, range) \/ PlayVodSeek(src, range)
                                  \/ PlayVodResume(src, range)
    \/ Pause \/ Teardown

Completion == \E j \in jobs : OpenLane(j) \/ OpenedLate(j) \/ OpenFailed(j) \/ OpenDone(j)

Next == Client \/ Completion \/ Tick \/ ScheduleDestroy \/ Destroy

\* The pool and the manager timer run; the client and the network may do nothing.
Fairness == WF_vars(Completion) /\ WF_vars(Tick) /\ WF_vars(Destroy)

Spec == Init /\ [][Next]_vars
FairSpec == Spec /\ Fairness
-----------------------------------------------------------------------------
TypeOK ==
    /\ source \in Kinds \cup {"none"} /\ mode \in {"none", "play"}
    /\ {paused, gop, mux, attached, tcp, closing, scheduled, freed, flow, touched}
          \subseteq BOOLEAN
    /\ lane \in 0..opened /\ lanes \subseteq 1..opened /\ opened \in 0..MaxOpens
    /\ jobs \subseteq [lane : 1..opened, stage : {"opening", "open", "failed"}, replay : BOOLEAN]
    /\ readers \in [Kinds -> Int] /\ past \in Past
    /\ told \in {"none", "playing", "paused", "over"}

\* An open VOD lane, with the file and the publisher it holds, belongs to the
\* session or to an open on its way to it, whatever fails, is refused or is cut
\* off in between (rtsp_session_vod.c, rtsp_vod_open_on_io).  The code loses one
\* in two ways, which "dropped" lists: two opens under way at once end in one
\* session, or one ends after the session was freed.
LanesHeld ==
    /\ lanes = Own \cup {j.lane : j \in {i \in jobs : i.stage = "open"}} \cup past.dropped
    /\ past.dropped # {} => past.hasty \/ touched

\* The source counts this session as a reader while it is attached and not after
\* (rtsp_service.c, zms_rtsp_session_teardown); an attached session that described
\* another source gives its reader back to the wrong one.
ReadersCounted ==
    ~past.moved => \A k \in Kinds : readers[k] = (IF attached /\ source = k THEN 1 ELSE 0)

\* No packet leaves unless PLAY was the last thing the client was told, in every
\* order of requests and opens on one source.
Quiet == flow /\ ~past.moved => told = "playing" /\ mode = "play" /\ ~scheduled

\* After a PLAY of a file was answered its packets come, unless a PAUSE overtook
\* the open that answers it (rtsp_session_play.c:301 clears play_paused before it).
FileDue == told = "playing" /\ source = "vod" /\ ~flow /\ ~past.moved /\ ~past.crossed
FilePlays == FileDue ~> ~FileDue

\* After a PLAY of a live stream was answered its packets come, too
\* (rtsp_session_ctrl.c:14: the session supports PLAY and PAUSE).
LiveResumes == []<>(flow \/ told # "playing" \/ ~gop \/ past.moved)
=============================================================================
