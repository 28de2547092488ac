------------------------------ MODULE VodPlay ------------------------------
(***************************************************************************)
(* An RTMP session playing a file: vod/play/vod_rtmp_play_session.c, the   *)
(* play commands of live/play/rtmp_live_play_session.c, the lane's life    *)
(* cycle (vod/play/vod_play_lane.c), the VOD half of egress_pipeline.c and *)
(* its clock.                                                              *)
(*                                                                         *)
(* The poller runs one callback at a time: a client's command with the     *)
(* flush on_recv ends with, the deferred play kick, the completion of an   *)
(* asynchronous open, the manager's flush and the lane's own timer are one *)
(* action each.  Opening a lane is a job of the VOD thread pool, so any    *)
(* command, and the end of the session, may come between a job's steps.    *)
(***************************************************************************)
EXTENDS VodLane, FiniteSets

CONSTANTS
    Lanes,        \* bound: lanes opened
    Files,        \* what is played: what its samples are, its container, and whether
                  \* the server has a VOD thread pool (zms_vod_thread_pool_enabled)
    CatchupLag,   \* ZMS_EGRESS_CATCHUP_LAG
    CatchupBudget,\* ZMS_EGRESS_FRAME_BUDGET_CATCHUP
    VodBudget,    \* ZMS_EGRESS_FLV_BUDGET_VOD
    OutCap,       \* PLAYBACK_FLV_OUTBOX_CAP
    OutFlush,     \* PLAYBACK_FLV_OUTBOX_FLUSH
    OpenFails,    \* the file may be missing when a lane is opened
    Targets,      \* bound: positions the client asks for
    MaxPlays, MaxSeeks, MaxPauses    \* bounds: its commands

ASSUME PlayAssumption ==
    /\ Lanes \subseteq Nat \ {0} /\ Targets \subseteq Samples
    /\ {CatchupBudget, VodBudget, OutCap, OutFlush} \subseteq Nat \ {0}
    /\ CatchupLag \in Nat /\ OpenFails \in BOOLEAN
    /\ Files \subseteq [kind : [Samples -> {"sync", "inter", "audio"}],
                        box : {"mp4", "flv"}, pool : BOOLEAN]

VARIABLES
    file,    \* the file
    ses,     \* the session
    clk,     \* play_clk: epoch, elapsed play time, locked, paused
    open,    \* the lanes that are open
    ref,     \* the source's vod_play_lane_ref
    pubHeld, \* the publisher's pump_hold
    buf,     \* each lane's demuxer and FIFO
    timer,   \* the lanes with a running timer; held: those with pump_hold set
    held,
    kicks,   \* deferred play kicks on the poller
    jobs,    \* the open jobs by the lane each opens
    astray,  \* lanes that a job gave to the session that has taken a freed one's place
    out,     \* the outbox: frames of earlier runs, of this run, any of these lost,
             \* and whether catching up began again within this run
    run,     \* what was dispatched since the reader was last placed
    beat,    \* a turn of the manager's timer
    left     \* commands the client may still send

vars == <<file, ses, clk, open, ref, pubHeld, buf, timer, held, kicks, jobs, astray, out, run, beat, left>>

NoLane == 0
Idle == [st |-> "idle", boot |-> FALSE, gone |-> FALSE, lane |-> NoLane, reader |-> NoLane,
         armed |-> FALSE, catchup |-> FALSE, pausePos |-> Hole, lastSeek |-> 0, start |-> 0]
ClockInit == [epoch |-> 0, elapsed |-> 0, locked |-> FALSE, paused |-> FALSE]
NoJob == [st |-> "none", start |-> 0]

Init ==
    /\ file \in Files /\ ses = Idle /\ clk = ClockInit
    /\ open = {} /\ ref = 0 /\ pubHeld = FALSE /\ buf = [l \in Lanes |-> EmptyLane]
    /\ timer = {} /\ held = {} /\ kicks = 0 /\ jobs = [l \in Lanes |-> NoJob]
    /\ astray = {}
    /\ out = [old |-> 0, cur |-> 0, lost |-> FALSE, again |-> FALSE] /\ run = <<>>
    /\ beat = 0 /\ left = [plays |-> MaxPlays, seeks |-> MaxSeeks, pauses |-> MaxPauses]

Still == UNCHANGED <<beat, left, astray>>

\* The parts of the state the session's callbacks change, as one record.
St == [ses |-> ses, clk |-> clk, open |-> open, ref |-> ref, pub |-> pubHeld, buf |-> buf,
       timer |-> timer, held |-> held, jobs |-> jobs, kicks |-> kicks, out |-> out, run |-> run]
Becomes(t) ==
    \E u \in {t} :
        /\ ses' = u.ses /\ clk' = u.clk /\ open' = u.open /\ ref' = u.ref /\ pubHeld' = u.pub
        /\ buf' = u.buf /\ timer' = u.timer /\ held' = u.held /\ jobs' = u.jobs
        /\ kicks' = u.kicks /\ out' = u.out /\ run' = u.run
        /\ UNCHANGED file
-----------------------------------------------------------------------------
(* Lanes: zms_vod_play_lane_open and _close.  Opening holds the publisher's *)
(* own pump with the first lane, closing releases it with the last.        *)

\* mutant: any close lets the publisher go on, and the lane's timer runs on
LaneCloseReleases(t, l) ==
    [t EXCEPT !.open = @ \ {l}, !.ref = @ - 1, !.pub = FALSE]
LaneOpen(t, l) ==
    [t EXCEPT !.open = @ \cup {l}, !.ref = @ + 1, !.pub = IF t.ref = 0 THEN TRUE ELSE @,
              !.buf[l] = EmptyLane]
LaneClose(t, l) ==
    [t EXCEPT !.open = @ \ {l}, !.ref = IF @ > 0 THEN @ - 1 ELSE @,
              !.pub = IF t.ref = 1 THEN FALSE ELSE @,
              !.timer = @ \ {l}, !.held = @ \ {l}, !.buf[l] = EmptyLane]

\* bind_poller_lite (the lane's 5 ms timer), seek or prepare, prefill, align
LaneSeek(t, l, ms) == [t EXCEPT !.buf[l] = Seek(file, @, ms).lane]
SeekResult(t, l, ms) == Seek(file, t.buf[l], ms).ms

\* The next lane: the least one neither open nor promised to a job.
Unused(t) == {l \in Lanes : l \notin t.open /\ t.jobs[l].st = "none"}
Free(t) == {l \in Unused(t) : \A k \in Unused(t) : l <= k}

\* vod_reader may be NULL: nothing to peek at, no lag
ReaderHead(t) == IF t.ses.reader = NoLane THEN Hole ELSE Peek(t.buf[t.ses.reader])
ReaderLag(t) == IF t.ses.reader = NoLane THEN 0 ELSE Lag(t.buf[t.ses.reader])
-----------------------------------------------------------------------------
(* The egress clock, the VOD pump and the outbox.                          *)

Rebase(c, ms) == [c EXCEPT !.epoch = ms, !.elapsed = 0, !.locked = TRUE]
Paused(c) == IF c.locked THEN [c EXCEPT !.paused = TRUE] ELSE c
Resumed(c) == [c EXCEPT !.paused = FALSE]
Due(c, n) == ~c.locked \/ n <= c.epoch + c.elapsed

\* The reader is placed anew: what is in the outbox belongs to an earlier run.
NewRun(t) == [t EXCEPT !.run = <<>>,
                       !.out = [old |-> @.old + @.cur, cur |-> 0, lost |-> FALSE, again |-> FALSE]]

\* The pump is to catch up, from where the run is now.
CatchUp(t) == [t EXCEPT !.ses.catchup = TRUE, !.out.again = @ \/ t.run # <<>>]

\* egress_flv_outbox_push: a full outbox gives up its oldest tag
OutPush(o) ==
    IF o.old + o.cur < OutCap THEN [o EXCEPT !.cur = @ + 1]
    ELSE IF o.old > 0 THEN [o EXCEPT !.cur = @ + 1, !.old = @ - 1]
    ELSE [o EXCEPT !.lost = TRUE]

Least(a, b) == IF a < b THEN a ELSE b

\* zms_egress_pipeline_flush_flv_outbox
OutFlushed(o) ==
    LET fromOld == Least(OutFlush, o.old)
    IN  [o EXCEPT !.old = @ - fromOld, !.cur = @ - Least(OutFlush - fromOld, @)]

\* egress_flv_vod_step on p = [l, armed, catchup, clk, out, run, stop, used]
\* mutant: frames are dispatched before the first key frame
VodStepUnarmed(p) ==
    LET n == Peek(p.l)
    IN  IF p.stop \/ n = Hole THEN [p EXCEPT !.stop = TRUE]
        ELSE [p EXCEPT !.used = @ + 1, !.l = Advance(p.l), !.out = OutPush(@),
                       !.run = Append(@, n), !.catchup = FALSE]
VodStep(p) ==
    LET n == Peek(p.l)
        arms == n # Hole /\ file.kind[n] = "sync"
        read == Advance(p.l)
        caught == p.catchup /\ Lag(read) <= CatchupLag
    IN  IF p.stop \/ n = Hole THEN [p EXCEPT !.stop = TRUE]
        ELSE IF ~p.armed /\ ~arms THEN [p EXCEPT !.l = read, !.stop = TRUE]
        ELSE IF ~p.catchup /\ ~Due(p.clk, n) THEN [p EXCEPT !.armed = TRUE, !.stop = TRUE]
        ELSE [p EXCEPT !.used = @ + 1, !.l = read, !.armed = TRUE, !.out = OutPush(@),
                       !.run = Append(@, n), !.catchup = @ /\ ~caught,
                       !.clk = IF caught THEN Rebase(@, n) ELSE @]

\* zms_egress_pipeline_pump_flv_vod; a catch-up ends with its budget
Pumped(t) ==
    LET budget == IF t.ses.catchup THEN CatchupBudget ELSE VodBudget
        p == FoldLeft(LAMBDA a, i : VodStep(a),
                      [l |-> t.buf[t.ses.reader], armed |-> t.ses.armed,
                       catchup |-> t.ses.catchup, clk |-> t.clk, out |-> t.out, run |-> t.run,
                       stop |-> FALSE, used |-> 0],
                      Times(budget))
    IN  [t EXCEPT !.buf[t.ses.reader] = p.l, !.ses.armed = p.armed,
                  !.ses.catchup = p.catchup /\ p.used < budget - 1,
                  !.clk = p.clk, !.out = OutFlushed(p.out), !.run = p.run]

\* zms_rtmp_session_play_flush_nolock: lane and reader may differ (OnIo below)
Flush(t) ==
    IF t.ses.gone \/ t.ses.st # "playing" \/ t.ses.reader = NoLane \/ t.clk.paused THEN t
    ELSE Pumped(IF t.ses.lane = NoLane THEN t ELSE [t EXCEPT !.buf[t.ses.lane] = DemuxFill(@)])

\* The flush of on_recv and of on_manager leaves a booting session alone.
FlushIfStarted(t) == IF t.ses.boot THEN t ELSE Flush(t)
-----------------------------------------------------------------------------
(* The session.                                                            *)

\* zms_rtmp_session_play_vod_lane_attach with rtmp_protocol_on_play_vod: the lane
\* at hand or a new one; the reader is the lane's; a new pipeline, an empty outbox.
AttachTo(t, l, ms) ==
    LET at == LaneSeek([t EXCEPT !.timer = @ \cup {l}], l, ms)
    IN  [NewRun(at) EXCEPT
            !.ses.lane = l, !.ses.reader = l,
            !.ses.lastSeek = IF ms > 0 THEN SeekResult(t, l, ms) ELSE 0,
            !.out.old = 0, !.out.cur = 0]
Attach(t, ms) ==
    IF t.ses.lane # NoLane THEN {AttachTo(t, t.ses.lane, ms)}
    ELSE {AttachTo(LaneOpen(t, l), l, ms) : l \in Free(t)}

\* zms_rtmp_session_play_kick_vod_prime and _play_kick_finish
PrimeAndFinish(t, ms) ==
    Flush([t EXCEPT !.ses.lastSeek = IF ms > 0 THEN ms ELSE @,
                    !.ses.catchup = TRUE, !.ses.armed = TRUE, !.ses.boot = FALSE,
                    !.clk = [Rebase(@, ms) EXCEPT !.paused = t.clk.paused]])

\* zms_rtmp_session_play_teardown: the egress closes, and the session's lane with it
\* mutant: the reader's alias outlives the lane
TeardownKeepsReader(t) ==
    LET closed == IF t.ses.lane = NoLane THEN t ELSE LaneClose(t, t.ses.lane)
    IN  [NewRun(closed) EXCEPT !.ses.boot = FALSE, !.ses.lane = NoLane]
Teardown(t) ==
    LET closed == IF t.ses.lane = NoLane THEN t ELSE LaneClose(t, t.ses.lane)
    IN  [NewRun(closed) EXCEPT !.ses.boot = FALSE, !.ses.lane = NoLane, !.ses.reader = NoLane,
                               !.out.old = 0, !.out.cur = 0]

\* zms_rtmp_session_play_fail; the connection closes, Disconnect follows
PlayFail(t) == [Teardown(t) EXCEPT !.ses.st = "idle"]

\* zms_rtmp_session_vod_do_seek; a lane that cannot be opened leaves all as it was
SeekOn(t, ms) ==
    LET u == [t EXCEPT !.held = @ \ {t.ses.lane}, !.clk = Resumed(@)]
        moved == NewRun(LaneSeek(u, t.ses.lane, ms))
        head == ReaderHead(moved)
        at == IF head = Hole THEN SeekResult(u, t.ses.lane, ms) ELSE head
    IN  IF ms = t.ses.lastSeek /\ ReaderLag(t) > CatchupLag
        THEN CatchUp(u)
        ELSE [moved EXCEPT !.clk = Rebase(@, at), !.ses.armed = FALSE,
                           !.ses.catchup = TRUE, !.ses.lastSeek = ms]
DoSeek(t, ms) ==
    IF t.ses.lane # NoLane THEN {SeekOn(t, ms)}
    ELSE {SeekOn(u, ms) : u \in Attach(t, ms)} \cup (IF OpenFails THEN {t} ELSE {})
-----------------------------------------------------------------------------
(* The client's commands.                                                  *)

May(what) ==
    /\ ~ses.gone /\ left[what] > 0 /\ left' = [left EXCEPT ![what] = @ - 1]
    /\ UNCHANGED <<beat, astray>>

\* rtmp_srv_onplay on a session that plays: zms_rtmp_session_vod_replay_seek
Replay(ms) ==
    /\ May("plays") /\ ses.st = "playing" /\ ~ses.boot /\ ses.lane # NoLane
    /\ Becomes(Flush(Flush(SeekOn(St, ms))))

\* any other: the session is reset and a play kick deferred
OnPlay(ms) ==
    /\ May("plays")
    /\ ~(ses.st = "playing" /\ ~ses.boot /\ ses.lane # NoLane /\ ms > 0)
    /\ ses' = [ses EXCEPT !.st = "playing", !.boot = TRUE, !.armed = FALSE,
                          !.pausePos = Hole, !.start = ms]
    /\ clk' = ClockInit /\ kicks' = kicks + 1
    /\ UNCHANGED <<file, open, ref, pubHeld, buf, timer, held, jobs, out, run>>

\* rtmp_play_kick_async and zms_rtmp_session_play_kick: with the thread pool, the
\* lane is opened there.  The kick of a session that is freed reads its memory, and
\* may kick the session it has become: nothing of this one changes either way.
Kick ==
    LET t == [St EXCEPT !.kicks = @ - 1, !.ses.start = 0]
    IN  /\ kicks > 0 /\ Still
        /\ \/ (ses.gone \/ ~ses.boot) /\ Becomes([St EXCEPT !.kicks = @ - 1])
           \/ /\ ~ses.gone /\ ses.boot /\ file.pool /\ ses.lane = NoLane
              /\ \E l \in Free(St) :
                     Becomes([t EXCEPT !.jobs[l] = [st |-> "queued", start |-> ses.start]])
           \/ /\ ~ses.gone /\ ses.boot /\ (~file.pool \/ ses.lane # NoLane)
              /\ \E u \in Attach(t, ses.start) : Becomes(PrimeAndFinish(u, ses.start))
           \/ /\ OpenFails /\ ~file.pool /\ ~ses.gone /\ ses.boot /\ ses.lane = NoLane
              /\ Becomes(PlayFail(t))

\* rtmp_srv_onseek, which answers a seek in any state of the session
OnSeek(ms) ==
    /\ May("seeks") /\ ses.st = "playing"
    /\ \E u \in DoSeek([St EXCEPT !.clk = Resumed(@)], ms) : Becomes(FlushIfStarted(u))

\* rtmp_srv_onpause: the position the client sends, if any, is sought first
OnPause(ms) ==
    LET head == ReaderHead(St)
        saved == IF head = Hole THEN St ELSE [St EXCEPT !.ses.pausePos = head]
    IN  /\ May("pauses") /\ ses.st = "playing"
        /\ \E u \in (IF ms > 0 THEN DoSeek(St, ms) ELSE {saved}) :
               Becomes(FlushIfStarted(
                   [u EXCEPT !.clk = Paused(@),
                             !.held = IF u.ses.lane = NoLane THEN @ ELSE @ \cup {u.ses.lane}]))

OnResume(ms) ==
    LET back == IF ms > 0 THEN DoSeek(St, ms)
                ELSE IF ses.pausePos = Hole THEN {St}
                ELSE {[u EXCEPT !.ses.pausePos = Hole] : u \in DoSeek(St, ses.pausePos)}
    IN  /\ May("pauses") /\ ses.st = "playing"
        /\ \E u \in back :
               Becomes(FlushIfStarted(CatchUp([u EXCEPT !.held = @ \ {u.ses.lane},
                                                        !.clk = Resumed(@)])))
-----------------------------------------------------------------------------
(* The rest of the poller's work and the thread pool.                      *)

\* rtmp_vod_lane_open_blocking: nothing of it is reachable from the session yet
OpenBlocking(l) ==
    /\ jobs[l].st = "queued" /\ Still
    /\ \/ Becomes([LaneSeek(LaneOpen(St, l), l, jobs[l].start) EXCEPT !.jobs[l].st = "opened"])
       \/ OpenFails /\ Becomes([St EXCEPT !.jobs[l].st = "failed"])

\* rtmp_vod_lane_open_on_io.  A lane the session already has is written over.
OnIo(l) ==
    LET t == [St EXCEPT !.jobs[l] = NoJob]
        got == [t EXCEPT !.ses.lane = l]
    IN  /\ ~ses.gone /\ Still
        /\ \/ jobs[l].st = "failed" /\ Becomes(IF ses.boot THEN PlayFail(t) ELSE t)
           \/ jobs[l].st = "opened" /\ ~ses.boot /\ Becomes(got)
           \/ /\ jobs[l].st = "opened" /\ ses.boot
              /\ Becomes(PrimeAndFinish(AttachTo(got, l, jobs[l].start), jobs[l].start))

\* The same for a session that is gone, whose tcp and destroy_token are read where
\* it was: they tell that it is gone and the lane goes with the job, or the memory is
\* that of a later session (whose token is 0 too), which gets the lane or fails.
OnIoGone(l) ==
    LET t == [St EXCEPT !.jobs[l] = NoJob]
    IN  /\ ses.gone /\ UNCHANGED <<beat, left>>
        /\ \/ jobs[l].st = "opened" /\ Becomes(LaneClose(t, l)) /\ astray' = astray
           \/ jobs[l].st = "opened" /\ Becomes(t) /\ astray' = astray \cup {l}
           \/ jobs[l].st = "failed" /\ Becomes(t) /\ astray' = astray

\* That session ends, and closes the lane it has.
StrangerCloses(l) ==
    /\ l \in astray /\ Becomes(LaneClose(St, l))
    /\ astray' = astray \ {l} /\ UNCHANGED <<beat, left>>

Started == ~ses.gone /\ ses.st = "playing" /\ ~ses.boot

\* zms_rtmp_session_on_manager
Manager ==
    /\ Started /\ Becomes(Flush(St)) /\ beat' = 1 - beat /\ UNCHANGED <<left, astray>>

\* mp4_tick
LaneTick(l) ==
    /\ l \in timer \ held /\ Still
    /\ Becomes([St EXCEPT !.buf[l] = Pump(@)])

\* The wall clock, as play time; it stops one sample past the end of the file.
Wall ==
    /\ clk.locked /\ ~clk.paused /\ clk.epoch + clk.elapsed < N
    /\ clk' = [clk EXCEPT !.elapsed = @ + 1]
    /\ UNCHANGED <<file, ses, open, ref, pubHeld, buf, timer, held, kicks, jobs, out, run>>
    /\ Still

\* zms_rtmp_session_schedule_destroy: the token moves on, the session is torn down and
\* freed, at once or as the poller's next task
Disconnect ==
    /\ ~ses.gone /\ Still
    /\ Becomes([Teardown(St) EXCEPT !.ses.gone = TRUE, !.ses.st = "idle"])

Next ==
    \/ \E ms \in Targets : OnPlay(ms) \/ Replay(ms) \/ OnSeek(ms) \/ OnPause(ms) \/ OnResume(ms)
    \/ Kick \/ Manager \/ Wall \/ Disconnect
    \/ \E l \in Lanes :
           OpenBlocking(l) \/ OnIo(l) \/ OnIoGone(l) \/ StrangerCloses(l) \/ LaneTick(l)

\* The poller and the thread pool go on; a client and its connection need not.  Each
\* conjunct is weak fairness of a step that changes the state whenever it is ready.
Fairness ==
    /\ WF_vars(Wall)
    /\ []<>(kicks = 0) \/ []<><<Kick>>_vars
    /\ []<>(~Started) \/ []<><<Manager>>_vars
    /\ \A l \in Lanes :
           /\ []<>(jobs[l].st # "queued") \/ []<><<OpenBlocking(l)>>_vars
           /\ []<>(jobs[l].st \notin {"opened", "failed"}) \/ []<><<OnIo(l) \/ OnIoGone(l)>>_vars

Spec == Init /\ [][Next]_vars /\ Fairness
-----------------------------------------------------------------------------
TypeOK ==
    /\ ses \in [st : {"idle", "playing"}, boot : BOOLEAN, gone : BOOLEAN,
                lane : Lanes \cup {NoLane}, reader : Lanes \cup {NoLane}, armed : BOOLEAN,
                catchup : BOOLEAN, pausePos : Samples \cup {Hole}, lastSeek : Samples,
                start : Samples]
    /\ clk \in [epoch : Samples, elapsed : Nat, locked : BOOLEAN, paused : BOOLEAN]
    /\ open \subseteq Lanes /\ timer \subseteq open /\ held \subseteq open
    /\ astray \subseteq open
    /\ ref \in Nat /\ pubHeld \in BOOLEAN /\ kicks \in Nat
    /\ out.old + out.cur <= OutCap /\ run \in Seq(Samples)

\* Between the reader and the demuxer no sample is missing, repeated or overwritten,
\* whatever seeks, holds and high-water marks did to the FIFO before.
FifoContiguous ==
    \A l \in open : \A q \in buf[l].r..buf[l].w - 1 :
        buf[l].slot[SlotAt(q)] = buf[l].pos - (buf[l].w - q)

\* What a session sends after it was placed anywhere is the file from there on,
\* sample by sample, from a sync sample on if the file is an MP4.  Catching up pushes
\* more than a flush drains: what the outbox then gives up is never of this run, unless
\* the client resumes, or seeks to the same place, and so begins to catch up again.
RunIsTheFile ==
    /\ out.lost => out.again
    /\ \A i \in 1..Len(run) - 1 : run[i + 1] = run[i] + 1
    /\ run # <<>> /\ file.box = "mp4" => file.kind[run[1]] = "sync"

\* The publisher's own pump rests exactly while some lane of its source is open, the
\* lanes of overtaken jobs and those that went to another session included.
HoldMatches == ref = Cardinality(open) /\ pubHeld = (open # {})

\* Lane and reader of the session are of open lanes, also when a late job has put
\* another lane in the place of the one the reader is of.  A lane that a job gave to
\* the session in a freed one's place stays open until that session closes it.
ReaderOfOpenLane ==
    /\ ses.lane \in open \cup {NoLane} /\ ses.reader \in open \cup {NoLane}
    /\ ses.gone => ses.reader = NoLane
    /\ astray \subseteq open \ {ses.lane, ses.reader}

\* A session left to play an MP4 file reaches its end, whatever pauses, seeks and second
\* plays came before, if its lane is the one it reads.
PlaysToTheEnd ==
    <>[](Started /\ ~clk.paused /\ file.box = "mp4" /\ ses.lane = ses.reader)
        => <>(run # <<>> /\ run[Len(run)] = N - 1)
=============================================================================
