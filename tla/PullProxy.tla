----------------------------- MODULE PullProxy -----------------------------
(***************************************************************************)
(* A pull proxy (live/proxy/live_pull_proxy.c) with its RTMP client, the   *)
(* source it feeds, a local publisher of the same name and the HTTP API.   *)
(*                                                                         *)
(* Three handlers work on them: "io", the callbacks of the proxy's poller  *)
(* (the client's and the retry timer's), "push", the publisher's session,  *)
(* and "api".  With one poller thread ([general] poller_threads = 1) a     *)
(* handler runs to its end; with more, the three interleave between the    *)
(* parts of each.  What a handler has left to do is todo[h]; its parts are *)
(* named after the calls.                                                  *)
(***************************************************************************)
EXTENDS RtmpClient, FiniteSets, Functions

CONSTANTS
    RetryCounts,    \* opts->retry_count; 0: without end, what addStreamProxy asks for
    PollerThreads,  \* whether one thread serves all three handlers
    MaxPushes,      \* bound: local publications
    MaxApis,        \* bound: calls of delStreamProxy and close_stream
    MaxFailed       \* bound: failed_count saturates here (no guard reads it above)

ASSUME ProxyAssumption ==
    /\ RetryCounts \subseteq Int /\ PollerThreads \subseteq BOOLEAN
    /\ {MaxPushes, MaxApis, MaxFailed} \subseteq Nat
    /\ \A r \in RetryCounts : r < MaxFailed

VARIABLES
    cfg,        \* retry_count, and whether there is one poller thread
    proxy,      \* not started yet, started, failed_count, freed
    timers,     \* pending: "tracked" (retry_timer), "orphan" (re-armed by the poller)
    src,        \* the source: publisher_ctx, publishing, video.ready
    lock,       \* the handler that holds g_registry_mtx across steps
    todo,       \* for each handler, the parts still to run
    push,       \* the local publisher: "out", "registering", "live", "kicked"
    touched,    \* a freed proxy was used
    redialFailed, \* a retry could not even start to connect
    budget      \* calls left

vars == <<cl, net, up, cfg, proxy, timers, src, lock, todo, push, touched, redialFailed, budget>>

Handlers == {"io", "push", "api"}
Parts == {"err_stop", "err_sched", "rdy_cancel", "rdy_own", "frame", "try_publish", "redial",
          "take", "kickpush", "stop", "letgo", "end", "hangup", "fini", "clear",
          "publish", "setpub", "own", "reset", "unpub", "cancel", "free"}
Nobody == "nobody"

\* zms_live_pull_proxy_create: the limit a proxy is made with
RetryLimit(asked) == IF asked = 0 THEN -1 ELSE asked
Configs == [retry : {RetryLimit(c) : c \in RetryCounts}, one : PollerThreads]

\* The parts of a handler: one thread runs a handler to its end.
Idle(h) == todo[h] = <<>>
MayRun(h) == cfg.one => \A g \in Handlers \ {h} : Idle(g)
Starts(h, parts) == /\ Idle(h) /\ MayRun(h)
                    /\ todo' = [todo EXCEPT ![h] = parts]
At(h, part) == ~Idle(h) /\ Head(todo[h]) = part /\ MayRun(h)
Done(h) == todo' = [todo EXCEPT ![h] = Tail(@)]
Then(h, parts) == todo' = [todo EXCEPT ![h] = parts \o Tail(@)]
LockFree == lock = Nobody

Init ==
    /\ ClientInit
    /\ cfg \in Configs
    /\ proxy = [fresh |-> TRUE, started |-> FALSE, failed |-> 0, freed |-> FALSE]
    /\ timers = {}
    /\ src = [publisher |-> Nobody, publishing |-> FALSE, video |-> FALSE]
    /\ lock = Nobody /\ todo = [h \in Handlers |-> <<>>]
    /\ push = "out" /\ touched = FALSE /\ redialFailed = FALSE
    /\ budget = [push |-> MaxPushes, api |-> MaxApis]
-----------------------------------------------------------------------------
(* The proxy.                                                              *)

\* zms_live_pull_proxy_create and zms_live_pull_proxy_start; when the first
\* attempt cannot be started both callers destroy the proxy at once.
Start ==
    /\ proxy.fresh
    /\ MayRun("io") /\ Idle("io")
    /\ proxy' = [proxy EXCEPT !.fresh = FALSE, !.started = TRUE]
    /\ cl' = ClientPlay(cl)
    /\ UNCHANGED <<net, up, cfg, timers, src, lock, todo, push, touched, redialFailed, budget>>

\* A callback of the client starts a handler of the proxy: proxy_on_ready,
\* proxy_on_error, proxy_on_rtmp_media.
Callback(say) ==
    LET serve == [error |-> <<"err_stop", "err_sched">>,
                  ready |-> <<"rdy_cancel", "rdy_own", "try_publish">>,
                  media |-> <<"frame", "try_publish">>]
    IN  CASE say = <<>> -> <<>>
          [] Len(say) = 1 -> serve[say[1]]
          [] OTHER -> serve[say[1]] \o serve[say[2]]

ClientEvent ==
    /\ \E say \in Callbacks :
           /\ TcpConnected(say) \/ TcpError(say) \/ Receive(say)
           /\ Starts("io", Callback(say))
    /\ UNCHANGED <<up, cfg, proxy, timers, src, lock, push, touched, redialFailed, budget>>

\* Every part of a callback uses the proxy, which may be freed by now.
UseFreed ==
    /\ proxy.freed /\ ~Idle("io") /\ MayRun("io")
    /\ touched' = TRUE
    /\ todo' = [todo EXCEPT !["io"] = <<>>]
    /\ UNCHANGED <<cl, net, up, cfg, proxy, timers, src, lock, push, redialFailed, budget>>

\* proxy_on_error: ops->stop, then ...
ErrStopLeavesClient ==                    \* mutant: the client is not stopped
    /\ At("io", "err_stop") /\ ~proxy.freed
    /\ Done("io")
    /\ UNCHANGED <<cl, net, up, cfg, proxy, timers, src, lock, push, touched, redialFailed, budget>>

ErrStop ==
    /\ At("io", "err_stop") /\ ~proxy.freed
    /\ cl' = ClientStop(cl) /\ net' = <<>>
    /\ Done("io")
    /\ UNCHANGED <<up, cfg, proxy, timers, src, lock, push, touched, redialFailed, budget>>

\* ... proxy_schedule_retry.
MayRetry == proxy.started /\ (cfg.retry >= 0 => proxy.failed < cfg.retry)

ScheduleRetry ==
    /\ At("io", "err_sched") /\ ~proxy.freed
    /\ IF MayRetry
         THEN /\ proxy' = [proxy EXCEPT !.failed = IF @ < MaxFailed THEN @ + 1 ELSE @]
              /\ timers' = timers \cup {"tracked"}
         ELSE UNCHANGED <<proxy, timers>>
    /\ Done("io")
    /\ UNCHANGED <<cl, net, up, cfg, src, lock, push, touched, redialFailed, budget>>

\* proxy_retry_task, called by the poller
RetryFires(t) ==
    /\ t \in timers
    /\ timers' = timers \ {t}
    /\ touched' = (touched \/ proxy.freed)
    /\ Starts("io", IF proxy.started /\ ~proxy.freed THEN <<"redial">> ELSE <<>>)
    /\ UNCHANGED <<cl, net, up, cfg, proxy, src, lock, push, redialFailed, budget>>

\* proxy_do_play; when it fails at once the task returns its delay, and the
\* poller calls it again: retry_timer stays NULL.
RedialFailsForGood ==                     \* mutant: the task is not called again
    /\ At("io", "redial") /\ ~proxy.freed /\ ~up
    /\ cl' = ClientPlayFailed(cl)
    /\ Done("io")
    /\ redialFailed' = TRUE
    /\ UNCHANGED <<net, up, cfg, proxy, timers, src, lock, push, touched, budget>>

RedialFails ==
    /\ At("io", "redial") /\ ~proxy.freed /\ ~up
    /\ cl' = ClientPlayFailed(cl)
    /\ timers' = timers \cup {"orphan"}
    /\ redialFailed' = TRUE
    /\ Done("io")
    /\ UNCHANGED <<net, up, cfg, proxy, src, lock, push, touched, budget>>

Redial ==
    /\ At("io", "redial") /\ ~proxy.freed
    /\ cl' = ClientPlay(cl) /\ net' = <<>>
    /\ Done("io")
    /\ UNCHANGED <<up, cfg, proxy, timers, src, lock, push, touched, redialFailed, budget>>

ReadyCancel ==
    /\ At("io", "rdy_cancel") /\ ~proxy.freed
    /\ proxy' = [proxy EXCEPT !.failed = 0]
    /\ timers' = timers \ {"tracked"}
    /\ Done("io")
    /\ UNCHANGED <<cl, net, up, cfg, src, lock, push, touched, redialFailed, budget>>

\* ... zms_media_source_set_publisher, which kicks a local publisher (its
\* session is closed later, on its own poller), ...
ReadyOwn ==
    /\ At("io", "rdy_own") /\ ~proxy.freed
    /\ LockFree
    /\ push' = IF src.publisher = "push" THEN "kicked" ELSE push
    /\ src' = [src EXCEPT !.publisher = "proxy"]
    /\ Done("io")
    /\ UNCHANGED <<cl, net, up, cfg, proxy, timers, lock, touched, redialFailed, budget>>

\* ... proxy_try_publish.  Until the video track is ready nothing is published.
TryPublish ==
    /\ At("io", "try_publish") /\ ~proxy.freed
    /\ LockFree
    /\ src' = [src EXCEPT !.publishing = @ \/ src.video]
    /\ Done("io")
    /\ UNCHANGED <<cl, net, up, cfg, proxy, timers, lock, push, touched, redialFailed, budget>>

\* zms_live_ingest_input_rtmp_video: the track is ready once it was configured.
Frame ==
    /\ At("io", "frame") /\ ~proxy.freed
    /\ src' = [src EXCEPT !.video = TRUE]
    /\ Done("io")
    /\ UNCHANGED <<cl, net, up, cfg, proxy, timers, lock, push, touched, redialFailed, budget>>

IoPart == \/ ErrStop \/ ScheduleRetry \/ RedialFails \/ Redial \/ ReadyCancel \/ ReadyOwn
          \/ TryPublish \/ Frame \/ UseFreed
-----------------------------------------------------------------------------
(* zms_live_pull_proxy_stop, by whoever kicks or destroys the proxy.       *)

StopParts == <<"letgo", "end", "hangup">>

Stop(h) ==
    /\ At(h, "stop")
    /\ touched' = (touched \/ proxy.freed)
    /\ IF proxy.started /\ ~proxy.freed
         THEN /\ proxy' = [proxy EXCEPT !.started = FALSE]
              /\ timers' = timers \ {"tracked"}
              /\ Then(h, StopParts)
         ELSE UNCHANGED <<proxy, timers>> /\ Done(h)
    /\ UNCHANGED <<cl, net, up, cfg, src, lock, push, redialFailed, budget>>

\* zms_media_source_clear_publisher waits for the hub's mutex, also when this
\* thread holds it.
LetGo(h) ==
    /\ At(h, "letgo")
    /\ LockFree
    /\ src' = [src EXCEPT !.publisher = IF @ = "proxy" THEN Nobody ELSE @]
    /\ Done(h)
    /\ UNCHANGED <<cl, net, up, cfg, proxy, timers, lock, push, touched, redialFailed, budget>>

\* zms_media_event_publish_fini, of the proxy, of a take-over, of a session
EndPublication(h) ==
    /\ At(h, "end") \/ At(h, "fini")
    /\ LockFree
    /\ src' = [src EXCEPT !.publishing = FALSE]
    /\ Done(h)
    /\ UNCHANGED <<cl, net, up, cfg, proxy, timers, lock, push, touched, redialFailed, budget>>

\* ops->stop, zms_live_ingest_reset
HangupKeepsClient(h) ==                   \* mutant: ops->stop is left out
    /\ At(h, "hangup")
    /\ src' = [src EXCEPT !.video = FALSE]
    /\ Done(h)
    /\ UNCHANGED <<cl, net, up, cfg, proxy, timers, lock, push, touched, redialFailed, budget>>

Hangup(h) ==
    /\ At(h, "hangup")
    /\ cl' = ClientStop(cl) /\ net' = <<>>
    /\ src' = [src EXCEPT !.video = FALSE]
    /\ Done(h)
    /\ UNCHANGED <<up, cfg, proxy, timers, lock, push, touched, redialFailed, budget>>

\* zms_live_pull_proxy_destroy, found by delStreamProxy: leaves the registry,
\* cancels, stops, and frees the proxy with its client.
DestroyFreesFirst ==                      \* mutant: freed before it is stopped
    /\ budget.api > 0 /\ proxy.started /\ ~proxy.freed
    /\ budget' = [budget EXCEPT !.api = @ - 1]
    /\ Starts("api", <<"cancel", "free", "stop">>)
    /\ UNCHANGED <<cl, net, up, cfg, proxy, timers, src, lock, push, touched, redialFailed>>

Destroy ==
    /\ budget.api > 0 /\ proxy.started /\ ~proxy.freed
    /\ budget' = [budget EXCEPT !.api = @ - 1]
    /\ Starts("api", <<"cancel", "stop", "free">>)
    /\ UNCHANGED <<cl, net, up, cfg, proxy, timers, src, lock, push, touched, redialFailed>>

CancelRetry ==
    /\ At("api", "cancel")
    /\ timers' = timers \ {"tracked"}
    /\ Done("api")
    /\ UNCHANGED <<cl, net, up, cfg, proxy, src, lock, push, touched, redialFailed, budget>>

Free ==
    /\ At("api", "free")
    /\ proxy' = [proxy EXCEPT !.freed = TRUE]
    /\ cl' = ClientStop(cl) /\ net' = <<>>
    /\ Done("api")
    /\ UNCHANGED <<up, cfg, timers, src, lock, push, touched, redialFailed, budget>>
-----------------------------------------------------------------------------
(* The local publisher and close_stream (see StreamHub).                   *)

KickOf(p) == IF p = "proxy" THEN <<"stop">> ELSE IF p = "push" THEN <<"kickpush">> ELSE <<>>

\* zms_media_source_register_publish, zms_media_source_close: the publisher is
\* kicked after the mutex was released.
Take(h) ==
    /\ At(h, "take")
    /\ LockFree
    /\ src' = [src EXCEPT !.publishing = FALSE, !.publisher = Nobody]
    /\ Then(h, KickOf(src.publisher) \o (IF src.publishing THEN <<"fini">> ELSE <<>>)
               \o <<"clear">>)
    /\ UNCHANGED <<cl, net, up, cfg, proxy, timers, lock, push, touched, redialFailed, budget>>

KickPush(h) ==
    /\ At(h, "kickpush")
    /\ push' = IF push = "live" THEN "kicked" ELSE push
    /\ Done(h)
    /\ UNCHANGED <<cl, net, up, cfg, proxy, timers, src, lock, touched, redialFailed, budget>>

\* zms_media_source_clear, zms_live_ingest_reset
Clear(h) ==
    /\ At(h, "clear") \/ At(h, "reset")
    /\ src' = [src EXCEPT !.video = FALSE]
    /\ Done(h)
    /\ UNCHANGED <<cl, net, up, cfg, proxy, timers, lock, push, touched, redialFailed, budget>>

\* close_stream
Close ==
    /\ budget.api > 0
    /\ budget' = [budget EXCEPT !.api = @ - 1]
    /\ Starts("api", <<"take">>)
    /\ UNCHANGED <<cl, net, up, cfg, proxy, timers, src, lock, push, touched, redialFailed>>

\* rtmp_srv_onpublish
PushStart ==
    /\ budget.push > 0 /\ push = "out"
    /\ budget' = [budget EXCEPT !.push = @ - 1]
    /\ push' = "registering"
    /\ Starts("push", <<"take", "publish", "setpub">>)
    /\ UNCHANGED <<cl, net, up, cfg, proxy, timers, src, lock, touched, redialFailed>>

\* zms_media_event_publish
PushPublish ==
    /\ At("push", "publish")
    /\ LockFree
    /\ src' = [src EXCEPT !.publishing = TRUE]
    /\ Done("push")
    /\ UNCHANGED <<cl, net, up, cfg, proxy, timers, lock, push, touched, redialFailed, budget>>

\* zms_media_source_set_publisher kicks whoever came meanwhile, with the mutex
\* held.
SetPublisher ==
    /\ At("push", "setpub")
    /\ LockFree
    /\ lock' = "push"
    /\ Then("push", KickOf(src.publisher) \o <<"own">>)
    /\ UNCHANGED <<cl, net, up, cfg, proxy, timers, src, push, touched, redialFailed, budget>>

Own ==
    /\ At("push", "own")
    /\ src' = [src EXCEPT !.publisher = "push"]
    /\ lock' = Nobody
    /\ push' = "live"
    /\ Done("push")
    /\ UNCHANGED <<cl, net, up, cfg, proxy, timers, touched, redialFailed, budget>>

\* The session ends, because it was kicked or its peer left:
\* zms_rtmp_session_publish_stop.
PushEnds ==
    /\ push \in {"live", "kicked"}
    /\ push' = "out"
    /\ Starts("push", <<"reset", "unpub", "fini">>)
    /\ UNCHANGED <<cl, net, up, cfg, proxy, timers, src, lock, touched, redialFailed, budget>>

Unpublish ==
    /\ At("push", "unpub")
    /\ LockFree
    /\ src' = [src EXCEPT !.publisher = IF @ = "push" THEN Nobody ELSE @]
    /\ Done("push")
    /\ UNCHANGED <<cl, net, up, cfg, proxy, timers, lock, push, touched, redialFailed, budget>>

Part(h) == Stop(h) \/ LetGo(h) \/ EndPublication(h) \/ Hangup(h) \/ Take(h) \/ KickPush(h)
           \/ Clear(h)
PushPart == Part("push") \/ PushPublish \/ SetPublisher \/ Own \/ Unpublish
ApiPart == Part("api") \/ CancelRetry \/ Free
-----------------------------------------------------------------------------
Upstream ==
    /\ SendMedia \/ ComesUp
    /\ UNCHANGED <<cfg, proxy, timers, src, lock, todo, push, touched, redialFailed, budget>>

Retry == \E t \in {"tracked", "orphan"} : RetryFires(t)

Next == \/ Start \/ ClientEvent \/ Retry \/ IoPart \/ PushPart \/ ApiPart \/ Upstream
        \/ Destroy \/ Close \/ PushStart \/ PushEnds

Spec == Init /\ [][Next]_vars

\* The pollers serve their handlers and timers.  Nobody has to publish, to
\* close or to come up.
Fairness == /\ WF_vars(ClientEvent) /\ WF_vars(Retry)
            /\ WF_vars(IoPart) /\ WF_vars(PushPart) /\ WF_vars(ApiPart)

FairSpec == Spec /\ Fairness
-----------------------------------------------------------------------------
(* Properties.                                                             *)

\* Types of the variables.
TypeOK ==
    /\ cl \in Clients /\ net \in Seq(Messages) /\ up \in BOOLEAN
    /\ cfg \in Configs
    /\ proxy \in [fresh : BOOLEAN, started : BOOLEAN, failed : 0 .. MaxFailed,
                  freed : BOOLEAN]
    /\ timers \subseteq {"tracked", "orphan"}
    /\ src \in [publisher : {Nobody, "proxy", "push"}, publishing : BOOLEAN, video : BOOLEAN]
    /\ lock \in {Nobody, "push"}
    /\ todo \in [Handlers -> Seq(Parts)]
    /\ push \in {"out", "registering", "live", "kicked"}
    /\ touched \in BOOLEAN /\ redialFailed \in BOOLEAN
    /\ budget \in [push : 0 .. MaxPushes, api : 0 .. MaxApis]

\* What keeps the proxy going: the client that runs, a timer that will call the
\* retry task, or a callback on its way to arm one or to dial.
Pursuits == (IF Phase \in {"dialing", "ready"} THEN 1 ELSE 0) + Cardinality(timers)
            + Cardinality({i \in 1 .. Len(todo["io"]) :
                               todo["io"][i] \in {"err_sched", "redial"}})
Doomed == "free" \in Range(todo["api"])
GivenUp == cfg.retry >= 0 /\ proxy.failed = cfg.retry

\* A started proxy that is not being destroyed always has exactly one pursuit, whatever fails: it never
\* dials the upstream twice, and it stops trying only when its retries are
\* used up.  (The client's error, the timer, and the poller calling a task
\* again are three different mechanisms that hand over to each other.)
OneChain ==
    proxy.started /\ ~Doomed => \/ Pursuits = 1
                                \/ Pursuits = 0 /\ GivenUp

\* With one poller thread a proxy that was kicked or destroyed is quiet: its
\* client is stopped, it does not own the source, no tracked timer is left.
\* (With more, a callback that had looked at "started" before goes on.)
StoppedIsQuiet ==
    cfg.one /\ ~proxy.started /\ (\A h \in Handlers : Idle(h)) =>
        /\ cl.link = "none"
        /\ src.publisher # "proxy"
        /\ "tracked" \notin timers

\* With one poller thread a freed proxy is used only by a retry task that the
\* poller calls again because a retry could not start to connect.
FreedUntouched == touched /\ cfg.one => redialFailed

\* The abstract client: no callback after stop, ready once per play, and the
\* proxy plays only a client that is idle.
ClientContract == Client!Spec

\* Once the upstream is up for good, a started proxy without a limit on its
\* retries plays, unless it is stopped.
Recovers == up /\ proxy.started /\ cfg.retry < 0
                ~> cl.state = "playing" \/ ~proxy.started

\* README: a name published again evicts the previous publisher, and the new
\* one continues.
TakeoverEnds == push = "registering" ~> push # "registering"
=============================================================================
