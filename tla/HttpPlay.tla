------------------------------ MODULE HttpPlay ------------------------------
(***************************************************************************)
(* One HTTP connection that plays (session/http/http_service.c,            *)
(* http_response.c, live/play/http_flv/http_flv_serve.c, the HTTP-TS and   *)
(* FLV routes, vod/play/vod_http_serve.c, session/play_binding.c): live    *)
(* FLV, WS-FLV and TS, files with ranges, recordings, the FLV cache of an  *)
(* MP4 file, HLS playlists and segments of a file.                         *)
(*                                                                         *)
(* Whatever has to look at a file runs as a job of the VOD thread pool and *)
(* comes back to the connection's poller later; when the pool refuses it,  *)
(* it runs at once.  A file is Size chunks long; an answer is the interval *)
(* of chunks [from, to) it promises and how many of them were sent.        *)
(*                                                                         *)
(* The client asks when it likes: while an answer comes (a player that     *)
(* seeks), while a job of an earlier request is still with the pool, after *)
(* an answer that said Connection: close, or twice in one read.  All but   *)
(* the first are called impatient: the session has one place for a FILE, a *)
(* lane and a counted player, and an answer that finds it taken loses what *)
(* is there.  External: the TCP connection (ztk), which holds what was     *)
(* sent until the client reads it.                                         *)
(***************************************************************************)
EXTENDS Integers, FiniteSets

CONSTANTS
    Size,       \* chunks in a file
    Flush,      \* chunks a flush sends at most
    MaxAsks,    \* bound: requests
    MaxOut      \* chunks in the connection that stop a flush

HttpPlayAssumption == /\ Size \in Nat \ {0} /\ Flush \in Nat \ {0}
                      /\ MaxAsks \in Nat /\ MaxOut \in Nat

VARIABLES
    hs,         \* zms_http_session, and whether it still exists
    jobs,       \* the job of each request, if it has one
    readers, lanes, files,      \* counted players, open lanes, open FILEs
    lost,       \* those of them that nothing refers to any more
    answer,     \* what the answer promised, what of it was sent
    pending,    \* chunks in the connection
    said,       \* what the client knows: nothing yet, coming, complete
    asks,       \* requests so far
    burst,      \* the read that is being parsed holds another request
    past        \* the client was impatient; a freed session was taken for another

vars == <<hs, jobs, readers, lanes, files, lost, answer, pending, said, asks, burst, past>>

NoJob == [kind |-> "none"]
Nothing == [readers |-> 0, lanes |-> 0, files |-> 0]
NoAnswer == [req |-> [kind |-> "none"], from |-> 0, to |-> 0, sent |-> 0]
Quiet == [state |-> "idle", mux |-> "none", lane |-> FALSE, att |-> FALSE, fp |-> FALSE,
          remain |-> 0, alive |-> TRUE]

Init ==
    /\ hs = Quiet /\ jobs = [n \in 1..MaxAsks |-> NoJob]
    /\ readers = 0 /\ lanes = 0 /\ files = 0 /\ lost = Nothing
    /\ answer = NoAnswer /\ pending = 0 /\ said = "nothing" /\ asks = 0
    /\ burst = FALSE /\ past = [impatient |-> FALSE, touched |-> FALSE]

\* Range: bytes=a-b, a- or -a; a FLV request may ask for a time instead,
\* whose chunk the index tells.
Ranges == {[form |-> "none"]} \cup
          [form : {"from", "suffix", "seek"}, a : 0..Size] \cup
          [form : {"both"}, a : 0..Size, b : 0..Size]
Plain == [form |-> "none"]

LiveKinds == {"flv", "ws", "ts"}
FileKinds == {"vod-flv", "vod-mp4", "head", "record"}
HlsKinds == {"m3u8", "seg"}
Requests == [kind : LiveKinds \cup HlsKinds \cup {"cached-flv", "download", "api"},
             range : {Plain}]
            \cup [kind : FileKinds,
                  range : {r \in Ranges : r.form # "seek"}]
            \cup [kind : {"vod-flv"}, range : {r \in Ranges : r.form = "seek" /\ r.a < Size}]
-----------------------------------------------------------------------------
(* parse_http_range and the choice of what to send: [from, to).            *)

LastByteRaw(r) == IF r.form # "both" THEN Size - 1 ELSE r.b      \* mutant
LastByte(r) == IF r.form # "both" \/ r.b >= Size THEN Size - 1 ELSE r.b
FirstByte(r) == CASE r.form = "suffix" /\ r.a >= Size -> 0
                  [] r.form = "suffix" -> Size - r.a
                  [] OTHER -> r.a
Interval(r) ==
    IF r.form # "none" /\ FirstByte(r) <= LastByte(r)
    THEN [from |-> FirstByte(r), to |-> LastByte(r) + 1]
    ELSE [from |-> 0, to |-> Size]
-----------------------------------------------------------------------------
(* The session's operations: each maps [hs, readers, lanes, files, lost]   *)
(* to the next one.                                                        *)

Now == [hs |-> hs, readers |-> readers, lanes |-> lanes, files |-> files, lost |-> lost]
Become(x) == /\ hs' = x.hs /\ readers' = x.readers /\ lanes' = x.lanes
             /\ files' = x.files /\ lost' = x.lost

One(b) == IF b THEN 1 ELSE 0

\* reader_add and the fields that remember it; a player they remembered
\* before is counted for ever.
Attach(x) == [x EXCEPT !.readers = @ + 1, !.hs.att = TRUE,
                       !.lost.readers = @ + One(x.hs.att)]

\* hs->vod_lane = zms_vod_play_lane_open(...), and its muxer
TakeLane(x) == [x EXCEPT !.lanes = @ + 1, !.hs.lane = TRUE, !.hs.mux = "vod",
                         !.lost.lanes = @ + One(x.hs.lane)]

\* hs->file_fp = fp
TakeFile(x, n) == [x EXCEPT !.hs.fp = TRUE, !.hs.remain = n, !.hs.state = "file",
                            !.lost.files = @ + One(x.hs.fp)]

\* zms_play_binding_reader_stop
ReaderStop(x) ==
    IF x.hs.att THEN [x EXCEPT !.readers = @ - 1, !.hs.att = FALSE] ELSE x

\* fclose(hs->file_fp)
CloseFile(x) ==
    IF x.hs.fp THEN [x EXCEPT !.files = @ - 1, !.hs.fp = FALSE, !.hs.remain = 0]
    ELSE [x EXCEPT !.hs.remain = 0]

\* http_play_teardown: the muxer, the lane, the reader.
PlayTeardownKeepsLane(x) == [ReaderStop(x) EXCEPT !.hs.mux = "none"]  \* mutant
PlayTeardown(x) ==
    LET y == IF x.hs.lane THEN [x EXCEPT !.lanes = @ - 1, !.hs.lane = FALSE] ELSE x
    IN [ReaderStop(y) EXCEPT !.hs.mux = "none"]

\* zms_http_session_stop_stream
StopStream(x) == [PlayTeardown(CloseFile(x)) EXCEPT !.hs.state = "idle"]

\* http_file_done
FileDone(x) == [ReaderStop(CloseFile(x)) EXCEPT !.hs.state = "idle"]

\* flush_file sends chunks until the connection holds enough; stream_flush
\* of a live stream is left to LivePlay.
MinOf(a, b) == IF a < b THEN a ELSE b
Room(p) == IF MaxOut + 1 > p THEN MaxOut + 1 - p ELSE 0
Sendable(x, p) ==
    IF x.hs.state = "file" THEN MinOf(x.hs.remain, MinOf(Flush, Room(p))) ELSE 0
FlushFile(x, n) ==
    LET y == [x EXCEPT !.hs.remain = @ - n]
    IN IF x.hs.state = "file" /\ y.hs.remain = 0 THEN FileDone(y) ELSE y

\* The end of every handler: what the client is told, what the flush sends.
\* A stream or file that is stopped takes what the connection holds with it.
Answered(x, word, ans, held) ==
    LET n == Sendable(x, held)
    IN /\ Become(FlushFile(x, n))
       /\ answer' = [ans EXCEPT !.sent = @ + n]
       /\ pending' = held + n
       /\ said' = word

\* zms_http_response_send_error, _json, _bytes: complete at once
Complete(x, held) == Answered([x EXCEPT !.hs.state = "idle"], "complete", NoAnswer, held)

\* A file answer begins: the file, how much of it, and the first flush.
Begin(x, req, i, held) ==
    Answered(TakeFile(x, i.to - i.from), "coming",
             [req |-> req, from |-> i.from, to |-> i.to, sent |-> 0], held)

\* http_send_vod_mp4_finish; a recording has no source, a HEAD no body.
Mp4Finish(x, req, allowed, held) ==
    LET y == IF req.kind = "record" THEN x ELSE Attach(x)
    IN CASE req.kind # "record" /\ ~allowed ->
              Complete(IF req.kind = "head" THEN x ELSE [x EXCEPT !.files = @ - 1], held)
         [] req.kind = "head" /\ allowed -> Complete(FileDone(y), held)
         [] OTHER -> Begin(y, req, Interval(req.range), held)

\* http_send_vod_flv_finish
FlvFinish(x, req, allowed, held) ==
    IF allowed THEN Begin(Attach(x), req, Interval(req.range), held)
    ELSE Complete([x EXCEPT !.files = @ - 1], held)

\* http_send_static_finish; the source of a segment may not be known.
StaticFinish(x, req, known, allowed, held) ==
    IF known /\ ~allowed THEN Complete([x EXCEPT !.files = @ - 1], held)
    ELSE Begin(IF known THEN Attach(x) ELSE x, req, Interval(req.range), held)

\* zms_http_vod_flv_start_transcode
Transcode(x, opens, allowed, held) ==
    LET y == TakeLane(x)
    IN CASE ~opens -> Complete(x, held)
         [] opens /\ ~allowed -> Complete(y, held)
         [] opens /\ allowed -> Answered([Attach(y) EXCEPT !.hs.state = "streaming"],
                                         "coming", NoAnswer, held)
-----------------------------------------------------------------------------
(* Requests.  on_recv stops what is being sent before it reads the next    *)
(* request, but not between two requests of one read; in a WebSocket only  *)
(* frames of the client are read.                                          *)

MayAsk == hs.alive /\ asks < MaxAsks /\ (hs.state = "ws" => burst)
Stays == hs.state = "idle" \/ burst
Stopped == IF Stays THEN Now ELSE StopStream(Now)
Held == IF Stays THEN pending ELSE 0
Overtakes == burst \/ said = "complete" \/ \E n \in 1..MaxAsks : jobs[n] # NoJob

\* zms_http_live_flv_start: the key of a WebSocket is looked at when the
\* muxer and the reader are there already.
AskFlv(req) ==
    LET x == Attach([Stopped EXCEPT !.hs.mux = "live"])
        state == IF req.kind = "ws" THEN "ws" ELSE "streaming" IN
    /\ req.kind \in {"flv", "ws"}
    /\ \/ Complete(Stopped, Held)                       \* refused
       \/ req.kind = "ws" /\ Complete(x, Held)          \* a bad key
       \/ Answered([x EXCEPT !.hs.state = state], "coming", NoAnswer, Held)
    /\ UNCHANGED jobs

\* zms_http_live_ts_start
AskTs(req) ==
    /\ req.kind = "ts"
    /\ \/ Complete(Stopped, Held)
       \/ Answered([Attach(Stopped) EXCEPT !.hs.mux = "ts", !.hs.state = "streaming"],
                   "coming", NoAnswer, Held)
    /\ UNCHANGED jobs

\* What is answered from a file starts as a job.
Queued(req, step) == [kind |-> step, req |-> req, at |-> "pool", ok |-> FALSE]
Enqueue(req, step) ==
    /\ jobs' = [jobs EXCEPT ![asks + 1] = Queued(req, step)]
    /\ Become(Stopped) /\ pending' = Held
    /\ answer' = IF Stopped.hs.state = "file" THEN answer ELSE NoAnswer
    /\ said' = "nothing"

\* zms_http_vod_flv_start: a FLV file as it is, that of an MP4 file from the
\* cache, which may have to be made.
AskVodFlv(req) ==
    \/ req.kind = "vod-flv" /\ Enqueue(req, "open")
    \/ req.kind = "cached-flv" /\ (Enqueue(req, "open") \/ Enqueue(req, "cache"))

\* zms_http_vod_mp4_serve, record_file_mp4_route_handle
AskMp4(req) == req.kind \in {"vod-mp4", "head", "record"} /\ Enqueue(req, "open")

\* zms_http_vod_hls_serve: a playlist, a segment that exists or has to be made
AskHls(req) ==
    \/ req.kind = "m3u8" /\ Enqueue(req, "m3u8")
    \/ req.kind = "seg" /\ (Enqueue(req, "static") \/ Enqueue(req, "seg"))
    \/ /\ req.kind \in {"m3u8", "seg"}
       /\ Complete(Stopped, Held) /\ UNCHANGED jobs

\* zms_http_response_send_download_file, and what is answered without a file
AskOther(req) ==
    /\ \/ /\ req.kind = "download"
          /\ Begin([Stopped EXCEPT !.files = @ + 1], req, Interval(req.range), Held)
       \/ req.kind \in {"download", "api"} /\ Complete(Stopped, Held)
    /\ UNCHANGED jobs

Ask(req) ==
    /\ MayAsk
    /\ AskFlv(req) \/ AskTs(req) \/ AskVodFlv(req) \/ AskMp4(req) \/ AskHls(req)
       \/ AskOther(req)
    /\ asks' = asks + 1 /\ burst' \in BOOLEAN /\ (burst' => asks' < MaxAsks)
    /\ past' = [past EXCEPT !.impatient = @ \/ Overtakes]
-----------------------------------------------------------------------------
(* Jobs.  A pool thread does the blocking part, the poller the rest.       *)

Run(n, step, ok) ==
    /\ jobs[n].kind = step /\ jobs[n].at = "pool"
    /\ jobs' = [jobs EXCEPT ![n].at = "io", ![n].ok = ok]
    /\ UNCHANGED <<hs, readers, lanes, lost, answer, pending, said, asks, burst, past>>

\* vod_file_open_prep_blocking: stat, the range, fopen, fseek
OpenRun(n, ok) ==
    /\ Run(n, "open", ok)
    /\ files' = IF ok /\ jobs[n].req.kind # "head" THEN files + 1 ELSE files

\* static_file_prep_blocking
StaticRun(n, ok) == Run(n, "static", ok) /\ files' = IF ok THEN files + 1 ELSE files

\* vod_flv_cache_build_blocking, vod_hls_m3u8_blocking, vod_hls_seg_blocking:
\* the FILEs they open they close.
MakeRun(n, step, ok) == Run(n, step, ok) /\ UNCHANGED files

HoldsFile(j) == /\ j.kind \in {"open", "static"} /\ j.at = "io" /\ j.ok
                /\ j.req.kind # "head"
Holding == {n \in 1..MaxAsks : HoldsFile(jobs[n])}

Drop(n) == jobs' = [jobs EXCEPT ![n] = NoJob]

\* The session is gone.  http_sess_alive reads its freed memory to find out:
\* it looks dead, and the job gives back what it holds, or like the session
\* of another connection, which is then sent an answer it has not asked for.
JobTooLate(n) ==
    /\ ~hs.alive /\ Drop(n)
    /\ \/ files' = files - One(HoldsFile(jobs[n])) /\ UNCHANGED <<lost, past>>
       \/ /\ lost' = [lost EXCEPT !.files = @ + One(HoldsFile(jobs[n]))]
          /\ past' = [past EXCEPT !.touched = TRUE]
          /\ UNCHANGED files
    /\ UNCHANGED <<hs, readers, lanes, answer, pending, said>>

\* vod_file_open_prep_finish
OpenFinish(n, allowed) ==
    /\ Drop(n)
    /\ CASE ~jobs[n].ok -> Complete(Now, pending)
         [] jobs[n].ok /\ jobs[n].req.kind \in {"vod-flv", "cached-flv"} ->
              FlvFinish(Now, jobs[n].req, allowed, pending)
         [] OTHER -> Mp4Finish(Now, jobs[n].req, allowed, pending)

\* static_file_prep_finish
StaticOpenFinish(n, known, allowed) ==
    /\ Drop(n)
    /\ IF jobs[n].ok THEN StaticFinish(Now, jobs[n].req, known, allowed, pending)
       ELSE Complete(Now, pending)

\* The answer goes on with the file that was made.
GoOn(n, step) == /\ jobs' = [jobs EXCEPT ![n] = Queued(jobs[n].req, step)]
                 /\ UNCHANGED <<hs, readers, lanes, files, lost, answer, pending, said>>

\* vod_flv_cache_build_on_io: the cached file, or what the demuxer gives
CacheFinish(n, opens, allowed) ==
    IF jobs[n].ok THEN GoOn(n, "open")
    ELSE Drop(n) /\ Transcode(Now, opens, allowed, pending)

\* http_vod_hls_attach_play
AttachPlay(x, known, allowed) == IF known /\ allowed THEN Attach(x) ELSE x

\* http_send_vod_hls_m3u8_finish counts the player and answers at once.
M3u8Finish(n, known, allowed) ==
    /\ Drop(n)
    /\ Complete(IF jobs[n].ok THEN AttachPlay(Now, known, allowed) ELSE Now, pending)

\* vod_hls_seg_on_io
SegFinish(n) ==
    IF jobs[n].ok THEN GoOn(n, "static") ELSE Drop(n) /\ Complete(Now, pending)

JobFinish(n) ==
    /\ ~burst /\ jobs[n] # NoJob /\ jobs[n].at = "io"
    /\ IF ~hs.alive THEN JobTooLate(n)
       ELSE /\ \E allowed, known, opens \in BOOLEAN :
                 CASE jobs[n].kind = "open" -> OpenFinish(n, allowed)
                   [] jobs[n].kind = "static" -> StaticOpenFinish(n, known, allowed)
                   [] jobs[n].kind = "cache" -> CacheFinish(n, opens, allowed)
                   [] jobs[n].kind = "m3u8" -> M3u8Finish(n, known, allowed)
                   [] jobs[n].kind = "seg" -> SegFinish(n)
            /\ UNCHANGED past
    /\ UNCHANGED <<asks, burst>>

Job(n) == \/ \E ok \in BOOLEAN :
                \/ OpenRun(n, ok) \/ StaticRun(n, ok) \/ MakeRun(n, "cache", ok)
                \/ MakeRun(n, "m3u8", ok) \/ MakeRun(n, "seg", ok)
          \/ JobFinish(n)
-----------------------------------------------------------------------------
\* on_manager, every 20 ms
Manager ==
    /\ hs.alive /\ hs.state = "file" /\ ~burst
    /\ Answered(Now, said, answer, pending)
    /\ UNCHANGED <<jobs, asks, burst, past>>

\* The client reads what the connection holds.
Read ==
    /\ hs.alive /\ pending > 0
    /\ pending' = 0
    /\ UNCHANGED <<hs, jobs, readers, lanes, files, lost, answer, said, asks, burst, past>>

\* http_ws_on_close
WsClose ==
    /\ hs.alive /\ hs.state = "ws" /\ ~burst
    /\ Become(StopStream(Now))
    /\ pending' = 0 /\ answer' = NoAnswer /\ said' = "complete"
    /\ UNCHANGED <<jobs, asks, burst, past>>

\* on_error: the connection is gone, the session is freed.
Hangup ==
    /\ hs.alive /\ ~burst
    /\ Become([PlayTeardown(CloseFile(Now)) EXCEPT !.hs.alive = FALSE, !.hs.state = "idle"])
    /\ pending' = 0 /\ answer' = NoAnswer
    /\ UNCHANGED <<jobs, said, asks, burst, past>>

Next == (\E req \in Requests : Ask(req)) \/ (\E n \in 1..MaxAsks : Job(n))
        \/ Manager \/ Read \/ WsClose \/ Hangup

Spec == Init /\ [][Next]_vars
-----------------------------------------------------------------------------
\* Every counted player, lane and FILE belongs to the session or to a job; a
\* session that is gone has left nothing behind but what a job still holds.
\* Nothing is lost to a client that waits for its answers; what an impatient
\* one lost, or a job that took freed memory for a session, is all there is.
GivenBack ==
    /\ readers = One(hs.att) + lost.readers
    /\ lanes = One(hs.lane) + lost.lanes
    /\ files = One(hs.fp) + Cardinality(Holding) + lost.files
    /\ ~hs.alive => ~hs.att /\ ~hs.lane /\ ~hs.fp
    /\ lost # Nothing => past.impatient \/ past.touched

\* What is streamed or sent from a source's file is counted as a player of it
\* as long as it is sent, and sent from something that is open.
SentFromOpen ==
    /\ hs.state \in {"streaming", "ws"} => hs.att /\ hs.mux # "none"
    /\ hs.state = "file" => /\ hs.fp
                            /\ hs.remain = answer.to - answer.from - answer.sent

\* The chunks RFC 9110 asks for: those of the range that exist, all of them
\* when none does.
Asked(r) == {c \in 0..Size-1 :
    CASE r.form = "none" -> TRUE
      [] r.form \in {"from", "seek"} -> c >= r.a
      [] r.form = "both" -> c >= r.a /\ c <= r.b
      [] r.form = "suffix" -> c >= Size - r.a}
Wanted(r) == IF Asked(r) = {} THEN 0..Size-1 ELSE Asked(r)

\* An answer promises exactly the chunks that were asked for, and when it is
\* done all of them were sent.  (An impatient client's next answer may have
\* taken its place before: then it is that one's turn.)
RightChunks ==
    answer # NoAnswer =>
        /\ answer.from .. (answer.to - 1) = Wanted(answer.req.range)
        /\ answer.sent <= answer.to - answer.from
        /\ hs.state = "idle" => answer.sent = answer.to - answer.from

\* A file the client reads to its end ends: the manager sends what the
\* connection takes, and the session is idle then.
Serving == hs.alive /\ hs.state = "file" /\ ~burst
=============================================================================
