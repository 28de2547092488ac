----------------------------- MODULE RtmpClient -----------------------------
(***************************************************************************)
(* The RTMP pull client (session/rtmp/rtmp_client.c) and the server it     *)
(* pulls from.  A handler of the client maps its state to the next one,    *)
(* says which request it sends and which callbacks it makes; the user of   *)
(* the client (PullProxy) serves the callbacks.                            *)
(*                                                                         *)
(* External: the TCP client (ztk) connects, fails or breaks; the server    *)
(* answers every request, an onBWDone may come before or after the answer  *)
(* to connect, and media may come without an onStatus.                     *)
(***************************************************************************)
EXTENDS Integers, Sequences

VARIABLES
    cl,     \* the client
    net,    \* messages on their way from the server to the client
    up      \* from now on the server is reachable and accepts

States == {"hs", "connect", "create", "play", "playing"}
Messages == {"hs", "_result", "_error", "onBWDone", "Play.Start", "Play.Failed", "media"}

\* "failed" is not a field of the code: an error was reported since play.
Clients == [link : {"none", "dialing", "open"}, state : States,
            stopping : BOOLEAN, ready_sent : BOOLEAN, proto : BOOLEAN,
            create_sent : BOOLEAN, play_sent : BOOLEAN, failed : BOOLEAN]

ClientCreate == [link |-> "none", state |-> "hs", stopping |-> FALSE,
                 ready_sent |-> FALSE, proto |-> FALSE,
                 create_sent |-> FALSE, play_sent |-> FALSE, failed |-> FALSE]

\* The outcome of a handler: state, request sent, callbacks made.
Out(c, sent, say) == [c |-> c, sent |-> sent, say |-> say]
Quietly(c) == Out(c, "nothing", <<>>)

Fail(c) ==
    IF c.stopping THEN Quietly(c)
    ELSE Out([c EXCEPT !.state = "hs", !.failed = TRUE], "nothing", <<"error">>)

\* client_mark_playing
MarkPlaying(c) ==
    Out([c EXCEPT !.state = "playing", !.ready_sent = TRUE], "nothing",
        IF c.ready_sent THEN <<>> ELSE <<"ready">>)

SendCreateStream(c) ==
    IF c.create_sent THEN Quietly(c)
    ELSE Out([c EXCEPT !.create_sent = TRUE, !.state = "create"], "createStream", <<>>)

SendPlay(c) ==
    IF c.play_sent THEN Quietly(c)
    ELSE Out([c EXCEPT !.play_sent = TRUE, !.state = "play"], "play", <<>>)

\* try_finish_hs, begin_rtmp_session: which may not get its requests out
BeginSession(c) ==
    {Out([c EXCEPT !.proto = TRUE, !.create_sent = FALSE, !.play_sent = FALSE,
                   !.state = "connect"], "connect", <<>>)}
    \cup (IF up THEN {} ELSE {Fail([c EXCEPT !.proto = TRUE])})

\* on_cmd "_result": what it answers is told from the state alone.
OnResultOnce(c) ==                        \* mutant: connect's only
    IF c.state = "connect" THEN SendCreateStream(c) ELSE Quietly(c)

OnResult(c) ==
    IF c.state = "connect" THEN SendCreateStream(c)
    ELSE IF c.state = "create" THEN SendPlay(c)
    ELSE Quietly(c)

\* on_chunk: the first audio or video message counts as ready too.
OnMedia(c) ==
    LET r == IF c.state # "playing" THEN MarkPlaying(c) ELSE Quietly(c)
    IN  [r EXCEPT !.say = Append(@, "media")]

\* on_transport_recv, on_cmd, on_chunk: the possible outcomes of one message
OnMessage(c, m) ==
    IF c.stopping \/ (m # "hs") # c.proto THEN {Quietly(c)}
    ELSE IF m = "hs" THEN BeginSession(c)
    ELSE {CASE m \in {"_error", "Play.Failed"} -> Fail(c)
            [] m = "_result" -> OnResult(c)
            [] m = "onBWDone" -> SendCreateStream(c)
            [] m = "Play.Start" -> MarkPlaying(c)
            [] m = "media" -> OnMedia(c)}

\* zms_rtmp_client_play, when the connection attempt could be started
ClientPlay(c) ==
    [c EXCEPT !.stopping = FALSE, !.ready_sent = FALSE, !.create_sent = FALSE,
              !.play_sent = FALSE, !.failed = FALSE, !.link = "dialing"]

\* zms_rtmp_client_play, when it could not
ClientPlayFailed(c) ==
    [c EXCEPT !.stopping = FALSE, !.ready_sent = FALSE, !.create_sent = FALSE,
              !.play_sent = FALSE]

\* zms_rtmp_client_stop
ClientStop(c) ==
    [c EXCEPT !.stopping = TRUE, !.link = "none", !.proto = FALSE, !.state = "hs",
              !.ready_sent = FALSE, !.failed = FALSE]

\* The server's answers to a request.
Answers(sent) ==
    LET accepts == CASE sent = "c0c1" -> {<<"hs">>}
                     [] sent = "connect" -> {<<"_result">>, <<"onBWDone", "_result">>,
                                             <<"_result", "onBWDone">>}
                     [] sent = "createStream" -> {<<"_result">>}
                     [] sent = "play" -> {<<"Play.Start">>, <<"media">>}
                     [] OTHER -> {<<>>}
        refuses == CASE sent \in {"connect", "createStream"} -> {<<"_error">>}
                     [] sent = "play" -> {<<"Play.Failed">>}
                     [] OTHER -> {}
    IN  IF up THEN accepts ELSE accepts \cup refuses
-----------------------------------------------------------------------------
Callbacks == {<<>>, <<"error">>, <<"ready">>, <<"media">>, <<"ready", "media">>}

ClientInit == cl = ClientCreate /\ net = <<>> /\ up = FALSE

\* The callbacks of the TCP client: each is one step of the poller's, which
\* leaves in "say" what the user is told.

\* on_io_connected: sends C0 and C1
TcpConnected(say) ==
    /\ cl.link = "dialing"
    /\ cl' = [cl EXCEPT !.link = "open", !.state = "hs"]
    /\ net' \in Answers("c0c1")
    /\ say = <<>>

\* on_tcp_error: refused, broken, or closed by the server
TcpError(say) ==
    /\ cl.link # "none" /\ ~up
    /\ LET r == Fail([cl EXCEPT !.link = "none"])
       IN  cl' = r.c /\ say = r.say
    /\ net' = <<>>

\* on_tcp_recv
Receive(say) ==
    /\ cl.link = "open" /\ net # <<>>
    /\ \E r \in OnMessage(cl, Head(net)) :
           /\ cl' = r.c /\ say = r.say
           /\ \E a \in Answers(r.sent) : net' = Tail(net) \o a

\* The server: sends media while it plays; comes up for good at some time.
SendMedia ==
    /\ cl.state = "playing" /\ cl.link = "open" /\ net = <<>>
    /\ net' = <<"media">>
    /\ UNCHANGED <<cl, up>>

ComesUp ==
    /\ ~up
    /\ up' = TRUE
    /\ UNCHANGED <<cl, net>>
-----------------------------------------------------------------------------
\* The abstract client this one implements.
Phase == IF cl.link = "none" /\ ~cl.failed THEN "idle"
         ELSE IF cl.failed THEN "failed"
         ELSE IF cl.ready_sent THEN "ready" ELSE "dialing"

Client == INSTANCE PullClient WITH phase <- Phase
=============================================================================
