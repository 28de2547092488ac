----------------------------- MODULE RtspClient -----------------------------
(***************************************************************************)
(* The RTSP pull client (session/rtsp/rtsp_client.c) under its two users:  *)
(* the pull proxy, which stops it on an error and plays again after its    *)
(* own delay, and zms_player, which leaves it to the client's own retry.   *)
(* The proxy's delay is taken to be longer than the client's 2 s (the API  *)
(* sets 3 s) and than the 80 ms a stopped client keeps its connection, so  *)
(* those timers are done before the proxy plays again.                     *)
(*                                                                         *)
(* One splitter serves all connections of a client and nothing empties it  *)
(* (rtsp_splitter.c, http_message_framer.c): the bytes a connection leaves *)
(* behind when it ends in the middle of a message are the head of the next *)
(* connection's first answer (rest), which may be lost with them (deaf).   *)
(*                                                                         *)
(* External: the TCP client, whose connect replaces a connection there is, *)
(* and the server, which may ask for a digest, takes RTP over TCP or UDP   *)
(* or both, and until it is up for good refuses, breaks off or answers     *)
(* with an error.                                                          *)
(***************************************************************************)
EXTENDS Integers

CONSTANT Tracks         \* tracks of the session described

TracksAssumption == Tracks \in Nat

VARIABLES cl,       \* the client
          user,     \* "proxy" or "player"
          waiting,  \* the proxy's retry is armed
          server,   \* what the server asks for and takes
          up        \* it is up for good

vars == <<cl, user, waiting, server, up>>

States == {"IDLE", "CONNECTING", "OPTIONS", "DESCRIBE", "SETUP", "PLAY", "PLAYING", "ERROR"}
Clients == [stopping : BOOLEAN, state : States, setup_index : 0..Tracks,
            requested : {"auto", "tcp", "udp"}, rtp_mode : {"tcp", "udp"},
            auto_udp_tried : BOOLEAN, auth_retry_done : BOOLEAN, digest : BOOLEAN,
            retry : BOOLEAN, close : BOOLEAN, link : {"none", "dialing", "open"},
            rest : {"none", "bytes", "body"},   \* in the splitter: of a header, of a body
            deaf : BOOLEAN]                     \* the answer awaited was lost there

TypeOK ==
    /\ cl \in Clients
    /\ user \in {"proxy", "player"} /\ waiting \in BOOLEAN /\ up \in BOOLEAN
    /\ server \in [auth : BOOLEAN, takes : SUBSET {"tcp", "udp"}]

\* zms_rtsp_client_create
Create(requested) ==
    [stopping |-> TRUE, state |-> "IDLE", setup_index |-> 0, requested |-> requested,
     rtp_mode |-> IF requested = "udp" THEN "udp" ELSE "tcp",
     auto_udp_tried |-> FALSE, auth_retry_done |-> FALSE, digest |-> FALSE,
     retry |-> FALSE, close |-> FALSE, link |-> "none", rest |-> "none", deaf |-> FALSE]

Init ==
    /\ \E r \in {"auto", "tcp", "udp"} : cl = Create(r)
    /\ user \in {"proxy", "player"} /\ waiting = FALSE /\ up = FALSE
    /\ server \in [auth : BOOLEAN, takes : (SUBSET {"tcp", "udp"}) \ {{}}]
    /\ cl.requested = "auto" \/ cl.requested \in server.takes

-----------------------------------------------------------------------------
\* client_reset_state, which leaves rtp_mode and the splitter's bytes as they are
ResetKeepsAuth(c) == [c EXCEPT !.state = "IDLE", !.setup_index = 0,
                               !.auto_udp_tried = FALSE, !.digest = FALSE]    \* mutant
Reset(c) == [c EXCEPT !.state = "IDLE", !.setup_index = 0, !.auto_udp_tried = FALSE,
                      !.auth_retry_done = FALSE, !.digest = FALSE]

\* zms_rtsp_client_stop: says TEARDOWN and keeps the connection for 80 ms.
StopKeepsOn(c) == [c EXCEPT !.retry = FALSE, !.close = TRUE]                  \* mutant
Stop(c) == IF c.stopping THEN c
           ELSE [c EXCEPT !.stopping = TRUE, !.retry = FALSE, !.close = TRUE]

\* rtsp_client_fail: on_error is the user's; the proxy stops the client in
\* it (proxy_on_error).  The client's own retry is armed all the same: the
\* proxy's retry_count 0 means for ever to it.
Failed(c) ==
    LET e == [c EXCEPT !.state = "ERROR"]
    IN  [IF user = "proxy" THEN Stop(e) ELSE e EXCEPT !.retry = TRUE]

\* send_setup
SendSetup(c) == [c EXCEPT !.state = IF c.setup_index >= Tracks THEN "PLAY" ELSE "SETUP"]

\* handle_response of a 200
Accepted(c) ==
    CASE c.state = "OPTIONS" -> [c EXCEPT !.state = "DESCRIBE"]
      [] c.state = "DESCRIBE" -> SendSetup([c EXCEPT !.setup_index = 0])
      [] c.state = "SETUP" -> SendSetup([c EXCEPT !.setup_index = @ + 1])
      [] c.state = "PLAY" -> [c EXCEPT !.state = "PLAYING", !.retry = FALSE]

\* rtsp_client_auto_fallback_udp
FallBack(c) == SendSetup([c EXCEPT !.auto_udp_tried = TRUE, !.rtp_mode = "udp",
                                   !.setup_index = 0])

\* handle_response of another status; handle_auth_401 asks once more.
Rejected(c, status) ==
    IF status = 401 /\ ~c.auth_retry_done
    THEN [c EXCEPT !.auth_retry_done = TRUE, !.digest = TRUE]
    ELSE IF /\ status = 461 /\ c.state = "SETUP" /\ c.requested = "auto"
            /\ c.rtp_mode = "tcp" /\ ~c.auto_udp_tried
         THEN FallBack(c)
         ELSE Failed(c)

\* client_io_connect: the connection may fail to start.
Dial(c, fails) == [c EXCEPT !.link = IF fails THEN "none" ELSE "dialing", !.deaf = FALSE]

\* What the end of a connection may leave in the splitter: nothing new, a
\* piece of a message, or a header whose body has not come.
Cut(c) == {c.rest} \cup IF c.link # "open" THEN {}
                        ELSE {"bytes"} \cup IF c.state = "DESCRIBE" THEN {"body"} ELSE {}
-----------------------------------------------------------------------------
\* zms_rtsp_client_play, proxy_do_play: the proxy tries again when it fails.
\* Neither user plays again within the 80 ms after a stop: play does not
\* cancel client_close_task, which would close the new connection.
Play ==
    /\ cl.stopping \/ waiting
    /\ ~cl.close
    /\ user = "proxy" => ~cl.retry
    /\ \E fails \in {FALSE, ~up} :
           /\ cl' = [Dial(Reset([cl EXCEPT !.stopping = FALSE]), fails)
                         EXCEPT !.state = "CONNECTING"]
           /\ waiting' = fails
           /\ user = "proxy" \/ ~fails
    /\ UNCHANGED <<user, server, up>>

\* zms_live_pull_proxy_stop, zms_player_stop; what comes after is not read.
UserStops ==
    /\ ~cl.stopping \/ waiting
    /\ \E rest \in IF cl.stopping THEN {cl.rest} ELSE Cut(cl) :
           cl' = [Stop(cl) EXCEPT !.rest = rest]
    /\ waiting' = FALSE
    /\ UNCHANGED <<user, server, up>>

\* on_transport_connected
Connected ==
    /\ cl.link = "dialing"
    /\ cl' = [cl EXCEPT !.link = "open", !.state = "OPTIONS"]
    /\ UNCHANGED <<user, waiting, server, up>>

\* on_rtsp_message: a stopped client takes no notice.
Listening == /\ cl.link = "open" /\ ~cl.stopping /\ ~cl.deaf
             /\ cl.state \in {"OPTIONS", "DESCRIBE", "SETUP", "PLAY"}
WantsDigest == server.auth /\ ~cl.digest /\ cl.state # "OPTIONS"
WrongMode == cl.state = "SETUP" /\ cl.rtp_mode \notin server.takes

Taken(c) == {Accepted(c), Rejected(c, 401), Rejected(c, 404)}

\* on_rtsp_header, zms_rtsp_message_parse_header: where the cut fell decides
\* whether the old bytes and the answer after them parse as one message, of
\* either's status; if not, or if they announce a body, the answer is lost.
\* A body's missing bytes are taken from the answer, and the old header is
\* dispatched once there are enough of them.
Garbled ==
    \/ cl.rest = "bytes" /\ \/ cl' \in Taken([cl EXCEPT !.rest = "none"])
                            \/ \E rest \in {"none", "body"} :
                                   cl' = [cl EXCEPT !.rest = rest, !.deaf = TRUE]
    \/ cl.rest = "body" /\ \/ \E rest \in {"none", "bytes"} :
                                  cl' \in Taken([cl EXCEPT !.rest = rest])
                           \/ cl' = [cl EXCEPT !.deaf = TRUE]

Answered ==
    /\ Listening
    /\ IF cl.rest # "none" THEN Garbled
       ELSE cl' = IF WantsDigest THEN Rejected(cl, 401)
                  ELSE IF WrongMode THEN Rejected(cl, 461) ELSE Accepted(cl)
    /\ waiting' = (user = "proxy" /\ cl'.stopping)
    /\ UNCHANGED <<user, server, up>>

\* ... or the server is out of order: another status, a digest not taken,
\* a connection refused or broken (on_tcp_error).
OutOfOrder ==
    /\ ~up /\ ~cl.stopping
    /\ \/ Listening /\ cl.rest = "none" /\ \E status \in {401, 404} : cl' = Rejected(cl, status)
       \/ /\ cl.link # "none"
          /\ \E rest \in Cut(cl) : cl' = Failed([cl EXCEPT !.link = "none", !.rest = rest])
    /\ waiting' = (user = "proxy" /\ cl'.stopping)
    /\ UNCHANGED <<user, server, up>>

\* client_retry_task: returning the delay runs it again.
OwnRetry ==
    /\ cl.retry
    /\ \E fails \in {FALSE, ~up} :
           cl' = IF cl.stopping THEN [cl EXCEPT !.retry = FALSE]
                 ELSE IF fails THEN Dial(Reset(cl), TRUE)
                 ELSE [Dial(Reset(cl), FALSE) EXCEPT !.state = "CONNECTING", !.retry = FALSE]
    /\ UNCHANGED <<user, waiting, server, up>>

\* client_close_task
CloseTask ==
    /\ cl.close
    /\ cl' = [cl EXCEPT !.close = FALSE, !.link = "none"]
    /\ UNCHANGED <<user, waiting, server, up>>

ComesUp ==
    /\ ~up
    /\ up' = TRUE
    /\ UNCHANGED <<cl, user, waiting, server>>

ClientStep == Connected \/ Answered \/ OwnRetry \/ CloseTask
Next == Play \/ UserStops \/ ClientStep \/ OutOfOrder \/ ComesUp

\* The poller runs the timers, the proxy's among them; a server that is up
\* answers.
Spec == Init /\ [][Next]_vars
FairSpec == Spec /\ WF_vars(ClientStep) /\ WF_vars(waiting /\ Play)
-----------------------------------------------------------------------------
\* The client behind the proxy (PullClient.tla).
Phase == IF user = "player" \/ cl.stopping THEN "idle"
         ELSE IF cl.state = "ERROR" THEN "failed"
         ELSE IF cl.state = "PLAYING" THEN "ready" ELSE "dialing"

Client == INSTANCE PullClient WITH phase <- Phase

(* Two parties retry one connection, the client and the proxy; the proxy   *)
(* never sees the client dial behind its back.                             *)
ClientContract == Client!Spec

(* Whichever of the two retries, and whatever digest and transport the     *)
(* server wants, a client left alone comes to play once the server works,  *)
(* or hangs for an answer lost to what a broken connection left in the     *)
(* splitter: nothing asks again and no timer runs (rtsp_client.c:218).     *)
LeftToPlay == up /\ (waiting \/ ~cl.stopping)
Plays == <>[]LeftToPlay => <>(cl.state = "PLAYING" \/ cl.deaf)
=============================================================================
