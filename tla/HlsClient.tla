----------------------------- MODULE HlsClient -----------------------------
(***************************************************************************)
(* The HLS pull client (session/http/http_hls_client.c): it fetches a      *)
(* playlist, then one segment after another, each over a connection of its *)
(* own, and the playlist again when it has them all; what fails is tried   *)
(* again after a while.  All of it runs on one poller.                     *)
(*                                                                         *)
(* A segment is its number.  External: the TCP client, and the server,     *)
(* which publishes a sliding window of segments; until it is up for good   *)
(* it may refuse, answer with an error, cut an answer short or answer what *)
(* is not HTTP.  A server may put a master playlist before the playlist.   *)
(***************************************************************************)
EXTENDS Integers, Sequences, SequencesExt

CONSTANTS Segments,     \* bound: segments the server ever publishes
          Window        \* segments in its playlist

HlsClientAssumption == Segments \in Nat \ {0} /\ Window \in Nat \ {0}

VARIABLES cl,       \* the client
          head,     \* segments published so far
          ended,    \* the playlist says EXT-X-ENDLIST
          master,   \* the address played is that of a master playlist
          up,       \* the server answers, and answers right
          got       \* segments demuxed since play

vars == <<cl, head, ended, master, up, got>>

Nowhere == 0
Playlist == [n \in 1..(IF head < Window THEN head ELSE Window) |->
                (IF head < Window THEN 0 ELSE head - Window) + n]

Clients == [playing : BOOLEAN, failed : BOOLEAN, ready : BOOLEAN, live : BOOLEAN,
            kind : {"m3u8", "ts"}, at : {"master", "media"}, segs : Seq(1..Segments),
            pos : Nat, last : 0..Segments, link : {"none", "dialing", "open"},
            soft : BOOLEAN, timer : BOOLEAN]

TypeOK ==
    /\ cl \in Clients
    /\ cl.pos <= Segments + 1 /\ Len(cl.segs) <= Window
    /\ head \in 0..Segments
    /\ ended \in BOOLEAN /\ master \in BOOLEAN /\ up \in BOOLEAN
    /\ got \subseteq 1..Segments

Init ==
    /\ master \in BOOLEAN
    /\ cl = [playing |-> FALSE, failed |-> FALSE, ready |-> FALSE, live |-> FALSE,
             kind |-> "m3u8", at |-> IF master THEN "master" ELSE "media", segs |-> <<>>,
             pos |-> 0, last |-> Nowhere, link |-> "none", soft |-> FALSE, timer |-> FALSE]
    /\ head = 0 /\ ended = FALSE /\ up = FALSE /\ got = {}

-----------------------------------------------------------------------------
\* client_fail: the user hears of it, nothing is tried again.
Fail(c) == [c EXCEPT !.link = "none", !.failed = TRUE]

\* hls_soft_retry: once more from the playlist after half a second or more.
SoftRetryAnew(c) == [c EXCEPT !.link = "none", !.live = TRUE, !.timer = TRUE, !.ready = FALSE]
SoftRetryOnce(c) == [c EXCEPT !.link = "none", !.timer = TRUE]     \* mutants

SoftRetry(c) == [c EXCEPT !.link = "none", !.live = TRUE, !.timer = TRUE]

\* schedule_refresh
ScheduleRefresh(c) == IF c.live THEN [c EXCEPT !.timer = TRUE] ELSE c

\* start_next_segment, do_fetch: the connection cannot be started, or it is.
Fetch(c, kind) ==
    {[c EXCEPT !.kind = kind, !.link = "dialing"]}
    \cup (IF up THEN {} ELSE {SoftRetry([c EXCEPT !.kind = kind])})

\* start_next_segment with kind "ts": the segment it had last is passed over.
Skipped(c) == IF c.pos < Len(c.segs) /\ c.segs[c.pos + 1] = c.last THEN c.pos + 1 ELSE c.pos

StartNext(c) ==
    LET p == [c EXCEPT !.pos = Skipped(c)]
    IN  IF c.kind = "m3u8" \/ c.segs = <<>> THEN Fetch(c, "m3u8")
        ELSE IF p.pos >= Len(p.segs) THEN {ScheduleRefresh(p)}
        ELSE Fetch(p, "ts")

\* on_http_done of a playlist.  parse_m3u8: a master playlist leaves no
\* segment and names the playlist, any other one the segments it lists.
Rewound(c) ==
    IF c.pos < Len(c.segs) THEN c.pos
    ELSE IF c.live /\ Len(c.segs) > 3 THEN Len(c.segs) - 3 ELSE 0

GotPlaylist(c) ==
    LET m == [c EXCEPT !.at = "media", !.segs = <<>>, !.live = TRUE]
        p == [c EXCEPT !.segs = Playlist, !.live = ~ended]
    IN  IF c.at = "master" THEN StartNext(m)
        ELSE IF p.segs = <<>> THEN {IF p.live THEN ScheduleRefresh(p) ELSE Fail(p)}
        ELSE StartNext([p EXCEPT !.pos = Rewound(p), !.kind = "ts"])

\* on_http_done of a segment; ready comes with its first packet.
Wanted(c) == c.segs[c.pos + 1]

GotSegment(c) ==
    StartNext([c EXCEPT !.last = Wanted(c), !.pos = @ + 1, !.ready = TRUE])

\* on_http_done: an answer to throw away was marked when its header came.
Done(c) == IF c.soft THEN SoftRetry([c EXCEPT !.soft = FALSE]) ELSE [c EXCEPT !.link = "none"]
-----------------------------------------------------------------------------
\* zms_http_hls_client_play, which keeps the playlist of a play before.
Play ==
    /\ ~cl.playing
    /\ cl' \in StartNext([cl EXCEPT !.playing = TRUE, !.ready = FALSE, !.failed = FALSE,
                                    !.pos = 0, !.last = Nowhere, !.kind = "m3u8",
                                    !.soft = FALSE, !.live = TRUE])
    /\ got' = {}
    /\ UNCHANGED <<head, ended, master, up>>

\* zms_http_hls_client_stop
Stop ==
    /\ cl.playing
    /\ cl' = [cl EXCEPT !.playing = FALSE, !.failed = FALSE, !.ready = FALSE,
                        !.link = "none", !.timer = FALSE, !.soft = FALSE]
    /\ UNCHANGED <<head, ended, master, up, got>>

\* on_io_connected: sends the request
Connected ==
    /\ cl.link = "dialing"
    /\ cl' = [cl EXCEPT !.link = "open"]
    /\ UNCHANGED <<head, ended, master, up, got>>

\* on_transport_data, on_http_header, on_http_content, on_io_closed: a whole
\* answer.  A segment that left the server's window is refused.
Answered ==
    /\ cl.link = "open" /\ ~cl.soft
    /\ cl.kind = "ts" => Wanted(cl) > head - Window
    /\ LET c == Done(cl)
       IN  /\ cl' \in IF cl.kind = "m3u8" THEN GotPlaylist(c) ELSE GotSegment(c)
           /\ got' = IF cl.kind = "ts" THEN got \cup {Wanted(cl)} ELSE got
    /\ UNCHANGED <<head, ended, master, up>>

\* The server will not give what it is asked for.
Refusing == ~up \/ (cl.kind = "ts" /\ Wanted(cl) <= head - Window)

\* An answer with another status, or one cut short: marked, then thrown away
\* when it is complete or the connection closes.
Refused ==
    /\ cl.link = "open" /\ (cl.soft \/ Refusing)
    /\ cl' = [Done([cl EXCEPT !.soft = TRUE]) EXCEPT !.kind = "m3u8"]
    /\ UNCHANGED <<head, ended, master, up, got>>

\* on_tcp_error with nothing received: the mark of an answer without a body
\* stays and is taken for one of the next answer.
Broken ==
    /\ \/ cl.link = "dialing" /\ ~up /\ cl' = SoftRetry(cl)
       \/ cl.link = "open" /\ ~up /\ cl' = SoftRetry(cl)
       \/ cl.link = "open" /\ Refusing /\ cl' = SoftRetry([cl EXCEPT !.soft = TRUE])
    /\ UNCHANGED <<head, ended, master, up, got>>

\* on_http_header of what is not a response, a chunk line too long
Garbage ==
    /\ cl.link = "open" /\ ~up
    /\ cl' = Fail(cl)
    /\ UNCHANGED <<head, ended, master, up, got>>

\* refresh_task
Refresh ==
    /\ cl.timer
    /\ LET c == [cl EXCEPT !.timer = FALSE]
       IN  cl' \in IF c.playing /\ c.live THEN StartNext([c EXCEPT !.kind = "m3u8", !.link = "none"]) ELSE {c}
    /\ UNCHANGED <<head, ended, master, up, got>>

\* The server.
Publish ==
    /\ head < Segments /\ ~ended
    /\ head' = head + 1
    /\ UNCHANGED <<cl, ended, master, up, got>>

EndList ==
    /\ ~ended
    /\ ended' = TRUE
    /\ UNCHANGED <<cl, head, master, up, got>>

ComesUp ==
    /\ ~up
    /\ up' = TRUE
    /\ UNCHANGED <<cl, head, ended, master, got>>

ClientStep == Connected \/ Answered \/ Refused \/ Broken \/ Refresh
Next == Play \/ Stop \/ ClientStep \/ Garbage \/ Publish \/ EndList \/ ComesUp

\* The poller runs timers and connections; a server that is up answers.
Spec == Init /\ [][Next]_vars
FairSpec == Spec /\ WF_vars(ClientStep)
-----------------------------------------------------------------------------
\* The client behind the proxy (PullClient.tla).
Phase == IF ~cl.playing THEN "idle"
         ELSE IF cl.failed THEN "failed"
         ELSE IF cl.ready THEN "ready" ELSE "dialing"

Client == INSTANCE PullClient WITH phase <- Phase

(* What is tried again is the same play: no retry of the client's own      *)
(* makes it ready anew or goes on after it has reported an error.          *)
ClientContract == Client!Spec

(* However often a playlist or a segment was refused, cut short or broken  *)
(* off, and however the window slid meanwhile, a client left to play a     *)
(* server that works again reaches the newest segment: no retry is dropped *)
(* (the comment in play: "otherwise ... refresh_task is discarded").       *)
LeftToPlay == cl.playing /\ ~cl.failed /\ head > 0 /\ up
Follows == <>[]LeftToPlay => <>(head \in got)
=============================================================================
