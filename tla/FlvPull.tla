------------------------------ MODULE FlvPull ------------------------------
(***************************************************************************)
(* The HTTP-FLV pull client (session/http/http_flv_client.c) with its      *)
(* decoder of a chunked body and the framer that finds the tags in the     *)
(* body (media/container/flv/flv_tag_framer.c).                            *)
(*                                                                         *)
(* Bytes are tokens: the FLV header is two ("F"), a tag header two (its    *)
(* kind, its size), the previous-tag-size fields one ("P"); a chunk's size *)
(* line is a digit, CR and LF.  The server sends the tags chosen at Init   *)
(* and they arrive in reads of any length.  External: the TCP client, the  *)
(* signature check of flv_header_read, the end of the response header      *)
(* (HttpFraming.tla).                                                      *)
(***************************************************************************)
EXTENDS Integers, Sequences, FiniteSets, SequencesExt

CONSTANTS Modes,        \* bodies the servers send: "plain", "chunked"
          MaxTags,      \* bound: tags in the stream
          ChunkSizes    \* sizes of the chunks of a chunked body

FlvPullAssumption == /\ Modes \subseteq {"plain", "chunked"}
                            /\ MaxTags \in Nat
                            /\ ChunkSizes \subseteq 1..4

VARIABLES cl,       \* the client
          sent,     \* the server's: body mode, tags, the bytes of the body
          taken,    \* bytes of the body received
          out       \* tags handed on since the connection

vars == <<cl, sent, taken, out>>

Kinds == {"config", "media", "data"}
SizeByte == <<"S0", "S1", "S2">>
Digit == <<"1", "2", "3", "4">>
Tags == [kind : Kinds, size : 0..2]

TagBytes(t) == <<t.kind, SizeByte[t.size + 1]>> \o [i \in 1..t.size |-> "B"] \o <<"P">>
Flv(tags) == <<"F", "F", "P">> \o FlattenSeq([i \in DOMAIN tags |-> TagBytes(tags[i])])

\* The same in chunks of k bytes, which a live stream never ends.
Chunks(bytes, k) ==
    LET chunk(i) == SubSeq(bytes, k * i + 1, k * (i + 1))
    IN  FlattenSeq([i \in 1..(Len(bytes) \div k) |->
            <<Digit[k], "CR", "LF">> \o chunk(i - 1) \o <<"CR", "LF">>])

Fresh == [in_chunk |-> FALSE, left |-> 0, line |-> <<>>,             \* chunk_dec
          st |-> "HDR", scratch |-> <<>>, cur |-> [kind |-> "data", size |-> 0]]

Init ==
    /\ cl = [stopping |-> TRUE, link |-> "none", header |-> FALSE,
             ready |-> FALSE, failed |-> FALSE, dec |-> Fresh]
    /\ \E mode \in Modes, tags \in BoundedSeq(Tags, MaxTags), k \in ChunkSizes :
           sent = [mode |-> mode, tags |-> tags, chunk |-> IF mode = "plain" THEN 0 ELSE k,
                   bytes |-> IF mode = "plain" THEN Flv(tags) ELSE Chunks(Flv(tags), k)]
    /\ taken = 0 /\ out = <<>>

-----------------------------------------------------------------------------
(* zms_flv_tag_framer_feed, a byte at a time.  w is the client's work on   *)
(* one read: its decoder, the tags found, whether it failed, and how the   *)
(* chunk decoder stands towards the rest of the read.                      *)
Step(w, st, scratch) == [w EXCEPT !.dec.st = st, !.dec.scratch = scratch]

Size(byte) == IF \E n \in 1..3 : SizeByte[n] = byte
              THEN (CHOOSE n \in 1..3 : SizeByte[n] = byte) - 1 ELSE 0

Framed(w, byte) ==
    LET s == Append(w.dec.scratch, byte)
    IN  CASE w.dec.st = "HDR" ->
               IF Len(s) < 2 THEN Step(w, "HDR", s)
               ELSE IF s = <<"F", "F">> THEN Step(w, "PREV0", <<>>)
               ELSE [w EXCEPT !.failed = TRUE]
          [] w.dec.st = "PREV0" -> Step(w, "TAG_HDR", <<>>)
          [] w.dec.st = "TAG_HDR" ->
               IF Len(s) < 2 THEN Step(w, "TAG_HDR", s)
               ELSE [Step(w, IF Size(s[2]) = 0 THEN "TAG_PREV" ELSE "TAG_BODY", <<>>)
                         EXCEPT !.dec.cur = [kind |-> s[1], size |-> Size(s[2])]]
          [] w.dec.st = "TAG_BODY" ->
               IF Len(s) < w.dec.cur.size THEN Step(w, "TAG_BODY", s)
               ELSE [Step(w, "TAG_PREV", <<>>) EXCEPT !.tags = Append(@, w.dec.cur)]
          [] w.dec.st = "TAG_PREV" -> Step(w, "TAG_HDR", <<>>)

\* chunk_feed: a line ends at its first CR or LF, so the LF of a CRLF is
\* taken for the first byte of the chunk; after a chunk, CR and LF are passed
\* over in this read only; a line that is no number drops the rest of it.
EndsLine(byte) == byte \in {"CR", "LF"}
Number(line) == IF line # <<>> /\ \E n \in 1..4 : Digit[n] = line[1]
                THEN CHOOSE n \in 1..4 : Digit[n] = line[1] ELSE 0

Unchunked(w, byte) ==
    IF w.dropped \/ (w.skipping /\ EndsLine(byte)) THEN w
    ELSE IF ~w.dec.in_chunk THEN
        IF ~EndsLine(byte)
        THEN [w EXCEPT !.dec.line = Append(@, byte), !.skipping = FALSE]
        ELSE [w EXCEPT !.dec.line = <<>>, !.dec.left = Number(w.dec.line),
                       !.dec.in_chunk = Number(w.dec.line) > 0,
                       !.dropped = Number(w.dec.line) = 0, !.skipping = FALSE]
    ELSE LET f == Framed(w, byte)
             l == f.dec.left - 1
         IN  [f EXCEPT !.dec.left = l, !.dec.in_chunk = l > 0, !.skipping = l = 0]

Feed(w, byte) == IF sent.mode = "chunked" THEN Unchunked(w, byte) ELSE Framed(w, byte)

\* The framer starts anew with every read (a bug it must not have).
Forgetful(dec, bytes) ==
    FoldLeft(Feed, [dec |-> [dec EXCEPT !.scratch = <<>>], tags |-> <<>>, failed |-> FALSE,
                    skipping |-> FALSE, dropped |-> FALSE], bytes)

\* body_feed
Body(dec, bytes) ==
    FoldLeft(Feed, [dec |-> dec, tags |-> <<>>, failed |-> FALSE,
                    skipping |-> FALSE, dropped |-> FALSE], bytes)
-----------------------------------------------------------------------------
\* zms_http_flv_client_play
Play ==
    /\ cl.stopping
    /\ cl' = [cl EXCEPT !.stopping = FALSE, !.ready = FALSE, !.failed = FALSE,
                        !.link = "dialing"]
    /\ UNCHANGED <<sent, taken, out>>

\* zms_http_flv_client_stop
Stop ==
    /\ ~cl.stopping
    /\ cl' = [cl EXCEPT !.stopping = TRUE, !.link = "none", !.ready = FALSE, !.dec = Fresh]
    /\ UNCHANGED <<sent, taken, out>>

\* on_io_connected: sends GET
Connected ==
    /\ cl.link = "dialing"
    /\ cl' = [cl EXCEPT !.link = "open", !.header = FALSE, !.ready = FALSE, !.dec = Fresh]
    /\ taken' = 0 /\ out' = <<>>
    /\ UNCHANGED sent

\* on_http_header of a 200
Header ==
    /\ cl.link = "open" /\ ~cl.header
    /\ cl' = [cl EXCEPT !.header = TRUE, !.dec = Fresh]
    /\ UNCHANGED <<sent, taken, out>>

\* on_http_content, flv_feed, feed_tag: ready comes with the first audio or
\* video tag that is no configuration.
Receive ==
    /\ cl.link = "open" /\ cl.header
    /\ \E n \in 1..(Len(sent.bytes) - taken) :
           LET w == Body(cl.dec, SubSeq(sent.bytes, taken + 1, taken + n))
           IN  /\ cl' = [cl EXCEPT !.dec = w.dec, !.failed = @ \/ w.failed,
                                   !.ready = @ \/ \E i \in DOMAIN w.tags : w.tags[i].kind = "media"]
               /\ taken' = taken + n
               /\ out' = out \o w.tags
    /\ UNCHANGED sent

\* on_tcp_error, another status: client_fail
Broken ==
    /\ cl.link # "none"
    /\ cl' = [cl EXCEPT !.failed = TRUE, !.link = "none"]
    /\ UNCHANGED <<sent, taken, out>>

Next == Play \/ Stop \/ Connected \/ Header \/ Receive \/ Broken
Spec == Init /\ [][Next]_vars
-----------------------------------------------------------------------------
\* The tags of the body that have arrived whole; an empty one is passed over.
Arrived ==
    LET ends(i) == Len(Flv(SubSeq(sent.tags, 1, i))) - 1      \* without its "P"
        plain == IF sent.mode = "plain" THEN taken
                 ELSE LET whole == taken \div (sent.chunk + 5)
                          rest == (taken % (sent.chunk + 5)) - 3
                      IN  whole * sent.chunk + (IF rest < 0 THEN 0
                                                ELSE IF rest > sent.chunk THEN sent.chunk ELSE rest)
    IN  SelectSeq(SubSeq(sent.tags, 1, Cardinality({i \in DOMAIN sent.tags : ends(i) <= plain})),
                  LAMBDA t : t.size > 0)

(* However the body is cut into reads, the client hands on exactly the     *)
(* tags that have arrived, each as it was sent (http_flv_client.h: on_media *)
(* gets the tag as it is), and a body that is right is never an error.     *)
TagsAsSent == cl.link = "open" /\ cl.header => out = Arrived /\ ~cl.failed

TypeOK ==
    /\ cl.link \in {"none", "dialing", "open"}
    /\ {cl.stopping, cl.header, cl.ready, cl.failed} \subseteq BOOLEAN
    /\ taken \in 0..Len(sent.bytes)
    /\ out \in Seq(Tags)
=============================================================================
