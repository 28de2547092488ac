---------------------------- MODULE HttpFraming ----------------------------
(***************************************************************************)
(* How a byte stream is cut into messages: the framer under every HTTP     *)
(* connection and every RTSP connection (session/http/http_message_framer.c *)
(* with http_request_reader.c and session/rtsp/rtsp_splitter.c on top).    *)
(*                                                                         *)
(* Bytes are tokens.  A message is a header of two ("h" and an end that    *)
(* carries the content length) and a body, an interleaved RTP packet is    *)
(* "$", its length and a payload; "$" in front of anything else is text.   *)
(* The peer sends the items chosen at Init, which arrive in reads of any   *)
(* length.  The item "play" is the message whose handler switches RTP on   *)
(* (rtsp_client.c on 200 to PLAY, rtsp_session_play.c on PLAY); the peer   *)
(* sends RTP after it only.  No message fills the cache (4 MB, 256 KB for   *)
(* RTSP), which would be dropped with what it holds.                       *)
(***************************************************************************)
EXTENDS Integers, Sequences, FiniteSets, SequencesExt

CONSTANTS MaxItems,     \* bound: items in the stream
          Bodies        \* lengths of bodies and payloads

HttpFramingAssumption ==
    MaxItems \in Nat /\ Bodies \subseteq 0..2

VARIABLES items,    \* what the peer sends
          taken,    \* bytes received
          fr,       \* the framer: remain, content_len; the splitter: rtp
          out       \* what was handed on

vars == <<items, taken, fr, out>>

EndByte == <<"e0", "e1", "e2">>
LenByte == <<"n0", "n1", "n2">>
\* A body may hold what looks like a header's end or a packet's start.
Filler == <<"e0", "$">>
Items == [kind : {"msg", "rtp", "play"}, len : Bodies]
Orders == {s \in BoundedSeq(Items, MaxItems) :
               /\ \A i \in DOMAIN s : s[i].kind = "play" => s[i].len = 0
               /\ \A i \in DOMAIN s :
                      s[i].kind = "rtp" => \E j \in 1..(i - 1) : s[j].kind = "play"}

Bytes(x) == (IF x.kind = "rtp" THEN <<"$", LenByte[x.len + 1]>>
             ELSE <<IF x.kind = "play" THEN "p" ELSE "h", EndByte[x.len + 1]>>)
            \o SubSeq(Filler, 1, x.len)
Stream(s) == FlattenSeq([i \in DOMAIN s |-> Bytes(s[i])])

NoMsg == [kind |-> "none", len |-> 0]
Init ==
    /\ items \in Orders
    /\ taken = 0 /\ out = <<>>
    /\ fr = [remain |-> <<>>, content_len |-> 0, rtp |-> FALSE, msg |-> NoMsg]

-----------------------------------------------------------------------------
IndexOf(bytes, set) ==
    LET at == {i \in DOMAIN bytes : bytes[i] \in set}
    IN  IF at = {} THEN 0 ELSE CHOOSE i \in at : \A j \in at : i <= j
LenOf(byte) == CHOOSE n \in 0..2 : byte \in {EndByte[n + 1], LenByte[n + 1]}

\* search_rtsp_tail_l: where the first packet or header ends, 0 for not yet
Tail_l(rtp, bytes) ==
    IF rtp /\ bytes[1] = "$"
    THEN IF Len(bytes) < 2 \/ Len(bytes) < 2 + LenOf(bytes[2]) THEN 0
         ELSE 2 + LenOf(bytes[2])
    ELSE IndexOf(bytes, {EndByte[n + 1] : n \in 0..2})

\* on_rtsp_header, on_packet_header: w is the framer, the bytes it has and
\* what it handed on.
OnHeader(w, end) ==
    LET h == SubSeq(w.bytes, 1, end)
        r == [w EXCEPT !.bytes = SubSeq(@, end + 1, Len(@))]
        m == [kind |-> IF h[1] = "p" THEN "play" ELSE "msg", len |-> LenOf(h[end])]
    IN  IF w.fr.rtp /\ h[1] = "$"
        THEN [r EXCEPT !.out = Append(@, [kind |-> "rtp", len |-> end - 2])]
        ELSE IF h[1] = "$" THEN r                       \* no header that parses
        ELSE IF m.len = 0
        THEN [r EXCEPT !.out = Append(@, m), !.fr.rtp = @ \/ m.kind = "play"]
        ELSE [r EXCEPT !.fr.msg = m, !.fr.content_len = m.len]

\* zms_http_message_framer_input: headers one after another, then the body
\* of the last one when it is there, and so on; what is left is kept.
RECURSIVE Split(_)
Split(w) ==
    IF w.fr.content_len = 0
    THEN IF w.bytes = <<>> \/ Tail_l(w.fr.rtp, w.bytes) = 0
         THEN [w EXCEPT !.fr.remain = w.bytes]
         ELSE Split(OnHeader(w, Tail_l(w.fr.rtp, w.bytes)))
    ELSE IF Len(w.bytes) < w.fr.content_len
         THEN [w EXCEPT !.fr.remain = w.bytes]
         ELSE Split([w EXCEPT !.out = Append(@, w.fr.msg), !.fr.content_len = 0,
                              !.bytes = SubSeq(@, w.fr.content_len + 1, Len(@))])

InputAnew(bytes) ==         \* a framer that forgets a body it waits for
    Split([fr |-> [fr EXCEPT !.remain = <<>>, !.content_len = 0],
           bytes |-> fr.remain \o bytes, out |-> <<>>])

Input(bytes) ==
    Split([fr |-> [fr EXCEPT !.remain = <<>>], bytes |-> fr.remain \o bytes, out |-> <<>>])
-----------------------------------------------------------------------------
Receive ==
    \E n \in 1..(Len(Stream(items)) - taken) :
        LET bytes == SubSeq(Stream(items), taken + 1, taken + n)
        IN  /\ LET w == Input(bytes)
               IN  fr' = w.fr /\ out' = out \o w.out
            /\ taken' = taken + n
            /\ UNCHANGED items

Spec == Init /\ [][Receive]_vars
-----------------------------------------------------------------------------
Arrived == Cardinality({i \in DOMAIN items : Len(Stream(SubSeq(items, 1, i))) <= taken})

(* However the stream is cut into reads, and whatever the bodies look      *)
(* like, every message and packet is handed on, whole, in order and as     *)
(* soon as its last byte is there; RTP that follows PLAY in the same read  *)
(* is already seen as RTP.                                                 *)
AsSoonAsWhole == out = SubSeq(items, 1, Arrived)
=============================================================================
