----------------------------- MODULE RtmpChunk ------------------------------
(***************************************************************************)
(* The chunk layer of the RTMP client (rtmp_protocol*.c): what an upstream *)
(* server writes as chunks of several interleaved chunk streams comes back *)
(* as the messages it sent, whatever pieces the network delivers.          *)
(*                                                                         *)
(* The wire is a sequence of units: a header [cs, fmt, field, len, type],  *)
(* an extended timestamp [ts], or one payload unit [of, at] (unit at of    *)
(* message of).  A message is [cs, type, len, ts, size]; size is what a    *)
(* "size" message sets.  The message stream id is left out, it is carried  *)
(* like type.  The upstream server is external: it sends what the chunk    *)
(* format allows.                                                          *)
(***************************************************************************)
EXTENDS Integers, Sequences, SequencesExt

CONSTANTS
    Streams,     \* chunk stream ids in use, below ZMS_RTMP_MAX_CS
    Lens,        \* lengths of messages, in units
    Deltas,      \* time from one message of a chunk stream to the next
    Sizes,       \* chunk sizes an upstream server sets, 0 stands for the default
    DefaultSize, \* ZMS_RTMP_DEFAULT_CHUNK
    Ext,         \* 0xffffff
    MaxMessages  \* bound: messages sent

ChunkAssumption ==
    /\ Lens \subseteq Nat /\ Deltas \subseteq Nat /\ Sizes \subseteq Nat
    /\ DefaultSize \in Nat \ {0} /\ Ext \in Nat \ {0}

VARIABLES
    sent,        \* the messages sent, in the order they were begun
    peer,        \* upstream: per chunk stream the message under way and what it remembers
    outSize,     \* upstream: chunk size
    done,        \* messages whose last chunk is on the wire, in that order
    wire,        \* units not yet delivered
    rx,          \* rx_buf
    cs,          \* zms_rtmp_cs_state per chunk stream
    inSize,      \* in_chunk_size
    got,         \* messages given to on_cmd / on_chunk
    parsing      \* rtmp_chunk_parse has not yet met an incomplete chunk

upstream == <<sent, peer, outSize, done>>
client == <<rx, cs, inSize, got, parsing>>
vars == <<upstream, wire, client>>

Init ==
    /\ sent = <<>> /\ done = <<>> /\ wire = <<>> /\ outSize = DefaultSize
    /\ peer = [s \in Streams |-> [of |-> 0, at |-> 0, len |-> 0, type |-> "none",
                                  ts |-> 0, field |-> 0, fresh |-> TRUE]]
    /\ rx = <<>> /\ inSize = DefaultSize /\ got = <<>> /\ parsing = FALSE
    /\ cs = [s \in Streams |-> [len |-> 0, type |-> "none", ts |-> 0, field |-> 0,
                                abs |-> FALSE, body |-> <<>>,
                                lastLen |-> 0, lastType |-> "none"]]
-----------------------------------------------------------------------------
(* The upstream server.                                                    *)

Least(a, b) == IF a < b THEN a ELSE b

Payload(m, from, n) == [k \in 1..n |-> [of |-> m, at |-> from + k]]

\* The header chunk of a format: 0 carries the timestamp, 1 to 3 a delta; 2
\* repeats length and type, 3 the delta as well (rtmp_chunk_send writes 0 and 3).
Formats(s, len, type, delta) ==
    {0} \cup (IF peer[s].fresh THEN {} ELSE
        {1} \cup (IF peer[s].len = len /\ peer[s].type = type
                  THEN {2} \cup (IF peer[s].field = delta THEN {3} ELSE {}) ELSE {}))

Header(s, fmt, field, len, type) ==
    <<[cs |-> s, fmt |-> fmt, field |-> Least(field, Ext), len |-> len, type |-> type]>>
    \o (IF field >= Ext THEN <<[ts |-> field]>> ELSE <<>>)

\* The last chunk of a message ends it; one of type "size" sets the chunk size.
Finish(m, at) ==
    IF at = m.len
    THEN /\ done' = Append(done, m)
         /\ outSize' = IF m.type = "size" THEN (IF m.size = 0 THEN DefaultSize ELSE m.size)
                       ELSE outSize
    ELSE UNCHANGED <<done, outSize>>

Send(s, fmt, len, type, delta, size) ==
    /\ Len(sent) < MaxMessages
    /\ peer[s].of = 0
    /\ fmt \in Formats(s, len, type, delta)
    /\ (type = "size") => len = 1
    /\ LET n == Len(sent) + 1
           ts == peer[s].ts + delta
           field == IF fmt = 0 THEN ts ELSE delta
           m == [cs |-> s, type |-> type, len |-> len, ts |-> ts, size |-> size]
           k == Least(len, outSize)
       IN /\ sent' = Append(sent, m)
          /\ wire' = wire \o Header(s, fmt, field, len, type) \o Payload(n, 0, k)
          /\ peer' = [peer EXCEPT ![s] = [of |-> IF k = len THEN 0 ELSE n, at |-> k,
                                          len |-> len, type |-> type, ts |-> ts,
                                          field |-> field, fresh |-> FALSE]]
          /\ Finish(m, k)
    /\ UNCHANGED client

SendMore(s) ==
    /\ peer[s].of # 0
    /\ LET p == peer[s]
           k == Least(p.len - p.at, outSize)
       IN /\ wire' = wire \o Header(s, 3, p.field, p.len, p.type) \o Payload(p.of, p.at, k)
          /\ peer' = [peer EXCEPT ![s].at = p.at + k,
                                  ![s].of = IF p.at + k = p.len THEN 0 ELSE @]
          /\ Finish(sent[p.of], p.at + k)
    /\ UNCHANGED <<sent, client>>
-----------------------------------------------------------------------------
(* The client: zms_rtmp_protocol_input.                                    *)

Receive(n) ==
    /\ ~parsing /\ n \in 1..Len(wire)
    /\ rx' = rx \o SubSeq(wire, 1, n)
    /\ wire' = SubSeq(wire, n + 1, Len(wire))
    /\ parsing' = TRUE
    /\ UNCHANGED <<upstream, cs, inSize, got>>

\* The state a header leaves, complete or not: a chunk that starts a message
\* begins with what the last message of the chunk stream left
\* (cs_restore_from_last), then the header's own fields.
Fresh(c) == c.body = <<>> /\ c.len = 0

RestoredKeepsAbs(c) == IF Fresh(c) THEN [c EXCEPT !.len = c.lastLen, !.type = c.lastType]
                       ELSE c              \* mutant: is_abs_stamp not reset
Restored(c) ==
    IF ~Fresh(c) THEN c
    ELSE IF c.lastLen = 0 THEN [c EXCEPT !.abs = FALSE]
    ELSE [c EXCEPT !.len = c.lastLen, !.type = c.lastType, !.abs = FALSE]

WithHeader(c0, h) ==
    LET c == Restored(c0) IN
    CASE h.fmt = 0 -> [c EXCEPT !.abs = TRUE, !.len = h.len, !.type = h.type,
                                !.body = <<>>, !.field = h.field]
      [] h.fmt = 1 -> [c EXCEPT !.len = h.len, !.type = h.type, !.body = <<>>, !.field = h.field]
      [] h.fmt = 2 -> [c EXCEPT !.field = h.field]
      [] h.fmt = 3 -> c

HeaderLen(c) == IF c.field = Ext THEN 2 ELSE 1

MoreUnbounded(c) == c.len - Len(c.body)                      \* mutant: chunk size ignored
More(c) == Least(c.len - Len(c.body), inSize)

\* dispatch_msg
Dispatched(c) == [c EXCEPT !.lastLen = c.len, !.lastType = c.type, !.body = <<>>, !.len = 0]

SizeSet(c) == IF c.type = "size" /\ c.len > 0
              THEN LET v == sent[c.body[1].of].size IN IF v = 0 THEN DefaultSize ELSE v
              ELSE inSize

\* One turn of the loop of rtmp_chunk_parse.
ParseIncomplete ==
    /\ parsing
    /\ IF rx = <<>> THEN TRUE
       ELSE LET c == WithHeader(cs[rx[1].cs], rx[1]) IN Len(rx) < HeaderLen(c) + More(c)
    /\ cs' = IF rx = <<>> THEN cs ELSE [cs EXCEPT ![rx[1].cs] = WithHeader(@, rx[1])]
    /\ parsing' = FALSE
    /\ UNCHANGED <<upstream, wire, rx, inSize, got>>

ParseChunk ==
    /\ parsing /\ rx # <<>>
    /\ LET s == rx[1].cs
           c == WithHeader(cs[s], rx[1])
           h == HeaderLen(c)
           n == More(c)
       IN /\ Len(rx) >= h + n
          /\ LET d == [c EXCEPT !.body = @ \o SubSeq(rx, h + 1, h + n)]
                 stamp == IF c.field = Ext THEN rx[2].ts ELSE c.field
                 e == [d EXCEPT !.ts = stamp + (IF d.abs THEN 0 ELSE d.ts)]
             IN IF Len(d.body) >= d.len
                THEN /\ got' = Append(got, [cs |-> s, type |-> e.type, ts |-> e.ts,
                                            len |-> e.len, body |-> e.body])
                     /\ inSize' = SizeSet(e)
                     /\ cs' = [cs EXCEPT ![s] = Dispatched(e)]
                ELSE /\ cs' = [cs EXCEPT ![s] = d]
                     /\ UNCHANGED <<got, inSize>>
          /\ rx' = SubSeq(rx, h + n + 1, Len(rx))
    /\ UNCHANGED <<upstream, wire, parsing>>
-----------------------------------------------------------------------------
Next ==
    \/ \E s \in Streams, fmt \in 0..3, len \in Lens, delta \in Deltas :
         \/ Send(s, fmt, len, "media", delta, 0)
         \/ \E size \in Sizes : Send(s, fmt, len, "size", delta, size)
    \/ \E s \in Streams : SendMore(s)
    \/ \E n \in 1..Len(wire) : Receive(n)
    \/ ParseIncomplete \/ ParseChunk

Spec == Init /\ [][Next]_vars
-----------------------------------------------------------------------------
TypeOK ==
    /\ Len(sent) <= MaxMessages /\ outSize > 0 /\ inSize > 0 /\ parsing \in BOOLEAN
    /\ \A s \in Streams : peer[s].of \in 0..Len(sent) /\ Len(cs[s].body) <= cs[s].len

\* Message k the client handed on is message k the server completed: the same
\* chunk stream, type, length and timestamp, and its own payload in order
\* (rtmp_protocol_chunk_read.c, rtmp_chunk_parse and dispatch_msg).
Same(m, g) ==
    /\ g.cs = m.cs /\ g.type = m.type /\ g.len = m.len /\ g.ts = m.ts
    /\ \A i \in 1..m.len : g.body[i].at = i /\ sent[g.body[i].of] = m

Reassembled == Len(got) <= Len(done) /\ \A k \in 1..Len(got) : Same(done[k], got[k])

\* When all units arrived nothing is left in the buffer and nothing is missing:
\* the parser never waits for bytes that do not come.
NoStall == wire = <<>> /\ ~parsing => rx = <<>> /\ Len(got) = Len(done)
=============================================================================
