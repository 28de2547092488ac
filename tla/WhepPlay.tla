------------------------------ MODULE WhepPlay ------------------------------
(***************************************************************************)
(* The media of one WHEP player: the DTLS handshake that starts it, the    *)
(* timer that pumps pictures out of the ring through the RTP muxer into    *)
(* the session's packet queue and from there through SRTP to the socket,   *)
(* and the feedback that sends the reader back to a key frame.             *)
(* whep_play_session.c, the sender's half of webrtc_srtp.c and the way     *)
(* into them from webrtc_session.c and webrtc_ice.c.                       *)
(*                                                                         *)
(* The ring is the sequence of pictures written so far, a picture the      *)
(* number of RTP packets it is cut into; one packet more, with the         *)
(* parameter sets, goes before every key picture cut into fragments, and   *)
(* all sequence numbers after it move by one.  Numbers are modulo SeqMod   *)
(* (2^16 in the code).                                                     *)
(***************************************************************************)
EXTENDS SrtpContext

CONSTANTS
    QueueCap,      \* slots of the packet queue (512)
    Margin,        \* the tick gives up when fewer slots are free (16)
    FrameBudget,   \* pictures per tick (8 or 32)
    FlushBudget,   \* packets sent per tick (256)
    Flights,       \* DTLS packets of the peer that finish the handshake
    Sizes,         \* packets a picture may be cut into
    MaxPictures,   \* bound: pictures written
    MaxFeedback    \* bound: PLI and NACK packets of the peer

WhepPlayAssumption ==
    /\ QueueCap \in Nat /\ Margin \in Nat /\ FrameBudget \in Nat \ {0}
    /\ FlushBudget \in Nat /\ Margin < FlushBudget /\ FlushBudget <= QueueCap
    /\ SeqMod \in Nat \ {0} /\ Flights \in Nat \ {0} /\ Sizes \subseteq Nat \ {0}
    /\ MaxPictures \in Nat /\ MaxFeedback \in Nat

VARIABLES
    ring,      \* the pictures written: [key, size]
    pos,       \* the next one the reader takes
    session,   \* "up", or "gone" once it is destroyed
    dtls,      \* packets of the handshake taken
    start,     \* the deferred start waits in the poller
    media,     \* media_started, and with it the timer
    mux,       \* the muxer's next sequence number
    bias,      \* play_h264_seq_bias
    queue,     \* play_rtp_q
    made,      \* packets put into the queue since the start
    srtp,      \* the sender's context: [ready, last, roc]
    sent,      \* the last packet that was protected, or NoPacket
    feedback   \* PLI and NACK packets taken

vars == <<ring, pos, session, dtls, start, media, mux, bias, queue, made, srtp, sent, feedback>>

FirstSeq == 1
NoPacket == [what |-> "none", seq |-> 0, n |-> 0]

\* The newest key picture of the ring, 0 while there is none.
KeyPos == IF \E i \in DOMAIN ring : ring[i].key
          THEN CHOOSE i \in DOMAIN ring :
                  ring[i].key /\ \A j \in DOMAIN ring : ring[j].key => j <= i
          ELSE 0

Init ==
    /\ ring \in {<<[key |-> TRUE, size |-> k]>> : k \in Sizes} /\ pos = 1
    /\ session = "up" /\ dtls = 0 /\ start = FALSE /\ media = FALSE
    /\ mux = FirstSeq /\ bias = 0 /\ queue = <<>> /\ made = 0
    /\ srtp = FreshContext /\ sent = NoPacket /\ feedback = 0
-----------------------------------------------------------------------------
(* Packets.                                                                *)

\* webrtc_rtp_is_h264_idr_fu_start: only a picture of several packets is
\* cut into fragments.
Fragmented(p) == p.key /\ p.size > 1

\* webrtc_rtp_bump_seq
Bumped(seq, b) == (seq + b) % SeqMod

\* A bug: the numbers behind the parameter sets do not move.
StapFirstUnbiased(t, p) ==
    IF Fragmented(p)
    THEN [t EXCEPT !.out = Append(@, [what |-> "sets", seq |-> Bumped(t.mux, t.bias)])]
    ELSE t

\* webrtc_on_mux_rtp and webrtc_play_build_h264_stap_a: the packet with the
\* parameter sets takes the number the fragment would have had.
StapFirst(t, p) ==
    IF Fragmented(p)
    THEN [t EXCEPT !.out = Append(@, [what |-> "sets", seq |-> Bumped(t.mux, t.bias)]),
                   !.bias = (@ + 1) % SeqMod]
    ELSE t

\* The muxer cuts a picture and hands the packets over one by one.
Cut(t, p) ==
    LET head == StapFirst(t, p)
        body == [i \in 1..p.size |->
                    [what |-> IF i > 1 THEN "rest"
                              ELSE IF Fragmented(p) THEN "fragment" ELSE "whole",
                     seq |-> Bumped(t.mux + i - 1, head.bias)]]
    IN [head EXCEPT !.out = @ \o body, !.mux = (@ + p.size) % SeqMod]

\* What k pictures from pos on are cut into.
PumpOut[k \in 0..FrameBudget] ==
    IF k = 0 THEN [mux |-> mux, bias |-> bias, out |-> <<>>]
    ELSE Cut(PumpOut[k - 1], ring[pos + k - 1])

\* webrtc_play_rtp_q_push of a run of packets, each with its number among
\* all packets made: a full queue drops its oldest.
Numbered(out) == [i \in DOMAIN out |-> [what |-> out[i].what, seq |-> out[i].seq, n |-> made + i]]
Dropping(q) == IF Len(q) <= QueueCap THEN q ELSE SubSeq(q, Len(q) - QueueCap + 1, Len(q))
Pushed(q, out) == Dropping(q \o Numbered(out))

\* webrtc_play_rtp_q_flush: how many packets leave the queue.  One the socket
\* refuses is gone and not counted, so one more may follow it.
FlushCount(q, refused) ==
    IF Len(q) < FlushBudget + refused THEN Len(q) ELSE FlushBudget + refused

\* webrtc_play_send_rtp_item of the packets that leave.
Seqs(out) == [i \in DOMAIN out |-> out[i].seq]
Sent(c, out) == Protected(c, Seqs(out))
-----------------------------------------------------------------------------
(* The session.                                                            *)

\* A picture reaches the ring.
Write == \E key \in BOOLEAN, size \in Sizes :
    /\ Len(ring) < MaxPictures
    /\ ring' = Append(ring, [key |-> key, size |-> size])
    /\ UNCHANGED <<pos, session, dtls, start, media, mux, bias, queue, made, srtp, sent, feedback>>

\* webrtc_handle_dtls: the packet that finishes the handshake asks for the
\* start of the media, once.
HandleDtls ==
    /\ session = "up" /\ dtls < Flights
    /\ dtls' = dtls + 1 /\ start' = (dtls' = Flights)
    /\ UNCHANGED <<ring, pos, session, media, mux, bias, queue, made, srtp, sent, feedback>>

\* webrtc_play_start_media on the next round of the poller: keys, queue,
\* muxer, the reader at the newest key picture, the timer.  The code does
\* not cancel this start when the session is destroyed first; Destroy waits.
StartMedia ==
    /\ start /\ start' = FALSE /\ media' = TRUE
    /\ srtp' = FreshContext /\ queue' = <<>> /\ mux' = FirstSeq /\ bias' = 0 /\ made' = 0
    /\ pos' = KeyPos
    /\ UNCHANGED <<ring, session, dtls, sent, feedback>>

\* webrtc_play_pump_timer: a queue with little room is left as it is; else
\* some pictures go in and a share of the packets goes out.
PumpTimer == \E refused \in {0, 1} :
    /\ media
    /\ Len(queue) + Margin < QueueCap
    /\ \E k \in 0..FrameBudget :
        /\ pos + k <= Len(ring) + 1
        /\ LET t == PumpOut[k]
               q == Pushed(queue, t.out)
               c == FlushCount(q, refused)
           IN /\ pos' = pos + k /\ mux' = t.mux /\ bias' = t.bias /\ made' = made + Len(t.out)
              /\ queue' = SubSeq(q, c + 1, Len(q))
              /\ srtp' = Sent(srtp, SubSeq(q, 1, c))
              /\ sent' = IF c = 0 THEN sent ELSE q[c]
    /\ UNCHANGED <<ring, session, dtls, start, media, feedback>>

\* webrtc_on_pli, from zms_webrtc_play_input: a PLI or a NACK (found by
\* webrtc_rtcp.c anywhere in the compound packet) sends the reader to the
\* newest key picture, back or forth.
OnPli ==
    /\ media /\ feedback < MaxFeedback /\ feedback' = feedback + 1
    /\ pos' = KeyPos
    /\ UNCHANGED <<ring, session, dtls, start, media, mux, bias, queue, made, srtp, sent>>

\* zms_webrtc_session_destroy: queue, timer, muxer and keys go.
Destroy ==
    /\ session = "up" /\ ~start /\ session' = "gone"
    /\ media' = FALSE /\ queue' = <<>> /\ dtls' = Flights
    /\ UNCHANGED <<ring, pos, start, mux, bias, made, srtp, sent, feedback>>

Next == Write \/ HandleDtls \/ StartMedia \/ PumpTimer \/ OnPli \/ Destroy

Spec == Init /\ [][Next]_vars
-----------------------------------------------------------------------------
(* Properties.                                                             *)

TypeOK ==
    /\ ring \in Seq([key : BOOLEAN, size : Sizes]) /\ pos \in Nat
    /\ session \in {"up", "gone"} /\ dtls \in 0..Flights
    /\ start \in BOOLEAN /\ media \in BOOLEAN
    /\ mux \in Nat /\ bias \in Nat /\ made \in Nat /\ feedback \in Nat
    /\ queue \in Seq([what : {"sets", "fragment", "rest", "whole"}, seq : Nat, n : Nat])

\* The tick never meets a queue so full that it gives up: it would not send
\* then either, and the queue would stay as it is for good
\* (webrtc_play_pump_work_impl returns before the flush).
NeverStuck == media => Len(queue) + Margin < QueueCap

\* What waits in the queue are the last packets made, numbered without a
\* gap through every insertion of parameter sets and every overflow, and
\* what was sent last came before them.
Consecutive ==
    /\ \A i \in DOMAIN queue :
          /\ queue[i].n = made - Len(queue) + i
          /\ queue[i].seq = (FirstSeq + queue[i].n - 1) % SeqMod
    /\ media /\ sent.n > 0 =>
          /\ sent.n <= made - Len(queue)
          /\ sent.seq = (FirstSeq + sent.n - 1) % SeqMod

\* The parameter sets lie right before the fragments of a key picture,
\* whatever was dropped before them.
SetsBeforeKey == \A i \in DOMAIN queue :
    queue[i].what = "fragment" => \/ i = 1
                                  \/ queue[i - 1].what = "sets"

\* The rollover count the packets are encrypted with is the true one, though
\* an overflow of the queue leaves holes in the numbers.
RolloverTrue == media /\ sent.n > 0 => srtp.roc = (FirstSeq + sent.n - 1) \div SeqMod
=============================================================================
