---------------------------- MODULE WhipIngress -----------------------------
(***************************************************************************)
(* The packets of a WHIP publisher on their way into the stream: a network *)
(* that loses, repeats and reorders them, the SRTP receiver of             *)
(* webrtc_srtp.c and webrtc_whip_ingress.c, which looks for the parameter  *)
(* sets the offer did not bring before it hands the payload to the         *)
(* demuxer.  Packets carry their number among all packets sent, from the   *)
(* publisher's first (random) sequence number on; the wire has it modulo   *)
(* SeqMod.                                                                 *)
(***************************************************************************)
EXTENDS SrtpContext

CONSTANTS
    Window,        \* the network holds a packet back by fewer packets than this
    MaxPackets     \* bound: packets sent

WhipIngressAssumption == /\ SeqMod \in Nat \ {0} /\ MaxPackets \in Nat
                         /\ Window \in Nat \ {0} /\ 2 * Window < SeqMod

VARIABLES
    first,     \* the number the publisher starts with
    next,      \* the next packet
    air,       \* packets under way: [n, nal]
    ready,     \* handshake finished and media started
    ctx,       \* the receiver's context
    prev,      \* the number that arrived last, -1 before the first
    heard,     \* a packet of the publisher's first round was understood
    refused,   \* a tag did not fit
    upset,     \* something arrived that the count cannot follow
    sets,      \* parameter sets stored
    video      \* the stream's video track is ready

vars == <<first, next, air, ready, ctx, prev, heard, refused, upset, sets, video>>

\* One packet may carry both parameter sets (STAP-A), one of them, or a slice.
Nals == {{"sps", "pps"}, {"sps"}, {"pps"}, {}}

Init ==
    /\ first \in 0..SeqMod - 1 /\ next = first /\ air = {} /\ ready = FALSE
    /\ ctx = FreshContext /\ prev = -1 /\ heard = FALSE /\ refused = FALSE
    /\ upset = FALSE /\ sets = {} /\ video = FALSE

\* The publisher (external) sends; what is Window behind is lost.
Send == \E nals \in Nals :
    /\ next < first + MaxPackets
    /\ next' = next + 1
    /\ air' = {p \in air : p.n > next - Window} \cup {[n |-> next, nals |-> nals]}
    /\ UNCHANGED <<first, ready, ctx, prev, heard, refused, upset, sets, video>>

\* The last packet of the handshake: webrtc_whip_start_media.
StartMedia ==
    /\ ~ready /\ ready' = TRUE
    /\ UNCHANGED <<first, next, air, ctx, prev, heard, refused, upset, sets, video>>

\* whip_collect_h264_rtp_ps and whip_try_apply_h264_ps: stored until the
\* track is ready, which it is with both.
Collected(nals) == IF video THEN sets ELSE sets \cup nals
VideoReady(s) == video \/ s = {"sps", "pps"}

\* A packet of before a rollover behind one of after it, or one behind a
\* hole of half the numbers.
Upsets(n) == prev >= 0 /\ (n \div SeqMod < prev \div SeqMod \/ 2 * (n - prev) >= SeqMod)

\* webrtc_whip_on_rtp
OnRtp(p) ==
    /\ ctx' = Unprotected(ctx, p.n)
    /\ prev' = p.n
    /\ upset' = (upset \/ Upsets(p.n))
    /\ IF Understood(ctx, p.n)
       THEN /\ heard' = (heard \/ p.n < SeqMod)
            /\ sets' = Collected(p.nals) /\ video' = VideoReady(sets')
            /\ UNCHANGED refused
       ELSE refused' = TRUE /\ UNCHANGED <<heard, sets, video>>

\* zms_webrtc_whip_ingress_on_udp, for a packet that the network may deliver
\* once more.
OnUdp == \E p \in air, again \in BOOLEAN :
    /\ ~refused   \* bound: what comes after the first refusal is not followed
    /\ air' = IF again THEN air ELSE air \ {p}
    /\ IF ready THEN OnRtp(p)
       ELSE UNCHANGED <<ctx, prev, heard, refused, upset, sets, video>>
    /\ UNCHANGED <<first, next, ready>>

Next == Send \/ StartMedia \/ OnUdp

Spec == Init /\ [][Next]_vars
-----------------------------------------------------------------------------
(* Properties.                                                             *)

TypeOK ==
    /\ first \in 0..SeqMod - 1 /\ next \in Nat /\ air \subseteq [n : Nat, nals : Nals]
    /\ ready \in BOOLEAN /\ prev \in Nat \cup {-1} /\ upset \in BOOLEAN
    /\ heard \in BOOLEAN /\ refused \in BOOLEAN
    /\ sets \subseteq {"sps", "pps"} /\ video \in BOOLEAN

\* The receiver that heard the publisher's first round of numbers
\* understands every packet that arrives, through loss, repetition and
\* disorder and over every rollover, as long as no packet of before a
\* rollover comes behind one of after it and no hole is half the numbers
\* wide.  (When one comes late, the count moves a second time and the
\* receiver is deaf for the rest of the session.)
HearsAll == ~upset /\ (prev >= 0 => heard) => ~refused
=============================================================================
