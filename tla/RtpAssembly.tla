----------------------------- MODULE RtpAssembly -----------------------------
(***************************************************************************)
(* From RTP packets to pictures: zms_rtp_receiver sorts what an RTSP       *)
(* publisher or upstream sends, the demuxers of h264_over_rtp.c and        *)
(* h265_over_rtp.c put the slices of a picture (access unit) together.     *)
(* WHIP feeds the demuxer directly (webrtc_whip_on_rtp).                   *)
(*                                                                         *)
(* A slice is one packet; frag says that it is the last fragment of a      *)
(* fragmented slice.  The jitter queues of librtp are external: a queue    *)
(* hands packets out in order of their numbers, waits at a gap until its   *)
(* delay is over or the gap is filled, and drops what comes too late.  A   *)
(* queue with delay 0 never waits: the one inside the H.264 demuxer, which *)
(* passes opts->jitter_ms on as 0.  That of H.265 has 200 ms.  The         *)
(* depacketizer flags the packet after a gap (RTP_PAYLOAD_FLAG_PACKET_LOST)*)
(***************************************************************************)
EXTENDS Integers, Sequences, FiniteSetsExt, SequencesExt

CONSTANTS
    Codecs,      \* subset of {"h264", "h265"}
    Paths,       \* subset of {"tcp", "udp", "whip"}
    MaxPackets,  \* bound: packets sent
    MaxSlices    \* bound: slices of a picture

RtpAssemblyAssumption ==
    /\ Codecs \subseteq {"h264", "h265"} /\ Paths \subseteq {"tcp", "udp", "whip"}
    /\ MaxPackets \in Nat /\ MaxSlices \in Nat \ {0}

VARIABLES
    codec, path,  \* fixed when the track is set up
    sent,         \* the packets sent; packet n is sent[n]
    air,          \* numbers of those under way
    sorter,       \* zms_rtp_receiver's queue: next number (0: none seen), held
    sorted,       \* numbers drain_track is handing out
    inner,        \* the demuxer's own queue
    seq,          \* the depacketizer's last number, 0: none
    au,           \* d->au: numbers of the slices collected
    out,          \* frames given to on_frame_cb
    passed        \* numbers that reached the depacketizer

queues == <<sorter, sorted, inner>>
vars == <<codec, path, sent, air, queues, seq, au, out, passed>>

Queue == [next |-> 0, held |-> {}]

Init ==
    /\ codec \in Codecs /\ path \in Paths
    /\ sent = <<>> /\ air = {}
    /\ sorter = Queue /\ sorted = <<>> /\ inner = Queue
    /\ seq = 0 /\ au = <<>> /\ out = <<>> /\ passed = {}
-----------------------------------------------------------------------------
(* The sender and the network.                                             *)

NewPicture == sent = <<>> \/ Last(sent).mark

Send(mark, frag) ==
    /\ Len(sent) < MaxPackets
    /\ frag => codec = "h265"
    /\ LET slice == IF NewPicture THEN 1 ELSE Last(sent).slice + 1
           pic == IF sent = <<>> THEN 1
                  ELSE Last(sent).pic + (IF NewPicture THEN 1 ELSE 0)
       IN /\ mark \/ slice < MaxSlices
          /\ sent' = Append(sent, [pic |-> pic, slice |-> slice, mark |-> mark, frag |-> frag])
    /\ air' = air \cup {Len(sent')}
    /\ UNCHANGED <<codec, path, queues, seq, au, out, passed>>

Lose(n) ==
    /\ path # "tcp"
    /\ air' = air \ {n}
    /\ UNCHANGED <<codec, path, sent, queues, seq, au, out, passed>>
-----------------------------------------------------------------------------
(* The jitter queues.                                                      *)

\* What a queue may hand out: everything held up to some gap it gives up, and
\* on to the gap after it; everything when it does not wait.
Due(q, upTo) == {n \in q.held : \A m \in upTo..n : m = n \/ m <= upTo \/ m \in q.held}
Start(q) == IF q.next = 0 THEN Min(q.held) ELSE q.next
Releases(q, wait) ==
    LET all == q.held
        inOrder == {n \in all : \A m \in Start(q)..n : m \in all}
    IN IF ~wait THEN {all}
       ELSE {inOrder} \cup {{n \in all : n <= g} \cup Due(q, g) : g \in all}

Accept(q, n) == IF q.next # 0 /\ n < q.next THEN q ELSE [q EXCEPT !.held = @ \cup {n}]
After(q, R) == IF R = {} THEN q ELSE [next |-> Max(R) + 1, held |-> q.held \ R]
InSequence(R) == SetToSortSeq(R, <)

\* zms_rtp_receiver_input and drain_track; WHIP has no receiver in front.
Arrive(n) ==
    /\ path = "tcp" => n = Min(air)
    /\ sorted = <<>>
    /\ air' = air \ {n}
    /\ IF path = "whip"
       THEN /\ sorted' = <<n>>
            /\ UNCHANGED sorter
       ELSE LET q == Accept(sorter, n)
            IN \E R \in IF q.held = {} THEN {{}} ELSE Releases(q, TRUE) :
                  /\ sorter' = After(q, R)
                  /\ sorted' = InSequence(R)
    /\ UNCHANGED <<codec, path, sent, inner, seq, au, out, passed>>
-----------------------------------------------------------------------------
(* The demuxer.  d is the state [seq, au, out] it works on.                *)

\* is_first_mb_vcl; is_first_slice looks at a bit of the H.265 header that is
\* never set.
IsFirst(n) == codec = "h264" /\ sent[n].slice = 1

AuFlush(d) == IF d.au = <<>> THEN d
              ELSE [d EXCEPT !.out = Append(@, d.au), !.au = <<>>]

\* on_vcl_nal / on_vcl
OnVcl(d, n) ==
    LET e == IF IsFirst(n) THEN AuFlush(d) ELSE d
    IN [e EXCEPT !.au = Append(@, n)]

\* librtp_h264_packet / librtp_h265_packet
OnPacketKeeps(d, n) ==                      \* mutant: loss does not clear the picture
    [OnVcl(d, n) EXCEPT !.seq = n]
OnPacket(d, n) ==
    [IF d.seq # 0 /\ n # d.seq + 1 THEN [d EXCEPT !.au = <<>>] ELSE OnVcl(d, n)
     EXCEPT !.seq = n]

\* h265_rtp_fu_end
EndsPictureLate(n) == FALSE                 \* mutant: waits for the next picture
EndsPicture(n) == sent[n].mark \/ (codec = "h265" /\ sent[n].frag)

\* zms_h264_over_rtp_demuxer_input_rtp / zms_h265_over_rtp_demuxer_input_rtp:
\* the marker is the one of the packet put in, whatever the queue hands out.
InputRtp ==
    /\ sorted # <<>>
    /\ sorted' = Tail(sorted)
    /\ LET n == Head(sorted)
           q == Accept(inner, n)
       IN \E R \in IF q.held = {} THEN {{}} ELSE Releases(q, codec = "h265") :
             LET d == FoldLeft(OnPacket, [seq |-> seq, au |-> au, out |-> out], InSequence(R))
                 e == IF EndsPicture(n) THEN AuFlush(d) ELSE d
             IN /\ inner' = After(q, R)
                /\ passed' = passed \cup R
                /\ seq' = e.seq /\ au' = e.au /\ out' = e.out
    /\ UNCHANGED <<codec, path, sent, air, sorter>>
-----------------------------------------------------------------------------
Next == \/ \E mark, frag \in BOOLEAN : Send(mark, frag)
        \/ \E n \in air : Lose(n) \/ Arrive(n)
        \/ InputRtp

Spec == Init /\ [][Next]_vars
-----------------------------------------------------------------------------
PicturesOf(f) == {sent[f[k]].pic : k \in DOMAIN f}
PacketsOf(p) == SelectSeq([n \in DOMAIN sent |-> n], LAMBDA n : sent[n].pic = p)

\* h265_over_rtp.h:4 promises of H.265 that reordering and assembly are done in
\* one step.  The code keeps that only for what came in order and whole: a
\* picture ends when a packet that ends one is put in, whatever the queue of
\* 200 ms hands out, and no slice is known to be the first of a picture.
HandedStraight(n) == path # "whip" /\ 1..n \subseteq passed
EndsKnown(n) == codec = "h264" \/ HandedStraight(n)

\* And the last fragment of any slice ends the picture, not only the last one.
SplitByFragments(p) == codec = "h265" /\ \E n \in Range(PacketsOf(p)) : sent[n].frag /\ ~sent[n].mark

\* A frame that goes into the ring holds slices in order and each once,
\* whatever the network lost, delayed or reordered; they are of one picture,
\* always for H.264, and for H.265 as long as nothing was lost.
FramesPure == \A f \in DOMAIN out :
    /\ \A j, k \in DOMAIN out[f] : j < k => out[f][j] < out[f][k]
    /\ EndsKnown(Last(out[f])) => Cardinality(PicturesOf(out[f])) = 1

\* Damage is local: a picture whose packets, and the packet before them, got
\* through is delivered whole as one frame, as soon as its last packet is in;
\* for H.265 with the two exceptions above.  Over WHIP a marker that comes too
\* late still ends a picture: the demuxer looks at it before its queue drops
\* the packet.
Intact(p) ==
    LET N == PacketsOf(p)
    IN /\ Last(N) \in passed /\ sent[Last(N)].mark
       /\ \A n \in N[1]-1..Last(N) : n = 0 \/ n \in passed
DamageLocal == path # "whip" /\ sorted = <<>> =>
    \A n \in DOMAIN sent :
        LET p == sent[n].pic IN
        Intact(p) /\ EndsKnown(Last(PacketsOf(p))) /\ ~SplitByFragments(p) =>
            PacketsOf(p) \in Range(out)
=============================================================================
