----------------------------- MODULE RtpPsServer -----------------------------
(***************************************************************************)
(* The receiver of RTP carrying MPEG-PS (session/rtp/rtp_ps_server.c) with *)
(* the web API's requests to open, connect and close one: the slot the     *)
(* registry keeps for one key, its UDP port or its TCP connections, the    *)
(* packets found in their bytes, and when the stream is announced.         *)
(*                                                                         *)
(* A camera sends the same packets on every connection.  On TCP a packet   *)
(* is two units, its length and its body; junk is what a body says when it *)
(* is taken for a length (0: less than an RTP header).  Everything runs on *)
(* one poller: the registry has no lock.  External: the sockets, the RTP   *)
(* payload decoder (a gap in the sequence costs the packet after it), the  *)
(* demuxer (a "key" packet ends a key frame) and the web hooks.            *)
(***************************************************************************)
EXTENDS Integers, Sequences, FiniteSets, SequencesExt

CONSTANTS
    Modes,         \* tcp_mode of the requests: "udp", "passive", "active", "unknown"
    Ports,         \* ports there are
    Kinds,         \* of packets: "key", "data", "alien" (another SSRC), "rtcp"
    Junk,          \* what bodies say as lengths, of 0..2
    MaxPackets,    \* bound: packets of the camera
    MaxOpens,      \* bound: requests to open
    MaxConns,      \* bound: connections of a slot
    MaxDatagrams   \* bound: datagrams

RtpPsAssumption ==
    /\ Modes \subseteq {"udp", "passive", "active", "unknown"} /\ Ports \subseteq Nat \ {0}
    /\ Kinds \subseteq {"key", "data", "alien", "rtcp"} /\ Junk \subseteq 0..2
    /\ {MaxPackets, MaxOpens, MaxConns, MaxDatagrams} \subseteq Nat

VARIABLES
    stream,    \* the camera's packets: kind, junk
    slot,      \* the registry's slot of the key, or NoSlot
    conns,     \* units received on each of the slot's connections, -1 once it broke off
    source,    \* the media source, what the web hooks were told of it, how often
    fed,       \* packets given to the slot's decoder, 0 for one nobody sent
    done       \* requests and datagrams so far; whether a connection broke off

vars == <<stream, slot, conns, source, fed, done>>

\* conn: tcp_sess or tcp_cli; expect: the decoder's next sequence number
NoSlot == [open |-> FALSE, mode |-> "udp", port |-> 0, filter |-> FALSE, conn |-> 0,
           asm |-> <<>>, expect |-> 0, started |-> FALSE]
Idle == [publishing |-> FALSE, publisher |-> FALSE, recording |-> FALSE, told |-> "off",
         times |-> 0]

Tcp == slot.open /\ slot.mode \in {"passive", "active"}
Alive == {c \in DOMAIN conns : conns[c] >= 0}

Init ==
    /\ stream \in BoundedSeq([kind : Kinds, junk : Junk], MaxPackets)
    /\ slot = NoSlot /\ conns = <<>> /\ source = Idle /\ fed = <<>>
    /\ done = [opens |-> 0, datagrams |-> 0, broke |-> FALSE]
-----------------------------------------------------------------------------
(* From the bytes to the decoder.                                          *)

\* The i-th unit of a connection: lengths and bodies take turns.
UnitAt(i) == LET n == (i + 1) \div 2
             IN  [n |-> n, body |-> i % 2 = 0, len |-> IF i % 2 = 0 THEN stream[n].junk ELSE 1]
Body(n) == UnitAt(2 * n)

\* rtp_ps_feed_rtp_packet: RTCP and other senders' packets are passed over;
\* a length field taken for a packet may look like one.
Passes(u) == IF ~u.body THEN stream[u.n].junk # 0
             ELSE /\ stream[u.n].kind # "rtcp"
                  /\ slot.filter => stream[u.n].kind # "alien"

\* The RTP sequence number of what the unit u begins.
Number(u) == IF u.body /\ stream[u.n].kind # "alien"
             THEN Cardinality({i \in 1..u.n : stream[i].kind \in {"key", "data"}})
             ELSE MaxPackets + 2

\* zms_media_source_close and publish_fini: publishing is reset before
\* publish_fini looks at it, so that nobody is told.
Ended(src) == [publishing |-> FALSE, publisher |-> FALSE, recording |-> FALSE,
               told |-> IF src.publishing THEN "stale" ELSE src.told, times |-> src.times]

\* rtp_ps_slot_finish_publish; allow: the hook's answer, mp4: enable_mp4
Publish(w, allow, mp4) ==
    IF w.started THEN w
    ELSE IF ~allow THEN [w EXCEPT !.source = Ended(@)]
    ELSE [w EXCEPT !.started = TRUE,
                   !.source = [publishing |-> TRUE, publisher |-> TRUE,
                               recording |-> mp4, told |-> "on", times |-> @.times + 1]]

\* rtp_ps_payload_packet, rtp_ps_on_ps_frame: w is the work on one read,
\* u the first unit of the packet, ok whether the ingest takes its frame.
Feed(w, u, ok, allow, mp4) ==
    IF ~Passes(u) THEN w
    ELSE LET whole == w.expect \in {0, Number(u)}
             v == [w EXCEPT !.expect = Number(u) + 1,
                            !.fed = Append(@, IF u.body THEN u.n ELSE 0)]
         IN  IF whole /\ ok /\ u.body /\ stream[u.n].kind = "key"
             THEN Publish(v, allow, mp4) ELSE v

\* rtp_ps_tcp_feed: a length below an RTP header's drops all that is there.
Unit(w, u, ok, allow, mp4) ==
    LET a == Append(w.asm, u)
    IN  IF w.dropped THEN w
        ELSE IF a[1].len = 0 THEN [w EXCEPT !.asm = <<>>, !.dropped = TRUE]
        ELSE IF Len(a) <= a[1].len THEN [w EXCEPT !.asm = a]
        ELSE Feed([w EXCEPT !.asm = <<>>], a[2], ok, allow, mp4)

Work == [asm |-> slot.asm, dropped |-> FALSE, expect |-> slot.expect,
         started |-> slot.started, source |-> source, fed |-> fed]

\* rtp_ps_tcp_feed of a read: the m units after the first i.
Read(i, m, ok, allow, mp4) ==
    LET after[k \in 0..m] == IF k = 0 THEN Work
                             ELSE Unit(after[k - 1], UnitAt(i + k), ok, allow, mp4)
    IN  after[m]

Keep(w, conn) ==
    /\ slot' = [slot EXCEPT !.asm = w.asm, !.expect = w.expect, !.started = w.started,
                            !.conn = conn]
    /\ source' = w.source /\ fed' = w.fed

\* rtp_ps_on_udp_packet: datagrams may be lost, come late or twice.
Datagram ==
    /\ slot.open /\ slot.mode = "udp" /\ done.datagrams < MaxDatagrams
    /\ \E n \in DOMAIN stream, ok, allow, mp4 \in BOOLEAN :
           Keep(Feed(Work, Body(n), ok, allow, mp4), 0)
    /\ done' = [done EXCEPT !.datagrams = @ + 1]
    /\ UNCHANGED <<stream, conns>>
-----------------------------------------------------------------------------
(* The connections.                                                        *)

\* A camera reaches the listening port.
Accept ==
    /\ slot.open /\ slot.mode = "passive" /\ Len(conns) < MaxConns
    /\ conns' = Append(conns, 0)
    /\ UNCHANGED <<stream, slot, source, fed, done>>

\* rtp_ps_tcp_passive_on_recv: whoever sends first is listened to.
HeardAll(c) == TRUE     \* mutant: everybody is listened to
Heard(c) == slot.conn \in {0, c}

\* rtp_ps_tcp_passive_on_recv, rtp_ps_tcp_client_on_recv
Receive ==
    /\ Tcp
    /\ \E c \in Alive : \E m \in 1..(2 * Len(stream) - conns[c]) :
           /\ slot.mode = "active" => c = slot.conn
           /\ conns' = [conns EXCEPT ![c] = @ + m]
           /\ IF ~Heard(c) THEN UNCHANGED <<slot, source, fed>>
              ELSE \E ok, allow, mp4 \in BOOLEAN :
                       Keep(Read(conns[c], m, ok, allow, mp4), c)
    /\ UNCHANGED <<stream, done>>

\* rtp_ps_tcp_passive_on_error, rtp_ps_tcp_client_on_error: whichever session
\* it was, nobody is listened to any more; what was gathered stays.
Break ==
    /\ Tcp
    /\ \E c \in Alive : conns' = [conns EXCEPT ![c] = -1]
    /\ slot' = [slot EXCEPT !.conn = 0]
    /\ done' = [done EXCEPT !.broke = TRUE]
    /\ UNCHANGED <<stream, source, fed>>

\* zms_rtp_ps_server_connect: the client exists while it is connecting.
Connect ==
    /\ slot.open /\ slot.mode = "active" /\ slot.conn = 0 /\ Len(conns) < MaxConns
    /\ slot' = [slot EXCEPT !.conn = Len(conns) + 1]
    /\ conns' = Append(conns, 0)

\* handle_connect_rtp_server
ConnectRtpServer == Connect /\ UNCHANGED <<stream, source, fed, done>>
-----------------------------------------------------------------------------
(* The slot.                                                               *)

TornDownQuietly(src) ==     \* mutant: publish_fini is forgotten
    [src EXCEPT !.publisher = FALSE]

\* rtp_ps_slot_teardown_media: here publish_fini still finds it publishing.
TornDown(src) == [publishing |-> FALSE, publisher |-> FALSE, recording |-> FALSE,
                  told |-> IF src.publishing THEN "off" ELSE src.told, times |-> 0]

\* The slot's own state ends with rtp_ps_slot_destroy.
Emptied ==
    /\ conns' = <<>> /\ fed' = <<>>
    /\ source' = IF slot.open THEN TornDown(source) ELSE source

\* zms_rtp_ps_server_open: the old slot is used again, or it goes before the
\* new one's media and port are asked for.
Reused(mode, port) == slot.open /\ slot.mode = mode /\ port \in {0, slot.port}

Listening(mode, port, filter) ==
    \E p \in Ports :
        /\ port \in {0, p}
        /\ slot' = [NoSlot EXCEPT !.open = TRUE, !.port = p, !.filter = filter,
                                  !.mode = IF mode = "unknown" THEN "udp" ELSE mode]

Open(mode, port, filter) ==
    \/ /\ Reused(mode, port)
       /\ done' = [done EXCEPT !.opens = @ + 1]
       /\ UNCHANGED <<slot, conns, source, fed>>
    \/ /\ ~Reused(mode, port)
       /\ Emptied
       /\ slot' = NoSlot \/ Listening(mode, port, filter)
       /\ done' = [opens |-> done.opens + 1, datagrams |-> 0, broke |-> FALSE]

\* handle_open_rtp_server
OpenRtpServer ==
    /\ done.opens < MaxOpens
    /\ \E mode \in Modes, port \in Ports \cup {0}, filter \in BOOLEAN : Open(mode, port, filter)
    /\ UNCHANGED stream

\* handle_close_rtp_server, zms_rtp_ps_server_close
CloseRtpServer ==
    /\ slot.open
    /\ Emptied /\ slot' = NoSlot
    /\ UNCHANGED <<stream, done>>

\* handle_close_stream: the slot has given no kick and hears nothing of it.
SourceClosed ==
    /\ slot.open
    /\ source' = Ended(source)
    /\ UNCHANGED <<stream, slot, conns, fed, done>>

Next == \/ Datagram \/ Accept \/ Receive \/ Break
        \/ OpenRtpServer \/ ConnectRtpServer \/ CloseRtpServer \/ SourceClosed

Spec == Init /\ [][Next]_vars
-----------------------------------------------------------------------------
(* As long as none of the slot's TCP connections broke off, the decoder    *)
(* has been given exactly the packets meant for it, each once and in their *)
(* order, that the connection listened to has brought in whole: reads cut  *)
(* anywhere, a second camera on the port and repeated requests to open     *)
(* change nothing.  (After a break the half packet left in tcp_asm is put  *)
(* before the next connection's bytes.)                                    *)
Brought == IF slot.conn = 0 THEN 0 ELSE conns[slot.conn]
WholePackets ==
    Tcp /\ ~done.broke =>
        /\ {fed[i] : i \in DOMAIN fed} = {n \in 1..(Brought \div 2) : Passes(Body(n))}
        /\ \A i, j \in DOMAIN fed : i < j => fed[i] < fed[j]
        /\ slot.asm = IF Brought % 2 = 0 THEN <<>> ELSE <<UnitAt(Brought)>>

(* What the web hooks were told is true of the slot: a stream is announced *)
(* once, by a slot that was given a key frame, while it is published or    *)
(* recorded the slot is there, and when the slot has gone it was taken     *)
(* back, unless its source was closed under it, of which they never hear.  *)
AnnouncedTruly ==
    /\ source.publishing <=> source.told = "on"
    /\ source.publishing => slot.open /\ slot.started
    /\ source.recording => source.publishing
    /\ source.times <= 1
    /\ slot.started => /\ source.told # "off"
                       /\ \E i \in DOMAIN fed : fed[i] # 0 /\ stream[fed[i]].kind = "key"
=============================================================================
