----------------------------- MODULE MCSessions -----------------------------
(***************************************************************************)
(* One run over the modules of single sessions.  They do not interact: the *)
(* behaviour picks one of them at Init ("part") and is a behaviour of that *)
(* module from then on; its variables live in the slots s1, s2, ...        *)
(* The instances are small, the comments in the modules say what a bound   *)
(* stands for.  What Sessions_proofs proves about a part it proves for     *)
(* every value of the part's constants: those are constants here, and an   *)
(* instance whose own proofs are used is one of its module of proofs.      *)
(***************************************************************************)
EXTENDS Integers

CONSTANTS
    MaxOpens,                           \* RtspSession
    Segments, Window,                   \* HlsClient
    Tracks,                             \* RtspClient
    Size, PerFlush, MaxAsks, MaxOut,    \* HttpPlay
    Players, Publishers, SessionMax, MaxDeletes,    \* WebrtcHub
    Modes, Ports, PacketKinds, Junk,    \* RtpPsServer
    MaxPackets, MaxRequests, MaxConns, MaxDatagrams

VARIABLES part, s1, s2, s3, s4, s5, s6, s7, s8, s9, s10, s11, s12, s13, s14, s15, s16,
          s17, s18, s19

Live == INSTANCE LivePlay WITH
    wire <- s1, kickLag <- s2, w <- s3, keys <- s4, state <- s5, idx <- s6, next <- s7,
    wake <- s8, catchup <- s9, epoch <- s10, armed <- s11, out <- s12, pc <- s13,
    left <- s14, sent <- s15, last <- s16, cut <- s17,
    Capacity <- 8, MuxCap <- 2, MaxLag <- 4, CatchupLag <- 1, Burst <- 2, LiveBudget <- 1,
    OutCap <- 4, OutFlush <- 1, KickLags <- {3}, Wires <- {"rtmp", "rtp", "http"},
    MaxFrames <- 6

Sender == INSTANCE RtpSender WITH
    depth <- s1, queue <- s2, made <- s3, wrote <- s4, early <- s5, lost <- s6, pc <- s7,
    reg <- s8, left <- s9,
    Sessions <- {"a", "b"}, QueueCap <- 2, HighWater <- 2, Budget <- 1, MaxPackets <- 2,
    MaxDepth <- 3

Rtsp == INSTANCE RtspSession_proofs WITH
    source <- s1, mode <- s2, paused <- s3, gop <- s4, lane <- s5, mux <- s6,
    attached <- s7, tcp <- s8, closing <- s9, scheduled <- s10, freed <- s11, jobs <- s12,
    lanes <- s13, opened <- s14, readers <- s15, told <- s16, flow <- s17, past <- s18,
    touched <- s19

\* Two publishers, two recorders and a request racing.
Hls == INSTANCE HlsLive WITH
    kind <- s1, publishing <- s2, pubs <- s3, media <- s4, inRing <- s5, slot <- s6,
    state <- s7, left <- s8, win <- s9, pc <- s10, ptr <- s11, ppc <- s12, prec <- s13,
    Kinds <- {"hls"}, Workers <- {"w"}, MaxRecs <- 2, MaxPubs <- 2, MaxMedia <- 2,
    Window <- 2, Lag <- 2, TickGops <- 1, ServeTicks <- 2, Period <- 2

HlsPull == INSTANCE HlsClient WITH
    cl <- s1, head <- s2, ended <- s3, master <- s4, up <- s5, got <- s6

RtspPull == INSTANCE RtspClient WITH
    cl <- s1, user <- s2, waiting <- s3, server <- s4, up <- s5

Http == INSTANCE HttpPlay_proofs WITH
    hs <- s1, jobs <- s2, readers <- s3, lanes <- s4, files <- s5, lost <- s6, answer <- s7,
    pending <- s8, said <- s9, asks <- s10, burst <- s11, past <- s12, Flush <- PerFlush

Webrtc == INSTANCE WebrtcHub_proofs WITH
    registry <- s1, phase <- s2, holds <- s3, ready <- s4, readers <- s5, publishing <- s6,
    begun <- s7, ended <- s8, down <- s9, found <- s10, twice <- s11

RtpPs == INSTANCE RtpPsServer WITH
    stream <- s1, slot <- s2, conns <- s3, source <- s4, fed <- s5, done <- s6,
    MaxOpens <- MaxRequests, Kinds <- PacketKinds

ASSUME Live!LivePlayAssumption /\ Sender!SenderAssumption /\ Hls!SegmentAssumption
ASSUME SessionsAssumption ==
    /\ Rtsp!RtspAssumption /\ HlsPull!HlsClientAssumption /\ RtspPull!TracksAssumption
    /\ Http!HttpPlayAssumption /\ Webrtc!WebrtcHubAssumption
    /\ RtpPs!RtpPsAssumption
-----------------------------------------------------------------------------
\* The slots a part leaves alone.
After18 == <<s18, s19>>
After14 == <<s14, s15, s16, s17, After18>>
After13 == <<s13, After14>>
After12 == <<s12, After13>>
After10 == <<s10, s11, After12>>
After7 == <<s7, s8, s9, After10>>
After6 == <<s6, After7>>
vars == <<part, s1, s2, s3, s4, s5, After6>>

Unused18 == s18 = 0 /\ s19 = 0
Unused14 == s14 = 0 /\ s15 = 0 /\ s16 = 0 /\ s17 = 0 /\ Unused18
Unused13 == s13 = 0 /\ Unused14
Unused12 == s12 = 0 /\ Unused13
Unused10 == s10 = 0 /\ s11 = 0 /\ Unused12
Unused7 == s7 = 0 /\ s8 = 0 /\ s9 = 0 /\ Unused10

Init ==
    \/ part = "live" /\ Live!Init /\ Unused18
    \/ part = "sender" /\ Sender!Init /\ Unused10
    \/ part = "rtsp" /\ Rtsp!Init
    \/ part = "hls" /\ Hls!Init /\ Unused14
    \/ part = "hlspull" /\ HlsPull!Init /\ Unused7
    \/ part = "rtsppull" /\ RtspPull!Init /\ s6 = 0 /\ Unused7
    \/ part = "http" /\ Http!Init /\ Unused13
    \/ part = "webrtc" /\ Webrtc!Init /\ Unused12
    \/ part = "rtpps" /\ RtpPs!Init /\ Unused7

OfLive(A) == part = "live" /\ A /\ UNCHANGED <<part, After18>>
OfSender(A) == part = "sender" /\ A /\ UNCHANGED <<part, After10>>
OfRtsp(A) == part = "rtsp" /\ A /\ UNCHANGED part
OfHls(A) == part = "hls" /\ A /\ UNCHANGED <<part, After14>>
OfHlsPull(A) == part = "hlspull" /\ A /\ UNCHANGED <<part, After7>>
OfRtspPull(A) == part = "rtsppull" /\ A /\ UNCHANGED <<part, After6>>
OfHttp(A) == part = "http" /\ A /\ UNCHANGED <<part, After13>>
OfWebrtc(A) == part = "webrtc" /\ A /\ UNCHANGED <<part, After12>>
OfRtpPs(A) == part = "rtpps" /\ A /\ UNCHANGED <<part, After7>>

Next ==
    \/ OfLive(Live!Next) \/ OfSender(Sender!Next) \/ OfRtsp(Rtsp!Next)
    \/ OfHls(Hls!Next)
    \/ OfHlsPull(HlsPull!Next) \/ OfRtspPull(RtspPull!Next)
    \/ OfHttp(Http!Next) \/ OfWebrtc(Webrtc!Next)
    \/ OfRtpPs(RtpPs!Next)

Spec == Init /\ [][Next]_vars
-----------------------------------------------------------------------------
(* The fairness and the properties of the modules, each where its part is  *)
(* the one looked at.                                                      *)

\* LivePlay!CatchesUp
LiveFairness ==
    /\ WF_vars(OfLive(Live!Start)) /\ WF_vars(OfLive(Live!Player))
    /\ SF_vars(OfLive(Live!StepSend))
LiveCatchesUp == LiveFairness => <>[](part = "live" => Live!CaughtUp)

\* RtpSender!Drains
SenderFairness ==
    \A s \in {"a", "b"} :
        /\ WF_vars(OfSender(Sender!Load(s) \/ Sender!Store(s) \/ Sender!Drain(s)))
        /\ SF_vars(OfSender(Sender!Flush(s)))
Drains ==
    SenderFairness => \A s \in {"a", "b"} :
        []<>(part = "sender" => Sender!Emptied(s)) \/ <>[](part = "sender" => Sender!Drift > 0)

\* RtspSession!LanesHeld, RtspSession!ReadersCounted, HttpPlay!GivenBack,
\* WebrtcHub!SessionsAccounted, WebrtcHub!PublishPaired, RtpPsServer!AnnouncedTruly
HeldOnce == /\ part = "rtsp" => Rtsp!LanesHeld /\ Rtsp!ReadersCounted
            /\ part = "http" => Http!GivenBack
            /\ part = "webrtc" => Webrtc!SessionsAccounted /\ Webrtc!PublishPaired
            /\ part = "rtpps" => RtpPs!AnnouncedTruly

\* HttpPlay!SentFromOpen, HttpPlay!RightChunks, RtpPsServer!WholePackets
CarriedRight == /\ part = "http" => Http!SentFromOpen /\ Http!RightChunks
                /\ part = "rtpps" => RtpPs!WholePackets

\* RtspSession!Quiet
Quiet == part = "rtsp" => Rtsp!Quiet

\* RtspSession!FilePlays, HttpPlay!Serving
FileFairness == /\ WF_vars(OfRtsp(Rtsp!Completion)) /\ WF_vars(OfRtsp(Rtsp!Tick))
                /\ WF_vars(OfHttp(Http!Manager)) /\ WF_vars(OfHttp(Http!Read))
FileDue == \/ part = "rtsp" /\ Rtsp!FileDue
           \/ part = "http" /\ Http!Serving
FilePlays == FileFairness => (FileDue ~> ~FileDue)

\* HlsLive!Pumped
HlsFairness ==
    /\ WF_vars(OfHls(Hls!Publisher)) /\ WF_vars(OfHls(Hls!Worker("w")))
    /\ WF_vars(OfHls(Hls!Elapse)) /\ \A r \in 1..2 : WF_vars(OfHls(Hls!Fire(r)))
Unpumped(r) == part = "hls" /\ Hls!Unpumped(r)
Rebinding == part = "hls" /\ Hls!Rebinding
Pumped == HlsFairness => \/ []<>Rebinding
                         \/ \A r \in 1..2 : Unpumped(r) ~> ~Unpumped(r)

\* PullClient!Spec: HlsClient!ClientContract, RtspClient!ClientContract
Phase == CASE part = "hlspull" -> HlsPull!Phase [] part = "rtsppull" -> RtspPull!Phase
           [] OTHER -> "idle"
Client == INSTANCE PullClient WITH phase <- Phase
ClientContract == Client!Spec

\* HlsClient!Follows, RtspClient!Plays
PullFairness ==
    /\ WF_vars(OfHlsPull(HlsPull!ClientStep)) /\ WF_vars(OfRtspPull(RtspPull!ClientStep))
    /\ WF_vars(OfRtspPull(s3 /\ RtspPull!Play))
LeftToPlay == \/ part = "hlspull" /\ HlsPull!LeftToPlay
              \/ part = "rtsppull" /\ RtspPull!LeftToPlay
Reaches == \/ part = "hlspull" /\ s2 \in s6
           \/ part = "rtsppull" /\ (s1.state = "PLAYING" \/ s1.deaf)
PullRecovers == PullFairness => (<>[]LeftToPlay => <>Reaches)
=============================================================================
