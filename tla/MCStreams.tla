----------------------------- MODULE MCStreams ------------------------------
(***************************************************************************)
(* One run over the modules about what goes in and out in which order: the *)
(* framers and chunk readers, the queues of a player, the segments.  As in *)
(* MCSessions the behaviour picks one of them at Init and its variables    *)
(* live in the slots s1, s2, ...                                           *)
(***************************************************************************)
EXTENDS Integers, TLC

CONSTANTS t1, t2    \* two threads, two sessions: nothing tells them apart

VARIABLES part, s1, s2, s3, s4, s5, s6, s7, s8, s9, s10, s11, s12, s13, s14, s15, s16, s17

Live == INSTANCE LivePlay WITH
    wire <- s1, kickLag <- s2, w <- s3, keys <- s4, state <- s5, idx <- s6, next <- s7,
    wake <- s8, catchup <- s9, epoch <- s10, armed <- s11, out <- s12, pc <- s13,
    left <- s14, sent <- s15, last <- s16, cut <- s17,
    Capacity <- 8, MuxCap <- 2, MaxLag <- 4, CatchupLag <- 1, Burst <- 2, LiveBudget <- 1,
    OutCap <- 4, OutFlush <- 1, KickLags <- {0, 3}, Wires <- {"rtmp", "rtp", "http"},
    MaxFrames <- 8

Sender == INSTANCE RtpSender WITH
    depth <- s1, queue <- s2, made <- s3, wrote <- s4, early <- s5, lost <- s6, pc <- s7,
    reg <- s8, left <- s9,
    Sessions <- {t1, t2}, QueueCap <- 2, HighWater <- 2, Budget <- 1, MaxPackets <- 3,
    MaxDepth <- 3

\* One publisher, long enough for every slot of a segment to be used again.
Hls == INSTANCE HlsLive WITH
    kind <- s1, publishing <- s2, pubs <- s3, media <- s4, inRing <- s5, slot <- s6,
    state <- s7, left <- s8, win <- s9, pc <- s10, ptr <- s11, ppc <- s12, prec <- s13,
    Kinds <- {"hls", "dash"}, Workers <- {}, MaxRecs <- 2, MaxPubs <- 1, MaxMedia <- 10,
    Window <- 2, Lag <- 2, TickGops <- 1, ServeTicks <- 2, Period <- 2

Chunk == INSTANCE RtmpChunk WITH
    sent <- s1, peer <- s2, outSize <- s3, done <- s4, wire <- s5, rx <- s6, cs <- s7,
    inSize <- s8, got <- s9, parsing <- s10,
    Streams <- {3, 8}, Lens <- {0, 1, 3}, Deltas <- {0, 1, 3}, Sizes <- {0, 2},
    DefaultSize <- 1, Ext <- 3, MaxMessages <- 2

Flv == INSTANCE FlvPull WITH
    cl <- s1, sent <- s2, taken <- s3, out <- s4,
    Modes <- {"plain"}, MaxTags <- 2, ChunkSizes <- {1, 3}

Http == INSTANCE HttpFraming WITH
    items <- s1, taken <- s2, fr <- s3, out <- s4,
    MaxItems <- 4, Bodies <- {0, 1, 2}

\* Every seek from every state of a small ring ...
Seek == INSTANCE GopReader WITH
    q <- s1, slots <- s2, rd <- s3, total <- s4, now <- s5, run <- s6,
    ConfigAlwaysStored <- TRUE, Capacity <- 3, MaxGop <- 3, TargetGops <- 2, CacheMs <- 0,
    MaxLag <- 2, MuxCap <- 1, Readers <- {"r"}, Kinds <- {"idr", "cra", "inter", "audio"},
    MaxStep <- 0, MaxGopLen <- 3, MaxFrames <- 4, MaxSeeks <- 1

\* ... and the staging of two tracks with commits in between.
Mux == INSTANCE GopReader WITH
    q <- s1, slots <- s2, rd <- s3, total <- s4, now <- s5, run <- s6,
    ConfigAlwaysStored <- TRUE, Capacity <- 3, MaxGop <- 3, TargetGops <- 2, CacheMs <- 0,
    MaxLag <- 2, MuxCap <- 2, Readers <- {"r"}, Kinds <- {"idr", "inter", "audio"},
    MaxStep <- 1, MaxGopLen <- 2, MaxFrames <- 5, MaxSeeks <- 0

Rtp == INSTANCE RtpAssembly WITH
    codec <- s1, path <- s2, sent <- s3, air <- s4, sorter <- s5, sorted <- s6, inner <- s7,
    seq <- s8, au <- s9, out <- s10, passed <- s11,
    Codecs <- {"h264", "h265"}, Paths <- {"tcp", "udp", "whip"}, MaxPackets <- 4, MaxSlices <- 3

Mp4 == INSTANCE Mp4Recorder WITH
    frames <- s1, audioConfig <- s2, rec <- s3, file <- s4, closed <- s5, faults <- s6,
    MaxMs <- 1, TickFrames <- 2, MaxGop <- 3, MaxFrames <- 5, MaxFaults <- 1

Whep == INSTANCE WhepPlay WITH
    ring <- s1, pos <- s2, session <- s3, dtls <- s4, start <- s5, media <- s6, mux <- s7,
    bias <- s8, queue <- s9, made <- s10, srtp <- s11, sent <- s12, feedback <- s13,
    QueueCap <- 4, Margin <- 1, FrameBudget <- 2, FlushBudget <- 2, SeqMod <- 14,
    Flights <- 2, Sizes <- {1, 2}, MaxPictures <- 3, MaxFeedback <- 3

Whip == INSTANCE WhipIngress WITH
    first <- s1, next <- s2, air <- s3, ready <- s4, ctx <- s5, prev <- s6, heard <- s7,
    refused <- s8, upset <- s9, sets <- s10, video <- s11,
    SeqMod <- 6, Window <- 2, MaxPackets <- 8

Sdp == INSTANCE WebrtcSdp WITH
    mode <- s1, offer <- s2, source <- s3, answer <- s4,
    VideoCodecs <- {"h264", "vp8", "h265", "rtx"}, AudioCodecs <- {"opus", "aac"},
    Profiles <- {<<1, 1>>, <<1, 2>>, <<2, 1>>}, MaxMaps <- 2

Files == INSTANCE VodFiles WITH
    path <- s1, tmp <- s2, data <- s3, job <- s4, making <- s5, pc <- s6, fp <- s7, mu <- s8,
    held <- s9, failed <- s10,
    Workers <- {t1, t2}, Segments <- {"s0"}, MaxFailed <- 1

Cutting == INSTANCE VodCut WITH
    file <- s1, idx <- s2, pos <- s3, lastKey <- s4, seg <- s5, phase <- s6,
    Sizes <- {2}, Steps <- {0, 1, 2}, Header <- 1, MinGap <- 2, MaxKeys <- 3, MaxSamples <- 4

FlvTags == INSTANCE FlvOut WITH
    kind <- s1, config <- s2, stage <- s3, armed <- s4, frames <- s5, origin <- s6,
    last <- s7, pend <- s8, seeks <- s9, out <- s10,
    Kinds <- {"live", "file"}, Steps <- {0, 3}, AudioStep <- 2, MaxFrames <- 3, MaxSeeks <- 1

Ingested == INSTANCE Ingest WITH
    input <- s1, codec <- s2, clock <- s3, inputs <- s4, stamp <- s5, linked <- s6, cache <- s7,
    origin <- s8, ps <- s9, au <- s10, lastFill <- s11, sent <- s12,
    Inputs <- {"rtp", "ts"}, Codecs <- {"h264", "h265", "other"}, MaxDelta <- 3, Drift <- 3,
    SyncInput <- 10, Step <- 1, MaxGap <- 5, Wrap <- 1000, Starts <- {0, 30},
    Jumps <- {-20, -1, 0, 2, 4, 20}, MaxInputs <- 4

PlayMux == INSTANCE RtpMux WITH
    kind <- s1, codec <- s2, known <- s3, head <- s4, made <- s5, now <- s6, mux <- s7,
    paused <- s8, reached <- s9, plays <- s10, out <- s11,
    Kinds <- {"live", "file"}, Codecs <- {"h264", "h265"}, Bases <- {1}, MaxFrames <- 3,
    MaxPlays <- 2

Admit == INSTANCE Admission WITH
    origin <- s1, media <- s2, have <- s3, src <- s4, wrote <- s5, play <- s6,
    inputs <- s7, publishers <- s8,
    Origins <- {"rtmp", "rtsp", "srt", "ps", "webrtc", "file"},
    Video <- {"h264", "h265", "av1", "vp8"}, Audio <- {"aac", "g711", "opus"},
    MaxInputs <- 3, MaxPublishers <- 2

Ts == INSTANCE TsEgress WITH
    codec <- s1, acodec <- s2, ring <- s3, frames <- s4, pos <- s5, mux <- s6, buf <- s7,
    off <- s8, out <- s9,
    VideoCodecs <- {"h264"}, AudioCodecs <- {"aac"}, Budget <- 2, Piece <- 3,
    UnitBytes <- 2, AuStep <- 2, Steps <- {0, 3}, MaxFrames <- 3

Segments == INSTANCE SegmentWriter WITH
    kind <- s1, codec <- s2, acodec <- s3, known <- s4, frames <- s5, pos <- s6, rec <- s7,
    Kinds <- {"hls", "dash"},
    Streams <- {<<"h264", "aac">>, <<"vp8", "opus">>, <<"vp8", "aac">>}, Target <- 3,
    Ahead <- 6, Budget <- 2, Pump <- 4, Starts <- {1, 9}, Steps <- {2, 7}, MaxFrames <- 4

ASSUME Ingested!IngestAssumption /\ PlayMux!RtpMuxAssumption
ASSUME Admit!AdmissionAssumption
ASSUME Ts!TsEgressAssumption
ASSUME Segments!SegmentWriterAssumption
ASSUME Live!LivePlayAssumption /\ Sender!SenderAssumption /\ Hls!SegmentAssumption
ASSUME Chunk!ChunkAssumption /\ Flv!FlvPullAssumption /\ Http!HttpFramingAssumption
ASSUME Seek!LagAssumption /\ Mux!LagAssumption
ASSUME Rtp!RtpAssemblyAssumption /\ Mp4!Mp4Assumption
ASSUME Files!VodFilesAssumption /\ Cutting!VodCutAssumption /\ FlvTags!FlvOutAssumption
ASSUME Whep!WhepPlayAssumption /\ Whip!WhipIngressAssumption /\ Sdp!WebrtcSdpAssumption
-----------------------------------------------------------------------------
\* The slots a part leaves alone.
After14 == <<s14, s15, s16, s17>>
After12 == <<s12, s13, After14>>
After11 == <<s11, After12>>
After10 == <<s10, After11>>
After9 == <<s9, s10, After11>>
After8 == <<s8, After9>>
After7 == <<s7, s8, After9>>
After5 == <<s5, s6, After7>>
vars == <<part, s1, s2, s3, s4, After5>>

Unused14 == s14 = 0 /\ s15 = 0 /\ s16 = 0 /\ s17 = 0
Unused12 == s12 = 0 /\ s13 = 0 /\ Unused14
Unused11 == s11 = 0 /\ Unused12
Unused10 == s10 = 0 /\ Unused11
Unused9 == s9 = 0 /\ s10 = 0 /\ Unused11
Unused8 == s8 = 0 /\ Unused9
Unused7 == s7 = 0 /\ s8 = 0 /\ Unused9
Unused5 == s5 = 0 /\ s6 = 0 /\ Unused7

Init ==
    \/ part = "live" /\ Live!Init
    \/ part = "sender" /\ Sender!Init /\ Unused10
    \/ part = "hls" /\ Hls!Init /\ Unused14
    \/ part = "chunk" /\ Chunk!Init /\ Unused11
    \/ part = "flv" /\ Flv!Init /\ Unused5
    \/ part = "http" /\ Http!Init /\ Unused5
    \/ part = "seek" /\ Seek!Init /\ Unused7
    \/ part = "mux" /\ Mux!Init /\ Unused7
    \/ part = "rtp" /\ Rtp!Init /\ Unused12
    \/ part = "mp4" /\ Mp4!Init /\ Unused7
    \/ part = "whep" /\ Whep!Init /\ Unused14
    \/ part = "whip" /\ Whip!Init /\ Unused12
    \/ part = "sdp" /\ Sdp!Init /\ Unused5
    \/ part = "files" /\ Files!Init /\ Unused11
    \/ part = "cut" /\ Cutting!Init /\ Unused7
    \/ part = "ingest" /\ Ingested!Init /\ s13 = 0 /\ Unused14
    \/ part = "flvtags" /\ FlvTags!Init /\ Unused11
    \/ part = "rtpmux" /\ PlayMux!Init /\ Unused12
    \/ part = "admit" /\ Admit!Init /\ Unused9
    \/ part = "ts" /\ Ts!Init /\ Unused10
    \/ part = "segments" /\ Segments!Init /\ Unused8

Next ==
    /\ UNCHANGED part
    /\ \/ part = "live" /\ Live!Next
       \/ part = "sender" /\ Sender!Next /\ UNCHANGED After10
       \/ part = "hls" /\ Hls!Next /\ UNCHANGED After14
       \/ part = "chunk" /\ Chunk!Next /\ UNCHANGED After11
       \/ part = "flv" /\ Flv!Next /\ UNCHANGED After5
       \/ part = "http" /\ Http!Receive /\ UNCHANGED After5
       \/ part = "seek" /\ Seek!Next /\ UNCHANGED After7
       \/ part = "mux" /\ Mux!Next /\ UNCHANGED After7
       \/ part = "rtp" /\ Rtp!Next /\ UNCHANGED After12
       \/ part = "mp4" /\ Mp4!Next /\ UNCHANGED After7
       \/ part = "whep" /\ Whep!Next /\ UNCHANGED After14
       \/ part = "whip" /\ Whip!Next /\ UNCHANGED After12
       \/ part = "sdp" /\ Sdp!Next /\ UNCHANGED After5
       \/ part = "files" /\ Files!Next /\ UNCHANGED After11
       \/ part = "cut" /\ Cutting!Next /\ UNCHANGED After7
       \/ part = "ingest" /\ Ingested!Next /\ UNCHANGED <<s13, After14>>
       \/ part = "flvtags" /\ FlvTags!Next /\ UNCHANGED After11
       \/ part = "rtpmux" /\ PlayMux!Next /\ UNCHANGED After12
       \/ part = "admit" /\ Admit!Next /\ UNCHANGED After9
       \/ part = "ts" /\ Ts!Next /\ UNCHANGED After10
       \/ part = "segments" /\ Segments!Next /\ UNCHANGED After8

Spec == Init /\ [][Next]_vars

Symmetry == Permutations({t1, t2})
-----------------------------------------------------------------------------
(* The properties of the modules, each where its part is looked at.        *)

\* LivePlay!Forward, RtpSender!SentInOrder, GopReader!TrackOrder,
\* Ingest!StepsBounded, Ingest!PicturesLead
OutInOrder == [][/\ part = "live" => Live!ForwardStep
                 /\ part = "sender" => Sender!InOrderStep
                 /\ part = "mux" => Mux!TrackOrderStep
                 /\ part = "ingest" => /\ Ingested!StepsBoundedStep
                                        /\ Ingested!PicturesLeadStep]_vars

\* LivePlay!Decodable, GopReader!Decodable
OutDecodes == [][/\ part = "live" => Live!DecodableStep
                 /\ part = "mux" => Mux!DecodableStep]_vars

\* GopReader!SeekLandsInRing, LiveSeeksBounded, GopKeyOnSync, LandsAsNamed:
\* the last one names the cases in which the code contradicts its comments.
SeeksLand == [][part = "seek" => /\ Seek!SeekLandsInRingStep
                                       /\ Seek!LiveSeeksBoundedStep
                                       /\ Seek!GopKeyOnSyncStep
                                       /\ Seek!LandsAsNamedStep]_vars

\* RtpAssembly!FramesPure, RtpAssembly!DamageLocal; Ingest!AvTogether,
\* DistancesKept and HeldBack
PicturesAssembled ==
    /\ part = "rtp" => Rtp!FramesPure /\ Rtp!DamageLocal
    /\ part = "ingest" => /\ Ingested!AvTogether /\ Ingested!DistancesKept
                          /\ Ingested!HeldBack

\* HlsLive!ListedIsHeld; Mp4Recorder!FilesDecode, Mp4Recorder!NothingLost;
\* VodFiles!HlsWhole, VodFiles!Settled; VodCut!IndexSound, ViewsSound and
\* SegmentSound
FilesWhole == /\ part = "hls" => Hls!ListedIsHeld
              /\ part = "mp4" => Mp4!FilesDecode /\ Mp4!NothingLost
              /\ part = "files" => Files!HlsWhole /\ Files!Settled
              /\ part = "cut" => Cutting!IndexSound /\ Cutting!ViewsSound /\ Cutting!SegmentSound

\* WhepPlay!NeverStuck, Consecutive, SetsBeforeKey and RolloverTrue;
\* WhipIngress!HearsAll; WebrtcSdp!LinesMatch, CodecsMatch and ProfileKept
\* Admission!ShownIsAllowed, SentIsCarried, AdvertisedIsLetIn
AgreedIsKept ==
    /\ part = "whep" => /\ Whep!NeverStuck /\ Whep!Consecutive
                        /\ Whep!SetsBeforeKey /\ Whep!RolloverTrue
    /\ part = "whip" => Whip!HearsAll
    /\ part = "sdp" => Sdp!LinesMatch /\ Sdp!CodecsMatch /\ Sdp!ProfileKept
    /\ part = "admit" => /\ Admit!ShownIsAllowed /\ Admit!SentIsCarried
                         /\ Admit!AdvertisedIsLetIn

\* RtmpChunk!Reassembled, RtmpChunk!NoStall, FlvPull!TagsAsSent,
\* HttpFraming!AsSoonAsWhole; FlvOut!HeadersFirst, UnitsInOrder, TimesForward
\* and PicturesOnTime; RtpMux!Consecutive, InfoTrue, KeyFirst, SetsWithKey and
\* StuckForAReason
\* TsEgress!StartsAtKey, NoHoles, TimesForward, BytesAsMuxed
\* SegmentWriter!Playable, JoinAnywhere, SegmentsBounded, Complete
ReceivedAsSent ==
    /\ part = "chunk" => Chunk!Reassembled /\ Chunk!NoStall
    /\ part = "flv" => Flv!TagsAsSent
    /\ part = "http" => Http!AsSoonAsWhole
    /\ part = "flvtags" => /\ FlvTags!HeadersFirst /\ FlvTags!UnitsInOrder
                           /\ FlvTags!TimesForward /\ FlvTags!PicturesOnTime
    /\ part = "rtpmux" => /\ PlayMux!Consecutive /\ PlayMux!InfoTrue /\ PlayMux!KeyFirst
                          /\ PlayMux!SetsWithKey /\ PlayMux!StuckForAReason
    /\ part = "ts" => /\ Ts!StartsAtKey /\ Ts!NoHoles /\ Ts!TimesForward
                      /\ Ts!BytesAsMuxed
    /\ part = "segments" => /\ Segments!Playable /\ Segments!JoinAnywhere
                            /\ Segments!SegmentsBounded /\ Segments!Complete
=============================================================================
