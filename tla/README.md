# zero-media-server in TLA+

A formal model of the parts of zero-media-server that are hard to test: the
live GOP queue with its lock-free readers, take-over of a stream, pull proxies
and their clients, players of live streams and of files, segmenters, recorders,
and the readers of what the network delivers. The modules are translated from
the C code under `src/`; `PROJECT.json` maps each definition to the lines it
stands for.

Run a check with `tlc -config gop_ring.cfg GopQueue`, a proof with
`tlapm GopQueue_proofs.tla`.

- [1. The system](#1-the-system): inventory
- [2. Modules](#2-modules): what models what
- [3. Runs](#3-runs): what TLC checks, bounds, fairness
- [4. Proofs](#4-proofs): what TLAPS proves
- [5. Disagreements found](#5-disagreements-found)
- [6. Not modelled](#6-not-modelled)

## 1. The system

One process. A pool of poller threads (ztk) runs every socket's callbacks;
each session lives on one poller, so its own handlers never overlap. An ingest
turns a publisher's bytes into frames and writes them into the GOP queue of a
*source*; any number of play sessions, each with a reader of that queue, pull
frames from it on their own pollers. The stream hub is the table of sources,
under one non-recursive mutex. Files are opened by a pool of worker threads and
read by a timer of the player's poller.

```
publisher --> session --> ingest --> GOP queue --> reader --> egress --> player
upstream --> client --> pull proxy ^      ^            |
                 |                        +-- segmenters, recorders (timers)
                 +--> stream hub (source, publisher_ctx, publish events, hooks)
                              ^                       |
                      HTTP API, webhooks      reader_count, none-reader timer
file --> demuxer --> VOD FIFO --> lane of one player --> egress --> player
```

| component | state | operations | interacts by | what is hard | correct when |
|---|---|---|---|---|---|
| GOP queue (`engine/gop/gop_queue.c`) | slots with seqlock counter and buffer, write_idx, count, GOP index, write_seq, oldest_seq | alloc_write, write, write_buf, set configs, clear, attach, detach, read | one writer under `mu`; readers mostly without it; wake-ups to pollers | lock-free take against recycling, grace period that gives up, buffers lent to the writer | a reader gets exactly the frame of its cursor, intact, in order; every reference has one owner; commits end |
| GOP reader (`gop_reader_seek.c`, staging in `gop_queue.c`) | read_idx, up to 48 staged frames | seek_live, gop_key, live_key, live_idr, rtsp_idr, decode_start, read_muxed | under `mu` | edges of an empty, wrapped or overrun ring; A/V order across refills | a seek lands on a frame the ring has, key or near the edge as promised; tracks keep order; the output decodes |
| Frame policy (`frame.c`, `frame_codec_policy.c`) | - | storable, new_gop, is_key per codec | asked by queue and seeks | - | GOPs start at decodable frames |
| Stream hub (`stream_hub.c`, `media_event.c`) | source: publishing, publisher_ctx/kick, recorder, reader_count | register_publish, set/clear_publisher, close, publish, publish_fini, foreach | mutex; called from every poller; calls sessions back (kick) and the webhook | mutex released between the parts of a take-over; late teardowns; call-backs under the mutex | nothing of a session outlives it; ends match begins; one publisher in the end |
| Publish sessions (`live/publish`, `session/rtmp`, `rtsp`, `srt`, `rtp`) | session state/mode, ingress | publish, ANNOUNCE/RECORD, media, error | hub, ingest, webhook | handlers against kicks | refused or ended sessions leave nothing behind |
| Pull proxy (`live/proxy`) | started, stopping, retry timer, failed_count, client | start, callbacks, retry, stop, kick, destroy | its client, ingest, hub | retry racing stop, kick and destroy on another thread | one chain of retries, silence after stop, no use after free, recovery |
| Pull clients (`rtmp_client.c`, `rtsp_client.c`, `http_hls_client.c`, `http_flv_client.c`) | state, CSeq, timers, retry counts | play, stop, callbacks of the connection | the proxy's callbacks, ztk timers | answers after stop, two retries at once, half a message | the contract of `PullClient`; a server that is up is reached |
| Play sessions, live policy (`live/play`, `egress`) | reader, boot flags, outbox | pump, boot, snap, kick | reader, poller timers, the connection's send queue | slow consumers, boot on a key frame, wake-ups given away | playback starts on a key frame, keeps order, decodes, catches up |
| RTP send queues (`egress/rtp`) | a queue per session, one depth for all | enqueue, flush | poller threads | a counter that is not atomic | in order, and queues drain |
| Segmenters and recorders (`live/play/hls`, `dash`, `egress_*recorder`) | window of segments, sidecar table, open file | cut, store, serve, tick, start/stop | reader; hub events; HTTP requests on other threads | the unlocked table, a timer that ends itself, rotation | a listed segment can be fetched, a file decodes, nothing is lost |
| RTSP player (`session/rtsp`) | mode, paused, lane, gop reader, delayed destroy | DESCRIBE, PLAY, PAUSE, TEARDOWN, error | thread pool, hub, manager timer | answers of jobs after the session moved on | lanes and reader counts are given back; silence unless playing |
| RTMP VOD player, VOD lane (`vod/play`, `vod/io`) | FIFO, demuxer, clock, hold | play, seek, pause, leave, tick | thread pool, timers | a job that ends after a second play or the session's end | the file without gaps between two jumps; nothing held for nobody; the end is reached |
| Framers (`rtmp_protocol*.c`, `http_message_framer.c`, `flv_tag_framer.c`, `rtp_receiver.c`, `h26x_over_rtp.c`) | what of a message has come | input | the connection | reads that end anywhere, interleaving, loss | what was sent comes out, as soon as it is whole |
| HTTP server side, HTTP API, webhook, server, config (`session/http`, `ops`) | - | requests, close_stream(s), addStreamProxy, start, stop | hub, proxies, sessions | visitors under the hub's mutex; pool jobs of closed sessions | requests are answered |
| Live ingest, media clock (`live/ingest`, `media_clock.c`) | stamp of each track, raw/pts caches, AV origin, parameter sets, access unit under way | input_* per codec, reset | writer of the GOP queue | jumps, wrap-around and drift of two clocks, deferred first key frame, gap filling, shared work buffer | tracks stay together, distances are kept, nothing is sent before the first key frame |
| Dispatcher, codec filter, URLs (`session_dispatcher.c`, `codec_filter.c`, `stream_url.c`) | codec lists per protocol | attach, advertise | asked once when a player comes, while the source may change | a check made once, lists kept apart | who is let in can be sent what the source has; what is advertised is let in |
| Muxers of players (`egress/rtp`, `egress/mpegts`, `http_flv`, segment writers) | sequence numbers, time lines, pending units, headers sent | pump, seek, snap, configure | pulled by play sessions and recorders | configurations that come late, units split or held back, seeks | starts at a key with its parameter sets, no holes, times go forward |
| VOD over HTTP (`vod_hls.c`, `vod_flv_cache.c`, `vod_flv_index.c`) | key frame index, playlist, segments and FLV copy on disk, lazily made mutex | index, generate, open | jobs of the thread pool | two requests that make the same file | a file served is whole; segments and views start at key frames |
| WebRTC (`webrtc`) | registry of 64 sessions, DTLS/SRTP state, packet queue, bias of sequence numbers | WHEP, WHIP, DELETE, handshake, feedback, shutdown | ICE agent, poller timers, hub | failures between two looks at the registry, feedback against the queue, rollover of sequence numbers | all is given back; packets consecutive; both ends count the same; answers fit offers |
| RTP-PS server (`session/rtp/rtp_ps_server.c`, its requests in `webapi.c`) | a slot per key: mode, port, connection listened to, bytes gathered, decoder, source | open, connect, close, datagrams, reads, errors | pollers, HTTP API, hub, webhook | reads cut anywhere, several connections of one port, requests repeated, a source closed under the slot | the decoder gets what was sent, once; what the hooks were told is true |
| Statistics, codecs' bit level, containers' bytes, SRT transport, utilities | - | - | - | - | see section 6 |

`PROJECT.json` lists the same parts with their status, and under `hazards` the
places where they bite.

## 2. Modules

Every module names the C files it is translated from; its variables carry the
names of the fields where TLA+ allows it, a helper or a handler is one operator
or one action, and what a variable or an operator stands for is said beside it.
A definition whose comment begins with "mutant" is not part of the
specification: it is a plausible bug, kept to show which property finds it
(`PROJECT.json`, `mutants`).

### The ring of a live stream

| module | models | a step is |
|---|---|---|
| `GopRing` | frame kinds and what the codec table says of them; write_idx, count, gop_start/gop_count: oldest_idx, pop_front_gop, on_new_gop, trim | operators |
| `GopQueue` | the queue with its writer and its lock-free readers | one access the other side can observe |
| `GopReader` | every seek, attach, the staging of two tracks | one call; staging one frame |
| `Ingest` | what an ingest does to times and parameter sets before it writes | one input call |
| `Admission` | which tracks a source shows, which player is let in, which URLs are advertised | one packet, one attach |

In `GopQueue` a frame has an absolute index; frame *i* is in slot *i* %
`Capacity`. `writeIdx`, `count`, `gops` are what `mu` protects; `writeSeq`,
`oldestSeq` and `slot` are what a reader looks at without it. A slot is the
seqlock counter, the buffer pointer and the public view. Buffers are names with
a reference count; `data[b]` is the number of the frame whose payload the buffer
spells. A commit is `AllocWrite` (`zms_gop_queue_alloc_write`; may lend the slot's
own buffer), `FillBuf` (the caller's memcpy), then `ring_commit_frame`:
`BeginCommit`, `FirstGop`/`RoomForGop`/`AppendGop` (`on_new_gop`), `MakeRoom`,
`PublishBegin`, `StoreBuf`, `StorePub`, `PublishEnd` (`slot_publish`), `Grace`
(`ring_wait_quiescent`), `Advance`, `Trim`, `EndCommit`. A take is `ReadBegin`,
`ReadRoute`, `TakeEnter`, `TakeLoad`, `TakeCheck`, `TakeRef`, `TakeRecheck`
(`reader_try_take_slot`), `TakeConfirm`, or `TakeLocked` under `mu`, where a slow
cursor is clamped (`zms_gop_reader_read`) or snapped to the last GOP
(`frame_mux_fill_one_locked`). Memory is taken to be sequentially consistent: the
code puts `zms_gop_barrier()` between every two accesses whose order matters.
`Clear` (take-over, close, a publisher's end) comes whenever the mutex is free, also
between `alloc_write` and the commit and in the middle of a lock-free take. The code
then frees the buffer it lent under the writer, or gives a reader a frame of the new
numbering; `met` records whom a clear has met half way, and each property says which
of that it excepts.

`GopReader` has the same bookkeeping with a commit as one step, all seeks as
operators from cursor to cursor, and the staging area: `FillBegin`, `FillOne`,
`FillEnd`, `ReadMuxed`. A stored video frame remembers the one before it, so
`Decodable` can tell whether a decoder was given what an inter frame needs.
`LandsAsNamed` says where each seek lands as its comment names it; `Far`,
`GopKeyFar` and `IdrFar` are the cases in which the code lands elsewhere.

`Ingest` keeps both stamps of a time line, the caches of raw times, the AV
origin of a transport stream and where parameter sets are; `InputH264`,
`InputH265`, `InputEs`, `InputAac`, `Params` and `Reset` are the entries of
`live/ingest`; `PicturesSetBack` is where the clamp moves the pictures' time and not
the sound's. `Admission` follows a source through its publishers and asks, at
`AttachPlay`, what the dispatcher asks.

### Publishers, proxies and their clients

| module | models | a step is |
|---|---|---|
| `StreamHub` | one stream, the connections that publish, look and play there in any order, the HTTP API | one section under the hub's mutex, kick, recorder call, clear |
| `PullClient` | what a pull client promises its user | abstract |
| `RtmpClient` | the RTMP client: state, requests, answers, callbacks | one callback of the TCP client |
| `PullProxy` | proxy, RTMP client, source, local publisher and API on three handlers | one call of a handler (with one poller thread handlers do not interleave) |
| `RtspClient`, `HlsClient`, `FlvPull` | the other clients, with their own retries | one callback or timer |
| `RtmpChunk`, `HttpFraming`, `FlvPull`, `RtpAssembly` | how bytes or packets that arrive in any pieces become messages, tags, pictures | one read, one packet |
| `RtpPsServer` | a slot of the RTP-PS server: its port or connections, the packets found in their bytes, the announcement of its stream | one datagram, one read, one request |
| `WebrtcHub`, `WebrtcSdp`, `WhipIngress`, `SrtpContext` | the registry and life of WebRTC sessions, offer/answer, the publisher's packets, the packet index of SRTP | one lock section; one answer; one packet |

A take-over in `StreamHub` (`register_publish` under a used name) and `close` are the
same parts: under the mutex the source forgets its publisher (`Take`); then, each on its
own, `Kick`, the recorder's stop, `PublishFini`, `Clear`. RTMP goes on in the same
handler to `Allow`, `Publish`, `SetPublisher`, `StartRecorder`; RTSP ends ANNOUNCE and
does so in RECORD. `Kick` closes a TCP connection; the session's poller reports that
later, between handlers (`OnError`), and the teardown is `Reset`, `ClearPublisher`,
recorder stop, `PublishFini`. Between its handlers a connection may ask for anything
again: to publish here or elsewhere, DESCRIBE, PLAY, RECORD (`Register`,
`RegisterElsewhere`, `Describe`, `Play`, `Record`). Nothing undoes what an earlier
request did, and the teardown goes by the mode, source and ingress the last one left
(`Owns`, `Feeds`): a publisher that turned player leaves its registration behind, and a
kick may call back a session that was freed (`Kicked`: it closes nothing, or whatever
connection has the memory now). `CloseStreams` calls the same close from a visitor that
runs with the mutex held. `unended` counts publications begun minus ended, as decided
under the mutex; `queued` is whose frames the queue has had since the last clear. The
state starts after the name was used once, so every registration is a take-over.

`PullProxy` keeps for each handler the calls it still has to make (`todo`); a part
is named after the call. "orphan" is the timer the poller re-arms when the retry
task returns a delay, which `retry_timer` no longer names. `up` is the moment from
which the upstream is reachable for good. Each client module defines `Phase` from
its own state and instantiates `PullClient` with it: never ready twice, no callback
after stop, an error ends the play. In `RtspClient` the splitter outlives a
connection (`client_reset_state` only turns RTP off): `rest` is what a cut connection
left in it, glued to the first answer of the next; where that loses the answer the
client is `deaf`, it waits and no timer of its own ends that.

In `RtpPsServer` a packet on TCP is two units, its length and its body, and
`conns` counts the units each connection has brought; `asm` is `tcp_asm`. `Read` is
`rtp_ps_tcp_feed` on a read of any number of units: `Unit`, unit by unit, and under it
`Feed` (`rtp_ps_feed_rtp_packet`, `rtp_ps_payload_packet`) and `Publish`
(`rtp_ps_slot_finish_publish`). `Break` is the error of a session, after which nobody
is listened to. The registry has no lock; the module takes everything to run on one
poller.

### Players

| module | models | a step is |
|---|---|---|
| `LivePlay` | RTMP, RTSP/WHEP and HTTP-FLV players of the ring: snap, catch-up, kick, budget, outbox | one part of a flush |
| `RtpSender` | the send queues of RTP sessions, their resets, packets written past them, and the process-wide flush depth | a load, a store, a packet |
| `RtpMux`, `TsEgress`, `FlvOut` | the muxers: headers, parameter sets, times, sequence numbers | one frame or request |
| `RtspSession` | DESCRIBE/PLAY/PAUSE/TEARDOWN, lanes opened on the pool, delayed destroy | one handler |
| `HttpPlay` | an HTTP connection that plays live FLV/TS, files, ranges, playlists, the FLV cache | one handler or job |
| `WhepPlay` | handshake, pump timer, packet queue, SRTP, feedback of a WebRTC player | one callback |
| `HlsLive` | segment recorders, the sidecar table, their timer, requests, publish events | one access of the table or lock section |
| `SegmentWriter` | which frame goes into which HLS or DASH segment | one frame or tick |
| `Mp4Recorder` | the rolling recorder, failing opens, overruns | one frame of a tick |

An `RtspSession` may be freed with an open under way: the completion reads where it was,
and closes the lane or leaves it to nobody (`OpenedLate`). `past` remembers the
sequences after which the code's books are wrong: `hasty` (a PLAY with an open under
way: the later lane overwrites the earlier, which `dropped` lists), `crossed` (a
PAUSE did), `moved` (a DESCRIBE pointed an attached session elsewhere). `HttpPlay` takes
a request at any time, also with jobs of the pool pending: what the second answer
overwrites is counted in `lost`, and a job that took freed memory for its session sets
`past.touched`. In `WebrtcHub` a DELETE is `Delete` (the look-up) and later
`DestroyFound`; when two found one session, the second frees it again and `twice` says
so. In `Mp4Recorder` a commit marks every sync picture a key frame, as
`zms_frame_refresh_key_from_es` does, so the recorder's second condition (`is_sync_key`)
arms on nothing the first does not; both are in `FeedVideo`.

### Files

| module | models | a step is |
|---|---|---|
| `VodLane` | demuxer and FIFO of a lane: write, read, seek, pump, alignment | operators |
| `VodPlay` | the RTMP session on a lane: play, seek, pause, jobs of the pool, clock, outbox, teardown | one callback |
| `VodFiles` | playlist, segments and FLV copy made beside a file by several threads | one file operation |
| `VodCut` | the key frame index, a view from the middle, one HLS segment | one sample |

`VodPlay` keeps the parts a callback changes in one record (`St`) so that a
callback is the composition of the functions it calls, in their order; `Becomes`
puts the record back. A completion that finds its session freed (`OnIoGone`) reads a
token there that may be 0: it closes its lane, or hands it to the later session that
has the memory. Such a lane is in `astray` until that session ends (`StrangerCloses`).

### Instances

`MCVodPlay` only gives values; a module a run names directly gets them in the
configuration, as do the parts of `MCSessions` with theorems, whose constants are
constants of `MCSessions`: it instantiates their modules of proofs, so that a theorem
about a part holds of the part there, for every value. `MCSessions` and `MCStreams` are
one run each over modules that do not interact: `part` is chosen at Init, the
behaviour is one of that module from then on, and the module's variables live in
slots `s1`, `s2`, ... (a slot no part uses is 0). Their properties are the modules'
own, conjoined under the question they answer: for instance `HeldOnce` is "what a
session took it gives back once", for RTSP, HTTP and WebRTC sessions and RTP-PS slots
alike.

## 3. Runs

| run | question | instance |
|---|---|---|
| `gop_ring` | what does a lock-free reader get while the ring wraps? `TakesItsSlot`, `InOrder`, `HeldIntact`, `NoTouchAfterFree`, `RefsExact`, `KeyIndexed` | 5 slots, 1 reader, 7 frames in GOPs of at most 2, 7 buffers, 1 clear |
| `gop_live` | does it go on? `CommitEnds`, `ReadersCatchUp`, and `TypeOK`, `GopsOrdered`, `WindowInRing` | 3 slots, 1 reader, 4 frames (heads, inter frames, empty ones; 2 times), 1 clear |
| `hub_takeover` | who owns the stream? `NoOrphans`, `EndsMatchBegins`, `OneSurvives` | 1 RTMP and 1 RTSP connection, 4 requests, 1 API close |
| `pull_proxy` | `OneChain`, `StoppedIsQuiet`, `FreedUntouched`, `ClientContract`, `Recovers` | 1 publication, 1 API call, one poller thread or several, retries without end or 1 |
| `vod_play` | `FifoContiguous`, `RunIsTheFile`, `HoldMatches`, `ReaderOfOpenLane`, `PlaysToTheEnd` | a file of 6 samples, FLV or MP4, with or without thread pool; FIFO of 4; 2 plays, 1 seek, 1 pause |
| `sessions` | do single sessions give back what they took and make progress? (9 parts) | see `MCSessions` and `sessions.cfg` |
| `streams` | does what goes in come out, whole, in order, decodable, as promised? (21 parts) | see `MCStreams` |
| `gop_long_payload`, `hub_close_streams`, `proxy_takeover`, `rtsp_resume`, `flv_chunked` | violations | section 5 |

**Bounds.** In the ring what matters is that it wraps past a reader, that the GOP index
fills and that a GOP is popped under a reader: 3 to 5 slots with up to 7 frames do all
of it (`MaxFrames` > `Capacity`), and frames behave alike but for their index and kind.
`MaxGopLen` keeps GOPs below half the ring: beyond it the code loses the index entry
before it frees slots, and `gop_long_payload` shows what follows. `Bufs` is one per slot
plus what reader and writer can hold, so an allocation never fails. Frames need not be
of every kind: to the queue they are heads, inter frames or refused (`empty`); the other
kinds matter to the seeks (`streams`). `gop_ring` and `gop_live` have one reader, one
clear and a grace period that waits; several readers, more clears and a grace period
that gives up are covered, for every size, by the theorems of section 4. In the hub two
connections with four requests are enough for one to take over, one to be taken over,
each to come between the other's registration and `set_publisher`, and one to ask again
afterwards; the theorems have any number of both. In the proxy one retry exhausts the
retries and `MaxFailed` is past any limit the code compares with. In `vod_play` the file
has two sync samples, so a seek can land before, between and behind them, the FIFO is
shorter than the file, and two plays are enough for a job to be overtaken. In `sessions`
and `streams` each part is the smallest instance in which its window slides, its queue
fills, its numbers wrap or its second attempt meets what the first left behind; the
comment at each instance or constant says which. An HTTP connection has a file of two
chunks and two requests, the second at any time; two WHEP players and two WHIP
publishers share two places, with two DELETEs for each; RTP pictures are H.264 and
H.265. The RTP-PS slot of `sessions` has a camera of at most two packets, a second
connection and a second request to open: enough for a read that ends in a packet, a
camera that is not listened to, and a slot used again or replaced ("unknown" is the mode
that becomes UDP). `MaxFailed` of `VodFiles` bounds the files a write fails on.

**Symmetry** is used once: in `streams` the two threads of `VodFiles` and the two
sessions of `RtpSender` (`t1`, `t2`) are interchangeable, and that run checks safety
and action properties only, which do not tell them apart.

**Fairness.** All of it says that pollers, timers and the thread pool go on;
nothing obliges a client, a publisher or an upstream to do anything.
`gop_live`: a started commit runs to its end (the code has no way out of it) and a
poller keeps calling an attached reader. `hub_takeover`: a handler runs to its end,
and a poller reports a closed connection. `pull_proxy`: the parts of handlers,
client callbacks and timers. `vod_play`: jobs, deferred kicks, manager timer, wall
clock. In `sessions` the fairness of each part is the antecedent of its property
(`LiveFairness => ...`), because a behaviour is one of a single part. Strong fairness
is stated in two places. A live frame that is staged comes due and is sent
(`StepSend`): flushes that find it not yet due do not disable it for good, the wall
clock advances. A flush of `RtpSender` with packets gets its turn although the shared
depth is found raised again and again; where the counter has drifted for good
`Drains` claims nothing: that case, and what it does to players, is left to section
5. A segmenter's timer has weak fairness only, which a timer that requests keep binding
anew does not profit from; `Pumped` therefore says that a recorder with media is
pumped unless requests never stop coming (`[]<>Rebinding`).

**Deadlock** is not checked: every model may stop, since publishers and clients are
free to do nothing more and counters are bounded. What must not stop is stated as
liveness.

## 4. Proofs

TLC checks small instances; the theorems hold for every value of the constants
that satisfies the assumptions named in the modules. `PROJECT.json`, `theorems`,
lists them with the property of a run each one states.

| module | theorem | states |
|---|---|---|
| `GopQueue_proofs` | `TypeCorrect`, `IndexOrdered`, `WindowStored` | the ring's bookkeeping: `TypeOK`, `GopsOrdered`, `WindowInRing` |
| | `WindowInvariant`, `HeadIndexed` | while GOPs are short, `KeyIndexed` |
| | `FrameInvariant`, `FramesInOrder`, `FrameOfTheCursor` | a take gives each frame once and in order (`InOrder`), and the cursor's own (`TakesItsSlot`) |
| | `BuffersCounted`, `NoFreedTouch`, `HeldStaysIntact` | `RefsExact`, `NoTouchAfterFree`, `HeldIntact` |
| `StreamHub_proofs` | `HubInvariant`, `NothingOrphaned`, `EndsAtMostOnce` | `NoOrphans`, `EndsMatchBegins` |
| `HttpPlay_proofs` | `HttpGivesBack`, `HttpSendsFromOpen`, `HttpAnswersRange` | the HTTP parts of `HeldOnce` and `CarriedRight` |
| `WebrtcHub_proofs` | `WebrtcAccounts`, `WebrtcPublishesInPairs` | the WebRTC part of `HeldOnce` |
| `RtspSession_proofs` | `LanesNeverLeak`, `ReadersAlwaysCounted`, `SilentUnlessPlaying` | the RTSP part of `HeldOnce` and `Quiet` |
| `PullProxy_proofs` | `ProxyInvariant`, `OneChainAlways`, `StoppedStaysQuiet`, `FreedStaysUntouched` | `OneChain`, `StoppedIsQuiet`, `FreedUntouched` |
| | `ClientKeepsContract` | `ClientContract`: the RTMP client refines `PullClient` |
| `Sessions_proofs` | `RtpPsFeedsWhole`, `RtpPsAnnounces` | the RTP-PS parts of `CarriedRight` and `HeldOnce` |
| | `SessionsHoldOnce`, `SessionsCarryRight`, `SessionsStayQuiet` | `HeldOnce`, `CarriedRight`, `Quiet` |
| | `PullClientsKeepContract` | `ClientContract`: the HLS and RTSP clients refine `PullClient` |
| `VodPlay_proofs` | `PlayInvariant`, `PumpHeldWithLanes`, `ReaderNeverDangles`, `FifosStayWhole`, `SentIsTheFile` | `HoldMatches`, `ReaderOfOpenLane`, `FifoContiguous`, `RunIsTheFile` |

**Assumptions on constants.** Numbers are numbers, names are not taken twice,
`IsFiniteSet(Readers)` (a reader is a session in memory; needed where references
are counted), and what each theorem adds:

- `ShortGops` (`2 * MaxGopLen < Capacity`): a GOP of half the ring or more may be
  dropped while it is being written. The code does that, and
  `gop_long_payload` shows what follows; the theorems that need it say so.
- `NoEmpty`: a refused empty frame releases the buffer of the slot it was lent
  from; the reference count is exact as long as nobody offers one.
- `NoGivingUp`: the grace period waits instead of giving up after its spins.
- `Pacing` (`CatchupBudget <= OutCap`, `VodBudget <= OutFlush <= OutCap`): as
  shipped 96, 256, 8 and 32; `flv_budget_vod` can be configured past
  `OutFlush`, and then frames of the present run may be given up.
- `StartsWithSync`: an MP4 has a sync sample among its first `SyncMax` (256).
- `ProxyAssumption`: bounds are natural numbers and `failed_count` saturates above
  every limit on retries.
- `TracksAssumption`, `RtspAssumption`, `HttpPlayAssumption`: bounds are natural
  numbers; a file has at least one chunk and a flush sends at least one.
- `WebrtcHubAssumption`: a player is not also a publisher, and the registry has room
  for at least one session.
- `RtpPsAssumption`: modes, kinds of packets and lengths are among those the code
  tells apart, bounds are natural numbers.

**The ring.** `TypeOK` and `GopsOrdered` are not inductive: that a pop leaves a
strictly increasing index depends on `count` covering it, and that nothing
overflows on the order of the commit's parts. `IInv == TypeOK /\ RingInv` adds for
each program counter of the writer what it has already changed. For `KeyIndexed`,
`WInv` adds the run of frames since the last head: it fits the window (`RunInv`,
`RoomInv`) and belongs to the last GOP of the index (`LastGopInv`), so the pops for
room stop before it.

**The readers.** `FrameInv` relates slot, counter and frame: outside the writer's
own slot the seqlock counter is even and the slot spells the last frame of its
index, and a reader's copy is of a frame that was there at its `TakeLoad`. A cursor
only goes forward, and `CursorInv` says that what passed the checks up to here is
the cursor's or `oldestSeq` has passed it, which `TakeRecheck` and `TakeConfirm`
ask. `BufInv` is `RefsExact` with what a half-finished take or commit holds: the
count of a buffer is the cardinality of the set of its owners, so each step is one
`FS_AddElement` or `FS_RemoveElement`. `TouchInv` says that a reader past
`TakeEnter` is one the writer waits for before it lets the old buffer go;
`HeldInv` and `DataOk` that a buffer with an owner besides the writer is not
refilled.

Clears are in every theorem. A clear sets write_idx back and releases buffers without
waiting for readers or for the frame being written: `RefsExact` is claimed until one
falls between the allocation and the commit of a frame whose buffer the ring had lent,
`TakesItsSlot` until one meets a lock-free take half way, `HeldIntact` and
`NoTouchAfterFree` until either (`met`); `InOrder`, `KeyIndexed` and the bookkeeping in
any case.

**The hub.** `IInv` ties `publishing`, `publisher`, recorder and `unended` to the
program counters of all actors: each of them has exactly one actor, or session yet
to be torn down, that will give it back. That is claimed of a session that still is
the publisher of what it registered (`Owns`, `Feeds`), whatever it asked for before and
whatever came between; of one that turned player, or publishes under another name,
nothing is claimed, because the code does leave its registration behind.

**RTSP.** `LanesHeld` holds of every client: a lane is the session's, a job's or one of
those `dropped`, and nothing is dropped but by a PLAY that came with an open under way
or by a session freed before its completion. `ReadersCounted` and `Quiet` hold of every
client that does not DESCRIBE another source while attached. Without a hasty PLAY at
most one lane is being opened (`OneOpen`); attachment, answer and reader count then
follow from one another (`Binding`).

**Pull clients.** A step of a client maps to a step of `PullClient` or leaves
`Phase` alone. For the RTSP client, which has a retry of its own, that needs
`OneRetries`: under the proxy a client that has reported an error is stopped before
its own retry can dial. The RTMP client is proved together with its proxy, whose calls
are what its contract is about.

**The pull proxy.** `OneChain` is not inductive: an error callback may retry because the
client has just failed, and the timer may dial because nobody else does, which only the
rest of the state says. `IInv` has three parts besides the types. `RunsOk`: which
sequences of calls a handler can have left. Those of the poller are listed, since one
callback of the client hands the proxy several calls (an answer with media in the same
read: ready, publish, frame, publish); of the others it says which calls come last.
`ChainOk`: while the proxy is started, a timer, a handler about to retry and a client
that dials or plays exclude each other, each knows the client's phase, and unless the
proxy is being destroyed one of them is there or the retries are used up. Both hold with
any number of poller threads, and so do `OneChain` and `ClientContract`. `ThreadOk`:
with one thread a single handler is under way, so whoever stops the proxy also hangs up
and lets go of the source before anybody looks; `StoppedIsQuiet` and `FreedUntouched`
claim nothing for several. The timer the poller re-arms after a failed redial
(`"orphan"`) is in no field of the proxy: stop cannot cancel it, and it is the one thing
that uses a freed proxy (`redialFailed` in both properties; section 5).

**A player of a file.** The invariant is `Good(St)`, on the record of what a callback
changes. `Base`: types, who owns each lane, that reference count and hold match the
open lanes, that a job's lane is nobody else's, and of each FIFO that the slots from
the consumed frame on hold the samples up to the demuxer's position (`FifoOk`), the
reader among them (`LaneOk`). `FifoContiguous` alone is not inductive: a write
overwrites the slot one capacity behind, which is safe because the high-water mark
counts from the frame consumed and not from the reader. `Tape`: what was sent is a
chain that ends before the sample the reader is to read next; an armed reader that
has sent nothing stands on a sync sample; what is in the outbox of this run is at
most what was pushed since the last flush. Each function a callback calls is a lemma
`Good(t) => Good(u)` (`SeekOnOk`, `AttachToOk`, `PrimeAndFinishOk`, `TeardownOk`, ...)
and each callback composes them in the order of the code. The pump's loops are
`FoldLeft` over `Times(k)`. Facts about a fold are proved here without induction over
an operator: naturals for which a *set* of numbers holds (`Induction`, from
`WellFoundedInduction`'s least element), applied to the trace of the states between
(`Trace`, `PumpFold`, `FillFold`, `StepFold`). Trying to prove `~out.lost` showed
that it is false: a client that resumes, or seeks to the place it is at, again and
again makes the pump catch up again within one run and the outbox gives up tags of
it. `out.again` records that, and the property now says what the code keeps.

**HTTP connections.** A job of the pool carries what it took (lane, FILE, reader) and may
complete after the connection has gone. `IInv` says of `GivenBack` where each thing is
(`Counted`): with the connection, with exactly one pending job, or given back; `Fits`,
that a phase holds what it plays from; `Tidy`, that a connection that idles or is closed
holds nothing. The client need not wait for its answers: what an overlapping request
overwrites moves to `lost`, so the sums stay exact, and `lost` is empty for a client
that waits. `RightChunks` is arithmetic about `Range`: the last byte is clamped before
the length is taken from it, so what is promised, sent and left always add up.

**The WebRTC registry.** Its count is the cardinality of the set registered. `IInv` adds
to `SessionsAccounted` and `PublishPaired` what a session's phase tells of its holds
(`Fits`), and that `registry` is finite, which follows from its starting empty and
growing by one session at a time, not from an assumption on `Sessions`. Both properties
are claimed until two DELETEs free one session (`twice`).

**An RTP-PS slot.** What a read leaves is an induction over its units, which no theorem
of the library can state here: `UnitInduction` is about a *set* of numbers, `ReadFollows`
shows that the recursive function has the values its definition says, and `WholeStep`
takes one more unit. `Unbroken` is inductive only together with "while nobody is listened
to no connection has brought anything": the first that sends is then listened to from its
first byte. `AnnouncedTruly` needs that what the hooks were told fits whether the slot has
announced (`Told`), and that the key frame stays among what was fed (`HasKey`).

**The run of sessions.** A behaviour of `MCSessions` is one of the part that Init picks
(`PartStays`), so each part's theorem carries over to its slots and the conjunctions
over parts are theorems about every instance.

**Only model-checked.**
- Liveness and everything that rests on `ENABLED` (`CommitEnds`, `ReadersCatchUp`,
  `OneSurvives`, `Recovers`, `PlaysToTheEnd`, `LiveCatchesUp`, `Drains`, `FilePlays`,
  `Pumped`, `PullRecovers`): out of the provers' reach.
- The properties of `streams` (`FilesWhole`, `ReceivedAsSent`, `PicturesAssembled`,
  `AgreedIsKept`, `OutInOrder`, `OutDecodes`, `SeeksLand`): each is a conjunction
  over many modules, most of them about recursive or folded computations over whole
  inputs, and one of the modules (`HttpFraming`) declares a recursive operator.

## 5. Disagreements found

Five runs end in a counterexample; `PROJECT.json`, `findings`, quotes what each one
contradicts.

- `gop_long_payload` (`gop_queue.c:878`): when a GOP is longer than half the ring its
  index entry is dropped, `alloc_write` lends a slot's own buffer while readers can
  still reach it, and a reader holds a frame with another frame's payload although
  every seqlock check passed.
- `hub_close_streams` (`webapi.c:401`): `close_streams` closes sources from a visitor
  that runs with the hub's non-recursive mutex held, and the close locks it again.
- `proxy_takeover` (`stream_hub.c:487`): `set_publisher` kicks the previous publisher
  with the mutex held; the kick of a pull proxy locks it again.
- `rtsp_resume` (`rtsp_session_play.c:373`): PLAY after PAUSE of a live stream is
  answered 200 and nothing flows: only the VOD branch resets `play_paused`.
- `flv_chunked` (`http_flv_client.c:281`): the line feed that ends a chunk's size line
  is taken for its first byte (`http_hls_client.c:680` does the same).

What was also met and is in the models as the code has it:

*Ring.* A clear between `alloc_write` and the commit frees the buffer under the
publisher that fills it (`gop_queue.c:846`, 867). A clear leaves a reader ahead of
write_seq (its lag is then 0). A refused empty frame releases the slot's buffer. An
evicted publisher goes on writing until its own thread notices, against README.md:132. A
snap may land in the middle of a GOP. `oldest_seq` is not published again after the last
GOP was popped. A take that began before a clear may confirm a frame whose buffer is
being refilled, once write_idx reaches its old cursor again. A ring filled before its
first GOP drops the next head's index entry. `max_skew_ms` has no effect.

*Seeks.* `SeeksLand` states where a seek lands as its comment names it, except when the
last GOP is longer than the live window. Then the seek to its key stays there, out of the
window (`GopKeyFar`), where `gop_reader_seek.c:44` has it look for a sync frame in the
window and else cut to the last frame; and a live or an RTSP player starts on the last
frame (`IdrFar`), where `gop_queue.h:129` and 134 put it on the sync frame or the IDR.
`seek_live` of a
reader that has caught up moves it back by one.

*Hub and proxies.* Asking for something else on a connection that publishes undoes
nothing: after a PLAY on a RECORD session, or a publish under another name, its teardown
skips what it had registered, and `publisher_ctx` points at a freed session, which the
next take-over calls back. The callback of a kick runs after the mutex was released, and
its session may have been freed by then (`stream_hub.c:697`). A denied RECORD leaves the
mode RECORD, so that the teardown ends somebody else's publication. A publisher is
registered and the previous one kicked before the on_publish hook is asked. A take-over
suppresses the end event of what it replaces. `close_timer` is not cancelled by a play;
a proxy's retry timer re-armed after a failed redial survives its destruction. Webhook
retries can reorder events, and a none-reader answer may close a later publication.

*Files over RTMP.* Repeated resumes, or seeks to the same place, overflow the tag
outbox and skip tags of the present run. A seek before the lane is there is dropped.
A lane opened for a session freed meanwhile is handed over by a token read in freed
memory (`vod_rtmp_play_session.c:279`, `rtmp_live_play_session.c:66`).

*RTSP.* A PLAY that comes with an open under way starts a second one, and the session
keeps the lane that was opened last; a completion reads its session although it may be
freed (`rtsp_session_vod.c:179`); a DESCRIBE moves an attached session to another source,
which then is given back a reader it never counted. The client's splitter outlives the
connection (`rtsp_client.c:218`): the rest of a broken one can swallow the first answer of
the next, and nothing times that out. A packet too long for the send queue overtakes what
waits in it (`rtp_play_pump.c:226`). The flush depth is a plain static that the threads of
all pollers raise and lower (`rtp_play_pump.c:206-211`): a decrement lost to a race leaves
it above zero for good, no flush of any session does anything from then on, and a
queued player gets nothing more: new packets push the oldest out of its ring. The model
has that behaviour, and `Drains` exempts it.

*HTTP.* `http_sess_alive` reads a freed session after `on_error` while a job is
pending (`http_response.c:147`, `vod_http_serve.c:115`). A second request while a job
is pending overwrites `file_fp` and loses a FILE and a reader count. A playlist of a
file attaches a reader without asking whether it is attached (`vod_http_serve.c:311`).
The 403 in `start_transcode` and a bad WebSocket key leave the lane or the muxer
attached until the connection closes. WS-FLV is never flushed after its start. A file
that shrinks while it is sent stalls the session. Requests that come faster than the
segmenter's period keep its timer from firing (`http_hls_segmenter.c:304`; the exception
`Pumped` names). The sidecar table is used by several
threads without a lock.

*Files made for HTTP.* `has_static_pack` looks at the path the generated playlist is
written to: once generated, every segment not on disk is a 404 (`vod_hls.c:967`,
`vod_http_serve.c:655`), against `vod_hls.h`, and the rebuild is never reached. All
recordings of a directory share the names *N*.ts, and the purge removes every .ts.
A first sample that is a key enters the index twice. The last segment keeps only its
first GOP. `g_vod_hls_mu` is created lazily without synchronisation; concurrent
builders of an FLV copy share one .tmp; a failing realloc in `vfi_push_keyframe`
frees twice.

*Times.* `media_clock.h:119` says `mux_av_timeline` forces DTS to grow over both tracks;
`media_clock.c:449` does it per track. `media_clock.h:84` calls video the master;
`stamp_clamp_av` and `stamp_sync_l` set video back to audio (`media_clock.c:335`, 100;
`PicturesLead` says that nothing else sets it back, with these as `PicturesSetBack`).
`zms_flv_mux_try_split_aac_tag` leaves a single unit of more than 400 bytes queued after
it was sent. A configuration that comes after the muxer's header stage is never sent.
Deferred H.264 parameter sets that change before the first IDR are overwritten in the
shared work buffer (`h264_ingest.c:149`, `238`); H.265 is not held back before its first
key. A transport stream without H.264 or H.265 keys never delivers AAC. H.265 access
units are split on a first-slice bit that is never set, against `h265_over_rtp.h:4`;
`FramesPure` and `DamageLocal` hold of H.265 but for the cases named `HandedStraight`,
`EndsKnown` and `SplitByFragments`.

*Admission.* A track RTMP refuses is only logged, and its frames are written. The codec
check is made once, when a player attaches; a file's player is not checked. The RTSP
URL is advertised always.

*Muxers.* H.264 configuration packets carry time 0 or the seek's time, against the
comments at `rtp_muxer.c:433`. `pump_vod` does not advance past a frame that cannot be
packed; `pump_live` drops it. Sender reports' NTP is wrong after 13.25 h. G.711 is admitted
to http-ts and srt and never muxed. Segments after a flush of fMP4 start with inter
frames; H.266 HLS never yields a segment; `build_mpd` reads under another mutex than
the tick writes under.

*RTP-PS server.* Half a packet left in `tcp_asm` when a connection breaks off is put before
the next connection's bytes. The error of any session of the port, also of one that was
never listened to, makes the slot listen to whoever sends next
(`rtp_ps_tcp_passive_on_error` asks whether it is the session listened to and then calls
`rtp_ps_tcp_on_error`, which does not ask). A length below an RTP header's drops
everything gathered. A slot that is used again keeps its old SSRC and payload type. A
source closed through the API is not announced again by its slot, and its end is not
announced at all. The registry has no lock although requests and sessions may be on
different pollers.

*WebRTC.* A deferred start is not cancelled by a DELETE; two DELETEs on different pollers
free twice; `++g_webrtc_session_no` and the ICE agent's poller table are not synchronised.
There is no idle timeout, so the registry of 64 may fill for good. WHIP registers without
a take-over: two publishers feed one ring and the first DELETE ends both. The SRTP
receiver counts a rollover before it authenticates, so one late packet at a wrap makes
it deaf; SRTCP uses SRTP's keys. A rejected audio line stays in BUNDLE; `setup:passive`
is answered `passive`; a family profile with packetization-mode 1 loses to an exact one
with mode 0.

## 6. Not modelled

- Bits and bytes: codec headers, AMF, SDP text, box, tag and packet layout, digests,
  ciphers. Where a property depends on a conversion (chunk sizes, RTP sequence numbers,
  packet indices) it is modelled by what it does, with its width.
- Transports and libraries outside the repository: ztk (timers, pollers, mutexes), libsrt,
  ICE, DTLS, MP4 and transport stream demuxers. They are modelled from how the code uses
  them and marked external in the map.
- The wake-up queue of the GOP queue; the none-reader timer, which needs the readers of
  every kind of player in one module; media callbacks of a WebRTC session against its
  destruction on another poller, and a DELETE before the POST that made the session was
  answered; what a later session does with a lane or an answer that came to it because
  it has the memory of a freed one; publishers that mark a picture a key frame which is
  none; the recorder table's undefined accesses (a request
  that meets a freed recorder is lost in `HlsLive`).
- RTCP reports of a receiver, WebSocket masking, the route table, the
  start-up tables (`module_registry.c`), configuration, server start and shutdown,
  statistics, webhook delivery: I/O, formatting or filled before any thread runs.
- Weak memory orders: accesses are sequentially consistent; the code places a barrier
  between every two whose order matters.
