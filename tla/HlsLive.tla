------------------------------- MODULE HlsLive -------------------------------
(***************************************************************************)
(* The live segmenters: the recorder that cuts the GOP ring of a source    *)
(* into HLS or DASH segments, its window of segments and its playlist, the *)
(* sidecar table that names it (no lock guards the table), the 10 ms timer *)
(* that feeds it, the HTTP requests that create it and read from it, and   *)
(* the publish events that create and destroy it.  Source:                 *)
(* live/play/hls/http_hls_{segmenter,playlist,serve,sidecar}.c,            *)
(* live/play/dash/http_dash_{segmenter,playlist,serve,sidecar}.c,          *)
(* egress/egress_segment_recorder.c.                                       *)
(*                                                                         *)
(* One unit of media is a GOP as long as a segment: the key frame that     *)
(* opens it closes the segment before it.  A segment is its number (its    *)
(* name in the playlist).  A step is what runs between two accesses to the *)
(* shared sidecar table or inside one section of the recorder's mutex.     *)
(* The muxers and the text of the playlists are external (libhls, libdash).*)
(***************************************************************************)
EXTENDS Integers, Sequences, FiniteSets, FiniteSetsExt, SequencesExt

CONSTANTS Kinds,        \* subset of {"hls", "dash"}: the kinds of recorder
          Workers,      \* HTTP requests in flight, each on a poller thread
          MaxRecs,      \* bound: recorders ever created
          MaxPubs,      \* bound: publishers ever
          MaxMedia,     \* bound: GOPs ever published
          Window,       \* segments the playlist lists (seg_num)
          Lag,          \* GOPs the reader may fall behind
          TickGops,     \* GOPs one tick takes (ZMS_SEGMENT_REC_TICK_FRAMES)
          ServeTicks,   \* ticks one request pumps (SERVE_MAX_TICKS)
          Period        \* the 10 ms of the timer, in units of Elapse

SegmentAssumption ==
    /\ Window \in Nat \ {0} /\ TickGops \in Nat \ {0} /\ Lag \in Nat \ {0}
    /\ ServeTicks \in Nat \ {0} /\ Period \in Nat \ {0}

VARIABLES kind,       \* the recorder this source has
          publishing, pubs, media, inRing,
          slot,       \* the sidecar table's entry: a recorder or 0
          state, left, win,
          pc, ptr,    \* the requests: where they are, the recorder they hold
          ppc, prec   \* the publisher's thread inside an event

recVars == <<state, left, win>>
workVars == <<pc, ptr>>
pubVars == <<publishing, pubs, ppc, prec>>
srcVars == <<kind, media, inRing>>
vars == <<srcVars, slot, recVars, workVars, pubVars>>

Recs == 1..MaxRecs
None == -1
List == -1                              \* the request for the playlist itself
Off == 0
Cap == IF kind = "hls" THEN Window ELSE 2 * Window

-----------------------------------------------------------------------------
(* The window of segments of one recorder: a record of the GOPs its reader *)
(* has not taken, whether a segment is open, the number of the next one,   *)
(* the segments in memory and those listed.                                *)

\* libhls and libdash list the newest Window segments (external).
ListAdd(l, n) == IF Len(l) < Window THEN Append(l, n) ELSE Append(Tail(l), n)

\* A segment belongs to the MPD if its time is in the MPD's time line.
InMpd(s, n) == Contains(s.listed, n)

\* The slot a new DASH segment takes: the first that is free or whose segment
\* the MPD as last rendered does not list; else the head.
DashVictim(s) ==
    LET usable == {i \in 0..Cap - 1 : s.held[i] = None \/ ~InMpd(s, s.held[i])}
    IN  IF usable # {} THEN Min(usable) ELSE s.head

\* Store without moving the head on.
StoreKeepsHead(s) ==
    LET at == IF kind = "hls" THEN s.head ELSE DashVictim(s)
    IN  [s EXCEPT !.held[at] = s.next, !.listed = ListAdd(@, s.next), !.next = @ + 1]

\* Segment s.next is cut: it overwrites a slot and enters the playlist.
StoreAt(s, at) == [s EXCEPT !.held[at] = s.next, !.head = (at + 1) % Cap,
                            !.listed = ListAdd(@, s.next), !.next = @ + 1]
Store(s) == StoreAt(s, IF kind = "hls" THEN s.head ELSE DashVictim(s))

\* One GOP from the ring: it opens a segment and closes the one before.
TakeGop(s) ==
    IF s.unread = 0 THEN s
    ELSE [(IF s.open THEN Store(s) ELSE s) EXCEPT !.unread = @ - 1, !.open = TRUE]

Times(s, n) == FoldLeft(LAMBDA t, i : TakeGop(t), s, [i \in 1..n |-> i])
Tick(s) == Times(s, TickGops)

Held(s, n) == \E i \in 0..Cap - 1 : s.held[i] = n
\* DASH finds a segment by its name or by the time in it.
DashHeld(s, n) == n \in {s.held[i] : i \in 0..Cap - 1}

\* Ticks until the segment is there, ServeTicks of them at most.
PumpFor(s, n) ==
    FoldLeft(LAMBDA t, i : IF Held(t, n) THEN t ELSE Tick(t), s, [i \in 1..ServeTicks |-> i])
DashPumpFor(s, n) ==
    FoldLeft(LAMBDA t, i : IF DashHeld(t, n) THEN t ELSE Tick(t), s, [i \in 1..ServeTicks |-> i])

\* The list, after some ticks if there is no segment at all: serve_m3u8 counts
\* the segments, serve_mpd looks into the slots.
ServeM3u8(s) == IF s.listed = <<>> THEN Times(s, ServeTicks * TickGops) ELSE s
HasMedia(s) == \E i \in 0..Cap - 1 : s.held[i] # None
ServeMpd(s) == IF HasMedia(s) THEN s ELSE Times(s, ServeTicks * TickGops)

Fresh == [unread |-> IF inRing THEN 1 ELSE 0, open |-> FALSE, next |-> 0,
          held |-> [i \in 0..Cap - 1 |-> None], head |-> 0, listed |-> <<>>]

\* zms_gop_queue_clear: the readers find nothing until the next key frame.
Cleared == [r \in Recs |-> [win[r] EXCEPT !.unread = 0]]

-----------------------------------------------------------------------------
Init ==
    /\ kind \in Kinds
    /\ publishing = FALSE /\ pubs = 0 /\ media = 0 /\ inRing = FALSE
    /\ slot = 0
    /\ state = [r \in Recs |-> "none"]
    /\ left = [r \in Recs |-> Off]
    /\ win = [r \in Recs |-> [unread |-> 0, open |-> FALSE, next |-> 0,
                              held |-> [i \in 0..Cap - 1 |-> None], head |-> 0,
                              listed |-> <<>>]]
    /\ pc = [w \in Workers |-> "idle"]
    /\ ptr = [w \in Workers |-> 0]
    /\ ppc = "idle" /\ prec = 0

-----------------------------------------------------------------------------
(* The recorder. *)

\* The recorder takes the table's entry, whoever held it.
Enter(r) == slot' = r

\* zms_http_*_segmenter_create: it enters the table by itself.
CreateRec(r) ==
    /\ state[r] = "none" /\ \A q \in Recs : q < r => state[q] # "none"
    /\ state' = [state EXCEPT ![r] = "live"]
    /\ win' = [win EXCEPT ![r] = Fresh]
    /\ Enter(r)
    /\ UNCHANGED left

\* bind_timer stops the timer and starts it anew, unless the recorder closes.
ArmRec(r) == left' = [left EXCEPT ![r] = IF state[r] = "live" THEN Period ELSE Off]

\* Time passes for every armed timer.
Elapse ==
    /\ \E r \in Recs : left[r] > 1
    /\ left' = [r \in Recs |-> IF left[r] > 1 THEN left[r] - 1 ELSE left[r]]
    /\ UNCHANGED <<srcVars, slot, state, win, workVars, pubVars>>

\* A timer that does not repeat.
FireOnce(r) ==
    /\ left[r] = 1
    /\ left' = [left EXCEPT ![r] = Off]
    /\ win' = IF state[r] = "live" THEN [win EXCEPT ![r] = Tick(@)] ELSE win
    /\ UNCHANGED <<srcVars, slot, state, workVars, pubVars>>

\* hls_segmenter_tick_cb on the main poller; the timer repeats.
Fire(r) ==
    /\ left[r] = 1
    /\ left' = [left EXCEPT ![r] = Period]
    /\ win' = IF state[r] = "live" THEN [win EXCEPT ![r] = Tick(@)] ELSE win
    /\ UNCHANGED <<srcVars, slot, state, workVars, pubVars>>

-----------------------------------------------------------------------------
(* The source and its publisher. *)

Media ==
    /\ publishing /\ media < MaxMedia
    /\ media' = media + 1 /\ inRing' = TRUE
    /\ win' = [r \in Recs |-> IF state[r] = "live" /\ win[r].unread < Lag
                              THEN [win[r] EXCEPT !.unread = @ + 1] ELSE win[r]]
    /\ UNCHANGED <<kind, slot, state, left, workVars, pubVars>>

\* A publisher starts, or takes over from one whose end is then not announced.
Publish ==
    /\ ppc = "idle" /\ pubs < MaxPubs
    /\ pubs' = pubs + 1 /\ publishing' = TRUE
    /\ inRing' = FALSE /\ win' = Cleared
    /\ ppc' = "start"
    /\ UNCHANGED <<kind, media, slot, state, left, workVars, prec>>

\* on_publish_chain: hls_start_segmenter leaves a recorder that is there alone,
\* dash_start_segmenter binds its timer again.
StartEvent ==
    /\ ppc = "start"
    /\ ppc' = IF slot = 0 THEN "create" ELSE IF kind = "hls" THEN "idle" ELSE "bind"
    /\ UNCHANGED <<srcVars, slot, recVars, workVars, publishing, pubs, prec>>

StartCreate ==
    /\ ppc = "create" /\ ppc' = "bind"
    /\ \E r \in Recs : CreateRec(r)
    /\ UNCHANGED <<srcVars, workVars, publishing, pubs, prec>>

StartBind ==
    /\ ppc = "bind"
    /\ prec' = slot /\ ppc' = IF slot = 0 THEN "idle" ELSE "arm"
    /\ UNCHANGED <<srcVars, slot, recVars, workVars, publishing, pubs>>

StartArm ==
    /\ ppc = "arm" /\ ppc' = "idle" /\ prec' = 0
    /\ ArmRec(prec)
    /\ UNCHANGED <<srcVars, slot, state, win, workVars, publishing, pubs>>

\* The publisher ends: on_publish_fini_chain destroys the recorder.
Unpublish ==
    /\ ppc = "idle" /\ publishing
    /\ publishing' = FALSE /\ ppc' = "stop"
    /\ UNCHANGED <<srcVars, slot, recVars, workVars, pubs, prec>>

\* zms_media_source_close: publishing is reset before publish_fini looks at it,
\* so the event is not sent and the recorder stays.
CloseStream ==
    /\ ppc = "idle" /\ publishing
    /\ publishing' = FALSE
    /\ inRing' = FALSE /\ win' = Cleared
    /\ UNCHANGED <<kind, media, slot, state, left, workVars, pubs, ppc, prec>>

\* zms_segment_recorder_destroy_live.
StopEvent ==
    /\ ppc = "stop"
    /\ prec' = slot /\ slot' = 0
    /\ ppc' = IF slot = 0 THEN "clear" ELSE "timer"
    /\ UNCHANGED <<srcVars, recVars, workVars, publishing, pubs>>

StopTimer ==
    /\ ppc = "timer" /\ ppc' = "closing"
    /\ left' = [left EXCEPT ![prec] = Off]
    /\ UNCHANGED <<srcVars, slot, state, win, workVars, publishing, pubs, prec>>

\* Under the recorder's mutex; the table's entry is cleared again, whatever it
\* holds by now.
StopClosing ==
    /\ ppc = "closing" /\ ppc' = "free"
    /\ state' = [state EXCEPT ![prec] = "closing"]
    /\ win' = [win EXCEPT ![prec].unread = 0]
    /\ slot' = 0
    /\ UNCHANGED <<srcVars, left, workVars, publishing, pubs, prec>>

StopFree ==
    /\ ppc = "free" /\ ppc' = "clear"
    /\ state' = [state EXCEPT ![prec] = "freed"]
    /\ UNCHANGED <<srcVars, slot, left, win, workVars, publishing, pubs, prec>>

StopClear ==
    /\ ppc = "clear" /\ ppc' = "idle" /\ prec' = 0
    /\ inRing' = FALSE /\ win' = Cleared
    /\ UNCHANGED <<kind, media, slot, state, left, workVars, publishing, pubs>>

Publisher ==
    \/ StartEvent \/ StartCreate \/ StartBind \/ StartArm
    \/ StopEvent \/ StopTimer \/ StopClosing \/ StopFree \/ StopClear

-----------------------------------------------------------------------------
(* One HTTP request: zms_http_live_{hls,dash}_serve. *)

Goto(w, p) == pc' = [pc EXCEPT ![w] = p]

\* Undefined from here on: the request uses a recorder that was freed.
Lost(w) == Goto(w, "lost") /\ UNCHANGED <<slot, recVars, ptr>>

Request(w) ==
    /\ pc[w] = "idle" /\ pubs > 0
    /\ Goto(w, "ensure")
    /\ UNCHANGED <<srcVars, slot, recVars, ptr, pubVars>>

\* zms_segment_recorder_ensure_live looks, creates, binds the timer.
Ensure(w) ==
    /\ pc[w] = "ensure"
    /\ Goto(w, IF slot = 0 THEN "create" ELSE "bind")
    /\ UNCHANGED <<srcVars, slot, recVars, ptr, pubVars>>

Create(w) ==
    /\ pc[w] = "create"
    /\ \E r \in Recs : CreateRec(r)
    /\ Goto(w, "bind")
    /\ UNCHANGED <<srcVars, ptr, pubVars>>

Bind(w) ==
    /\ pc[w] = "bind"
    /\ ptr' = [ptr EXCEPT ![w] = slot]
    /\ Goto(w, IF slot = 0 THEN "get" ELSE "arm")
    /\ UNCHANGED <<srcVars, slot, recVars, pubVars>>

Arm(w) ==
    /\ pc[w] = "arm"
    /\ IF state[ptr[w]] = "freed" THEN Lost(w)
       ELSE ArmRec(ptr[w]) /\ Goto(w, "get") /\ UNCHANGED <<slot, state, win, ptr>>
    /\ UNCHANGED <<srcVars, pubVars>>

Get(w) ==
    /\ pc[w] = "get"
    /\ ptr' = [ptr EXCEPT ![w] = slot]
    /\ Goto(w, IF slot = 0 THEN "idle" ELSE "serve")
    /\ UNCHANGED <<srcVars, slot, recVars, pubVars>>

Answer(r, n) ==
    IF kind = "hls" THEN IF n = List THEN ServeM3u8(win[r]) ELSE PumpFor(win[r], n)
    ELSE IF n = List THEN ServeMpd(win[r]) ELSE DashPumpFor(win[r], n)

Serve(w) ==
    /\ pc[w] = "serve"
    /\ IF state[ptr[w]] = "freed" THEN Lost(w)
       ELSE /\ \E n \in List..win[ptr[w]].next :
                  win' = IF state[ptr[w]] = "live" THEN [win EXCEPT ![ptr[w]] = Answer(ptr[w], n)]
                         ELSE win
            /\ Goto(w, "leave")
            /\ UNCHANGED <<slot, state, left, ptr>>
    /\ UNCHANGED <<srcVars, pubVars>>

\* http_leave: the depth it counts down is read by nothing.
Leave(w) ==
    /\ pc[w] = "leave"
    /\ IF state[ptr[w]] = "freed" THEN Lost(w)
       ELSE Goto(w, "idle") /\ ptr' = [ptr EXCEPT ![w] = 0] /\ UNCHANGED <<slot, recVars>>
    /\ UNCHANGED <<srcVars, pubVars>>

Worker(w) == Ensure(w) \/ Create(w) \/ Bind(w) \/ Arm(w) \/ Get(w) \/ Serve(w) \/ Leave(w)

-----------------------------------------------------------------------------
Next ==
    \/ Media \/ Publish \/ Unpublish \/ CloseStream \/ Publisher
    \/ Elapse \/ \E r \in Recs : Fire(r)
    \/ \E w \in Workers : Request(w) \/ Worker(w)

Spec == Init /\ [][Next]_vars

\* The pollers run what is due and finish what they began; nothing says that
\* the requests leave the timer its 10 ms.
Fairness ==
    /\ WF_vars(Publisher) /\ WF_vars(Elapse)
    /\ \A w \in Workers : WF_vars(Worker(w))
    /\ \A r \in Recs : WF_vars(Fire(r))
FairSpec == Spec /\ Fairness

-----------------------------------------------------------------------------
TypeOK ==
    /\ kind \in Kinds /\ publishing \in BOOLEAN /\ inRing \in BOOLEAN
    /\ slot \in 0..MaxRecs /\ prec \in 0..MaxRecs
    /\ state \in [Recs -> {"none", "live", "closing", "freed"}]
    /\ left \in [Recs -> 0..Period]
    /\ \A r \in Recs : win[r].unread \in 0..Lag /\ win[r].head \in 0..Cap - 1
    /\ pc \in [Workers -> {"idle", "ensure", "create", "bind", "arm", "get", "serve",
                           "leave", "lost"}]
    /\ \A w \in Workers : ptr[w] \in 0..MaxRecs

\* A segment that the playlist lists can be fetched, and for DASH the one that
\* left the list last too: whatever the order in which slots are reused.
ListedIsHeld ==
    \A r \in Recs : LET s == win[r]
                        n == IF kind = "hls" THEN Window ELSE Window + 1
                    IN  \A i \in 0..s.next - 1 : i >= s.next - n => Held(s, i)

(* Media that the recorder of the table has not taken is taken in the end: *)
(* the playlist of a stream that goes on does not freeze, unless requests  *)
(* never stop binding the timer anew.  Each of them sets it back to 10 ms  *)
(* (bind_timer, http_hls_segmenter.c:304), so that ever closer requests    *)
(* can keep it from firing for ever.                                       *)
Unpumped(r) == slot = r /\ win[r].unread > 0
Rebinding == \E w \in Workers : pc[w] = "arm"
Pumped == []<>Rebinding \/ \A r \in Recs : Unpumped(r) ~> ~Unpumped(r)
=============================================================================
