----------------------------- MODULE RtpSender ------------------------------
(***************************************************************************)
(* The queues between the RTP muxers and the RTSP connections              *)
(* (rtp_play_pump.c).  Every session has its own queue and its own poller  *)
(* thread, but "a flush is running" is one int of the whole process,       *)
(* incremented and decremented without atomics: a load and a store.        *)
(* Packet n is the n-th the muxer of a session made.                       *)
(***************************************************************************)
EXTENDS Integers, Sequences, FiniteSets, Functions

CONSTANTS
    Sessions,    \* playing RTSP sessions, each on its own poller
    QueueCap,    \* ZMS_RTP_PLAY_RTPQ_CAP
    HighWater,   \* ZMS_RTP_PLAY_RTPQ_HIGH_WATER
    Budget,      \* ZMS_RTP_PLAY_RTP_FLUSH
    MaxPackets,  \* bound: packets of a session
    MaxDepth     \* bound: the counter is kept between -MaxDepth and MaxDepth

SenderAssumption ==
    /\ QueueCap \in Nat \ {0} /\ HighWater \in 1..QueueCap
    /\ Budget \in Nat \ {0} /\ MaxPackets \in Nat
    /\ MaxDepth \in Nat \ {0}

VARIABLES
    depth,   \* g_play_sender_flush_depth
    queue,   \* slots r..w-1
    made,    \* packets the muxer made
    wrote,   \* the last packet written in its turn
    early,   \* packets written ahead of the queue, which could not take them
    lost,    \* packets the full queue dropped or a reset of it
    pc,      \* "idle", "inc", "incStore", "drain", "dec", "decStore"
    reg,     \* the value loaded
    left     \* the budget of the flush

vars == <<depth, queue, made, wrote, early, lost, pc, reg, left>>

Init ==
    /\ depth = 0
    /\ queue = [s \in Sessions |-> <<>>]
    /\ made = [s \in Sessions |-> 0] /\ wrote = [s \in Sessions |-> 0]
    /\ early = [s \in Sessions |-> {}] /\ lost = [s \in Sessions |-> {}]
    /\ pc = [s \in Sessions |-> "idle"]
    /\ reg = [s \in Sessions |-> 0] /\ left = [s \in Sessions |-> 0]

Enter(s, budget) ==
    IF depth > 0 THEN UNCHANGED <<pc, left>>
    ELSE pc' = [pc EXCEPT ![s] = "inc"] /\ left' = [left EXCEPT ![s] = budget]

\* zms_rtp_play_sender_submit, queued.
DirectNow(s) == depth = 0                        \* mutant: the queue forgotten
Direct(s) == queue[s] = <<>> /\ depth = 0

\* play_sender_push: a packet that is too long is refused at once, one there
\* is no memory for after a full queue has made room for it.
Room(s) == IF Len(queue[s]) >= QueueCap THEN Tail(queue[s]) ELSE queue[s]

Push(s, q) ==
    /\ queue' = [queue EXCEPT ![s] = q]
    /\ lost' = [lost EXCEPT ![s] = IF Len(queue[s]) >= QueueCap
                                   THEN @ \cup {Head(queue[s])} ELSE @]

\* A packet is written at once, queued, or written past the queue.
Submit(s) ==
    /\ pc[s] = "idle" /\ made[s] < MaxPackets
    /\ made' = [made EXCEPT ![s] = @ + 1]
    /\ \/ /\ Direct(s)
          /\ wrote' = [wrote EXCEPT ![s] = made'[s]]
          /\ UNCHANGED <<queue, lost, early, pc, left>>
       \/ /\ ~Direct(s)
          /\ Push(s, Append(Room(s), made'[s]))
          /\ IF Len(queue'[s]) >= HighWater THEN Enter(s, HighWater)
             ELSE UNCHANGED <<pc, left>>
          /\ UNCHANGED <<wrote, early>>
       \/ /\ ~Direct(s)
          /\ Push(s, Room(s)) \/ UNCHANGED <<queue, lost>>
          /\ early' = [early EXCEPT ![s] = @ \cup {made'[s]}]
          /\ UNCHANGED <<wrote, pc, left>>
    /\ UNCHANGED <<depth, reg>>

\* zms_rtp_play_sender_reset: PLAY, PAUSE, a seek, or a reader that snapped.
Reset(s) ==
    /\ pc[s] = "idle"
    /\ queue' = [queue EXCEPT ![s] = <<>>]
    /\ lost' = [lost EXCEPT ![s] = @ \cup Range(queue[s])]
    /\ UNCHANGED <<depth, made, wrote, early, pc, reg, left>>

\* zms_rtp_play_sender_flush at the end of a pump and of a session's tick.
FlushSpent(s) ==                                 \* mutant: no budget of its own
    /\ pc[s] = "idle"
    /\ Enter(s, left[s])
    /\ UNCHANGED <<depth, queue, made, wrote, early, lost, reg>>

Flush(s) ==
    /\ pc[s] = "idle"
    /\ Enter(s, Budget)
    /\ UNCHANGED <<depth, queue, made, wrote, early, lost, reg>>

Goto(s, from, to) == pc[s] = from /\ pc' = [pc EXCEPT ![s] = to]

Load(s) ==
    /\ \/ Goto(s, "inc", "incStore") \/ Goto(s, "dec", "decStore")
    /\ reg' = [reg EXCEPT ![s] = depth]
    /\ UNCHANGED <<depth, queue, made, wrote, early, lost, left>>

Store(s) ==
    /\ \/ Goto(s, "incStore", "drain") /\ depth' = IF reg[s] < MaxDepth THEN reg[s] + 1 ELSE MaxDepth
       \/ Goto(s, "decStore", "idle") /\ depth' = IF reg[s] > -MaxDepth THEN reg[s] - 1 ELSE -MaxDepth
    /\ UNCHANGED <<queue, made, wrote, early, lost, reg, left>>

\* play_sender_flush_inner
Drain(s) ==
    /\ IF left[s] > 0 /\ queue[s] # <<>>
       THEN /\ pc[s] = "drain" /\ UNCHANGED pc
            /\ wrote' = [wrote EXCEPT ![s] = Head(queue[s])]
            /\ queue' = [queue EXCEPT ![s] = Tail(@)]
            /\ left' = [left EXCEPT ![s] = @ - 1]
       ELSE /\ Goto(s, "drain", "dec")
            /\ UNCHANGED <<queue, wrote, left>>
    /\ UNCHANGED <<depth, made, early, lost, reg>>

Step(s) == Submit(s) \/ Reset(s) \/ Flush(s) \/ Load(s) \/ Store(s) \/ Drain(s)

Next == \E s \in Sessions : Step(s)

Fairness == \A s \in Sessions : /\ WF_vars(Load(s) \/ Store(s) \/ Drain(s))
                                /\ SF_vars(Flush(s))

FairSpec == Init /\ [][Next]_vars /\ Fairness
-----------------------------------------------------------------------------
TypeOK ==
    /\ depth \in -MaxDepth..MaxDepth
    /\ \A s \in Sessions :
         /\ Len(queue[s]) <= QueueCap /\ wrote[s] \in 0..made[s]
         /\ lost[s] \cup early[s] \subseteq 1..made[s] /\ left[s] \in Nat

\* A connection gets its packets in order, each once, and misses none but
\* those a full queue or a reset dropped; only a packet the queue could not
\* take goes ahead, of those still waiting (rtp_play_pump.c:226-229).
InOrderStep ==
    \A s \in Sessions :
         /\ wrote'[s] # wrote[s] =>
               /\ wrote'[s] > wrote[s] /\ wrote'[s] \notin lost[s] \cup early[s]
               /\ (wrote[s] + 1)..(wrote'[s] - 1) \subseteq lost[s] \cup early[s]
         /\ \A n \in early'[s] \ early[s] : n > wrote[s] /\ n \notin lost'[s] \cup Range(queue'[s])

SentInOrder == [][InOrderStep]_vars

\* How many flushes the counter pretends there are beyond those running.
Running == {s \in Sessions : pc[s] \in {"drain", "dec", "decStore"}}
Drift == depth - Cardinality(Running)

\* A queue is emptied again and again, unless an update of the counter was
\* lost in a way that leaves it high: then no flush of any session in the
\* process does anything any more.
Emptied(s) == queue[s] = <<>>
Drains == \A s \in Sessions : []<>Emptied(s) \/ <>[](Drift > 0)
=============================================================================
