--------------------------- MODULE Sessions_proofs ---------------------------
(***************************************************************************)
(* What the run over single sessions checks, for every value of the        *)
(* constants of the parts it is about.  A behaviour of MCSessions is one   *)
(* of the part that Init picks, so a theorem about the part carries over   *)
(* to its slots: RTSP, HTTP and WebRTC sessions.  The proofs about the     *)
(* RTP-PS server and the two pull clients are here: the clients implement  *)
(* PullClient, and so does the phase of whichever of them is looked at.    *)
(***************************************************************************)
EXTENDS MCSessions, Sequences, WellFoundedInduction, TLAPS

-----------------------------------------------------------------------------
(* The parts of a behaviour.                                               *)

IsRtsp == part = "rtsp"
IsHttp == part = "http"
IsWebrtc == part = "webrtc"
IsRtpPs == part = "rtpps"

LEMMA PartStays == [Next]_vars => /\ part' = part
                                  /\ IsRtsp' <=> IsRtsp
                                  /\ IsHttp' <=> IsHttp
                                  /\ IsWebrtc' <=> IsWebrtc
                                  /\ IsRtpPs' <=> IsRtpPs
BY DEF IsRtsp, IsHttp, IsWebrtc, IsRtpPs, Next, OfLive, OfSender, OfRtsp, OfHls, OfHlsPull,
   OfRtspPull, OfHttp, OfWebrtc, OfRtpPs, vars

LEMMA RtspSteps ==
  /\ Init /\ IsRtsp => Rtsp!Init
  /\ [Next]_vars /\ IsRtsp => [Rtsp!Next]_(Rtsp!vars)
BY DEF Init, Next, OfLive, OfSender, OfRtsp, OfHls, OfHlsPull, OfRtspPull, OfHttp, OfWebrtc,
       OfRtpPs, vars, After18, After14, After13, After12, After10, After7, After6,
       Rtsp!vars, IsRtsp, Rtsp!session

LEMMA RtspBehaves == Spec /\ IsRtsp => Rtsp!Spec
BY PartStays, RtspSteps, PTL DEF Spec, Rtsp!Spec

LEMMA HttpSteps ==
  /\ Init /\ IsHttp => Http!Init
  /\ [Next]_vars /\ IsHttp => [Http!Next]_(Http!vars)
BY DEF Init, Next, OfLive, OfSender, OfRtsp, OfHls, OfHlsPull, OfRtspPull, OfHttp, OfWebrtc,
       OfRtpPs, vars, After18, After14, After13, After12, After10, After7, After6,
       Http!vars, IsHttp

LEMMA HttpBehaves == Spec /\ IsHttp => Http!Spec
BY PartStays, HttpSteps, PTL DEF Spec, Http!Spec

LEMMA WebrtcSteps ==
  /\ Init /\ IsWebrtc => Webrtc!Init
  /\ [Next]_vars /\ IsWebrtc => [Webrtc!Next]_(Webrtc!vars)
BY DEF Init, Next, OfLive, OfSender, OfRtsp, OfHls, OfHlsPull, OfRtspPull, OfHttp, OfWebrtc,
       OfRtpPs, vars, After18, After14, After13, After12, After10, After7, After6,
       Webrtc!vars, Webrtc!deletes, IsWebrtc

LEMMA WebrtcBehaves == Spec /\ IsWebrtc => Webrtc!Spec
BY PartStays, WebrtcSteps, PTL DEF Spec, Webrtc!Spec

LEMMA RtpPsSteps ==
  /\ Init /\ IsRtpPs => RtpPs!Init
  /\ [Next]_vars /\ IsRtpPs => [RtpPs!Next]_(RtpPs!vars)
BY DEF Init, Next, OfLive, OfSender, OfRtsp, OfHls, OfHlsPull, OfRtspPull, OfHttp, OfWebrtc,
       OfRtpPs, vars, After18, After14, After13, After12, After10, After7, After6,
       RtpPs!vars, IsRtpPs

LEMMA RtpPsBehaves == Spec /\ IsRtpPs => RtpPs!Spec
BY PartStays, RtpPsSteps, PTL DEF Spec, RtpPs!Spec

LEMMA PullSteps ==
  /\ Init /\ part = "hlspull" => HlsPull!Init
  /\ Init /\ part = "rtsppull" => RtspPull!Init
  /\ [Next]_vars /\ part = "hlspull" => [HlsPull!Next]_(HlsPull!vars)
  /\ [Next]_vars /\ part = "rtsppull" => [RtspPull!Next]_(RtspPull!vars)
BY DEF Init, Next, OfLive, OfSender, OfRtsp, OfHls, OfHlsPull, OfRtspPull, OfHttp, OfWebrtc,
       OfRtpPs, vars, After18, After14, After13, After12, After10, After7, After6,
       HlsPull!vars, RtspPull!vars

LEMMA OtherParts ==
  /\ Spec /\ ~IsRtsp => []~IsRtsp
  /\ Spec /\ ~IsHttp => []~IsHttp
  /\ Spec /\ ~IsWebrtc => []~IsWebrtc
  /\ Spec /\ ~IsRtpPs => []~IsRtpPs
BY PartStays, PTL DEF Spec
-----------------------------------------------------------------------------
(* The RTP-PS server (RtpPsServer; s1 is the camera's stream, s2 the slot, *)
(* s3 its connections' units, s4 the source, s5 what the decoder was fed,  *)
(* s6 the counts).  A read goes unit by unit, so what holds of a read is   *)
(* an induction over its units; what a unit leaves of the work on a read   *)
(* (WorkOk, WholeTo) is all a step needs to know of the bytes.             *)

\* The work on a read, or on a datagram: a record of the slot's state.
IsWork(w) == w = [asm |-> w.asm, dropped |-> w.dropped, expect |-> w.expect,
                  started |-> w.started, source |-> w.source, fed |-> w.fed]
Arrivals == {RtpPs!UnitAt(i) : i \in 1..(2 * Len(s1))}

\* What was told fits whether the slot has announced its source.
Told(src, started) ==
    /\ src \in [publishing : BOOLEAN, publisher : BOOLEAN, recording : BOOLEAN,
                told : {"on", "off", "stale"}, times : Nat]
    /\ src.publishing <=> src.told = "on"
    /\ src.publishing => started
    /\ src.recording => src.publishing
    /\ started => src.told # "off" /\ src.times <= 1
    /\ ~started => src.times = 0
HasKey(f) == \E i \in DOMAIN f : f[i] # 0 /\ s1[f[i]].kind = "key"

WorkOk(w) ==
    /\ IsWork(w)
    /\ w.asm \in Seq(Arrivals) /\ w.dropped \in BOOLEAN /\ w.started \in BOOLEAN
    /\ w.fed \in Seq(0..Len(s1))
    /\ Told(w.source, w.started)
    /\ w.started => HasKey(w.fed)

\* What p units of an unbroken connection have left of work w.
Listed(f, q) ==
    /\ {f[i] : i \in DOMAIN f} = {n \in 1..q : RtpPs!Passes(RtpPs!Body(n))}
    /\ \A i, j \in DOMAIN f : i < j => f[i] < f[j]
WholeTo(w, p) ==
    /\ ~w.dropped /\ Listed(w.fed, p \div 2)
    /\ w.asm = IF p % 2 = 0 THEN <<>> ELSE <<RtpPs!UnitAt(p)>>

-----------------------------------------------------------------------------
\* Induction over the units of a read.
LEMMA UnitInduction ==
  ASSUME NEW S, 0 \in S, \A n \in Nat : n \in S => n + 1 \in S
  PROVE  Nat \subseteq S
<1> DEFINE T == Nat \ S
           R == OpToRel(<, Nat)
<1>1. SUFFICES ASSUME T # {} PROVE FALSE
  OBVIOUS
<1>2. PICK x \in T : \A y \in T : ~(<<y, x>> \in R)
  BY <1>1, WFMin, NatLessThanWellFounded
<1>3. x \in Nat /\ x # 0 /\ x - 1 \in Nat /\ x - 1 < x
  OBVIOUS
<1>4. <<x - 1, x>> \in R
  BY <1>3 DEF OpToRel
<1>5. x - 1 \in S
  BY <1>2, <1>3, <1>4
<1>6. (x - 1) + 1 \in S /\ (x - 1) + 1 = x
  BY <1>3, <1>5
<1> QED  BY <1>6

\* A read goes from work to work, a unit at a time.
Follows(g, i, m, ok, allow, mp4) ==
    g = [k \in 0..m |-> IF k = 0 THEN RtpPs!Work
                        ELSE RtpPs!Unit(g[k - 1], RtpPs!UnitAt(i + k), ok, allow, mp4)]

LEMMA ReadFollows ==
  ASSUME NEW i, NEW m \in Nat, NEW ok, NEW allow, NEW mp4
  PROVE  \E g : Follows(g, i, m, ok, allow, mp4) /\ RtpPs!Read(i, m, ok, allow, mp4) = g[m]
<1> DEFINE S == {n \in Nat : \E g : Follows(g, i, n, ok, allow, mp4)}
<1>1. 0 \in S
  <2> DEFINE g == [k \in 0..0 |-> RtpPs!Work]
  <2>1. g = [k \in 0..0 |-> IF k = 0 THEN RtpPs!Work
                            ELSE RtpPs!Unit(g[k - 1], RtpPs!UnitAt(i + k), ok, allow, mp4)]
    OBVIOUS
  <2> QED  BY <2>1 DEF Follows
<1>2. ASSUME NEW n \in Nat, n \in S PROVE n + 1 \in S
  <2>1. PICK g : Follows(g, i, n, ok, allow, mp4)
    BY <1>2
  <2> DEFINE F(a, k) == RtpPs!Unit(a, RtpPs!UnitAt(i + k), ok, allow, mp4)
             h == [k \in 0..(n + 1) |-> IF k = n + 1 THEN F(g[n], k) ELSE g[k]]
  <2>2. g = [k \in 0..n |-> IF k = 0 THEN RtpPs!Work ELSE F(g[k - 1], k)]
    BY <2>1 DEF Follows
  <2> HIDE DEF F
  <2>3. ASSUME NEW k \in 0..(n + 1)
        PROVE  h[k] = IF k = 0 THEN RtpPs!Work ELSE F(h[k - 1], k)
    <3>1. CASE k = n + 1
      BY <3>1
    <3>2. CASE k \in 0..n
      <4>1. h[k] = g[k] /\ (k # 0 => h[k - 1] = g[k - 1])
        BY <3>2
      <4>2. g[k] = IF k = 0 THEN RtpPs!Work ELSE F(g[k - 1], k)
        BY <2>2, <3>2
      <4> QED  BY <4>1, <4>2
    <3> QED  BY <3>1, <3>2
  <2>4. h = [k \in 0..(n + 1) |-> IF k = 0 THEN RtpPs!Work ELSE F(h[k - 1], k)]
    <3> DEFINE e == [k \in 0..(n + 1) |-> IF k = 0 THEN RtpPs!Work ELSE F(h[k - 1], k)]
    <3>1. \A k \in 0..(n + 1) : h[k] = e[k]
      BY <2>3
    <3>2. h = [k \in 0..(n + 1) |-> h[k]]
      OBVIOUS
    <3>3. e = [k \in 0..(n + 1) |-> e[k]]
      OBVIOUS
    <3> HIDE DEF h, e
    <3>4. h = e
      BY <3>1, <3>2, <3>3
    <3> QED  BY <3>4 DEF e
  <2> HIDE DEF h
  <2> QED  BY <2>4 DEF Follows, F
<1> HIDE DEF S
<1>3. m \in S
  BY <1>1, <1>2, UnitInduction
<1>4. \E g : Follows(g, i, m, ok, allow, mp4)
  BY <1>3 DEF S
<1> DEFINE after == CHOOSE g : Follows(g, i, m, ok, allow, mp4)
<1>5. Follows(after, i, m, ok, allow, mp4)
  BY <1>4
<1>6. RtpPs!Read(i, m, ok, allow, mp4) = after[m]
  BY DEF RtpPs!Read, Follows
<1> QED  BY <1>5, <1>6

-----------------------------------------------------------------------------
(* Units and packets.                                                      *)

Streamed == s1 \in Seq([kind : PacketKinds, junk : Junk]) /\ Junk \subseteq 0..2

LEMMA ArrivalHas ==
  ASSUME Streamed, NEW u \in Arrivals
  PROVE  /\ u.n \in 1..Len(s1) /\ u.n \in DOMAIN s1
         /\ u.body \in BOOLEAN /\ u.len \in 0..2
<1>1. PICK i \in 1..(2 * Len(s1)) : u = RtpPs!UnitAt(i)
  BY DEF Arrivals
<1> DEFINE n == (i + 1) \div 2
<1>2. Len(s1) \in Nat /\ n \in 1..Len(s1)
  <2>1. Len(s1) \in Nat
    BY DEF Streamed
  <2> QED  BY <2>1
<1>3. s1[n] \in [kind : PacketKinds, junk : Junk] /\ n \in DOMAIN s1
  <2> DEFINE S == [kind : PacketKinds, junk : Junk]
  <2>1. s1 \in Seq(S)
    BY DEF Streamed
  <2> HIDE DEF n, S
  <2>2. s1[n] \in S /\ n \in DOMAIN s1
    BY <1>2, <2>1
  <2> QED  BY <2>2 DEF S
<1>4. s1[n].junk \in 0..2
  BY <1>3 DEF Streamed
<1>5. u = [n |-> n, body |-> i % 2 = 0, len |-> IF i % 2 = 0 THEN s1[n].junk ELSE 1]
  BY <1>1 DEF RtpPs!UnitAt
<1> HIDE DEF n
<1> QED  BY <1>2, <1>3, <1>4, <1>5

LEMMA PublishOk ==
  ASSUME NEW w, WorkOk(w), HasKey(w.fed), NEW allow \in BOOLEAN, NEW mp4 \in BOOLEAN
  PROVE  /\ WorkOk(RtpPs!Publish(w, allow, mp4))
         /\ RtpPs!Publish(w, allow, mp4).fed = w.fed
         /\ RtpPs!Publish(w, allow, mp4).asm = w.asm
         /\ RtpPs!Publish(w, allow, mp4).dropped = w.dropped
<1> DEFINE v == RtpPs!Publish(w, allow, mp4)
<1> SUFFICES WorkOk(v) /\ v.fed = w.fed /\ v.asm = w.asm /\ v.dropped = w.dropped
  OBVIOUS
<1>0. IsWork(w) /\ Told(w.source, w.started)
  BY DEF WorkOk
<1>1. CASE w.started
  BY <1>1 DEF RtpPs!Publish
<1>2. CASE ~w.started /\ ~allow
  <2>1. v = [w EXCEPT !.source = RtpPs!Ended(w.source)]
    BY <1>2 DEF RtpPs!Publish
  <2> HIDE DEF v
  <2>2. /\ IsWork(v) /\ v.source = RtpPs!Ended(w.source)
        /\ v.asm = w.asm /\ v.dropped = w.dropped /\ v.fed = w.fed /\ v.started = w.started
    BY <1>0, <2>1 DEF IsWork
  <2>3. Told(v.source, v.started)
    BY <1>0, <1>2, <2>2 DEF Told, RtpPs!Ended
  <2> QED  BY <2>2, <2>3 DEF WorkOk
<1>3. CASE ~w.started /\ allow
  <2> DEFINE src == [publishing |-> TRUE, publisher |-> TRUE, recording |-> mp4,
                     told |-> "on", times |-> w.source.times + 1]
  <2>1. v = [w EXCEPT !.started = TRUE, !.source = src]
    BY <1>3 DEF RtpPs!Publish
  <2>2. Told(src, TRUE)
    BY <1>0, <1>3 DEF Told
  <2> HIDE DEF src, v
  <2>3. /\ IsWork(v) /\ v.source = src
        /\ v.asm = w.asm /\ v.dropped = w.dropped /\ v.fed = w.fed /\ v.started = TRUE
    BY <1>0, <2>1 DEF IsWork
  <2> QED  BY <2>2, <2>3 DEF WorkOk
<1> QED  BY <1>1, <1>2, <1>3

LEMMA FeedOk ==
  ASSUME Streamed, NEW w, WorkOk(w), NEW u \in Arrivals,
         NEW ok \in BOOLEAN, NEW allow \in BOOLEAN, NEW mp4 \in BOOLEAN
  PROVE  /\ WorkOk(RtpPs!Feed(w, u, ok, allow, mp4))
         /\ RtpPs!Feed(w, u, ok, allow, mp4).asm = w.asm
         /\ RtpPs!Feed(w, u, ok, allow, mp4).dropped = w.dropped
         /\ RtpPs!Feed(w, u, ok, allow, mp4).fed
              = IF RtpPs!Passes(u) THEN Append(w.fed, IF u.body THEN u.n ELSE 0) ELSE w.fed
<1> DEFINE v == RtpPs!Feed(w, u, ok, allow, mp4)
<1> SUFFICES /\ WorkOk(v) /\ v.asm = w.asm /\ v.dropped = w.dropped
             /\ v.fed = IF RtpPs!Passes(u) THEN Append(w.fed, IF u.body THEN u.n ELSE 0) ELSE w.fed
  OBVIOUS
<1>1. CASE ~RtpPs!Passes(u)
  BY <1>1 DEF RtpPs!Feed
<1>2. CASE RtpPs!Passes(u)
  <2> DEFINE x == IF u.body THEN u.n ELSE 0
             y == [w EXCEPT !.expect = RtpPs!Number(u) + 1, !.fed = Append(w.fed, x)]
             key == w.expect \in {0, RtpPs!Number(u)} /\ ok /\ u.body /\ s1[u.n].kind = "key"
  <2>1. v = IF key THEN RtpPs!Publish(y, allow, mp4) ELSE y
    BY <1>2 DEF RtpPs!Feed
  <2> HIDE DEF v
  <2>2. x \in 0..Len(s1) /\ (key => x = u.n /\ x # 0) /\ Len(s1) \in Nat
    BY ArrivalHas DEF Streamed
  <2>3. key => s1[x].kind = "key"
    BY <2>2
  <2>0. IsWork(w)
    BY DEF WorkOk
  <2>4. /\ IsWork(y) /\ y.source = w.source /\ y.asm = w.asm /\ y.dropped = w.dropped
        /\ y.started = w.started /\ y.fed = Append(w.fed, x)
    <3> DEFINE e == RtpPs!Number(u) + 1
               f == Append(w.fed, x)
    <3>1. y = [w EXCEPT !.expect = e, !.fed = f]
      OBVIOUS
    <3> HIDE DEF e, f, y
    <3>2. /\ IsWork(y) /\ y.source = w.source /\ y.asm = w.asm /\ y.dropped = w.dropped
          /\ y.started = w.started /\ y.fed = f
      BY <2>0, <3>1 DEF IsWork
    <3> QED  BY <3>2 DEF f
  <2> HIDE DEF x, y, key
  <2>5. w.fed \in Seq(0..Len(s1)) /\ y.fed \in Seq(0..Len(s1))
    BY <2>2, <2>4 DEF WorkOk
  <2>6. HasKey(w.fed) => HasKey(y.fed)
    <3>1. \A i \in DOMAIN w.fed : i \in DOMAIN y.fed /\ y.fed[i] = w.fed[i]
      BY <2>2, <2>4, <2>5
    <3> QED  BY <3>1 DEF HasKey
  <2>7. key => HasKey(y.fed)
    <3>1. Len(y.fed) \in DOMAIN y.fed /\ y.fed[Len(y.fed)] = x
      BY <2>2, <2>4, <2>5
    <3> QED  BY <2>2, <2>3, <3>1 DEF HasKey
  <2>8. WorkOk(y)
    BY <2>4, <2>5, <2>6 DEF WorkOk
  <2>9. y.fed = IF RtpPs!Passes(u) THEN Append(w.fed, IF u.body THEN u.n ELSE 0) ELSE w.fed
    BY <1>2, <2>4 DEF x
  <2>10. key => WorkOk(v) /\ v.asm = y.asm /\ v.dropped = y.dropped /\ v.fed = y.fed
    <3>1. ASSUME key PROVE WorkOk(v) /\ v.asm = y.asm /\ v.dropped = y.dropped /\ v.fed = y.fed
      <4>1. HasKey(y.fed) /\ v = RtpPs!Publish(y, allow, mp4)
        BY <2>1, <2>7, <3>1
      <4>2. /\ WorkOk(RtpPs!Publish(y, allow, mp4))
            /\ RtpPs!Publish(y, allow, mp4).fed = y.fed
            /\ RtpPs!Publish(y, allow, mp4).asm = y.asm
            /\ RtpPs!Publish(y, allow, mp4).dropped = y.dropped
        BY <2>8, <4>1, PublishOk
      <4> QED  BY <4>1, <4>2
    <3> QED  BY <3>1
  <2> QED  BY <2>1, <2>4, <2>8, <2>9, <2>10
<1> QED  BY <1>1, <1>2

\* The two things a unit does to the bytes gathered.
LEMMA GatheredOk ==
  ASSUME NEW w, WorkOk(w), NEW a \in Seq(Arrivals)
  PROVE  /\ WorkOk([w EXCEPT !.asm = a])
         /\ [w EXCEPT !.asm = a].asm = a
         /\ [w EXCEPT !.asm = a].fed = w.fed
         /\ [w EXCEPT !.asm = a].dropped = w.dropped
         /\ WorkOk([w EXCEPT !.asm = a, !.dropped = TRUE])
<1>1. IsWork(w)
  BY DEF WorkOk
<1> DEFINE v == [w EXCEPT !.asm = a]
<1>2. /\ IsWork(v) /\ v.source = w.source /\ v.asm = a /\ v.dropped = w.dropped
      /\ v.started = w.started /\ v.fed = w.fed
  BY <1>1 DEF IsWork
<1> DEFINE x == [w EXCEPT !.asm = a, !.dropped = TRUE]
<1>3. /\ IsWork(x) /\ x.source = w.source /\ x.asm = a /\ x.dropped = TRUE
      /\ x.started = w.started /\ x.fed = w.fed
  <2>1. x = [v EXCEPT !.dropped = TRUE]
    BY <1>1 DEF IsWork
  <2> HIDE DEF v, x
  <2> QED  BY <1>2, <2>1 DEF IsWork
<1> HIDE DEF v, x
<1>4. WorkOk(v)
  BY <1>2 DEF WorkOk
<1>5. WorkOk(x)
  BY <1>3 DEF WorkOk
<1> QED  BY <1>2, <1>4, <1>5 DEF v, x

LEMMA LastAppended ==
  ASSUME NEW S, NEW f \in Seq(S), NEW u \in S
  PROVE  Append(f, u)[Len(Append(f, u))] = u /\ Len(Append(f, u)) = Len(f) + 1
<1> DEFINE g == Append(f, u)
<1>1. g = Append(f, u)
  OBVIOUS
<1> HIDE DEF g
<1>2. g[Len(g)] = u /\ Len(g) = Len(f) + 1
  BY <1>1
<1> QED  BY <1>2 DEF g

LEMMA TwoUnits ==
  ASSUME NEW S, NEW f \in Seq(S), Len(f) = 1, NEW u \in S
  PROVE  Append(f, u)[1] = f[1] /\ Append(f, u)[2] = u /\ Len(Append(f, u)) = 2
<1>1. Len(Append(f, u)) = Len(f) + 1
  OBVIOUS
<1>2. Append(f, u)[Len(f) + 1] = u
  BY LastAppended
<1>3. \A i \in 1..Len(f) : Append(f, u)[i] = f[i]
  OBVIOUS
<1> DEFINE g == Append(f, u)
<1> HIDE DEF g
<1>4. Len(g) = 2 /\ g[1] = f[1] /\ g[2] = u
  BY <1>1, <1>2, <1>3 DEF g
<1> QED  BY <1>4 DEF g

LEMMA UnitOk ==
  ASSUME Streamed, NEW w, WorkOk(w), NEW u \in Arrivals,
         NEW ok \in BOOLEAN, NEW allow \in BOOLEAN, NEW mp4 \in BOOLEAN
  PROVE  WorkOk(RtpPs!Unit(w, u, ok, allow, mp4))
<1> DEFINE a == Append(w.asm, u)
<1>1. IsWork(w) /\ w.asm \in Seq(Arrivals) /\ w.dropped \in BOOLEAN
  BY DEF WorkOk
<1>2. a \in Seq(Arrivals) /\ Len(a) = Len(w.asm) + 1 /\ Len(a) \in Nat
  BY <1>1
<1>3. <<>> \in Seq(Arrivals)
  OBVIOUS
<1> HIDE DEF a
<1>7. WorkOk([w EXCEPT !.asm = <<>>, !.dropped = TRUE])
  <2> DEFINE n == <<>>
  <2>1. n \in Seq(Arrivals)
    BY <1>3
  <2> HIDE DEF n
  <2>2. WorkOk([w EXCEPT !.asm = n, !.dropped = TRUE])
    BY <2>1, GatheredOk
  <2> QED  BY <2>2 DEF n
<1>8. WorkOk([w EXCEPT !.asm = a])
  BY <1>1, <1>2, GatheredOk
<1>9. WorkOk([w EXCEPT !.asm = <<>>])
  BY <1>1, <1>3, GatheredOk
<1>10. a[1].len \in 0..2
  BY <1>1, <1>2, ArrivalHas
<1>11. ~(Len(a) <= a[1].len) /\ a[1].len # 0 => a[2] \in Arrivals
  BY <1>2, <1>10
<1>12. ~(Len(a) <= a[1].len) /\ a[1].len # 0
         => WorkOk(RtpPs!Feed([w EXCEPT !.asm = <<>>], a[2], ok, allow, mp4))
  BY <1>9, <1>11, FeedOk
<1> QED  BY <1>7, <1>8, <1>12 DEF RtpPs!Unit, a

\* One more unit of a connection that has not broken off.
LEMMA WholeStep ==
  ASSUME Streamed, NEW w, WorkOk(w), NEW p \in Nat, p + 1 <= 2 * Len(s1), WholeTo(w, p),
         NEW ok \in BOOLEAN, NEW allow \in BOOLEAN, NEW mp4 \in BOOLEAN
  PROVE  WholeTo(RtpPs!Unit(w, RtpPs!UnitAt(p + 1), ok, allow, mp4), p + 1)
<1> DEFINE u == RtpPs!UnitAt(p + 1)
           v == RtpPs!Unit(w, u, ok, allow, mp4)
<1>0. IsWork(w) /\ ~w.dropped /\ Len(s1) \in Nat /\ w.fed \in Seq(0..Len(s1))
  BY DEF WholeTo, WorkOk, Streamed
<1>00. u \in Arrivals
  BY <1>0 DEF Arrivals
<1>1. CASE p % 2 = 0
  <2>1. w.asm = <<>> /\ (p + 1) \div 2 = p \div 2 /\ (p + 1) % 2 = 1
    BY <1>1 DEF WholeTo
  <2>2. u.len = 1
    BY <2>1 DEF RtpPs!UnitAt
  <2>3. Append(w.asm, u) = <<u>> /\ <<u>>[1] = u /\ Len(<<u>>) = 1
    BY <2>1
  <2> HIDE DEF u
  <2>4. v = [w EXCEPT !.asm = <<u>>]
    BY <1>0, <2>2, <2>3 DEF RtpPs!Unit
  <2>5. v.asm = <<u>> /\ v.fed = w.fed /\ ~v.dropped
    BY <1>0, <2>4 DEF IsWork
  <2> HIDE DEF v
  <2> QED  BY <2>1, <2>5 DEF WholeTo, u, v
<1>2. CASE p % 2 = 1
  <2> DEFINE q == (p + 1) \div 2
             x == [w EXCEPT !.asm = <<>>]
             a == Append(w.asm, u)
  <2>1. /\ w.asm = <<RtpPs!UnitAt(p)>> /\ (p + 1) % 2 = 0 /\ p + 1 = 2 * q /\ p \div 2 = q - 1
        /\ q \in Nat \ {0}
    <3>1. w.asm = <<RtpPs!UnitAt(p)>>
      BY <1>2 DEF WholeTo
    <3>2. (p + 1) % 2 = 0 /\ p + 1 = 2 * q /\ p \div 2 = q - 1 /\ q \in Nat \ {0}
      BY <1>2
    <3> QED  BY <3>1, <3>2
  <2>2. RtpPs!UnitAt(p).len = 1
    BY <1>2 DEF RtpPs!UnitAt
  <2>3. u = RtpPs!Body(q) /\ u.body /\ u.n = q
    <3>1. u = RtpPs!Body(q)
      BY <2>1 DEF RtpPs!Body
    <3>2. (2 * q) % 2 = 0 /\ (2 * q + 1) \div 2 = q
      BY <2>1
    <3> HIDE DEF u, q
    <3> QED  BY <3>1, <3>2 DEF RtpPs!Body, RtpPs!UnitAt
  <2>4. a[1] = RtpPs!UnitAt(p) /\ a[2] = u /\ Len(a) = 2
    <3>1. w.asm \in Seq(Arrivals) /\ Len(w.asm) = 1 /\ w.asm[1] = RtpPs!UnitAt(p)
      BY <2>1 DEF WorkOk
    <3> HIDE DEF u
    <3> QED  BY <1>00, <3>1, TwoUnits
  <2> HIDE DEF u, q, a
  <2>5. v = RtpPs!Feed(x, u, ok, allow, mp4)
    BY <1>0, <2>2, <2>4 DEF RtpPs!Unit, a
  <2>6. WorkOk(x) /\ x.asm = <<>> /\ x.dropped = w.dropped /\ x.fed = w.fed
    <3>1. <<>> \in Seq(Arrivals) /\ w.dropped \in BOOLEAN
      BY DEF WorkOk
    <3> DEFINE n == <<>>
    <3>2. x = [w EXCEPT !.asm = n] /\ n \in Seq(Arrivals)
      BY <3>1
    <3> HIDE DEF n
    <3>3. /\ WorkOk([w EXCEPT !.asm = n])
          /\ [w EXCEPT !.asm = n].asm = n
          /\ [w EXCEPT !.asm = n].fed = w.fed
          /\ [w EXCEPT !.asm = n].dropped = w.dropped
      BY <3>1, <3>2, GatheredOk
    <3> QED  BY <3>3 DEF n
  <2> HIDE DEF x, v
  <2>7. /\ v.asm = <<>> /\ ~v.dropped
        /\ v.fed = IF RtpPs!Passes(u) THEN Append(w.fed, q) ELSE w.fed
    BY <1>0, <1>00, <2>3, <2>5, <2>6, FeedOk
  <2>8. Listed(w.fed, q - 1)
    BY <2>1 DEF WholeTo
  <2>9. Listed(v.fed, q)
    <3>1. CASE ~RtpPs!Passes(u)
      <4>1. {n \in 1..q : RtpPs!Passes(RtpPs!Body(n))}
              = {n \in 1..(q - 1) : RtpPs!Passes(RtpPs!Body(n))}
        BY <2>1, <2>3, <3>1
      <4> QED  BY <2>7, <2>8, <3>1, <4>1 DEF Listed
    <3>2. CASE RtpPs!Passes(u)
      <4> DEFINE f == w.fed
      <4>1. f \in Seq(Nat) /\ v.fed = Append(f, q)
        BY <1>0, <2>7, <3>2
      <4>2. /\ DOMAIN v.fed = DOMAIN f \cup {Len(f) + 1} /\ v.fed[Len(f) + 1] = q
            /\ \A i \in DOMAIN f : v.fed[i] = f[i] /\ i < Len(f) + 1
        BY <2>1, <4>1
      <4>3. \A i \in DOMAIN f : f[i] \in 1..(q - 1)
        BY <2>8 DEF Listed
      <4>4. {v.fed[i] : i \in DOMAIN v.fed} = {f[i] : i \in DOMAIN f} \cup {q}
        BY <4>2
      <4>5. {n \in 1..q : RtpPs!Passes(RtpPs!Body(n))}
              = {n \in 1..(q - 1) : RtpPs!Passes(RtpPs!Body(n))} \cup {q}
        BY <2>1, <2>3, <3>2
      <4>6. \A i, j \in DOMAIN v.fed : i < j => v.fed[i] < v.fed[j]
        <5>1. TAKE i, j \in DOMAIN v.fed
        <5>2. HAVE i < j
        <5>3. i \in DOMAIN f
          BY <4>1, <4>2, <5>2
        <5>4. CASE j \in DOMAIN f
          BY <2>8, <4>2, <5>2, <5>3, <5>4 DEF Listed
        <5>5. CASE j = Len(f) + 1
          BY <2>1, <4>2, <4>3, <5>3, <5>5
        <5> QED  BY <4>2, <5>4, <5>5
      <4> QED  BY <2>8, <4>4, <4>5, <4>6 DEF Listed
    <3> QED  BY <3>1, <3>2
  <2> QED  BY <2>1, <2>7, <2>9 DEF WholeTo, u, v, q
<1> QED  BY <1>1, <1>2

\* A whole read.
LEMMA ReadOk ==
  ASSUME Streamed, WorkOk(RtpPs!Work), NEW i \in Nat, NEW m \in Nat, i + m <= 2 * Len(s1),
         NEW ok \in BOOLEAN, NEW allow \in BOOLEAN, NEW mp4 \in BOOLEAN
  PROVE  /\ WorkOk(RtpPs!Read(i, m, ok, allow, mp4))
         /\ WholeTo(RtpPs!Work, i) => WholeTo(RtpPs!Read(i, m, ok, allow, mp4), i + m)
<1>1. PICK g : Follows(g, i, m, ok, allow, mp4) /\ RtpPs!Read(i, m, ok, allow, mp4) = g[m]
  BY ReadFollows
<1> DEFINE F(w, k) == RtpPs!Unit(w, RtpPs!UnitAt(i + k), ok, allow, mp4)
<1>2. g = [k \in 0..m |-> IF k = 0 THEN RtpPs!Work ELSE F(g[k - 1], k)]
  BY <1>1 DEF Follows
<1> HIDE DEF F
<1> DEFINE S == {k \in Nat : k <= m => WorkOk(g[k])
                                      /\ (WholeTo(RtpPs!Work, i) => WholeTo(g[k], i + k))}
<1>3. 0 \in S
  <2>1. g[0] = RtpPs!Work /\ i + 0 = i
    BY <1>2
  <2> QED  BY <2>1
<1>4. ASSUME NEW n \in Nat, n \in S PROVE n + 1 \in S
  <2>1. SUFFICES ASSUME n + 1 <= m
                 PROVE  /\ WorkOk(g[n + 1])
                        /\ WholeTo(RtpPs!Work, i) => WholeTo(g[n + 1], i + (n + 1))
    OBVIOUS
  <2>2. g[n + 1] = F(g[n], n + 1)
    <3>1. n + 1 \in 0..m /\ n + 1 # 0 /\ (n + 1) - 1 = n
      BY <2>1
    <3> QED  BY <1>2, <3>1
  <2>3. WorkOk(g[n]) /\ (WholeTo(RtpPs!Work, i) => WholeTo(g[n], i + n))
    BY <1>4, <2>1
  <2>4. Len(s1) \in Nat /\ i + (n + 1) \in 1..(2 * Len(s1)) /\ i + (n + 1) = (i + n) + 1
    <3>1. Len(s1) \in Nat
      BY DEF Streamed
    <3> QED  BY <2>1, <3>1
  <2>5. RtpPs!UnitAt(i + (n + 1)) \in Arrivals
    BY <2>4 DEF Arrivals
  <2> DEFINE w == g[n]
             u == RtpPs!UnitAt(i + (n + 1))
             p == i + n
  <2>6. g[n + 1] = RtpPs!Unit(w, u, ok, allow, mp4)
    BY <2>2 DEF F
  <2>7. WorkOk(w) /\ u \in Arrivals
    BY <2>3, <2>5
  <2>8. p \in Nat /\ p + 1 <= 2 * Len(s1) /\ u = RtpPs!UnitAt(p + 1) /\ i + (n + 1) = p + 1
    BY <2>4
  <2>9. WholeTo(RtpPs!Work, i) => WholeTo(w, p)
    BY <2>3
  <2> HIDE DEF w, u, p
  <2>10. WorkOk(RtpPs!Unit(w, u, ok, allow, mp4))
    BY <2>7, UnitOk
  <2>11. WholeTo(w, p) => WholeTo(RtpPs!Unit(w, RtpPs!UnitAt(p + 1), ok, allow, mp4), p + 1)
    BY <2>7, <2>8, WholeStep
  <2>12. WholeTo(RtpPs!Work, i) => WholeTo(g[n + 1], p + 1)
    BY <2>6, <2>8, <2>9, <2>11
  <2> QED  BY <2>6, <2>8, <2>10, <2>12
<1> HIDE DEF S
<1>5. m \in S
  BY <1>3, <1>4, UnitInduction
<1> QED  BY <1>1, <1>5 DEF S
-----------------------------------------------------------------------------
(* The invariant.                                                          *)

Slotted == s2 = [open |-> s2.open, mode |-> s2.mode, port |-> s2.port,
                   filter |-> s2.filter, conn |-> s2.conn, asm |-> s2.asm,
                   expect |-> s2.expect, started |-> s2.started]
Counted == s6 = [opens |-> s6.opens, datagrams |-> s6.datagrams, broke |-> s6.broke]
SlotInv ==
    /\ Streamed /\ Slotted /\ Counted
    /\ s3 \in Seq(Int) /\ s2.conn \in 0..Len(s3)
    /\ WorkOk(RtpPs!Work)
    /\ s2.started => s2.open
Unbroken ==
    /\ \A c \in DOMAIN s3 : s3[c] \in 0..(2 * Len(s1))
    /\ s2.conn = 0 => \A c \in DOMAIN s3 : s3[c] = 0
    /\ WholeTo(RtpPs!Work, RtpPs!Brought)

RtpPsInv == SlotInv /\ (RtpPs!Tcp /\ ~s6.broke => Unbroken)

\* What a step that leaves the camera alone keeps of the units.
LEMMA SameUnits ==
  ASSUME s1' = s1
  PROVE  /\ Streamed => Streamed'
         /\ Arrivals' = Arrivals
         /\ \A i : RtpPs!UnitAt(i)' = RtpPs!UnitAt(i)
         /\ s2'.filter = s2.filter
              => \A n : RtpPs!Passes(RtpPs!Body(n))' <=> RtpPs!Passes(RtpPs!Body(n))
<1>1. Streamed => Streamed'
  BY DEF Streamed
<1>2. \A i : RtpPs!UnitAt(i)' = RtpPs!UnitAt(i)
  BY DEF RtpPs!UnitAt
<1>3. Arrivals' = Arrivals
  BY DEF Arrivals, RtpPs!UnitAt
<1>4. s2'.filter = s2.filter
        => \A n : RtpPs!Passes(RtpPs!Body(n))' <=> RtpPs!Passes(RtpPs!Body(n))
  BY DEF RtpPs!Passes, RtpPs!Body, RtpPs!UnitAt
<1> QED  BY <1>1, <1>2, <1>3, <1>4

\* Work that is left as it is, or that goes on from the work kept.
LEMMA WorkStays ==
  ASSUME s1' = s1, NEW w, WorkOk(w),
         RtpPs!Work' = [w EXCEPT !.dropped = FALSE]
  PROVE  WorkOk(RtpPs!Work)'
<1>1. IsWork(w) /\ w.asm \in Seq(Arrivals) /\ w.started \in BOOLEAN
      /\ w.fed \in Seq(0..Len(s1)) /\ Told(w.source, w.started)
      /\ (w.started => HasKey(w.fed))
  BY DEF WorkOk
<1> DEFINE v == RtpPs!Work'
<1>2. /\ v = [asm |-> v.asm, dropped |-> v.dropped, expect |-> v.expect,
              started |-> v.started, source |-> v.source, fed |-> v.fed]
      /\ v.asm = w.asm /\ v.dropped = FALSE /\ v.started = w.started /\ v.source = w.source
      /\ v.fed = w.fed
  <2>1. v = [w EXCEPT !.dropped = FALSE]
    OBVIOUS
  <2> HIDE DEF v
  <2> QED  BY <1>1, <2>1 DEF IsWork
<1>3. Arrivals' = Arrivals
  BY SameUnits
<1>4. /\ IsWork(RtpPs!Work)' /\ Told(RtpPs!Work.source, RtpPs!Work.started)'
      /\ (RtpPs!Work.started => HasKey(RtpPs!Work.fed))'
  BY <1>1, <1>2 DEF IsWork, Told, HasKey
<1> QED  BY <1>1, <1>2, <1>3, <1>4 DEF WorkOk

LEMMA WholeStays ==
  ASSUME s1' = s1, s2'.filter = s2.filter, NEW w, WholeTo(w, RtpPs!Brought'),
         RtpPs!Work'.asm = w.asm, RtpPs!Work'.fed = w.fed, ~RtpPs!Work'.dropped
  PROVE  WholeTo(RtpPs!Work, RtpPs!Brought)'
<1>1. \A i : RtpPs!UnitAt(i)' = RtpPs!UnitAt(i)
  BY SameUnits
<1>2. \A n : RtpPs!Passes(RtpPs!Body(n))' <=> RtpPs!Passes(RtpPs!Body(n))
  BY SameUnits
<1>3. Listed(w.fed, RtpPs!Brought' \div 2)
  BY DEF WholeTo
<1>4. Listed(RtpPs!Work.fed, RtpPs!Brought \div 2)'
  <2>1. {n \in 1..(RtpPs!Brought' \div 2) : RtpPs!Passes(RtpPs!Body(n))'}
          = {n \in 1..(RtpPs!Brought' \div 2) : RtpPs!Passes(RtpPs!Body(n))}
    BY <1>2
  <2> QED  BY <1>3, <2>1 DEF Listed
<1> QED  BY <1>1, <1>4 DEF WholeTo
-----------------------------------------------------------------------------
\* A slot that nothing has reached.
Fresh == /\ s5 = <<>> /\ s3 = <<>> /\ s2.asm = <<>> /\ s2.conn = 0
         /\ s2.started = FALSE /\ Told(s4, FALSE)

LEMMA NotDropped ==
  ASSUME NEW w, IsWork(w)
  PROVE  /\ [w EXCEPT !.dropped = FALSE]
               = [asm |-> w.asm, dropped |-> FALSE, expect |-> w.expect,
                  started |-> w.started, source |-> w.source, fed |-> w.fed]
         /\ w.dropped = FALSE => [w EXCEPT !.dropped = FALSE] = w
<1> DEFINE v == [w EXCEPT !.dropped = FALSE]
<1>1. /\ IsWork(v) /\ v.asm = w.asm /\ v.dropped = FALSE /\ v.expect = w.expect
      /\ v.started = w.started /\ v.source = w.source /\ v.fed = w.fed
  <2>1. v = [w EXCEPT !.dropped = FALSE] /\ IsWork(w)
    OBVIOUS
  <2> HIDE DEF v
  <2> QED  BY <2>1 DEF IsWork
<1> HIDE DEF v
<1>2. v = [asm |-> w.asm, dropped |-> FALSE, expect |-> w.expect,
           started |-> w.started, source |-> w.source, fed |-> w.fed]
  BY <1>1 DEF IsWork
<1>3. w.dropped = FALSE => v = w
  BY <1>2 DEF IsWork
<1> QED  BY <1>2, <1>3 DEF v

LEMMA FreshOk ==
  ASSUME Streamed, Slotted, Counted, Fresh
  PROVE  RtpPsInv
<1> DEFINE w == RtpPs!Work
<1>1. /\ w = [asm |-> w.asm, dropped |-> w.dropped, expect |-> w.expect,
              started |-> w.started, source |-> w.source, fed |-> w.fed]
      /\ w.asm = <<>> /\ w.dropped = FALSE /\ w.started = FALSE /\ w.source = s4
      /\ w.fed = <<>>
  BY DEF RtpPs!Work, Fresh
<1>2. <<>> \in Seq(Arrivals) /\ <<>> \in Seq(0..Len(s1)) /\ <<>> \in Seq(Int)
  OBVIOUS
<1> HIDE DEF w
<1>3. WorkOk(w)
  BY <1>1, <1>2 DEF WorkOk, IsWork, Fresh
<1>4. Len(s3) = 0 /\ Len(s3) \in Nat
  BY DEF Fresh
<1>5. SlotInv
  BY <1>2, <1>3, <1>4 DEF SlotInv, Fresh, w
<1>6. RtpPs!Brought = 0 /\ 0 \div 2 = 0 /\ 0 % 2 = 0
  BY DEF RtpPs!Brought, Fresh
<1>7. Listed(w.fed, 0)
  <2>1. DOMAIN <<>> = {} /\ 1..0 = {}
    OBVIOUS
  <2> QED  BY <1>1, <2>1 DEF Listed
<1>8. WholeTo(w, 0)
  BY <1>1, <1>6, <1>7 DEF WholeTo
<1>9. \A c \in DOMAIN s3 : FALSE
  BY DEF Fresh
<1> QED  BY <1>5, <1>6, <1>8, <1>9 DEF RtpPsInv, Unbroken, w

LEMMA RtpPsInitOk == RtpPs!RtpPsAssumption /\ RtpPs!Init => RtpPsInv
<1> SUFFICES ASSUME RtpPs!RtpPsAssumption, RtpPs!Init PROVE RtpPsInv
  OBVIOUS
<1>1. Streamed
  <2> DEFINE S == [kind : PacketKinds, junk : Junk]
  <2>1. s1 \in RtpPs!BoundedSeq(S, MaxPackets)
    BY DEF RtpPs!Init
  <2> HIDE DEF S
  <2>2. s1 \in Seq(S)
    <3>1. PICK m \in 0..MaxPackets : s1 \in [1..m -> S]
      BY <2>1 DEF RtpPs!BoundedSeq, RtpPs!SeqOf
    <3> QED  BY <3>1
  <2> QED  BY <2>2 DEF Streamed, RtpPs!RtpPsAssumption, S
<1>2. Slotted /\ Counted
  BY DEF RtpPs!Init, Slotted, Counted, RtpPs!NoSlot
<1>3. Told(s4, FALSE)
  BY DEF RtpPs!Init, Told, RtpPs!Idle
<1>4. Fresh
  BY <1>3 DEF RtpPs!Init, Fresh, RtpPs!NoSlot
<1> QED  BY <1>1, <1>2, <1>4, FreshOk

-----------------------------------------------------------------------------
(* The steps.                                                              *)

\* Work is kept in the slot.
LEMMA KeepOk ==
  ASSUME SlotInv, NEW w, WorkOk(w), NEW c, RtpPs!Keep(w, c), s1' = s1, Counted',
         s3' \in Seq(Int), c \in 0..Len(s3'), w.started => s2.open
  PROVE  /\ SlotInv' /\ s2'.conn = c /\ s2'.open = s2.open /\ s2'.mode = s2.mode
         /\ s2'.filter = s2.filter
         /\ RtpPs!Work'.asm = w.asm /\ RtpPs!Work'.fed = w.fed /\ ~RtpPs!Work'.dropped
<1>1. /\ s2' = [s2 EXCEPT !.asm = w.asm, !.expect = w.expect, !.started = w.started,
                              !.conn = c]
      /\ s4' = w.source /\ s5' = w.fed
  BY DEF RtpPs!Keep
<1>2. Slotted
  BY DEF SlotInv
<1>3. /\ Slotted' /\ s2'.conn = c /\ s2'.open = s2.open /\ s2'.mode = s2.mode
      /\ s2'.filter = s2.filter /\ s2'.asm = w.asm /\ s2'.expect = w.expect
      /\ s2'.started = w.started
  BY <1>1, <1>2 DEF Slotted
<1>4. /\ RtpPs!Work'.asm = w.asm /\ RtpPs!Work'.fed = w.fed /\ ~RtpPs!Work'.dropped
      /\ RtpPs!Work' = [asm |-> w.asm, dropped |-> FALSE, expect |-> w.expect,
                  started |-> w.started, source |-> w.source, fed |-> w.fed]
  BY <1>1, <1>3 DEF RtpPs!Work
<1>5. RtpPs!Work' = [w EXCEPT !.dropped = FALSE]
  <2>1. IsWork(w)
    BY DEF WorkOk
  <2> QED  BY <1>4, <2>1, NotDropped
<1>6. WorkOk(RtpPs!Work)'
  BY <1>5, WorkStays
<1>7. Streamed'
  BY SameUnits DEF SlotInv
<1> QED  BY <1>3, <1>4, <1>6, <1>7 DEF SlotInv

LEMMA WorkNow ==
  ASSUME SlotInv
  PROVE  /\ WorkOk(RtpPs!Work) /\ Streamed /\ Slotted /\ Counted /\ Len(s1) \in Nat
         /\ RtpPs!Work.asm = s2.asm /\ RtpPs!Work.fed = s5 /\ RtpPs!Work.started = s2.started
         /\ RtpPs!Work.source = s4 /\ RtpPs!Work.dropped = FALSE
         /\ RtpPs!Work = [RtpPs!Work EXCEPT !.dropped = FALSE]
<1>1. Len(s1) \in Nat
  BY DEF SlotInv, Streamed
<1>2. WorkOk(RtpPs!Work) /\ Streamed /\ Slotted /\ Counted
  BY DEF SlotInv
<1>3. /\ RtpPs!Work.asm = s2.asm /\ RtpPs!Work.fed = s5 /\ RtpPs!Work.started = s2.started
      /\ RtpPs!Work.source = s4 /\ RtpPs!Work.dropped = FALSE
  BY DEF RtpPs!Work
<1>4. RtpPs!Work = [RtpPs!Work EXCEPT !.dropped = FALSE]
  <2> DEFINE w == RtpPs!Work
  <2>1. IsWork(w) /\ w.dropped = FALSE
    BY <1>2, <1>3 DEF WorkOk
  <2> HIDE DEF w
  <2>2. [w EXCEPT !.dropped = FALSE] = w
    BY <2>1, NotDropped
  <2> QED  BY <2>2 DEF w
<1> QED  BY <1>1, <1>2, <1>3, <1>4

LEMMA DatagramOk == RtpPsInv /\ RtpPs!Datagram => RtpPsInv'
<1> SUFFICES ASSUME RtpPsInv, RtpPs!Datagram PROVE RtpPsInv'
  OBVIOUS
<1>1. SlotInv
  BY DEF RtpPsInv
<1>2. PICK n \in DOMAIN s1, ok \in BOOLEAN, allow \in BOOLEAN, mp4 \in BOOLEAN :
         RtpPs!Keep(RtpPs!Feed(RtpPs!Work, RtpPs!Body(n), ok, allow, mp4), 0)
  BY DEF RtpPs!Datagram
<1>3. RtpPs!Body(n) \in Arrivals
  <2>1. n \in 1..Len(s1)
    BY <1>1, <1>2 DEF SlotInv, Streamed
  <2>2. 2 * n \in 1..(2 * Len(s1))
    BY <1>1, <2>1, WorkNow
  <2> QED  BY <2>2 DEF RtpPs!Body, Arrivals
<1> DEFINE w == RtpPs!Feed(RtpPs!Work, RtpPs!Body(n), ok, allow, mp4)
<1>4. WorkOk(w)
  BY <1>1, <1>3, WorkNow, FeedOk
<1>5. /\ s1' = s1 /\ s3' = s3 /\ s2.open /\ s2.mode = "udp"
      /\ s6' = [s6 EXCEPT !.datagrams = @ + 1] /\ RtpPs!Keep(w, 0)
  BY <1>2 DEF RtpPs!Datagram
<1>6. Counted'
  BY <1>1, <1>5 DEF SlotInv, Counted
<1>7. s3' \in Seq(Int) /\ 0 \in 0..Len(s3')
  BY <1>1, <1>5 DEF SlotInv
<1> HIDE DEF w
<1>8. SlotInv' /\ s2'.mode = "udp"
  BY <1>1, <1>4, <1>5, <1>6, <1>7, KeepOk
<1>9. ~RtpPs!Tcp'
  BY <1>8 DEF RtpPs!Tcp
<1> QED  BY <1>8, <1>9 DEF RtpPsInv

\* A connection comes or breaks off: the work stays.
LEMMA ConnsOk ==
  ASSUME SlotInv, s1' = s1, s4' = s4, s5' = s5, Slotted', Counted',
         s2'.asm = s2.asm, s2'.expect = s2.expect, s2'.started = s2.started,
         s2'.open = s2.open, s2'.filter = s2.filter,
         s3' \in Seq(Int), s2'.conn \in 0..Len(s3')
  PROVE  SlotInv' /\ (WholeTo(RtpPs!Work, RtpPs!Brought') => WholeTo(RtpPs!Work, RtpPs!Brought)')
<1>1. RtpPs!Work' = RtpPs!Work
  BY DEF RtpPs!Work
<1>2. WorkOk(RtpPs!Work)'
  BY <1>1, WorkNow, WorkStays
<1>3. Streamed'
  BY SameUnits DEF SlotInv
<1>4. SlotInv'
  BY <1>2, <1>3 DEF SlotInv
<1>5. WholeTo(RtpPs!Work, RtpPs!Brought') => WholeTo(RtpPs!Work, RtpPs!Brought)'
  BY <1>1, WorkNow, WholeStays
<1> QED  BY <1>4, <1>5

LEMMA AcceptOk == RtpPsInv /\ RtpPs!Accept => RtpPsInv'
<1> SUFFICES ASSUME RtpPsInv, RtpPs!Accept PROVE RtpPsInv'
  OBVIOUS
<1>1. SlotInv /\ (RtpPs!Tcp /\ ~s6.broke => Unbroken)
  BY DEF RtpPsInv
<1>2. /\ s3' = Append(s3, 0) /\ s2.open /\ s2.mode = "passive"
      /\ s1' = s1 /\ s2' = s2 /\ s4' = s4 /\ s5' = s5 /\ s6' = s6
  BY DEF RtpPs!Accept
<1>3. /\ s3 \in Seq(Int) /\ s2.conn \in 0..Len(s3) /\ Slotted' /\ Counted'
  BY <1>1, <1>2 DEF SlotInv, Slotted, Counted
<1>4. /\ s3' \in Seq(Int) /\ Len(s3') = Len(s3) + 1 /\ Len(s3) \in Nat
      /\ \A c \in DOMAIN s3' : s3'[c] = IF c \in DOMAIN s3 THEN s3[c] ELSE 0
  BY <1>2, <1>3
<1>5. SlotInv' /\ (WholeTo(RtpPs!Work, RtpPs!Brought') => WholeTo(RtpPs!Work, RtpPs!Brought)')
  <2>1. s2'.conn \in 0..Len(s3') /\ s3' \in Seq(Int)
    BY <1>2, <1>3, <1>4
  <2>2. /\ s2'.asm = s2.asm /\ s2'.expect = s2.expect /\ s2'.started = s2.started
        /\ s2'.open = s2.open /\ s2'.filter = s2.filter
    BY <1>2
  <2> QED  BY <1>1, <1>2, <1>3, <2>1, <2>2, ConnsOk
<1>6. ASSUME ~s6.broke PROVE Unbroken'
  <2>1. Unbroken /\ Len(s1) \in Nat
    BY <1>1, <1>2, <1>6, WorkNow DEF RtpPs!Tcp
  <2>2. RtpPs!Brought' = RtpPs!Brought
    BY <1>2, <1>3, <1>4 DEF RtpPs!Brought
  <2>3. WholeTo(RtpPs!Work, RtpPs!Brought)'
    BY <1>5, <2>1, <2>2 DEF Unbroken
  <2> QED  BY <1>2, <1>4, <2>1, <2>3 DEF Unbroken
<1> QED  BY <1>2, <1>5, <1>6 DEF RtpPsInv

LEMMA ReceiveOk == RtpPsInv /\ RtpPs!Receive => RtpPsInv'
<1> SUFFICES ASSUME RtpPsInv, RtpPs!Receive PROVE RtpPsInv'
  OBVIOUS
<1>1. SlotInv /\ (RtpPs!Tcp /\ ~s6.broke => Unbroken)
  BY DEF RtpPsInv
<1>0. PICK c \in RtpPs!Alive : \E m \in 1..(2 * Len(s1) - s3[c]) :
         /\ s3' = [s3 EXCEPT ![c] = @ + m]
         /\ IF ~RtpPs!Heard(c) THEN UNCHANGED <<s2, s4, s5>>
            ELSE \E ok, allow, mp4 \in BOOLEAN : RtpPs!Keep(RtpPs!Read(s3[c], m, ok, allow, mp4), c)
  BY DEF RtpPs!Receive
<1>2. PICK m \in 1..(2 * Len(s1) - s3[c]) :
         /\ s3' = [s3 EXCEPT ![c] = @ + m]
         /\ IF ~RtpPs!Heard(c) THEN UNCHANGED <<s2, s4, s5>>
            ELSE \E ok, allow, mp4 \in BOOLEAN : RtpPs!Keep(RtpPs!Read(s3[c], m, ok, allow, mp4), c)
  BY <1>0
<1>3. s1' = s1 /\ s6' = s6 /\ RtpPs!Tcp /\ s2.open
  BY DEF RtpPs!Receive, RtpPs!Tcp
<1>4. /\ s3 \in Seq(Int) /\ s2.conn \in 0..Len(s3) /\ Slotted /\ Counted
      /\ Len(s1) \in Nat
  BY <1>1, WorkNow DEF SlotInv
<1>5. /\ c \in DOMAIN s3 /\ c \in 1..Len(s3) /\ s3[c] \in Nat /\ m \in Nat
      /\ s3[c] + m <= 2 * Len(s1)
  <2>1. c \in DOMAIN s3 /\ s3[c] >= 0
    BY <1>2 DEF RtpPs!Alive
  <2>2. c \in 1..Len(s3) /\ s3[c] \in Int
    BY <1>4, <2>1
  <2> QED  BY <1>2, <1>4, <2>1, <2>2
<1>6. /\ s3' \in Seq(Int) /\ Len(s3') = Len(s3) /\ DOMAIN s3' = DOMAIN s3
      /\ s3'[c] = s3[c] + m /\ \A d \in DOMAIN s3 : d # c => s3'[d] = s3[d]
  BY <1>2, <1>4, <1>5
<1>7. \A d \in DOMAIN s3 : s3[d] \in 0..(2 * Len(s1))
        => s3'[d] \in 0..(2 * Len(s1'))
  <2> SUFFICES ASSUME NEW d \in DOMAIN s3, s3[d] \in 0..(2 * Len(s1))
               PROVE  s3'[d] \in 0..(2 * Len(s1'))
    OBVIOUS
  <2>1. CASE d = c
    <3>1. s3[c] + m \in 0..(2 * Len(s1))
      BY <1>4, <1>5
    <3> QED  BY <1>3, <1>6, <2>1, <3>1
  <2>2. CASE d # c
    BY <1>3, <1>6, <2>2
  <2> QED  BY <2>1, <2>2
<1>8. CASE ~RtpPs!Heard(c)
  <2>1. s2' = s2 /\ s4' = s4 /\ s5' = s5
    BY <1>2, <1>8
  <2>2. SlotInv' /\ (WholeTo(RtpPs!Work, RtpPs!Brought') => WholeTo(RtpPs!Work, RtpPs!Brought)')
    BY <1>1, <1>3, <1>4, <1>6, <2>1, ConnsOk DEF Slotted, Counted
  <2>3. s2.conn # 0 /\ s2.conn # c /\ s2.conn \in DOMAIN s3
    BY <1>4, <1>8 DEF RtpPs!Heard
  <2>4. ASSUME ~s6.broke PROVE Unbroken'
    <3>1. Unbroken
      BY <1>1, <1>3, <2>4
    <3>2. RtpPs!Brought' = RtpPs!Brought
      BY <1>6, <2>1, <2>3 DEF RtpPs!Brought
    <3>3. WholeTo(RtpPs!Work, RtpPs!Brought)'
      BY <2>2, <3>1, <3>2 DEF Unbroken
    <3> QED  BY <1>6, <1>7, <2>1, <2>3, <3>1, <3>3 DEF Unbroken
  <2> QED  BY <1>3, <2>2, <2>4 DEF RtpPsInv
<1>9. CASE RtpPs!Heard(c)
  <2>1. PICK ok \in BOOLEAN, allow \in BOOLEAN, mp4 \in BOOLEAN :
           RtpPs!Keep(RtpPs!Read(s3[c], m, ok, allow, mp4), c)
    BY <1>2, <1>9
  <2> DEFINE w == RtpPs!Read(s3[c], m, ok, allow, mp4)
  <2>2. WorkOk(w) /\ (WholeTo(RtpPs!Work, s3[c]) => WholeTo(w, s3[c] + m))
    BY <1>1, <1>5, WorkNow, ReadOk
  <2>3. RtpPs!Keep(w, c) /\ c \in 0..Len(s3') /\ c # 0 /\ Counted'
    BY <1>3, <1>4, <1>5, <1>6, <2>1 DEF Counted
  <2> HIDE DEF w
  <2>4. /\ SlotInv' /\ s2'.conn = c /\ s2'.open = s2.open /\ s2'.mode = s2.mode
        /\ s2'.filter = s2.filter
        /\ RtpPs!Work'.asm = w.asm /\ RtpPs!Work'.fed = w.fed /\ ~RtpPs!Work'.dropped
    BY <1>1, <1>3, <1>6, <2>2, <2>3, KeepOk
  <2>5. ASSUME ~s6.broke PROVE Unbroken'
    <3>1. Unbroken
      BY <1>1, <1>3, <2>5
    <3>2. s3[c] = RtpPs!Brought
      BY <1>5, <1>9, <3>1 DEF Unbroken, RtpPs!Heard, RtpPs!Brought
    <3>3. WholeTo(RtpPs!Work, s3[c])
      BY <3>1, <3>2 DEF Unbroken
    <3>4. RtpPs!Brought' = s3[c] + m
      BY <1>6, <2>3, <2>4 DEF RtpPs!Brought
    <3>5. WholeTo(w, RtpPs!Brought')
      BY <2>2, <3>3, <3>4
    <3>6. WholeTo(RtpPs!Work, RtpPs!Brought)'
      BY <1>3, <2>4, <3>5, WholeStays
    <3> QED  BY <1>6, <1>7, <2>3, <2>4, <3>1, <3>6 DEF Unbroken
  <2> QED  BY <1>3, <2>4, <2>5 DEF RtpPsInv, RtpPs!Tcp
<1> QED  BY <1>8, <1>9

LEMMA BreakOk == RtpPsInv /\ RtpPs!Break => RtpPsInv'
<1> SUFFICES ASSUME RtpPsInv, RtpPs!Break PROVE RtpPsInv'
  OBVIOUS
<1>1. SlotInv
  BY DEF RtpPsInv
<1>2. PICK c \in RtpPs!Alive : s3' = [s3 EXCEPT ![c] = -1]
  BY DEF RtpPs!Break
<1>3. /\ s2' = [s2 EXCEPT !.conn = 0] /\ s6' = [s6 EXCEPT !.broke = TRUE]
      /\ s1' = s1 /\ s4' = s4 /\ s5' = s5
  BY DEF RtpPs!Break
<1>4. /\ s3 \in Seq(Int) /\ Slotted /\ Counted
  BY <1>1 DEF SlotInv
<1>5. s3' \in Seq(Int) /\ Len(s3') \in Nat
  <2> DEFINE x == -1
  <2>1. x \in Int /\ s3' = [s3 EXCEPT ![c] = x]
    BY <1>2
  <2>2. c \in DOMAIN s3 /\ c \in 1..Len(s3)
    BY <1>4 DEF RtpPs!Alive
  <2> HIDE DEF x
  <2> QED  BY <1>4, <2>1, <2>2
<1>6. /\ Slotted' /\ s2'.conn = 0 /\ s2'.asm = s2.asm /\ s2'.expect = s2.expect
      /\ s2'.started = s2.started /\ s2'.open = s2.open /\ s2'.filter = s2.filter
  BY <1>3, <1>4 DEF Slotted
<1>7. Counted' /\ s6'.broke
  BY <1>3, <1>4 DEF Counted
<1>8. s2'.conn \in 0..Len(s3')
  BY <1>5, <1>6
<1> QED  BY <1>1, <1>3, <1>5, <1>6, <1>7, <1>8, ConnsOk DEF RtpPsInv

LEMMA ConnectOk == RtpPsInv /\ RtpPs!ConnectRtpServer => RtpPsInv'
<1> SUFFICES ASSUME RtpPsInv, RtpPs!ConnectRtpServer PROVE RtpPsInv'
  OBVIOUS
<1>1. SlotInv /\ (RtpPs!Tcp /\ ~s6.broke => Unbroken)
  BY DEF RtpPsInv
<1>2. /\ s2' = [s2 EXCEPT !.conn = Len(s3) + 1] /\ s3' = Append(s3, 0)
      /\ s2.open /\ s2.mode = "active" /\ s2.conn = 0
      /\ s1' = s1 /\ s4' = s4 /\ s5' = s5 /\ s6' = s6
  BY DEF RtpPs!ConnectRtpServer, RtpPs!Connect
<1>3. s3 \in Seq(Int) /\ Slotted /\ Counted /\ Len(s1) \in Nat
  BY <1>1, WorkNow DEF SlotInv
<1>4. /\ s3' \in Seq(Int) /\ Len(s3') = Len(s3) + 1 /\ Len(s3) \in Nat
      /\ \A c \in DOMAIN s3' : s3'[c] = IF c \in DOMAIN s3 THEN s3[c] ELSE 0
      /\ s3'[Len(s3) + 1] = 0
  BY <1>2, <1>3
<1>5. /\ Slotted' /\ s2'.conn = Len(s3) + 1 /\ s2'.asm = s2.asm
      /\ s2'.expect = s2.expect /\ s2'.started = s2.started
      /\ s2'.open = s2.open /\ s2'.filter = s2.filter
  BY <1>2, <1>3 DEF Slotted
<1>6. Counted'
  BY <1>2, <1>3 DEF Counted
<1>7. s2'.conn \in 0..Len(s3')
  BY <1>4, <1>5
<1>8. SlotInv' /\ (WholeTo(RtpPs!Work, RtpPs!Brought') => WholeTo(RtpPs!Work, RtpPs!Brought)')
  BY <1>1, <1>2, <1>4, <1>5, <1>6, <1>7, ConnsOk
<1>9. ASSUME ~s6.broke PROVE Unbroken'
  <2>1. Unbroken
    BY <1>1, <1>2, <1>9 DEF RtpPs!Tcp
  <2>2. RtpPs!Brought' = 0 /\ RtpPs!Brought = 0
    BY <1>2, <1>4, <1>5 DEF RtpPs!Brought
  <2>3. WholeTo(RtpPs!Work, RtpPs!Brought)'
    BY <1>8, <2>1, <2>2 DEF Unbroken
  <2>4. s2'.conn # 0
    BY <1>4, <1>5
  <2> QED  BY <1>2, <1>3, <1>4, <2>1, <2>3, <2>4 DEF Unbroken
<1> QED  BY <1>2, <1>8, <1>9 DEF RtpPsInv

\* The slot goes: what its source is left as fits a slot that announced nothing.
LEMMA EmptiedOk ==
  ASSUME SlotInv, RtpPs!Emptied
  PROVE  s3' = <<>> /\ s5' = <<>> /\ Told(s4', FALSE)
<1>1. Told(s4, s2.started) /\ (s2.started => s2.open)
  BY WorkNow DEF SlotInv, WorkOk
<1>2. s2.open => Told(RtpPs!TornDown(s4), FALSE)
  BY <1>1 DEF Told, RtpPs!TornDown
<1>3. ~s2.open => Told(s4, FALSE)
  BY <1>1 DEF Told
<1> QED  BY <1>2, <1>3 DEF RtpPs!Emptied

LEMMA CloseOk == RtpPsInv /\ RtpPs!CloseRtpServer => RtpPsInv'
<1> SUFFICES ASSUME RtpPsInv, RtpPs!CloseRtpServer PROVE RtpPsInv'
  OBVIOUS
<1>1. SlotInv /\ Streamed /\ Counted
  BY DEF RtpPsInv, SlotInv
<1>2. RtpPs!Emptied /\ s2' = RtpPs!NoSlot /\ s1' = s1 /\ s6' = s6
  BY DEF RtpPs!CloseRtpServer
<1>3. s3' = <<>> /\ s5' = <<>> /\ Told(s4', FALSE)
  BY <1>1, <1>2, EmptiedOk
<1>4. Streamed'
  BY <1>1, <1>2, SameUnits
<1>5. Slotted' /\ Counted'
  BY <1>1, <1>2 DEF Slotted, Counted, RtpPs!NoSlot
<1>6. Fresh'
  BY <1>2, <1>3 DEF Fresh, Told, RtpPs!NoSlot
<1>7. (Streamed /\ Slotted /\ Counted /\ Fresh => RtpPsInv)'
  BY FreshOk, PTL
<1> QED  BY <1>4, <1>5, <1>6, <1>7

LEMMA OpenOk == RtpPsInv /\ RtpPs!OpenRtpServer => RtpPsInv'
<1> SUFFICES ASSUME RtpPsInv, RtpPs!OpenRtpServer PROVE RtpPsInv'
  OBVIOUS
<1>1. SlotInv /\ Streamed /\ Counted /\ (RtpPs!Tcp /\ ~s6.broke => Unbroken)
  BY DEF RtpPsInv, SlotInv
<1>2. PICK mode \in Modes, port \in Ports \cup {0}, filter \in BOOLEAN :
         RtpPs!Open(mode, port, filter)
  BY DEF RtpPs!OpenRtpServer
<1>3. s1' = s1
  BY DEF RtpPs!OpenRtpServer
<1>4. CASE RtpPs!Reused(mode, port)
  <2>1. /\ s6' = [s6 EXCEPT !.opens = @ + 1] /\ s2' = s2 /\ s3' = s3
        /\ s4' = s4 /\ s5' = s5
    BY <1>2, <1>4 DEF RtpPs!Open
  <2>2. Counted' /\ s6'.broke = s6.broke
    BY <1>1, <2>1 DEF Counted
  <2>3. Slotted' /\ s3' \in Seq(Int) /\ s2'.conn \in 0..Len(s3') /\ RtpPs!Brought' = RtpPs!Brought
    BY <1>1, <2>1 DEF SlotInv, Slotted, RtpPs!Brought
  <2>4. SlotInv' /\ (WholeTo(RtpPs!Work, RtpPs!Brought') => WholeTo(RtpPs!Work, RtpPs!Brought)')
    BY <1>1, <1>3, <2>1, <2>2, <2>3, ConnsOk
  <2>5. RtpPs!Tcp' <=> RtpPs!Tcp
    BY <2>1 DEF RtpPs!Tcp
  <2>6. Unbroken => Unbroken'
    BY <1>3, <2>1, <2>3, <2>4 DEF Unbroken
  <2> QED  BY <1>1, <2>2, <2>4, <2>5, <2>6 DEF RtpPsInv
<1>5. CASE ~RtpPs!Reused(mode, port)
  <2>1. /\ RtpPs!Emptied /\ (s2' = RtpPs!NoSlot \/ RtpPs!Listening(mode, port, filter))
        /\ s6' = [opens |-> s6.opens + 1, datagrams |-> 0, broke |-> FALSE]
    BY <1>2, <1>5 DEF RtpPs!Open
  <2>2. s3' = <<>> /\ s5' = <<>> /\ Told(s4', FALSE)
    BY <1>1, <2>1, EmptiedOk
  <2>3. Slotted' /\ s2'.asm = <<>> /\ s2'.conn = 0 /\ s2'.started = FALSE
    <3>1. CASE s2' = RtpPs!NoSlot
      BY <3>1 DEF Slotted, RtpPs!NoSlot
    <3>2. CASE RtpPs!Listening(mode, port, filter)
      <4>1. PICK p \in Ports :
               s2' = [RtpPs!NoSlot EXCEPT !.open = TRUE, !.port = p, !.filter = filter,
                                      !.mode = IF mode = "unknown" THEN "udp" ELSE mode]
        BY <3>2 DEF RtpPs!Listening
      <4> QED  BY <4>1 DEF Slotted, RtpPs!NoSlot
    <3> QED  BY <2>1, <3>1, <3>2
  <2>4. Streamed' /\ Counted'
    BY <1>1, <1>3, <2>1, SameUnits DEF Counted
  <2>5. Fresh'
    BY <2>2, <2>3 DEF Fresh, Told
  <2>6. (Streamed /\ Slotted /\ Counted /\ Fresh => RtpPsInv)'
    BY FreshOk, PTL
  <2> QED  BY <2>3, <2>4, <2>5, <2>6
<1> QED  BY <1>4, <1>5

LEMMA SourceClosedOk == RtpPsInv /\ RtpPs!SourceClosed => RtpPsInv'
<1> SUFFICES ASSUME RtpPsInv, RtpPs!SourceClosed PROVE RtpPsInv'
  OBVIOUS
<1>1. SlotInv /\ (RtpPs!Tcp /\ ~s6.broke => Unbroken)
  BY DEF RtpPsInv
<1>2. /\ s4' = RtpPs!Ended(s4)
      /\ s1' = s1 /\ s2' = s2 /\ s3' = s3 /\ s5' = s5 /\ s6' = s6
  BY DEF RtpPs!SourceClosed
<1> DEFINE w == [RtpPs!Work EXCEPT !.source = RtpPs!Ended(s4)]
<1>3. /\ IsWork(RtpPs!Work) /\ Told(RtpPs!Work.source, RtpPs!Work.started) /\ RtpPs!Work.source = s4
  BY <1>1, WorkNow DEF WorkOk
<1>4. /\ IsWork(w) /\ w.source = RtpPs!Ended(s4) /\ w.asm = RtpPs!Work.asm /\ w.fed = RtpPs!Work.fed
      /\ w.dropped = RtpPs!Work.dropped /\ w.started = RtpPs!Work.started
      /\ w.expect = RtpPs!Work.expect
  <2> DEFINE v == RtpPs!Work
             e == RtpPs!Ended(s4)
  <2>1. w = [v EXCEPT !.source = e] /\ IsWork(v)
    BY <1>3
  <2> HIDE DEF v, e, w
  <2>2. /\ IsWork(w) /\ w.source = e /\ w.asm = v.asm /\ w.fed = v.fed
        /\ w.dropped = v.dropped /\ w.started = v.started /\ w.expect = v.expect
    BY <2>1 DEF IsWork
  <2> QED  BY <2>2 DEF v, e
<1>5. Told(w.source, w.started)
  BY <1>3, <1>4 DEF Told, RtpPs!Ended
<1> HIDE DEF w
<1>6. WorkOk(w)
  BY <1>1, <1>4, <1>5, WorkNow DEF WorkOk
<1>7. RtpPs!Work' = [asm |-> w.asm, dropped |-> FALSE, expect |-> w.expect,
               started |-> w.started, source |-> w.source, fed |-> w.fed]
  <2>1. RtpPs!Work' = [asm |-> s2.asm, dropped |-> FALSE, expect |-> s2.expect,
                 started |-> s2.started, source |-> RtpPs!Ended(s4), fed |-> s5]
    BY <1>2 DEF RtpPs!Work
  <2>2. w.asm = s2.asm /\ w.expect = s2.expect /\ w.started = s2.started /\ w.fed = s5
    BY <1>1, <1>4, WorkNow DEF RtpPs!Work
  <2> QED  BY <1>4, <2>1, <2>2
<1>8. RtpPs!Work' = [w EXCEPT !.dropped = FALSE]
  BY <1>4, <1>7, NotDropped
<1>9. WorkOk(RtpPs!Work)'
  BY <1>2, <1>6, <1>8, WorkStays
<1>10. SlotInv'
  BY <1>1, <1>2, <1>9, SameUnits DEF SlotInv, Slotted, Counted
<1>11. RtpPs!Brought' = RtpPs!Brought
  BY <1>2 DEF RtpPs!Brought
<1>12. ASSUME Unbroken PROVE Unbroken'
  <2>1. RtpPs!Work'.asm = RtpPs!Work.asm /\ RtpPs!Work'.fed = RtpPs!Work.fed /\ ~RtpPs!Work'.dropped
    BY <1>2 DEF RtpPs!Work
  <2>2. WholeTo(RtpPs!Work, RtpPs!Brought')
    BY <1>11, <1>12 DEF Unbroken
  <2>3. WholeTo(RtpPs!Work, RtpPs!Brought)'
    BY <1>2, <2>1, <2>2, WholeStays
  <2> QED  BY <1>2, <1>12, <2>3 DEF Unbroken
<1> QED  BY <1>1, <1>2, <1>10, <1>12 DEF RtpPsInv, RtpPs!Tcp

LEMMA RtpPsInductive == RtpPsInv /\ [RtpPs!Next]_(RtpPs!vars) => RtpPsInv'
<1> SUFFICES ASSUME RtpPsInv, [RtpPs!Next]_(RtpPs!vars) PROVE RtpPsInv'
  OBVIOUS
<1>1. CASE UNCHANGED RtpPs!vars
  <2>1. /\ s1' = s1 /\ s2' = s2 /\ s3' = s3 /\ s4' = s4
        /\ s5' = s5 /\ s6' = s6
    BY <1>1 DEF RtpPs!vars
  <2>2. SlotInv /\ (RtpPs!Tcp /\ ~s6.broke => Unbroken)
    BY DEF RtpPsInv
  <2>3. Slotted' /\ Counted' /\ s3' \in Seq(Int) /\ s2'.conn \in 0..Len(s3')
        /\ RtpPs!Brought' = RtpPs!Brought
    BY <2>1, <2>2 DEF SlotInv, Slotted, Counted, RtpPs!Brought
  <2>4. SlotInv' /\ (WholeTo(RtpPs!Work, RtpPs!Brought') => WholeTo(RtpPs!Work, RtpPs!Brought)')
    BY <2>1, <2>2, <2>3, ConnsOk
  <2>5. Unbroken => Unbroken'
    BY <2>1, <2>3, <2>4 DEF Unbroken
  <2> QED  BY <2>1, <2>2, <2>4, <2>5 DEF RtpPsInv, RtpPs!Tcp
<1>2. CASE RtpPs!Next
  BY <1>2, DatagramOk, AcceptOk, ReceiveOk, BreakOk, OpenOk, ConnectOk, CloseOk, SourceClosedOk
     DEF RtpPs!Next
<1> QED  BY <1>1, <1>2

-----------------------------------------------------------------------------
LEMMA RtpPsInvSays == RtpPsInv => RtpPs!WholePackets /\ RtpPs!AnnouncedTruly
<1> SUFFICES ASSUME RtpPsInv PROVE RtpPs!WholePackets /\ RtpPs!AnnouncedTruly
  OBVIOUS
<1>1. SlotInv /\ (RtpPs!Tcp /\ ~s6.broke => Unbroken)
  BY DEF RtpPsInv
<1>2. /\ RtpPs!Work.asm = s2.asm /\ RtpPs!Work.fed = s5 /\ RtpPs!Work.started = s2.started
      /\ RtpPs!Work.source = s4 /\ WorkOk(RtpPs!Work)
  BY <1>1, WorkNow
<1>3. RtpPs!WholePackets
  <2> SUFFICES ASSUME RtpPs!Tcp /\ ~s6.broke
               PROVE  /\ {s5[i] : i \in DOMAIN s5}
                           = {n \in 1..(RtpPs!Brought \div 2) : RtpPs!Passes(RtpPs!Body(n))}
                      /\ \A i, j \in DOMAIN s5 : i < j => s5[i] < s5[j]
                      /\ s2.asm = IF RtpPs!Brought % 2 = 0 THEN <<>>
                                  ELSE <<RtpPs!UnitAt(RtpPs!Brought)>>
    BY DEF RtpPs!WholePackets
  <2>1. WholeTo(RtpPs!Work, RtpPs!Brought)
    BY <1>1 DEF Unbroken
  <2> QED  BY <1>2, <2>1 DEF WholeTo, Listed
<1>4. RtpPs!AnnouncedTruly
  <2>1. Told(s4, s2.started) /\ (s2.started => HasKey(s5)) /\ (s2.started => s2.open)
    BY <1>1, <1>2 DEF WorkOk, SlotInv
  <2> QED  BY <2>1 DEF RtpPs!AnnouncedTruly, Told, HasKey
<1> QED  BY <1>3, <1>4

\* On a TCP connection that does not break off, an RTP-PS slot gives its
\* decoder exactly the packets meant for it, once and in order
\* (rtp_ps_tcp_feed): RtpPsServer!WholePackets.
THEOREM RtpPsFeedsWhole == RtpPs!RtpPsAssumption => (RtpPs!Spec => []RtpPs!WholePackets)
<1> SUFFICES ASSUME RtpPs!RtpPsAssumption PROVE RtpPs!Spec => []RtpPs!WholePackets
  OBVIOUS
<1>1. RtpPs!Init => RtpPsInv
  BY RtpPsInitOk
<1> QED  BY <1>1, RtpPsInductive, RtpPsInvSays, PTL DEF RtpPs!Spec

\* A stream is announced once and by an open slot that was given a key
\* frame, and what the web hooks were told of it stays true of the slot
\* (rtp_ps_slot_finish_publish, rtp_ps_slot_teardown_media):
\* RtpPsServer!AnnouncedTruly.
THEOREM RtpPsAnnounces == RtpPs!RtpPsAssumption => (RtpPs!Spec => []RtpPs!AnnouncedTruly)
<1> SUFFICES ASSUME RtpPs!RtpPsAssumption PROVE RtpPs!Spec => []RtpPs!AnnouncedTruly
  OBVIOUS
<1>1. RtpPs!Init => RtpPsInv
  BY RtpPsInitOk
<1> QED  BY <1>1, RtpPsInductive, RtpPsInvSays, PTL DEF RtpPs!Spec
-----------------------------------------------------------------------------
(* The sessions' own theorems, carried over.                               *)

\* An RTSP session that is not playing, or paused, or closing, is silent
\* (rtsp_session.c): RtspSession!Quiet.
THEOREM SessionsStayQuiet == Spec => []Quiet
<1>1. Rtsp!Spec => []Rtsp!Quiet
  BY SessionsAssumption, Rtsp!SilentUnlessPlaying DEF SessionsAssumption
<1>2. Rtsp!Quiet => Quiet
  BY DEF Quiet
<1>3. ~IsRtsp => Quiet
  BY DEF Quiet, IsRtsp
<1> QED  BY <1>1, <1>2, <1>3, RtspBehaves, OtherParts, PTL

\* An HTTP answer is sent from something open and counted, and promises the
\* chunks its range asks for (HttpPlay!SentFromOpen, HttpPlay!RightChunks);
\* an RTP-PS slot feeds the packets it was sent (RtpPsServer!WholePackets).
THEOREM SessionsCarryRight == Spec => []CarriedRight
<1>1. Http!Spec => []Http!SentFromOpen
  BY SessionsAssumption, Http!HttpSendsFromOpen DEF SessionsAssumption
<1>2. Http!Spec => []Http!RightChunks
  BY SessionsAssumption, Http!HttpAnswersRange DEF SessionsAssumption
<1>3. RtpPs!Spec => []RtpPs!WholePackets
  BY SessionsAssumption, RtpPsFeedsWhole DEF SessionsAssumption
<1> DEFINE OfH == part = "http" => Http!SentFromOpen /\ Http!RightChunks
           OfP == part = "rtpps" => RtpPs!WholePackets
<1>4. /\ Http!SentFromOpen /\ Http!RightChunks => OfH
      /\ ~IsHttp => OfH
      /\ RtpPs!WholePackets => OfP
      /\ ~IsRtpPs => OfP
  BY DEF IsHttp, IsRtpPs
<1>5. OfH /\ OfP => CarriedRight
  BY DEF CarriedRight
<1> HIDE DEF OfH, OfP
<1>6. Spec => []OfH
  BY <1>1, <1>2, <1>4, HttpBehaves, OtherParts, PTL
<1>7. Spec => []OfP
  BY <1>3, <1>4, RtpPsBehaves, OtherParts, PTL
<1> QED  BY <1>5, <1>6, <1>7, PTL

\* Whatever a session counts, opens or registers it holds once and gives
\* back: lanes and players of an RTSP session, players, lanes and FILEs of
\* an HTTP connection, everything a WebRTC session takes, the stream an
\* RTP-PS slot announces.
THEOREM SessionsHoldOnce == Spec => []HeldOnce
<1>1. /\ Rtsp!Spec => []Rtsp!LanesHeld
      /\ Rtsp!Spec => []Rtsp!ReadersCounted
  BY SessionsAssumption, Rtsp!LanesNeverLeak, Rtsp!ReadersAlwaysCounted DEF SessionsAssumption
<1>2. Http!Spec => []Http!GivenBack
  BY SessionsAssumption, Http!HttpGivesBack DEF SessionsAssumption
<1>3. /\ Webrtc!Spec => []Webrtc!SessionsAccounted
      /\ Webrtc!Spec => []Webrtc!PublishPaired
  BY SessionsAssumption, Webrtc!WebrtcAccounts, Webrtc!WebrtcPublishesInPairs DEF SessionsAssumption
<1>9. RtpPs!Spec => []RtpPs!AnnouncedTruly
  BY SessionsAssumption, RtpPsAnnounces DEF SessionsAssumption
<1> DEFINE OfR == part = "rtsp" => Rtsp!LanesHeld /\ Rtsp!ReadersCounted
           OfH == part = "http" => Http!GivenBack
           OfW == part = "webrtc" => Webrtc!SessionsAccounted /\ Webrtc!PublishPaired
           OfP == part = "rtpps" => RtpPs!AnnouncedTruly
<1>4. /\ Rtsp!LanesHeld /\ Rtsp!ReadersCounted => OfR
      /\ ~IsRtsp => OfR
      /\ Http!GivenBack => OfH
      /\ ~IsHttp => OfH
      /\ Webrtc!SessionsAccounted /\ Webrtc!PublishPaired => OfW
      /\ ~IsWebrtc => OfW
      /\ RtpPs!AnnouncedTruly => OfP
      /\ ~IsRtpPs => OfP
  BY DEF IsRtsp, IsHttp, IsWebrtc, IsRtpPs
<1>5. OfR /\ OfH /\ OfW /\ OfP => HeldOnce
  BY DEF HeldOnce
<1> HIDE DEF OfR, OfH, OfW, OfP
<1>6. Spec => []OfR
  BY <1>1, <1>4, RtspBehaves, OtherParts, PTL
<1>7. Spec => []OfH
  BY <1>2, <1>4, HttpBehaves, OtherParts, PTL
<1>8. Spec => []OfW
  BY <1>3, <1>4, WebrtcBehaves, OtherParts, PTL
<1>10. Spec => []OfP
  BY <1>9, <1>4, RtpPsBehaves, OtherParts, PTL
<1> QED  BY <1>5, <1>6, <1>7, <1>8, <1>10, PTL
-----------------------------------------------------------------------------
(* The pull clients.                                                       *)

\* PullClient!Next, or nothing the user sees.
Moves(p, q) ==
    \/ p = "idle" /\ q = "dialing"
    \/ p = "dialing" /\ q = "ready"
    \/ p \in {"dialing", "ready"} /\ q = "failed"
    \/ q = "idle" \/ q = p

(* The HLS client: its retries only ever touch how it fetches; what it     *)
(* told the user (playing, failed, ready) changes by Play and Stop, by the *)
(* first packet and by a failure, and never goes back.                     *)

HlsFields == {"playing", "failed", "ready", "live", "kind", "at", "segs", "pos", "last",
           "link", "soft", "timer"}

\* A value with the client's fields whose flags are Booleans.
HlsShaped(c) == /\ DOMAIN c = HlsFields /\ c = [f \in HlsFields |-> c[f]]
             /\ c.playing \in BOOLEAN /\ c.failed \in BOOLEAN /\ c.ready \in BOOLEAN

\* d tells the user what c does.
SameTold(c, d) == /\ HlsShaped(d)
                  /\ d.playing = c.playing /\ d.failed = c.failed /\ d.ready = c.ready

LEMMA FetchTold ==
    ASSUME NEW c, HlsShaped(c), NEW kind, NEW d \in HlsPull!Fetch(c, kind)
    PROVE  SameTold(c, d)
BY DEF HlsPull!Fetch, HlsPull!SoftRetry, SameTold, HlsShaped, HlsFields

LEMMA StartNextTold ==
    ASSUME NEW c, HlsShaped(c), NEW d \in HlsPull!StartNext(c)
    PROVE  SameTold(c, d)
<1> DEFINE p == [c EXCEPT !.pos = HlsPull!Skipped(c)]
<1>1. SameTold(c, p)
  BY DEF SameTold, HlsShaped, HlsFields
<1>2. \/ d \in HlsPull!Fetch(c, "m3u8")
      \/ d = HlsPull!ScheduleRefresh(p)
      \/ d \in HlsPull!Fetch(p, "ts")
  BY DEF HlsPull!StartNext
<1>3. CASE d \in HlsPull!Fetch(c, "m3u8")
  BY <1>3, FetchTold
<1>4. CASE d = HlsPull!ScheduleRefresh(p)
  <2>1. d = p \/ d = [p EXCEPT !.timer = TRUE]
    BY <1>4 DEF HlsPull!ScheduleRefresh
  <2> HIDE DEF p
  <2> QED  BY <1>1, <2>1 DEF SameTold, HlsShaped, HlsFields
<1>5. CASE d \in HlsPull!Fetch(p, "ts")
  <2> HIDE DEF p
  <2>1. SameTold(p, d)
    BY <1>1, <1>5, FetchTold DEF SameTold
  <2> QED  BY <1>1, <2>1 DEF SameTold
<1> QED  BY <1>2, <1>3, <1>4, <1>5

\* d is a client still at the play c was at, and has taken nothing back.
Reports(c, d) == /\ HlsShaped(d) /\ d.playing = c.playing
                 /\ c.failed => d.failed
                 /\ c.ready => d.ready

LEMMA SameReports == ASSUME NEW c, NEW d, SameTold(c, d) PROVE Reports(c, d)
BY DEF SameTold, Reports

LEMMA SoftRetryTold == ASSUME NEW c, HlsShaped(c) PROVE SameTold(c, HlsPull!SoftRetry(c))
BY DEF HlsPull!SoftRetry, SameTold, HlsShaped, HlsFields

LEMMA ScheduleRefreshTold == ASSUME NEW c, HlsShaped(c) PROVE SameTold(c,
   HlsPull!ScheduleRefresh(c))
<1>1. HlsPull!ScheduleRefresh(c) = c \/ HlsPull!ScheduleRefresh(c) = [c EXCEPT !.timer = TRUE]
  BY DEF HlsPull!ScheduleRefresh
<1> QED  BY <1>1 DEF SameTold, HlsShaped, HlsFields

LEMMA FailReports == ASSUME NEW c, HlsShaped(c) PROVE Reports(c, HlsPull!Fail(c))
BY DEF HlsPull!Fail, Reports, HlsShaped, HlsFields

LEMMA DoneTold == ASSUME NEW c, HlsShaped(c) PROVE SameTold(c, HlsPull!Done(c))
<1> DEFINE unmarked == [c EXCEPT !.soft = FALSE]
<1>1. SameTold(c, unmarked) /\ SameTold(c, [c EXCEPT !.link = "none"])
  BY DEF SameTold, HlsShaped, HlsFields
<1>2. HlsPull!Done(c) = HlsPull!SoftRetry(unmarked) \/ HlsPull!Done(c) = [c EXCEPT !.link = "none"]
  BY DEF HlsPull!Done
<1> HIDE DEF unmarked
<1>3. SameTold(unmarked, HlsPull!SoftRetry(unmarked))
  BY <1>1, SoftRetryTold DEF SameTold
<1> QED  BY <1>1, <1>2, <1>3 DEF SameTold

LEMMA GotPlaylistReports ==
    ASSUME NEW c, HlsShaped(c), NEW d \in HlsPull!GotPlaylist(c)
    PROVE  Reports(c, d)
<1> DEFINE m == [c EXCEPT !.at = "media", !.segs = <<>>, !.live = TRUE]
           p == [c EXCEPT !.segs = HlsPull!Playlist, !.live = ~s3]
           q == [p EXCEPT !.pos = HlsPull!Rewound(p), !.kind = "ts"]
<1>1. SameTold(c, m) /\ SameTold(c, p)
  BY DEF SameTold, HlsShaped, HlsFields
<1>2. d \in HlsPull!StartNext(m) \/ d = HlsPull!ScheduleRefresh(p) \/ d = HlsPull!Fail(p)
         \/ d \in HlsPull!StartNext(q)
  BY DEF HlsPull!GotPlaylist
<1> HIDE DEF m, p
<1>3. SameTold(p, q)
  BY <1>1 DEF SameTold, HlsShaped, HlsFields
<1> HIDE DEF q
<1>4. CASE d \in HlsPull!StartNext(m)
  BY <1>1, <1>4, StartNextTold DEF SameTold, Reports
<1>5. CASE d = HlsPull!ScheduleRefresh(p)
  BY <1>1, <1>5, ScheduleRefreshTold DEF SameTold, Reports
<1>6. CASE d = HlsPull!Fail(p)
  BY <1>1, <1>6, FailReports DEF SameTold, Reports
<1>7. CASE d \in HlsPull!StartNext(q)
  BY <1>1, <1>3, <1>7, StartNextTold DEF SameTold, Reports
<1> QED  BY <1>2, <1>4, <1>5, <1>6, <1>7

LEMMA GotSegmentReports ==
    ASSUME NEW c, HlsShaped(c), NEW d \in HlsPull!GotSegment(c)
    PROVE  Reports(c, d)
<1> DEFINE p == [c EXCEPT !.last = HlsPull!Wanted(c), !.pos = @ + 1, !.ready = TRUE]
<1>1. HlsShaped(p) /\ p.playing = c.playing /\ p.failed = c.failed /\ p.ready
  BY DEF HlsShaped, HlsFields
<1>2. d \in HlsPull!StartNext(p)
  BY DEF HlsPull!GotSegment
<1> HIDE DEF p
<1> QED  BY <1>1, <1>2, StartNextTold DEF SameTold, Reports

-----------------------------------------------------------------------------
\* Whatever the poller does reports; only Play and Stop begin and end a play.
LEMMA HlsStepReports ==
    ASSUME HlsShaped(s1), HlsPull!ClientStep \/ HlsPull!Garbage \/ HlsPull!Publish
       \/ HlsPull!EndList \/ HlsPull!ComesUp
    PROVE  Reports(s1, s1')
<1>1. CASE HlsPull!Connected
  BY <1>1 DEF HlsPull!Connected, Reports, HlsShaped, HlsFields
<1>2. CASE HlsPull!Answered
  <2>1. SameTold(s1, HlsPull!Done(s1))
    BY DoneTold
  <2>2. s1' \in HlsPull!GotPlaylist(HlsPull!Done(s1))
           \/ s1' \in HlsPull!GotSegment(HlsPull!Done(s1))
    BY <1>2 DEF HlsPull!Answered
  <2>3. Reports(HlsPull!Done(s1), s1')
    BY <2>1, <2>2, GotPlaylistReports, GotSegmentReports DEF SameTold
  <2> QED  BY <2>1, <2>3 DEF SameTold, Reports
<1>3. CASE HlsPull!Refused
  <2> DEFINE s == [s1 EXCEPT !.soft = TRUE]
  <2>1. SameTold(s1, s)
    BY DEF SameTold, HlsShaped, HlsFields
  <2>2. s1' = [HlsPull!Done(s) EXCEPT !.kind = "m3u8"]
    BY <1>3 DEF HlsPull!Refused
  <2> HIDE DEF s
  <2>3. SameTold(s, HlsPull!Done(s))
    BY <2>1, DoneTold DEF SameTold
  <2>4. SameTold(HlsPull!Done(s), s1')
    BY <2>2, <2>3 DEF SameTold, HlsShaped, HlsFields
  <2> QED  BY <2>1, <2>3, <2>4 DEF SameTold, Reports
<1>4. CASE HlsPull!Broken
  <2> DEFINE s == [s1 EXCEPT !.soft = TRUE]
  <2>1. SameTold(s1, s)
    BY DEF SameTold, HlsShaped, HlsFields
  <2>2. s1' = HlsPull!SoftRetry(s1) \/ s1' = HlsPull!SoftRetry(s)
    BY <1>4 DEF HlsPull!Broken
  <2> HIDE DEF s
  <2> QED  BY <2>1, <2>2, SoftRetryTold DEF SameTold, Reports
<1>5. CASE HlsPull!Refresh
  <2> DEFINE c == [s1 EXCEPT !.timer = FALSE]
             q == [c EXCEPT !.kind = "m3u8", !.link = "none"]
  <2>1. SameTold(s1, c) /\ SameTold(s1, q)
    BY DEF SameTold, HlsShaped, HlsFields
  <2>2. s1' \in HlsPull!StartNext(q) \/ s1' = c
    BY <1>5 DEF HlsPull!Refresh
  <2> HIDE DEF c, q
  <2> QED  BY <2>1, <2>2, StartNextTold DEF SameTold, Reports
<1>6. CASE HlsPull!Garbage
  BY <1>6, FailReports DEF HlsPull!Garbage
<1>7. CASE HlsPull!Publish \/ HlsPull!EndList \/ HlsPull!ComesUp
  BY <1>7 DEF HlsPull!Publish, HlsPull!EndList, HlsPull!ComesUp, Reports
<1> QED  BY <1>1, <1>2, <1>3, <1>4, <1>5, <1>6, <1>7 DEF HlsPull!ClientStep

LEMMA HlsReportsAllowed ==
    ASSUME HlsShaped(s1), Reports(s1, s1')
    PROVE  Moves(HlsPull!Phase, HlsPull!Phase')
BY DEF HlsShaped, Reports, HlsPull!Phase, Moves

LEMMA HlsStepAllowed ==
    ASSUME HlsShaped(s1), [HlsPull!Next]_(HlsPull!vars)
    PROVE  HlsShaped(s1') /\ Moves(HlsPull!Phase, HlsPull!Phase')
<1>1. CASE HlsPull!Play
  <2> DEFINE p == [s1 EXCEPT !.playing = TRUE, !.ready = FALSE, !.failed = FALSE,
                             !.pos = 0, !.last = HlsPull!Nowhere, !.kind = "m3u8",
                             !.soft = FALSE, !.live = TRUE]
  <2>1. HlsShaped(p) /\ p.playing /\ ~p.failed /\ ~p.ready
    BY DEF HlsShaped, HlsFields
  <2>2. s1' \in HlsPull!StartNext(p) /\ ~s1.playing
    BY <1>1 DEF HlsPull!Play
  <2> HIDE DEF p
  <2>3. SameTold(p, s1')
    BY <2>1, <2>2, StartNextTold
  <2> QED  BY <2>1, <2>2, <2>3 DEF SameTold, HlsPull!Phase, Moves
<1>2. CASE HlsPull!Stop
  <2>1. HlsShaped(s1') /\ ~s1'.playing
    BY <1>2 DEF HlsPull!Stop, HlsShaped, HlsFields
  <2> QED  BY <2>1 DEF HlsPull!Phase, Moves
<1>3. CASE HlsPull!ClientStep \/ HlsPull!Garbage \/ HlsPull!Publish \/ HlsPull!EndList
         \/ HlsPull!ComesUp
  <2>1. Reports(s1, s1')
    BY <1>3, HlsStepReports
  <2> QED  BY <2>1, HlsReportsAllowed DEF Reports
<1>4. CASE UNCHANGED HlsPull!vars
  BY <1>4 DEF HlsPull!vars, HlsPull!Phase, Moves
<1> QED  BY <1>1, <1>2, <1>3, <1>4 DEF HlsPull!Next
-----------------------------------------------------------------------------
(* The RTSP client: both it and the proxy retry; what keeps them apart is  *)
(* that the client reports an error only to be stopped in the callback, so *)
(* that under the proxy its own retry finds it stopped (OneRetries).       *)

OneRetries ==
    s2 = "proxy" =>
        /\ s1.retry \/ s1.state = "ERROR" => s1.stopping
        /\ s3 /\ ~s1.stopping => s1.link = "none" /\ s1.state = "CONNECTING"
        /\ s1.link = "dialing" /\ ~s1.stopping => s1.state = "CONNECTING"

RtspInv == /\ RtspPull!TypeOK
           /\ s1.state = "SETUP" => s1.setup_index < Tracks
           /\ OneRetries

RtspClientOK(c) == c \in RtspPull!Clients /\ (c.state = "SETUP" => c.setup_index < Tracks)

-----------------------------------------------------------------------------
LEMMA ResetOK ==
    ASSUME NEW c, RtspClientOK(c), RtspPull!TracksAssumption
    PROVE  /\ RtspClientOK(RtspPull!Reset(c)) /\ RtspPull!Reset(c).state = "IDLE"
       /\ RtspPull!Reset(c).stopping = c.stopping
           /\ RtspPull!Reset(c).retry = c.retry /\ RtspPull!Reset(c).link = c.link
<1> DEFINE idle == [c EXCEPT !.state = "IDLE"]
           a == [idle EXCEPT !.setup_index = 0]
<1>0. /\ RtspClientOK(idle) /\ idle.state = "IDLE" /\ idle.stopping = c.stopping
      /\ idle.retry = c.retry /\ idle.link = c.link
  BY DEF RtspClientOK, RtspPull!Clients, RtspPull!States
<1>1. /\ RtspClientOK(a) /\ a.state = "IDLE" /\ a.stopping = c.stopping
      /\ a.retry = c.retry /\ a.link = c.link
  <2> HIDE DEF idle
  <2> QED  BY <1>0 DEF RtspClientOK, RtspPull!Clients, RtspPull!TracksAssumption
<1>2. RtspPull!Reset(c) = [a EXCEPT !.auto_udp_tried = FALSE, !.auth_retry_done = FALSE,
         !.digest = FALSE]
  BY DEF RtspPull!Reset
<1> HIDE DEF a
<1> QED  BY <1>1, <1>2 DEF RtspClientOK, RtspPull!Clients

LEMMA DialOK ==
    ASSUME NEW c, RtspClientOK(c), NEW fails \in BOOLEAN
    PROVE  /\ RtspClientOK(RtspPull!Dial(c, fails)) /\ RtspPull!Dial(c, fails).state = c.state
           /\ RtspPull!Dial(c, fails).stopping = c.stopping /\ RtspPull!Dial(c,
                 fails).retry = c.retry
           /\ RtspPull!Dial(c, fails).link = IF fails THEN "none" ELSE "dialing"
BY DEF RtspClientOK, RtspPull!Clients, RtspPull!Dial

LEMMA StopOK ==
    ASSUME NEW c, RtspClientOK(c)
    PROVE  RtspClientOK(RtspPull!Stop(c)) /\ RtspPull!Stop(c).stopping
       /\ RtspPull!Stop(c).state = c.state
<1> DEFINE d == [c EXCEPT !.stopping = TRUE, !.retry = FALSE, !.close = TRUE]
<1>1. RtspPull!Stop(c) = IF c.stopping THEN c ELSE d
  BY DEF RtspPull!Stop
<1>2. RtspClientOK(d) /\ d.stopping /\ d.state = c.state
  BY DEF RtspClientOK, RtspPull!Clients
<1> HIDE DEF d
<1> QED  BY <1>1, <1>2

LEMMA FailedOK ==
    ASSUME NEW c, RtspClientOK(c)
    PROVE  /\ RtspClientOK(RtspPull!Failed(c)) /\ RtspPull!Failed(c).state = "ERROR"
           /\ s2 = "proxy" => RtspPull!Failed(c).stopping
<1> DEFINE e == [c EXCEPT !.state = "ERROR"]
           f == IF s2 = "proxy" THEN RtspPull!Stop(e) ELSE e
<1>1. RtspClientOK(e) /\ e.state = "ERROR"
  BY DEF RtspClientOK, RtspPull!Clients, RtspPull!States
<1>2. RtspPull!Failed(c) = [f EXCEPT !.retry = TRUE]
  BY DEF RtspPull!Failed
<1> HIDE DEF e
<1>3. RtspClientOK(f) /\ f.state = "ERROR" /\ (s2 = "proxy" => f.stopping)
  BY <1>1, StopOK
<1> HIDE DEF f
<1> QED  BY <1>2, <1>3 DEF RtspClientOK, RtspPull!Clients

\* What a client keeps while it takes an answer that is not the end.
GoesOn(c, d) == /\ RtspClientOK(d) /\ d.stopping = c.stopping /\ d.link = c.link
                /\ d.retry => c.retry
                /\ d.state \in {"OPTIONS", "DESCRIBE", "SETUP", "PLAY", "PLAYING"}

LEMMA SendSetupOK ==
    ASSUME NEW c, RtspPull!TracksAssumption, c \in RtspPull!Clients
    PROVE  GoesOn(c, RtspPull!SendSetup(c))
BY DEF GoesOn, RtspClientOK, RtspPull!Clients, RtspPull!States, RtspPull!SendSetup,
   RtspPull!TracksAssumption

LEMMA AcceptedOK ==
    ASSUME NEW c, RtspClientOK(c), RtspPull!TracksAssumption,
           c.state \in {"OPTIONS", "DESCRIBE", "SETUP", "PLAY"}
    PROVE  GoesOn(c, RtspPull!Accepted(c))
<1>1. CASE c.state = "OPTIONS"
  BY <1>1 DEF RtspPull!Accepted, GoesOn, RtspClientOK, RtspPull!Clients, RtspPull!States
<1>2. CASE c.state = "DESCRIBE"
  <2> DEFINE e == [c EXCEPT !.setup_index = 0]
  <2>1. e \in RtspPull!Clients /\ e.stopping = c.stopping /\ e.link = c.link /\ e.retry = c.retry
    BY DEF RtspClientOK, RtspPull!Clients, RtspPull!TracksAssumption
  <2>2. RtspPull!Accepted(c) = RtspPull!SendSetup(e)
    BY <1>2 DEF RtspPull!Accepted
  <2> HIDE DEF e
  <2> QED  BY <2>1, <2>2, SendSetupOK DEF GoesOn
<1>3. CASE c.state = "SETUP"
  <2> DEFINE e == [c EXCEPT !.setup_index = @ + 1]
  <2>1. e \in RtspPull!Clients /\ e.stopping = c.stopping /\ e.link = c.link /\ e.retry = c.retry
    BY <1>3 DEF RtspClientOK, RtspPull!Clients, RtspPull!TracksAssumption
  <2>2. RtspPull!Accepted(c) = RtspPull!SendSetup(e)
    BY <1>3 DEF RtspPull!Accepted
  <2> HIDE DEF e
  <2> QED  BY <2>1, <2>2, SendSetupOK DEF GoesOn
<1>4. CASE c.state = "PLAY"
  BY <1>4 DEF RtspPull!Accepted, GoesOn, RtspClientOK, RtspPull!Clients, RtspPull!States
<1> QED  BY <1>1, <1>2, <1>3, <1>4

LEMMA RejectedOK ==
    ASSUME NEW c, NEW status, RtspClientOK(c), RtspPull!TracksAssumption,
           c.state \in {"OPTIONS", "DESCRIBE", "SETUP", "PLAY"}
    PROVE  RtspPull!Rejected(c, status) = RtspPull!Failed(c) \/ GoesOn(c, RtspPull!Rejected(c,
       status))
<1>1. CASE RtspPull!Rejected(c, status) = [c EXCEPT !.auth_retry_done = TRUE, !.digest = TRUE]
  BY <1>1 DEF GoesOn, RtspClientOK, RtspPull!Clients
<1>2. CASE RtspPull!Rejected(c, status) = RtspPull!FallBack(c)
  <2> DEFINE b == [c EXCEPT !.auto_udp_tried = TRUE, !.rtp_mode = "udp"]
             e == [b EXCEPT !.setup_index = 0]
  <2>0. b \in RtspPull!Clients /\ b.stopping = c.stopping /\ b.link = c.link /\ b.retry = c.retry
    BY DEF RtspClientOK, RtspPull!Clients
  <2>1. e \in RtspPull!Clients /\ e.stopping = c.stopping /\ e.link = c.link /\ e.retry = c.retry
    <3> HIDE DEF b
    <3> QED  BY <2>0 DEF RtspPull!Clients, RtspPull!TracksAssumption
  <2>2. RtspPull!FallBack(c) = RtspPull!SendSetup(e)
    BY DEF RtspPull!FallBack
  <2> HIDE DEF e
  <2> QED  BY <1>2, <2>1, <2>2, SendSetupOK DEF GoesOn
<1> QED  BY <1>1, <1>2 DEF RtspPull!Rejected

\* What a connection that ended has left in the splitter is nobody's business
\* but the next answer's.
RestOk(c, d) ==
    /\ RtspClientOK(d) /\ d.stopping = c.stopping /\ d.link = c.link
    /\ d.retry = c.retry /\ d.state = c.state

LEMMA RestKept ==
    ASSUME NEW c, RtspClientOK(c), NEW rest \in {"none", "bytes", "body"}
    PROVE  /\ RestOk(c, [c EXCEPT !.rest = rest])
           /\ RestOk(c, [c EXCEPT !.rest = rest, !.deaf = TRUE])
           /\ RestOk(c, [c EXCEPT !.deaf = TRUE])
           /\ RtspClientOK([c EXCEPT !.link = "none", !.rest = rest])
BY DEF RestOk, RtspClientOK, RtspPull!Clients

LEMMA CutLeaves ==
    ASSUME NEW c, RtspClientOK(c), NEW rest \in RtspPull!Cut(c)
    PROVE  rest \in {"none", "bytes", "body"}
BY DEF RtspPull!Cut, RtspClientOK, RtspPull!Clients

LEMMA GarbledOK ==
    ASSUME RtspClientOK(s1), RtspPull!TracksAssumption, RtspPull!Garbled,
           s1.state \in {"OPTIONS", "DESCRIBE", "SETUP", "PLAY"}
    PROVE  (\E d : RtspClientOK(d) /\ s1' = RtspPull!Failed(d)) \/ GoesOn(s1, s1')
<1>1. ASSUME NEW rest \in {"none", "bytes", "body"},
             s1' \in RtspPull!Taken([s1 EXCEPT !.rest = rest])
      PROVE  (\E d : RtspClientOK(d) /\ s1' = RtspPull!Failed(d)) \/ GoesOn(s1, s1')
  <2> DEFINE c == [s1 EXCEPT !.rest = rest]
  <2>1. RestOk(s1, c)
    BY RestKept
  <2>2. s1' \in {RtspPull!Accepted(c), RtspPull!Rejected(c, 401), RtspPull!Rejected(c, 404)}
    BY <1>1 DEF RtspPull!Taken
  <2> HIDE DEF c
  <2>3. RtspClientOK(c) /\ c.state \in {"OPTIONS", "DESCRIBE", "SETUP", "PLAY"}
    BY <2>1 DEF RestOk
  <2>4. s1' = RtspPull!Failed(c) \/ GoesOn(c, s1')
    BY <2>2, <2>3, AcceptedOK, RejectedOK
  <2>5. GoesOn(c, s1') => GoesOn(s1, s1')
    BY <2>1 DEF RestOk, GoesOn
  <2> QED  BY <2>3, <2>4, <2>5
<1>2. ASSUME NEW d, RestOk(s1, d), s1' = d
      PROVE  GoesOn(s1, s1')
  BY <1>2 DEF RestOk, GoesOn
<1>3. CASE \E rest \in {"none", "bytes", "body"} : s1' \in RtspPull!Taken([s1 EXCEPT !.rest = rest])
  BY <1>1, <1>3
<1>4. CASE \E rest \in {"none", "bytes", "body"} : s1' = [s1 EXCEPT !.rest = rest, !.deaf = TRUE]
  BY <1>2, <1>4, RestKept
<1>5. CASE s1' = [s1 EXCEPT !.deaf = TRUE]
  <2>1. RestOk(s1, [s1 EXCEPT !.deaf = TRUE])
    BY RestKept
  <2> QED  BY <1>2, <1>5, <2>1
<1> QED  BY <1>3, <1>4, <1>5 DEF RtspPull!Garbled
-----------------------------------------------------------------------------
LEMMA RtspInitHolds == ASSUME RtspPull!Init, RtspPull!TracksAssumption PROVE RtspInv
   /\ RtspPull!Phase = "idle"
<1>1. PICK r \in {"auto", "tcp", "udp"} : s1 = RtspPull!Create(r)
  BY DEF RtspPull!Init
<1>2. s1 \in RtspPull!Clients /\ s1.stopping /\ s1.state = "IDLE"
  BY <1>1 DEF RtspPull!Create, RtspPull!Clients, RtspPull!States, RtspPull!TracksAssumption
<1>3. RtspPull!TypeOK
  <2>1. s4 \in [auth : BOOLEAN, takes : SUBSET {"tcp", "udp"}]
    BY DEF RtspPull!Init
  <2> QED  BY <1>2, <2>1 DEF RtspPull!Init, RtspPull!TypeOK
<1> QED  BY <1>2, <1>3 DEF RtspPull!Init, RtspInv, OneRetries, RtspPull!Phase, Moves

\* A step of the proxy's client to d, stopped or still at the same play.
LEMMA ToStopped ==
    ASSUME RtspInv, RtspClientOK(s1'), s1'.stopping, s2' = s2, s4' = s4,
           s3' \in BOOLEAN, s5' \in BOOLEAN
    PROVE  RtspInv' /\ Moves(RtspPull!Phase, RtspPull!Phase')
BY DEF RtspInv, RtspPull!TypeOK, RtspClientOK, OneRetries, Moves, RtspPull!Phase

LEMMA PlayStep ==
    ASSUME RtspInv, RtspPull!TracksAssumption, RtspPull!Play
    PROVE  RtspInv' /\ Moves(RtspPull!Phase, RtspPull!Phase')
<1>1. PICK fails \in {FALSE, ~s5} :
          /\ s1' = [RtspPull!Dial(RtspPull!Reset([s1 EXCEPT !.stopping = FALSE]),
                fails) EXCEPT !.state = "CONNECTING"]
          /\ s3' = fails
  BY DEF RtspPull!Play
<1>2. fails \in BOOLEAN /\ RtspClientOK(s1)
  BY DEF RtspInv, RtspPull!TypeOK, RtspClientOK
<1> DEFINE c == [s1 EXCEPT !.stopping = FALSE]
           d == RtspPull!Dial(RtspPull!Reset(c), fails)
<1>3. RtspClientOK(c) /\ ~c.stopping /\ c.retry = s1.retry
  BY <1>2 DEF RtspClientOK, RtspPull!Clients
<1> HIDE DEF c
<1>4. RtspClientOK(d) /\ ~d.stopping /\ d.retry = s1.retry
         /\ d.link = IF fails THEN "none" ELSE "dialing"
  BY <1>2, <1>3, ResetOK, DialOK
<1>5. s1' = [d EXCEPT !.state = "CONNECTING"]
  BY <1>1 DEF c
<1> HIDE DEF d
<1>6. /\ RtspClientOK(s1') /\ ~s1'.stopping /\ s1'.retry = s1.retry /\ s1'.state = "CONNECTING"
      /\ s1'.link = IF fails THEN "none" ELSE "dialing"
  BY <1>4, <1>5 DEF RtspClientOK, RtspPull!Clients, RtspPull!States
<1>7. RtspInv'
  BY <1>1, <1>2, <1>6 DEF RtspInv, RtspPull!TypeOK, OneRetries, RtspClientOK, RtspPull!Play
<1>8. RtspPull!Phase' = IF s2 = "player" THEN "idle" ELSE "dialing"
  BY <1>6 DEF RtspPull!Phase, RtspPull!Play
<1>9. RtspPull!Phase \in {"idle", "dialing"}
  BY DEF RtspPull!Phase, RtspPull!Play, RtspInv, RtspPull!TypeOK, OneRetries
<1>10. s2 = "player" => RtspPull!Phase = "idle"
  BY DEF RtspPull!Phase, Moves
<1> QED  BY <1>7, <1>8, <1>9, <1>10 DEF Moves

\* A client that is being answered, or failed by the s4.
LEMMA AnswerStep ==
    ASSUME RtspInv, RtspPull!TracksAssumption, s2' = s2, s4' = s4, s5' = s5,
           ~s1.stopping, s1.link # "none",
           s3' = (s2 = "proxy" /\ s1'.stopping),
           \/ \E d : RtspClientOK(d) /\ s1' = RtspPull!Failed(d)
           \/ RtspPull!Listening /\ GoesOn(s1, s1')
    PROVE  RtspInv' /\ Moves(RtspPull!Phase, RtspPull!Phase')
<1>1. CASE \E d : RtspClientOK(d) /\ s1' = RtspPull!Failed(d)
  <2>1. RtspClientOK(s1') /\ (s2 = "proxy" => s1'.stopping) /\ s1'.state = "ERROR"
    BY <1>1, FailedOK
  <2>2. CASE s2 = "proxy"
    BY <2>1, <2>2, ToStopped DEF RtspInv, RtspPull!TypeOK
  <2>3. CASE s2 = "player"
    BY <2>1, <2>3 DEF RtspInv, RtspPull!TypeOK, RtspClientOK, OneRetries, RtspPull!Phase, Moves
  <2> QED  BY <2>2, <2>3 DEF RtspInv, RtspPull!TypeOK
<1>2. CASE RtspPull!Listening /\ GoesOn(s1, s1')
  <2>1. RtspInv'
    BY <1>2 DEF RtspInv, RtspPull!TypeOK, RtspClientOK, OneRetries, GoesOn, RtspPull!Listening
  <2>2. CASE s2 = "player"
    BY <2>1, <2>2 DEF RtspPull!Phase, Moves
  <2>3. CASE s2 = "proxy"
    <3>1. RtspPull!Phase = "dialing" /\ RtspPull!Phase' \in {"dialing", "ready"}
      BY <1>2, <2>3 DEF RtspPull!Phase, RtspPull!Listening, GoesOn
    <3> QED  BY <2>1, <3>1 DEF Moves
  <2> QED  BY <2>1, <2>2, <2>3 DEF RtspInv, RtspPull!TypeOK
<1> QED  BY <1>1, <1>2

LEMMA RtspStepAllowed ==
    ASSUME RtspInv, RtspPull!TracksAssumption, [RtspPull!Next]_(RtspPull!vars)
    PROVE  RtspInv' /\ Moves(RtspPull!Phase, RtspPull!Phase')
<1>0. RtspClientOK(s1)
  BY DEF RtspInv, RtspPull!TypeOK, RtspClientOK
<1>1. CASE RtspPull!Play
  BY <1>1, PlayStep
<1>2. CASE RtspPull!UserStops
  <2>1. PICK rest \in {"none", "bytes", "body"} : s1' = [RtspPull!Stop(s1) EXCEPT !.rest = rest]
    BY <1>0, <1>2, CutLeaves DEF RtspPull!UserStops, RtspClientOK, RtspPull!Clients
  <2>2. RtspClientOK(s1') /\ s1'.stopping
    <3> DEFINE c == RtspPull!Stop(s1)
    <3>1. RtspClientOK(c) /\ c.stopping /\ s1' = [c EXCEPT !.rest = rest]
      BY <1>0, <2>1, StopOK
    <3> HIDE DEF c
    <3>2. RestOk(c, [c EXCEPT !.rest = rest])
      BY <3>1, RestKept
    <3> QED  BY <3>1, <3>2 DEF RestOk
  <2> QED  BY <1>2, <2>2, ToStopped DEF RtspPull!UserStops, RtspInv, RtspPull!TypeOK
<1>3. CASE RtspPull!Connected
  <2>1. RtspClientOK(s1') /\ s1'.stopping = s1.stopping /\ s1'.retry = s1.retry
           /\ s1'.state = "OPTIONS" /\ s1'.link = "open"
    BY <1>0, <1>3 DEF RtspPull!Connected, RtspClientOK, RtspPull!Clients, RtspPull!States
  <2> QED  BY <1>3, <2>1 DEF RtspPull!Connected, RtspInv, RtspPull!TypeOK, RtspClientOK,
              OneRetries, RtspPull!Phase, Moves
<1>4. CASE RtspPull!Answered
  <2>1. RtspPull!Listening /\ s1.state \in {"OPTIONS", "DESCRIBE", "SETUP", "PLAY"}
    BY <1>4 DEF RtspPull!Answered, RtspPull!Listening
  <2>2. (\E d : RtspClientOK(d) /\ s1' = RtspPull!Failed(d)) \/ GoesOn(s1, s1')
    <3>1. CASE RtspPull!Garbled
      BY <1>0, <2>1, <3>1, GarbledOK
    <3>2. CASE ~(s1.rest # "none")
      BY <1>0, <1>4, <2>1, <3>2, AcceptedOK, RejectedOK DEF RtspPull!Answered
    <3> QED  BY <1>4, <3>1, <3>2 DEF RtspPull!Answered
  <2> QED  BY <1>0, <1>4, <2>1, <2>2, AnswerStep DEF RtspPull!Answered, RtspPull!Listening
<1>5. CASE RtspPull!OutOfOrder
  <2>1. CASE RtspPull!Listening /\ \E status \in {401, 404} : s1' = RtspPull!Rejected(s1, status)
    <3>1. s1' = RtspPull!Failed(s1) \/ GoesOn(s1, s1')
      BY <1>0, <2>1, RejectedOK DEF RtspPull!Listening
    <3> QED  BY <1>0, <1>5, <2>1, <3>1, AnswerStep DEF RtspPull!OutOfOrder, RtspPull!Listening
  <2>2. CASE /\ s1.link # "none"
             /\ \E rest \in RtspPull!Cut(s1) :
                    s1' = RtspPull!Failed([s1 EXCEPT !.link = "none", !.rest = rest])
    <3>1. \E d : RtspClientOK(d) /\ s1' = RtspPull!Failed(d)
      BY <1>0, <2>2, CutLeaves, RestKept
    <3> QED  BY <1>5, <2>2, <3>1, AnswerStep DEF RtspPull!OutOfOrder
  <2> QED  BY <1>5, <2>1, <2>2 DEF RtspPull!OutOfOrder
<1>6. CASE RtspPull!OwnRetry
  <2>1. PICK fails \in {FALSE, ~s5} :
            s1' = IF s1.stopping THEN [s1 EXCEPT !.retry = FALSE]
                  ELSE IF fails THEN RtspPull!Dial(RtspPull!Reset(s1), TRUE)
                  ELSE [RtspPull!Dial(RtspPull!Reset(s1), FALSE) EXCEPT !.state = "CONNECTING",
                     !.retry = FALSE]
    BY <1>6 DEF RtspPull!OwnRetry
  <2>2. CASE s1.stopping
    <3>1. RtspClientOK(s1') /\ s1'.stopping
      BY <1>0, <2>1, <2>2 DEF RtspClientOK, RtspPull!Clients
    <3> QED  BY <1>6, <3>1, ToStopped DEF RtspPull!OwnRetry, RtspInv, RtspPull!TypeOK
  <2>3. CASE ~s1.stopping
    <3>1. s2 = "player"
      BY <1>6, <2>3 DEF RtspPull!OwnRetry, RtspInv, RtspPull!TypeOK, OneRetries
    <3>2. RtspClientOK(RtspPull!Dial(RtspPull!Reset(s1), TRUE))
             /\ RtspClientOK(RtspPull!Dial(RtspPull!Reset(s1), FALSE))
      BY <1>0, ResetOK, DialOK
    <3>3. RtspClientOK([RtspPull!Dial(RtspPull!Reset(s1), FALSE) EXCEPT !.state = "CONNECTING",
             !.retry = FALSE])
      BY <3>2 DEF RtspClientOK, RtspPull!Clients, RtspPull!States
    <3>4. RtspClientOK(s1')
      BY <2>1, <2>3, <3>2, <3>3
    <3> QED  BY <1>6, <3>1, <3>4 DEF RtspPull!OwnRetry, RtspInv, RtspPull!TypeOK, RtspClientOK,
                OneRetries, RtspPull!Phase, Moves
  <2> QED  BY <2>2, <2>3
<1>7. CASE RtspPull!CloseTask
  <2>1. /\ RtspClientOK(s1') /\ s1'.stopping = s1.stopping /\ s1'.retry = s1.retry
        /\ s1'.state = s1.state /\ s1'.link = "none"
    BY <1>0, <1>7 DEF RtspPull!CloseTask, RtspClientOK, RtspPull!Clients
  <2> QED  BY <1>7, <2>1 DEF RtspPull!CloseTask, RtspInv, RtspPull!TypeOK, RtspClientOK,
              OneRetries, RtspPull!Phase, Moves
<1>8. CASE RtspPull!ComesUp
  BY <1>8 DEF RtspPull!ComesUp, RtspInv, RtspPull!TypeOK, OneRetries, RtspPull!Phase, Moves
<1>9. CASE UNCHANGED RtspPull!vars
  BY <1>9 DEF RtspPull!vars, RtspInv, RtspPull!TypeOK, OneRetries, RtspPull!Phase, Moves
<1> QED  BY <1>1, <1>2, <1>3, <1>4, <1>5, <1>6, <1>7, <1>8, <1>9 DEF RtspPull!Next,
            RtspPull!ClientStep
-----------------------------------------------------------------------------
(* Both of them behind the proxy.                                          *)

ClientInv == /\ part = "hlspull" => HlsShaped(s1)
             /\ part = "rtsppull" => RtspInv

LEMMA HlsInitShaped == ASSUME HlsPull!Init PROVE HlsShaped(s1) /\ HlsPull!Phase = "idle"
<1>1. PICK at : s1 = [playing |-> FALSE, failed |-> FALSE, ready |-> FALSE, live |-> FALSE,
                      kind |-> "m3u8", at |-> at, segs |-> <<>>, pos |-> 0,
                      last |-> HlsPull!Nowhere, link |-> "none", soft |-> FALSE, timer |-> FALSE]
  BY DEF HlsPull!Init
<1>2. HlsShaped(s1)
  BY <1>1 DEF HlsShaped, HlsFields
<1> QED  BY <1>1, <1>2 DEF HlsPull!Phase

LEMMA InitContract == ASSUME Init PROVE ClientInv /\ Client!Init
<1>1. CASE part = "hlspull"
  BY <1>1, PullSteps, HlsInitShaped DEF ClientInv, Client!Init, Phase
<1>2. CASE part = "rtsppull"
  BY <1>2, PullSteps, RtspInitHolds, SessionsAssumption
  DEF ClientInv, Client!Init, Phase, SessionsAssumption
<1>3. CASE part \notin {"hlspull", "rtsppull"}
  BY <1>3 DEF ClientInv, Client!Init, Phase
<1> QED  BY <1>1, <1>2, <1>3

LEMMA StepContract == ASSUME ClientInv, [Next]_vars PROVE ClientInv' /\ [Client!Next]_Phase
<1>1. part' = part
  BY PartStays
<1>2. ASSUME Moves(Phase, Phase')
      PROVE  [Client!Next]_Phase
  BY <1>2 DEF Moves, Client!Next, Client!Play, Client!Ready, Client!Error, Client!Stop
<1>3. CASE part = "hlspull"
  <2>1. HlsShaped(s1') /\ Moves(HlsPull!Phase, HlsPull!Phase')
    BY <1>3, PullSteps, HlsStepAllowed DEF ClientInv
  <2>2. Phase = HlsPull!Phase /\ Phase' = HlsPull!Phase'
    BY <1>1, <1>3 DEF Phase
  <2>3. ClientInv'
    BY <1>1, <1>3, <2>1 DEF ClientInv, HlsShaped
  <2> QED  BY <1>2, <2>1, <2>2, <2>3
<1>4. CASE part = "rtsppull"
  <2>1. RtspInv' /\ Moves(RtspPull!Phase, RtspPull!Phase')
    BY <1>4, PullSteps, RtspStepAllowed, SessionsAssumption DEF ClientInv, SessionsAssumption
  <2>2. Phase = RtspPull!Phase /\ Phase' = RtspPull!Phase'
    BY <1>1, <1>4 DEF Phase
  <2>3. ClientInv'
    BY <1>1, <1>4, <2>1 DEF ClientInv
  <2> QED  BY <1>2, <2>1, <2>2, <2>3
<1>5. CASE part \notin {"hlspull", "rtsppull"}
  <2>1. Phase = "idle" /\ Phase' = "idle"
    BY <1>1, <1>5 DEF Phase
  <2> QED  BY <1>1, <1>5, <2>1 DEF ClientInv
<1> QED  BY <1>3, <1>4, <1>5

(* What a pull client promises the proxy it keeps, for any number of       *)
(* segments, any window and any number of tracks: a fetch the HLS client   *)
(* tries again (hls_soft_retry, refresh_task) never makes the play ready   *)
(* anew and never goes on after client_fail; of the two retries of RTSP    *)
(* (client_retry_task, the proxy's) only the proxy's ever dials, and only  *)
(* after it was told of the error.                                         *)
THEOREM PullClientsKeepContract == Spec => ClientContract
<1>1. Init => ClientInv /\ Client!Init
  BY InitContract
<1>2. ClientInv /\ [Next]_vars => ClientInv' /\ [Client!Next]_Phase
  BY StepContract
<1> QED  BY <1>1, <1>2, PTL DEF Spec, ClientContract, Client!Spec
=============================================================================
