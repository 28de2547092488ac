----------------------------- MODULE PullClient -----------------------------
(***************************************************************************)
(* What a pull client (rtmp_client.h, and the other clients behind         *)
(* zms_live_pull_proxy_ops) promises its user about callbacks: it is asked *)
(* to play only while idle, it is ready at most once per play, an error    *)
(* ends the play, and after stop nothing is reported until the next play.  *)
(***************************************************************************)
VARIABLE phase      \* "idle", "dialing", "ready", "failed"

Init == phase = "idle"

Play == phase = "idle" /\ phase' = "dialing"
Ready == phase = "dialing" /\ phase' = "ready"
Error == phase \in {"dialing", "ready"} /\ phase' = "failed"
Stop == phase' = "idle"

Next == Play \/ Ready \/ Error \/ Stop

Spec == Init /\ [][Next]_phase
=============================================================================
