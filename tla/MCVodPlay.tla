----------------------------- MODULE MCVodPlay -----------------------------
(* Instances of VodPlay for TLC: two files, of either container. *)
EXTENDS VodPlay

MCKinds == [n \in Samples |-> CASE n \in {0, 3} -> "sync" [] n = 4 -> "audio" [] OTHER -> "inter"]
MCFiles == {[kind |-> MCKinds, box |-> b, pool |-> p] : b \in {"mp4", "flv"}, p \in BOOLEAN}
MCMp4 == {[kind |-> MCKinds, box |-> "mp4", pool |-> TRUE]}
=============================================================================
