----------------------------- MODULE MCBroadcast -----------------------------
(* Model-checking instance of Broadcast: three transaction ids.            *)
EXTENDS Broadcast, TLC

MCSymmetry == Permutations(Txids)
=============================================================================
