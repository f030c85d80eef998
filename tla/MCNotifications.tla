--------------------------- MODULE MCNotifications ---------------------------
(* Model-checking instance of Notifications.                              *)
EXTENDS Notifications, TLC

MCSymmetry == Permutations(Balances)
=============================================================================
