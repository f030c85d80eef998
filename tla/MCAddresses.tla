----------------------------- MODULE MCAddresses -----------------------------
(* Model-checking instance of Addresses.                                   *)
EXTENDS Addresses
=============================================================================
