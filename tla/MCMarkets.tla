----------------------------- MODULE MCMarkets -----------------------------
(* Model-checking instance of Markets.                                    *)
EXTENDS Markets
=============================================================================
