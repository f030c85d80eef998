------------------------------ MODULE MCQuotes ------------------------------
(* Model-checking instance of Quotes: three subscriptions, two quote ids.  *)
EXTENDS Quotes, TLC

MCSymmetry == Permutations(SubIds) \cup Permutations(QuoteIds)
=============================================================================
