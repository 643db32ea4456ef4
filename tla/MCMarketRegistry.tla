--------------------------- MODULE MCMarketRegistry ---------------------------
(* Model values for checking MarketRegistry.                               *)
EXTENDS MarketRegistry, TLC

Symmetry == Permutations(Slots) \cup Permutations(Series)
=============================================================================
