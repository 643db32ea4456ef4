---------------------------- MODULE MCBookProxy -----------------------------
(* Checks BookProxy; without symmetry, which liveness does not allow.        *)
EXTENDS BookProxyInv
=============================================================================
