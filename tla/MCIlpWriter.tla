---------------------------- MODULE MCIlpWriter -----------------------------
(* Checks IlpWriter; without symmetry, which liveness does not allow.        *)
EXTENDS IlpWriter
=============================================================================
