----------------------------- MODULE MCDataExport -----------------------------
(* Model values for checking DataExport.                                   *)
EXTENDS DataExport
=============================================================================
