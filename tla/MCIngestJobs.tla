---------------------------- MODULE MCIngestJobs ----------------------------
(* Checks IngestJobs; without symmetry, which liveness does not allow.       *)
EXTENDS IngestJobs
=============================================================================
