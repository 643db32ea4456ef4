----------------------------- MODULE JobProgress -----------------------------
(***************************************************************************)
(* What an ingest job promises whoever polls it (controllers/ingest.rs,    *)
(* IngestJob): its cursor only moves forward, it is done only with the     *)
(* cursor at the end of the range, and a job that is over stays as it was, *)
(* until the range is submitted again.                                     *)
(***************************************************************************)
EXTENDS Integers

CONSTANTS First, End  \* where the cursor starts, and the end of the range

VARIABLES cursor, status

Advance == status = "running" /\ cursor' >= cursor /\ UNCHANGED status

\* The last step to the end may be the one that finishes the job.
Finish ==
  /\ status = "running" /\ status' = "done"
  /\ cursor' >= cursor /\ cursor' >= End

Fail == status = "running" /\ status' = "failed" /\ UNCHANGED cursor

\* POST /ingest takes the range of a job that is over again.
Again == status # "running" /\ cursor' = First /\ status' = "running"

JobInit == cursor = First /\ status = "running"

JobSpec == JobInit /\ [][Advance \/ Finish \/ Fail \/ Again]_<<cursor, status>>
=============================================================================
