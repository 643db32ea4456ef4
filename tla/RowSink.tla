-------------------------------- MODULE RowSink --------------------------------
(***************************************************************************)
(* What the row writer of db/questdb.rs promises those who queue rows: a   *)
(* row accepted is dealt with once, in the order of acceptance, together   *)
(* with at most BatchCap - 1 others; each is then either stored or lost    *)
(* for good.  It does not promise which.                                   *)
(***************************************************************************)
EXTENDS Naturals, Sequences

CONSTANTS
  Row,       \* the rows that can be queued
  BatchCap   \* ILP_BATCH

VARIABLES
  accepted,  \* every row taken in, in order
  settled,   \* how many of them have been dealt with
  stored     \* the rows QuestDB holds

sinkVars == <<accepted, settled, stored>>

SinkInit == accepted = <<>> /\ settled = 0 /\ stored = {}

Accept ==
  /\ \E r \in Row : accepted' = Append(accepted, r)
  /\ UNCHANGED <<settled, stored>>

\* The rows numbered lo to hi.
Between(lo, hi) == {accepted[i] : i \in lo..hi}

Settle ==
  \E n \in settled + 1 .. Len(accepted) :
    /\ n <= settled + BatchCap
    /\ settled' = n
    /\ \E kept \in SUBSET Between(settled + 1, n) : stored' = stored \cup kept
    /\ UNCHANGED accepted

SinkNext == Accept \/ Settle

SinkSpec == SinkInit /\ [][SinkNext]_sinkVars
=============================================================================
