----------------------------- MODULE IndexIngest -----------------------------
(***************************************************************************)
(* ingest_loop of controllers/ingest.rs: one `index` job, which walks its  *)
(* range window by window, skips the windows QuestDB already holds enough  *)
(* rows of, fetches the others and queues their rows.  The rows reach      *)
(* QuestDB through the writer, whose flushes may fail.                     *)
(*                                                                         *)
(* Time is in seconds, one value a second (INDEX_ROWS_PER_SECOND); QuestDB *)
(* keeps one row per second and index (its deduplication), so the table is *)
(* a set of seconds, and storing one again changes nothing.                *)
(***************************************************************************)
EXTENDS Integers, FiniteSets

CONSTANTS
  WindowLen,  \* seconds in INGEST_TIMESPAN
  Percent,    \* INDEX_COMPLETE_PERCENT
  Start, End, \* the job's range
  Gaps,       \* seconds the upstream has no value for
  BadValues,  \* seconds it has one for that does not parse
  MaxNow      \* bound: the clock

VARIABLES
  now,       \* the clock; the upstream has the values of the seconds before it
  stored,    \* the seconds index_values_hist holds, of this index
  queued,    \* seconds queued and not yet flushed
  pc,        \* "counts", "loop", "rows", "over"
  status,    \* JobStatus
  force,     \* IngestJob::force
  existing,  \* index_counts' answer, by window
  cursor,    \* IngestJob::cursor_ms
  rows,      \* values fetched and not yet queued
  began,     \* history: the clock when the job began
  lost       \* history: seconds a flush of this job's rows dropped

vars == <<now, stored, queued, pc, status, force, existing, cursor, rows, began, lost>>

Floor(t) == t - (t % WindowLen)
NextWindow(w) == w + WindowLen

Lower(a, b) == IF a < b THEN a ELSE b
Higher(a, b) == IF a > b THEN a ELSE b

Windows == {w \in 0..End : w % WindowLen = 0 /\ NextWindow(w) > Start /\ w < End}
SecondsOf(w) == {s \in Start..End - 1 : w <= s /\ s < NextWindow(w)}

\* HistoryValue::from_value: whether the item of a second is a value.
Parsed(s) == s \notin BadValues

\* What the upstream has of a window; cf_history_values keeps what parses.
Upstream(w, t) == {s \in w..NextWindow(w) - 1 : s < t} \ Gaps
HistoryValues(w, t) == {s \in Upstream(w, t) : Parsed(s)}
Values == {s \in Start..End - 1 : s \notin Gaps /\ Parsed(s)}

IndexWindowComplete(count, w, t) ==
  LET seconds == Lower(NextWindow(w), End) - Higher(w, Start)
  IN /\ NextWindow(w) <= t
     /\ seconds > 0
     /\ count * 100 >= seconds * Percent

\* Slip: rows outside the range are counted too.
IndexCountsAll == [w \in Windows |->
  Cardinality({s \in stored : w <= s /\ s < NextWindow(w)})]

\* index_counts: the rows of the range, by window.
IndexCounts == [w \in Windows |-> Cardinality(stored \cap SecondsOf(w))]

NoCounts == [w \in Windows |-> 0]

-----------------------------------------------------------------------------
(* The job.                                                                *)

jobVars == <<pc, status, force, existing, cursor, rows, began>>

\* `force` asks nothing of QuestDB, and a query that fails counts for nothing.
ReadCounts ==
  /\ pc = "counts"
  /\ pc' = "loop"
  /\ existing' \in IF force THEN {NoCounts} ELSE {IndexCounts, NoCounts}
  /\ UNCHANGED <<now, stored, queued, status, force, cursor, rows, began, lost>>

Skip ==
  /\ pc = "loop" /\ cursor < End
  /\ IndexWindowComplete(existing[cursor], cursor, now)
  /\ cursor' = NextWindow(cursor)
  /\ UNCHANGED <<now, stored, queued, pc, status, force, existing, rows, began, lost>>

\* Slip: the cursor moves on before the rows are queued, and stops the loop.
FinishEarly ==
  /\ pc \in {"loop", "rows"} /\ NextWindow(cursor) >= End
  /\ pc' = "over" /\ status' = "done"
  /\ UNCHANGED <<now, stored, queued, force, existing, cursor, rows, began, lost>>

\* Slip: the values outside the range are kept.
FetchWholeWindow ==
  /\ pc = "loop" /\ cursor < End
  /\ ~IndexWindowComplete(existing[cursor], cursor, now)
  /\ rows' = HistoryValues(cursor, now)
  /\ pc' = "rows"
  /\ UNCHANGED <<now, stored, queued, status, force, existing, cursor, began, lost>>

\* cf_history_values of the window, those inside the range.
Fetch ==
  /\ pc = "loop" /\ cursor < End
  /\ ~IndexWindowComplete(existing[cursor], cursor, now)
  /\ rows' = {s \in HistoryValues(cursor, now) : Start <= s /\ s < End}
  /\ pc' = "rows"
  /\ UNCHANGED <<now, stored, queued, status, force, existing, cursor, began, lost>>

\* The call was given up on, or failed for good.
FetchFails ==
  /\ pc = "loop" /\ cursor < End
  /\ ~IndexWindowComplete(existing[cursor], cursor, now)
  /\ pc' = "over" /\ status' = "failed"
  /\ UNCHANGED <<now, stored, queued, force, existing, cursor, rows, began, lost>>

\* The rows are sent one by one; the cursor moves once they all are.
QueueRow ==
  /\ pc = "rows" /\ rows # {}
  /\ LET s == CHOOSE x \in rows : \A y \in rows : x <= y
     IN queued' = queued \cup {s} /\ rows' = rows \ {s}
  /\ UNCHANGED <<now, stored, pc, status, force, existing, cursor, began, lost>>

WindowDone ==
  /\ pc = "rows" /\ rows = {}
  /\ pc' = "loop" /\ cursor' = NextWindow(cursor)
  /\ UNCHANGED <<now, stored, queued, status, force, existing, rows, began, lost>>

Finish ==
  /\ pc = "loop" /\ cursor >= End
  /\ pc' = "over" /\ status' = "done"
  /\ UNCHANGED <<now, stored, queued, force, existing, cursor, rows, began, lost>>

\* `start` takes the same range again; the job before it is over.
Resubmit(f) ==
  /\ pc = "over"
  /\ pc' = "counts" /\ status' = "running"
  /\ force' = f
  /\ existing' = NoCounts /\ cursor' = Floor(Start) /\ rows' = {}
  /\ began' = now /\ lost' = {}
  /\ UNCHANGED <<now, stored, queued>>

-----------------------------------------------------------------------------
(* The writer and the clock.                                               *)

\* Rows are flushed in the order they were queued, in batches of any size.
UpTo(s) == {x \in queued : x <= s}

FlushOk(s) ==
  /\ s \in queued
  /\ stored' = stored \cup UpTo(s)
  /\ queued' = queued \ UpTo(s)
  /\ UNCHANGED <<now, jobVars, lost>>

FlushFails(s) ==
  /\ s \in queued
  /\ lost' = lost \cup UpTo(s)
  /\ queued' = queued \ UpTo(s)
  /\ UNCHANGED <<now, jobVars, stored>>

Tick ==
  /\ now < MaxNow
  /\ now' = now + 1
  /\ UNCHANGED <<jobVars, stored, queued, lost>>

-----------------------------------------------------------------------------
\* Other jobs, for this range or another, left any values behind.
Init ==
  /\ now \in 0..MaxNow
  /\ stored \in SUBSET {s \in 0..now - 1 : s \notin Gaps /\ Parsed(s)}
  /\ queued = {} /\ lost = {}
  /\ pc = "counts" /\ status = "running" /\ force \in BOOLEAN
  /\ existing = NoCounts /\ cursor = Floor(Start) /\ rows = {}
  /\ began = now

Progress == ReadCounts \/ Skip \/ Fetch \/ QueueRow \/ WindowDone \/ Finish

JobStep == Progress \/ FetchFails

Next ==
  \/ JobStep
  \/ \E f \in BOOLEAN : Resubmit(f)
  \/ \E s \in queued : FlushOk(s) \/ FlushFails(s)
  \/ Tick

Spec == Init /\ [][Next]_vars

\* A task is never forgotten and its calls each end, one way or the other
\* (UpstreamCall).  Nothing is made to fail.
Fairness == WF_vars(Progress)

-----------------------------------------------------------------------------
(* Properties.                                                             *)

TypeOK ==
  /\ now \in 0..MaxNow /\ began \in 0..now
  /\ stored \subseteq 0..MaxNow
  /\ queued \subseteq Start..End - 1
  /\ rows \subseteq Start..End - 1
  /\ lost \subseteq Start..End - 1
  /\ pc \in {"counts", "loop", "rows", "over"}
  /\ status \in {"running", "done", "failed"}
  /\ force \in BOOLEAN
  /\ existing \in [Windows -> 0..WindowLen]
  /\ cursor \in Floor(Start)..NextWindow(Floor(End - 1)) /\ cursor % WindowLen = 0

(***************************************************************************)
(* Whatever earlier jobs fetched, skipped, lost or left half done, once a  *)
(* job is done and the writer has stored all it queued, every window that  *)
(* was over when the job began holds the agreed share of the values the    *)
(* upstream has: submitting a range again mends what a failed flush cost   *)
(* (controllers/ingest.rs:390-393, 395-450).                               *)
(***************************************************************************)
RerunFills ==
  (status = "done" /\ queued = {} /\ lost = {}) =>
    \A w \in Windows : NextWindow(w) <= began =>
      Cardinality(stored \cap SecondsOf(w)) * 100
        >= Cardinality(SecondsOf(w) \cap Values) * Percent

\* The job's promise to whoever polls it.
Job == INSTANCE JobProgress WITH First <- Floor(Start)

(***************************************************************************)
(* A job moves its cursor only forward and is done exactly at the end of   *)
(* its range (controllers/ingest.rs:300-328, 408-447).                     *)
(***************************************************************************)
IsJob == Job!JobSpec

(***************************************************************************)
(* controllers/ingest.rs:190 of cursor_ms: "Everything before this has     *)
(* been ingested."  So with nothing queued, a value the upstream had when  *)
(* the job began is stored once the cursor is past it.                     *)
(* The code does not keep this: see Divergences in the README.             *)
(***************************************************************************)
CursorTrue ==
  queued = {} => \A s \in Values : (s < cursor /\ s < began) => s \in stored
=============================================================================
