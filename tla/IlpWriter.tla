------------------------------- MODULE IlpWriter -------------------------------
(***************************************************************************)
(* db/questdb.rs: the bounded queue every task sends its rows to, and the  *)
(* OS thread that collects them into batches and flushes each batch to     *)
(* QuestDB.                                                                *)
(*                                                                         *)
(* Rows are sent in two ways (feeds/task.rs): `try_queue` drops a row that *)
(* finds the queue full, `queue` waits for room.  Waiting senders are      *)
(* given room in the order they came, and before any new row.              *)
(*                                                                         *)
(* Ending the process drops the senders but does not join the thread, so   *)
(* the process may be gone at any point of the drain that follows.         *)
(***************************************************************************)
EXTENDS Integers, Sequences

CONSTANTS
  Senders,       \* tasks that queue rows
  QueueCap,      \* ILP_QUEUE
  BatchCap,      \* ILP_BATCH
  MaxRows,       \* bound: rows made over the whole run
  FlushesFail    \* whether QuestDB may fail a flush

ASSUME CapsAssumption == QueueCap \in Nat \ {0} /\ BatchCap \in Nat \ {0}
ASSUME RunAssumption == MaxRows \in Nat /\ FlushesFail \in BOOLEAN

\* `must`: sent with `queue`.  `good`: `push` accepts it.
Row == [id : 1..MaxRows, must : BOOLEAN, good : BOOLEAN]

VARIABLES
  made,      \* rows made so far
  waiting,   \* senders inside `send().await`, with their rows, oldest first
  queue,     \* the mpsc channel
  wpc,       \* where the writer thread is in its loop
  batch,     \* the rows of this iteration
  buf,       \* the rows in the ILP buffer
  stored,    \* the rows QuestDB holds
  proc,      \* the process: "running", "closing" once main returns, "exited"
  accepted   \* history: every row that entered the queue, in order

vars == <<made, waiting, queue, wpc, batch, buf, stored, proc, accepted>>

-----------------------------------------------------------------------------
(* The senders.                                                            *)

Blocked(s) == \E i \in DOMAIN waiting : waiting[i].sender = s

\* A task makes its next row and hands it over in the given way.
Makes(s, r) ==
  /\ proc = "running"
  /\ ~Blocked(s)
  /\ made < MaxRows
  /\ r.id = made + 1
  /\ made' = made + 1

Enqueue(r) ==
  /\ queue' = Append(queue, r)
  /\ accepted' = Append(accepted, r)

\* Room that no waiting sender has been given.
HasRoom == Len(queue) + Len(waiting) < QueueCap

\* Slip: room is counted without the row that is about to take it.
TrySendOverfull(s, r) ==
  /\ ~r.must
  /\ Makes(s, r)
  /\ IF Len(queue) + Len(waiting) <= QueueCap
       THEN Enqueue(r) ELSE UNCHANGED <<queue, accepted>>
  /\ UNCHANGED <<waiting, wpc, batch, buf, stored, proc>>

\* `try_queue`: a full queue drops the row.
TrySend(s, r) ==
  /\ ~r.must
  /\ Makes(s, r)
  /\ IF HasRoom THEN Enqueue(r) ELSE UNCHANGED <<queue, accepted>>
  /\ UNCHANGED <<waiting, wpc, batch, buf, stored, proc>>

\* `queue`: the row is sent at once, or its sender waits.
Send(s, r) ==
  /\ r.must
  /\ Makes(s, r)
  /\ IF HasRoom
       THEN Enqueue(r) /\ UNCHANGED waiting
       ELSE /\ waiting' = Append(waiting, [sender |-> s, row |-> r])
            /\ UNCHANGED <<queue, accepted>>
  /\ UNCHANGED <<wpc, batch, buf, stored, proc>>

Without(i) == SubSeq(waiting, 1, i - 1) \o SubSeq(waiting, i + 1, Len(waiting))

\* The i-th sender waiting has been given room, and runs.
Resume(i) ==
  /\ proc = "running"
  /\ i \in DOMAIN waiting
  /\ i <= QueueCap - Len(queue)
  /\ Enqueue(waiting[i].row)
  /\ waiting' = Without(i)
  /\ UNCHANGED <<made, wpc, batch, buf, stored, proc>>

\* The feed of a waiting sender is stopped: its task, and the row, are dropped.
Cancel(i) ==
  /\ proc = "running"
  /\ i \in DOMAIN waiting
  /\ waiting' = Without(i)
  /\ UNCHANGED <<made, queue, wpc, batch, buf, stored, proc, accepted>>

-----------------------------------------------------------------------------
(* The writer thread.                                                      *)

Alive == proc # "exited"

\* `rx.blocking_recv()` with a row to give.
Receive ==
  /\ Alive /\ wpc = "recv" /\ queue # <<>>
  /\ batch' = <<Head(queue)>>
  /\ queue' = Tail(queue)
  /\ wpc' = "collect"
  /\ UNCHANGED <<made, waiting, buf, stored, proc, accepted>>

\* ... and with every sender gone and nothing queued.
Finish ==
  /\ Alive /\ wpc = "recv" /\ queue = <<>> /\ proc = "closing"
  /\ wpc' = "done"
  /\ UNCHANGED <<made, waiting, queue, batch, buf, stored, proc, accepted>>

Collect ==
  /\ Alive /\ wpc = "collect" /\ queue # <<>> /\ Len(batch) < BatchCap
  /\ batch' = Append(batch, Head(queue))
  /\ queue' = Tail(queue)
  /\ UNCHANGED <<made, waiting, wpc, buf, stored, proc, accepted>>

\* The rows pushed into a buffer holding `held`: a row that is rejected clears
\* the buffer, so what is left is what came after the last of them.
Pushed(held, rows) ==
  LET allGood(i) == \A j \in i..Len(rows) : rows[j].good
  IN {rows[i] : i \in {k \in DOMAIN rows : allGood(k)}}
       \cup (IF allGood(1) THEN held ELSE {})

\* The batch is full, or the queue empty and the deadline passed or the
\* channel closed: push every row.
Push ==
  /\ Alive /\ wpc = "collect"
  /\ queue = <<>> \/ Len(batch) = BatchCap
  /\ buf' = Pushed(buf, batch)
  /\ IF buf' = {}
       THEN wpc' = "recv" /\ batch' = <<>>
       ELSE wpc' = "flush" /\ UNCHANGED batch
  /\ UNCHANGED <<made, waiting, queue, stored, proc, accepted>>

EndIteration ==
  /\ wpc' = "recv"
  /\ batch' = <<>>
  /\ UNCHANGED <<made, waiting, queue, proc, accepted>>

FlushOk ==
  /\ Alive /\ wpc = "flush"
  /\ stored' = stored \cup buf
  /\ buf' = {}
  /\ EndIteration

\* Slip: the buffer is kept for the next flush to send again.
FlushFailsKeeps ==
  /\ FlushesFail
  /\ Alive /\ wpc = "flush"
  /\ \E kept \in SUBSET buf : stored' = stored \cup kept
  /\ UNCHANGED buf
  /\ EndIteration

\* Slip: the thread gives up.
FlushFailsStops ==
  /\ FlushesFail
  /\ Alive /\ wpc = "flush"
  /\ buf' = {}
  /\ batch' = <<>>
  /\ wpc' = "done"
  /\ UNCHANGED <<made, waiting, queue, stored, proc, accepted>>

\* A failed flush may have committed some of its tables; the rest is dropped.
FlushFails ==
  /\ FlushesFail
  /\ Alive /\ wpc = "flush"
  /\ \E kept \in SUBSET buf : stored' = stored \cup kept
  /\ buf' = {}
  /\ EndIteration

WriterStep == Receive \/ Finish \/ Collect \/ Push \/ FlushOk \/ FlushFails

-----------------------------------------------------------------------------
(* The end of the process.                                                 *)

\* main returns: the runtime drops every task, and with them the senders.
Close ==
  /\ proc = "running"
  /\ proc' = "closing"
  /\ waiting' = <<>>
  /\ UNCHANGED <<made, queue, wpc, batch, buf, stored, accepted>>

\* Nothing waits for the writer thread.
Exit ==
  /\ proc = "closing"
  /\ proc' = "exited"
  /\ UNCHANGED <<made, waiting, queue, wpc, batch, buf, stored, accepted>>

-----------------------------------------------------------------------------
Init ==
  /\ made = 0
  /\ waiting = <<>> /\ queue = <<>> /\ batch = <<>> /\ accepted = <<>>
  /\ buf = {} /\ stored = {}
  /\ wpc = "recv"
  /\ proc = "running"

SenderStep ==
  \E s \in Senders, must \in BOOLEAN, good \in BOOLEAN :
    LET r == [id |-> made + 1, must |-> must, good |-> good]
    IN TrySend(s, r) \/ Send(s, r)

Next ==
  \/ SenderStep
  \/ \E i \in DOMAIN waiting : Resume(i) \/ Cancel(i)
  \/ WriterStep
  \/ Close
  \/ Exit

Spec == Init /\ [][Next]_vars

\* The OS runs the writer thread, whose flush returns, and the runtime polls
\* the first sender that has been given room.
FairSpec == Spec /\ WF_vars(WriterStep) /\ WF_vars(Resume(1))

-----------------------------------------------------------------------------
(* Properties.                                                             *)

\* Every variable has its type; neither the queue nor a batch outgrows its cap.
TypeOK ==
  /\ made \in Nat
  /\ waiting \in Seq([sender : Senders, row : Row])
  /\ queue \in Seq(Row) /\ Len(queue) <= QueueCap
  /\ batch \in Seq(Row) /\ Len(batch) <= BatchCap
  /\ accepted \in Seq(Row)
  /\ buf \subseteq Row /\ stored \subseteq Row
  /\ wpc \in {"recv", "collect", "flush", "done"}
  /\ proc \in {"running", "closing", "exited"}

\* Rows whose iteration of the loop is over.
SettledRows == Len(accepted) - Len(queue) - Len(batch)

(***************************************************************************)
(* Why: what is not settled is the batch and then the queue, in order, and *)
(* outside a flush the buffer is empty, so nothing of a cleared or failed  *)
(* batch is there to be sent with the next (db/questdb.rs:1058-1077).      *)
(***************************************************************************)
WriterInv ==
  /\ SettledRows >= 0
  /\ \A i \in DOMAIN batch : batch[i] = accepted[SettledRows + i]
  /\ \A i \in DOMAIN queue :
       queue[i] = accepted[SettledRows + Len(batch) + i]
  /\ buf \subseteq {batch[i] : i \in DOMAIN batch}
  /\ wpc # "flush" => buf = {}
  /\ batch # <<>> <=> wpc \in {"collect", "flush"}

Sink == INSTANCE RowSink WITH settled <- SettledRows

(***************************************************************************)
(* The writer keeps the promise of RowSink: a row of a flush that failed,  *)
(* or of a batch cleared for a rejected row, never turns up with a later   *)
(* batch, and none is skipped or sent ahead of an earlier one              *)
(* (db/questdb.rs:1056-1077).                                              *)
(***************************************************************************)
WriterIsSink == Sink!SinkSpec

(***************************************************************************)
(* A sender that waits for room gets it, whatever QuestDB does to the      *)
(* flushes and whatever other senders queue, unless its feed is stopped or *)
(* the process ends (feeds/task.rs:251-253, db/questdb.rs:1072-1076).      *)
(***************************************************************************)
WaitersServed ==
  \A s \in Senders : Blocked(s) ~> (~Blocked(s) \/ proc # "running")

(***************************************************************************)
(* Every row queued is dealt with: when senders stop, the queue drains,    *)
(* through rejected rows and failed flushes, and also after the senders    *)
(* are gone, provided the process lives (db/questdb.rs:1028-1044, 1057).   *)
(***************************************************************************)
EveryRowSettles ==
  \A n \in 1..MaxRows : (Len(accepted) >= n) ~> (SettledRows >= n \/ ~Alive)

(***************************************************************************)
(* feeds/task.rs:250 calls a snapshot level "a row that must not be lost"  *)
(* and waits for room for it.  So once all that was queued has been dealt  *)
(* with, every such row that is itself acceptable is stored.               *)
(* The code does not keep this: see Divergences in the README.             *)
(***************************************************************************)
MustRowsStored ==
  (wpc = "recv" /\ queue = <<>>) =>
    \A i \in DOMAIN accepted :
      (accepted[i].must /\ accepted[i].good) => accepted[i] \in stored

(***************************************************************************)
(* main.rs:114-116 handles SIGTERM lest the process be "SIGKILLed          *)
(* mid-flush".  So a process that exits does not do so during a flush.     *)
(* The code does not keep this: see Divergences in the README.             *)
(***************************************************************************)
ExitsBetweenFlushes == proc = "exited" => wpc # "flush"
=============================================================================
