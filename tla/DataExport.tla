------------------------------ MODULE DataExport ------------------------------
(***************************************************************************)
(* controllers/data.rs and Questdb::stream_data: the export of one table   *)
(* for one market.  The range asked for is walked as consecutive windows   *)
(* of time, one query each; the rows go out in batches, each an event      *)
(* carrying the `ts` of its last row, and a client that loses the          *)
(* connection asks again from the last such `ts` it saw.                   *)
(*                                                                         *)
(* A row is its `ts` and a number telling it from others of that `ts`.     *)
(* The length of a row's text is left out: a batch may be sent before it   *)
(* has BatchRows rows, as one that reaches BATCH_BYTES is.                 *)
(***************************************************************************)
EXTENDS Integers, Sequences

CONSTANTS
  WindowStart, WindowMin, WindowMax,  \* WINDOW_START, WINDOW_MIN, WINDOW_MAX
  TargetRows,                         \* WINDOW_TARGET_ROWS
  BatchRows,                          \* BATCH_ROWS
  MaxTs,                              \* bound: latest ts of a row
  Copies,                             \* bound: rows of one ts
  MaxOpens,                           \* bound: requests the client makes
  MaxWrites                           \* bound: rows written meanwhile

ASSUME WindowAssumption ==
  /\ WindowStart \in Nat /\ WindowMin \in Nat /\ WindowMax \in Nat
  /\ 1 <= WindowMin /\ WindowMin <= WindowStart /\ WindowStart <= WindowMax
ASSUME RowsAssumption ==
  /\ TargetRows \in Nat /\ BatchRows \in Nat \ {0}
  /\ MaxTs \in Nat /\ Copies \in Nat /\ MaxOpens \in Nat /\ MaxWrites \in Nat

Ts == 0..MaxTs
Row == [ts : Ts, no : 1..Copies]

NoId == -1
Event == [rows : SUBSET Row, id : Ts]
NoEvent == [rows |-> {}, id |-> NoId]

VARIABLES
  table,      \* the market's rows in the table (external)
  writes,     \* rows written since the first request (external)
  from, to,   \* the request's `start` and `end`; left out, they are the widest
  opens,      \* requests made
  pc,         \* the response: "closed", at a "window" or among its "rows",
              \* "failed" or "ended" but for events still to be read,
              \* "finished" once the client has read `done`
  cursor,     \* start of the next window
  end,        \* end of the range, clipped to the table
  size,       \* length of the next window
  hi,         \* end of the window being read
  toRead,     \* rows of it not yet read
  n,          \* rows of it read
  batch,      \* rows read and not yet sent, in order
  wire,       \* the event on its way to the client
  got,        \* rows the client has (external)
  lastId,     \* id of the last event the client has read (external)
  owed,       \* history: rows in range at the first request
  yielded     \* history: rows read for this response

clientVars == <<from, to, opens, got, lastId, owed>>
windowVars == <<cursor, end, size, hi>>
vars == <<table, writes, clientVars, pc, windowVars, toRead, n, batch, wire,
          yielded>>

-----------------------------------------------------------------------------
(* The windows.                                                            *)

SmallerOf(a, b) == IF a <= b THEN a ELSE b
LargerOf(a, b)  == IF a >= b THEN a ELSE b

\* End of the window at c.  The saturating addition of the code cannot be told
\* from this one, `e` being no larger than what it saturates at.
WindowEnd(c, e, s) == SmallerOf(c + s, e)

\* Slip: the next size is not clamped.
NextSizeUnclamped(s, rows) ==
  IF rows > TargetRows THEN s \div 2
  ELSE IF rows < TargetRows \div 4 THEN s * 2
  ELSE s

NextSize(s, rows) ==
  LET next == IF rows > TargetRows THEN s \div 2
              ELSE IF rows < TargetRows \div 4 THEN s * 2
              ELSE s
  IN SmallerOf(LargerOf(next, WindowMin), WindowMax)

\* Slip: `ts <= hi`.
WindowRowsClosed(lo, up) == {r \in table : lo <= r.ts /\ r.ts <= up}

\* `ts >= lo AND ts < up`.
WindowRows(lo, up) == {r \in table : lo <= r.ts /\ r.ts < up}

-----------------------------------------------------------------------------
(* The request.                                                            *)

\* Slip: a resumed export starts after the last ts seen.
RequestStartAfter == IF lastId = NoId THEN from ELSE lastId + 1

\* Last-Event-ID replaces `start`.
RequestStart == IF lastId = NoId THEN from ELSE lastId

\* First and last ts of the table, whose rows are not all this market's.
IsBounds(first, last) ==
  first <= last /\ \A r \in table : first <= r.ts /\ r.ts <= last

\* The response is only `meta` and `done`, or the stream is started.
Open ==
  /\ pc = "closed"
  /\ opens < MaxOpens
  /\ opens' = opens + 1
  /\ owed' = IF opens = 0 THEN {r \in table : from <= r.ts /\ r.ts < to}
             ELSE owed
  /\ \/ table = {} /\ pc' = "ended" /\ UNCHANGED windowVars
     \/ \E first \in Ts, last \in Ts :
          /\ IsBounds(first, last)
          /\ cursor' = LargerOf(RequestStart, first)
          /\ end' = SmallerOf(to, last + 1)
          /\ size' = WindowStart
          /\ hi' = cursor'
          /\ pc' = IF cursor' < end' THEN "window" ELSE "ended"
  /\ yielded' = {}
  /\ UNCHANGED <<table, writes, from, to, got, lastId, toRead, n, batch, wire>>

\* Rows another task writes while the export runs.
Write(r) ==
  /\ opens > 0 /\ writes < MaxWrites
  /\ r \notin table
  /\ table' = table \cup {r}
  /\ writes' = writes + 1
  /\ UNCHANGED <<clientVars, pc, windowVars, toRead, n, batch, wire, yielded>>

-----------------------------------------------------------------------------
(* The stream.                                                             *)

Elements(s) == {s[i] : i \in DOMAIN s}

\* The rows of a batch leave as one event, when the last one has been read.
SendRows(rows) ==
  /\ wire = NoEvent
  /\ wire' = [rows |-> Elements(rows), id |-> rows[Len(rows)].ts]
  /\ batch' = <<>>

\* `batch.flush()`
FlushBatch == IF batch = <<>> THEN UNCHANGED <<batch, wire>> ELSE SendRows(batch)

QueryWindow ==
  /\ pc = "window" /\ cursor < end
  /\ hi' = WindowEnd(cursor, end, size)
  /\ toRead' = WindowRows(cursor, hi')
  /\ n' = 0
  /\ pc' = "rows"
  /\ UNCHANGED <<table, writes, clientVars, cursor, end, size, batch, wire,
                 yielded>>

\* One row, in ts order, ties in any; a full batch is sent with it.
ReadRow(r) ==
  /\ pc = "rows"
  /\ r \in toRead
  /\ \A q \in toRead : r.ts <= q.ts
  /\ toRead' = toRead \ {r}
  /\ n' = n + 1
  /\ yielded' = yielded \cup {r}
  /\ LET filled == Append(batch, r)
     IN \/ SendRows(filled)
        \/ /\ Len(filled) < BatchRows
           /\ batch' = filled
           /\ UNCHANGED wire
  /\ UNCHANGED <<table, writes, clientVars, pc, windowVars>>

\* Slip: a window that is too dense is read again, smaller.
EndWindowAgain ==
  /\ pc = "rows" /\ toRead = {}
  /\ cursor' = IF n > TargetRows THEN cursor ELSE hi
  /\ size' = NextSize(size, n)
  /\ pc' = "window"
  /\ UNCHANGED <<table, writes, clientVars, end, hi, toRead, n, batch, wire,
                 yielded>>

EndWindow ==
  /\ pc = "rows" /\ toRead = {}
  /\ cursor' = hi
  /\ size' = NextSize(size, n)
  /\ pc' = "window"
  /\ UNCHANGED <<table, writes, clientVars, end, hi, toRead, n, batch, wire,
                 yielded>>

\* The last batch, and `done`.
EndStream ==
  /\ pc = "window" /\ cursor >= end
  /\ FlushBatch
  /\ pc' = "ended"
  /\ UNCHANGED <<table, writes, clientVars, windowVars, toRead, n, yielded>>

\* A query fails: what was read of it is sent, and `error`.
QueryFails ==
  /\ pc \in {"window", "rows"}
  /\ FlushBatch
  /\ toRead' = {}
  /\ pc' = "failed"
  /\ UNCHANGED <<table, writes, clientVars, windowVars, n, yielded>>

-----------------------------------------------------------------------------
(* The client.                                                             *)

ReadEvent ==
  /\ wire # NoEvent
  /\ got' = got \cup wire.rows
  /\ lastId' = wire.id
  /\ wire' = NoEvent
  /\ UNCHANGED <<table, writes, from, to, opens, owed, pc, windowVars, toRead,
                 n, batch, yielded>>

\* The stream is dropped with all it held.
StreamGone ==
  /\ cursor' = 0 /\ end' = 0 /\ size' = WindowStart /\ hi' = 0
  /\ toRead' = {} /\ n' = 0 /\ batch' = <<>> /\ yielded' = {}

ReadDone ==
  /\ pc = "ended" /\ wire = NoEvent
  /\ pc' = "finished"
  /\ StreamGone
  /\ UNCHANGED <<table, writes, clientVars, wire>>

\* It reads `error`, or the connection is lost with all that was on its way.
Disconnect ==
  /\ pc \in {"window", "rows", "failed", "ended"}
  /\ pc' = "closed"
  /\ wire' = NoEvent
  /\ StreamGone
  /\ UNCHANGED <<table, writes, clientVars>>

-----------------------------------------------------------------------------
Init ==
  /\ table \in SUBSET Row
  /\ from \in Ts /\ to \in 1..MaxTs + 1 /\ from < to
  /\ writes = 0 /\ opens = 0
  /\ pc = "closed"
  /\ cursor = 0 /\ end = 0 /\ size = WindowStart /\ hi = 0
  /\ toRead = {} /\ n = 0 /\ batch = <<>> /\ wire = NoEvent
  /\ got = {} /\ lastId = NoId
  /\ owed = {} /\ yielded = {}

StreamStep ==
  \/ QueryWindow
  \/ \E r \in toRead : ReadRow(r)
  \/ EndWindow
  \/ EndStream

Next ==
  \/ Open
  \/ \E r \in Row : Write(r)
  \/ StreamStep
  \/ QueryFails
  \/ ReadEvent
  \/ ReadDone
  \/ Disconnect

Spec == Init /\ [][Next]_vars

\* A response being read is produced: hyper polls the stream when the client
\* has room, and QuestDB answers or fails.
FairSpec == Spec /\ WF_vars(StreamStep) /\ WF_vars(ReadEvent) /\ WF_vars(ReadDone)

-----------------------------------------------------------------------------
(* Properties.                                                             *)

\* Every variable has its type, a window's length among the allowed ones.
TypeOK ==
  /\ table \subseteq Row /\ writes \in Nat
  /\ from \in Ts /\ to \in 1..MaxTs + 1 /\ opens \in Nat
  /\ pc \in {"closed", "window", "rows", "failed", "ended", "finished"}
  /\ cursor \in Nat /\ end \in Nat /\ hi \in Nat
  /\ size \in WindowMin..WindowMax
  /\ toRead \subseteq Row /\ n \in Nat
  /\ batch \in Seq(Row)
  /\ wire \in Event \cup {NoEvent}
  /\ got \subseteq Row /\ lastId \in Ts \cup {NoId}
  /\ owed \subseteq Row /\ yielded \subseteq Row

(***************************************************************************)
(* A client that has read `done` has every row that was in range when it   *)
(* first asked, however often its stream failed or was cut off and resumed *)
(* from the last id it saw, and whatever was written in the meantime:      *)
(* resuming is at least once (controllers/data.rs:29-31, 174).             *)
(***************************************************************************)
NothingMissed == pc = "finished" => owed \subseteq got

(***************************************************************************)
(* Within one response no row is read twice: the windows do not overlap,   *)
(* so ties at their boundary are not duplicated (db/questdb.rs:667-670).   *)
(***************************************************************************)
NothingRepeated == toRead \cap yielded = {}

Streaming == pc \in {"window", "rows"}

\* Rows sent to the client, and rows read for it.
Sent == got \cup wire.rows
Read == Sent \cup Elements(batch)

\* Where the windows have got to.
Front == IF pc = "rows" THEN hi ELSE cursor

(***************************************************************************)
(* Why: every owed row before Front has been read or is about to be, and   *)
(* an id only leaves once every owed row before it has: a client resuming  *)
(* at an id asks again for all it may lack.                                *)
(***************************************************************************)
RangeInv ==
  /\ owed \subseteq table
  /\ \A r \in owed : from <= r.ts /\ r.ts < to
  /\ Streaming => \A r \in owed : r.ts < end
  /\ opens = 0 => pc = "closed" /\ lastId = NoId

IdInv ==
  /\ \A r \in owed : r.ts < lastId => r \in got
  /\ \A r \in owed : r.ts < wire.id => r \in Sent
  /\ batch # <<>> => \A r \in owed : r.ts < batch[Len(batch)].ts => r \in Read

WindowInv ==
  /\ pc # "rows" => toRead = {}
  /\ Streaming =>
       /\ \A r \in owed : r.ts < Front => r \in Read \cup toRead
       /\ \A r \in toRead \cup yielded : r.ts < Front
       /\ toRead \cap yielded = {}

EndInv ==
  /\ ~Streaming => batch = <<>>
  /\ pc \in {"closed", "finished"} => wire = NoEvent
  /\ pc = "ended" => owed \subseteq Sent
  /\ pc = "finished" => owed \subseteq got

ExportInv == RangeInv /\ IdInv /\ WindowInv /\ EndInv

(***************************************************************************)
(* A response that is read comes to an end: the windows advance whatever   *)
(* they hold, also where one instant holds more rows than a window aims    *)
(* for (db/questdb.rs:820-835).                                            *)
(***************************************************************************)
ResponseEnds == Streaming ~> ~Streaming
=============================================================================
