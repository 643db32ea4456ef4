-------------------------- MODULE DataExportProofs --------------------------
(***************************************************************************)
(* Machine-checked proofs about DataExport, for any sizes and bounds: its  *)
(* types, that a client that has read `done` missed nothing, and that no   *)
(* row is read twice for one response.                                     *)
(***************************************************************************)
EXTENDS DataExport, TLAPS

-----------------------------------------------------------------------------
(* The helpers.                                                            *)

\* A row appended to a batch adds itself to what the batch holds, at its end.
LEMMA AppendedRow ==
  ASSUME NEW s \in Seq(Row), NEW r \in Row
  PROVE  /\ Append(s, r) \in Seq(Row) /\ Append(s, r) # <<>>
         /\ Elements(Append(s, r)) = Elements(s) \cup {r}
         /\ Append(s, r)[Len(Append(s, r))] = r
<1>1. /\ Append(s, r) \in Seq(Row)
      /\ Len(s) \in Nat /\ Len(Append(s, r)) = Len(s) + 1
      /\ Append(s, r)[Len(s) + 1] = r
      /\ \A i \in 1..Len(s) : Append(s, r)[i] = s[i]
  OBVIOUS
<1>2. /\ DOMAIN s = 1..Len(s)
      /\ DOMAIN Append(s, r) = 1..Len(s) \cup {Len(s) + 1}
  BY <1>1
<1>3. Elements(Append(s, r)) = Elements(s) \cup {r}
  <2>1. Elements(s) \subseteq Elements(Append(s, r))
    BY <1>1, <1>2 DEF Elements
  <2>2. r \in Elements(Append(s, r))
    BY <1>1, <1>2 DEF Elements
  <2>3. Elements(Append(s, r)) \subseteq Elements(s) \cup {r}
    BY <1>1, <1>2 DEF Elements
  <2> QED BY <2>1, <2>2, <2>3
<1>4. Append(s, r) # <<>>
  BY <1>1, Len(<<>>) = 0
<1> QED BY <1>1, <1>3, <1>4

\* The last row of a batch is one of its rows.
LEMMA BatchRowsOf ==
  ASSUME NEW s \in Seq(Row)
  PROVE  /\ Elements(s) \subseteq Row
         /\ s # <<>> => s[Len(s)] \in Row
BY DEF Elements

\* An empty batch has none.
LEMMA NoRows == Elements(<<>>) = {}
BY DEF Elements

\* A window's length stays among the allowed ones.
LEMMA NextSizeType ==
  ASSUME NEW s \in WindowMin..WindowMax, NEW rows \in Nat
  PROVE  NextSize(s, rows) \in WindowMin..WindowMax
<1> DEFINE next == IF rows > TargetRows THEN s \div 2
                   ELSE IF rows < TargetRows \div 4 THEN s * 2
                   ELSE s
<1>1. s \in Int /\ WindowMin \in Int /\ WindowMax \in Int /\ WindowMin <= WindowMax
  BY WindowAssumption
<1>2. s \div 2 \in Int /\ s * 2 \in Int
  BY <1>1
<1>3. next \in Int
  BY <1>1, <1>2
<1> HIDE DEF next
<1>4. SmallerOf(LargerOf(next, WindowMin), WindowMax) \in WindowMin..WindowMax
  BY <1>1, <1>3 DEF SmallerOf, LargerOf
<1> QED BY <1>4 DEF NextSize, next

\* The times a row and an event carry are instants, and a window ends where
\* it starts or later.
LEMMA Times ==
  /\ \A r \in Row : r.ts \in Ts
  /\ Ts \subseteq Nat /\ NoId = -1 /\ MaxTs \in Nat
  /\ NoEvent.rows = {} /\ NoEvent.id = NoId
BY RowsAssumption DEF Row, Ts, NoId, NoEvent

\* What is sent as one event is an event, and leaves an empty batch.
LEMMA SendRowsType ==
  ASSUME NEW s \in Seq(Row), s # <<>>, SendRows(s)
  PROVE  wire' \in Event /\ batch' = <<>> /\ batch' \in Seq(Row)
<1>1. Elements(s) \subseteq Row /\ s[Len(s)].ts \in Ts
  BY BatchRowsOf, Times
<1> QED BY <1>1 DEF SendRows, Event

-----------------------------------------------------------------------------
(* Type correctness.                                                       *)

\* Every step keeps the types.
LEMMA TypeStep == TypeOK /\ [Next]_vars => TypeOK'
<1> SUFFICES ASSUME TypeOK, [Next]_vars PROVE TypeOK'
  OBVIOUS
<1> USE Times
<1>1. CASE Open
  <2>1. ASSUME NEW first \in Ts, NEW last \in Ts,
               cursor' = LargerOf(RequestStart, first),
               end' = SmallerOf(to, last + 1), size' = WindowStart,
               hi' = cursor'
        PROVE  /\ cursor' \in Nat /\ end' \in Nat /\ hi' \in Nat
               /\ size' \in WindowMin..WindowMax
    <3>1. RequestStart \in Nat /\ to \in Nat
      BY DEF RequestStart, TypeOK, Ts
    <3>2. first \in Nat /\ last + 1 \in Nat
      BY DEF Ts
    <3> QED BY <2>1, <3>1, <3>2, WindowAssumption DEF LargerOf, SmallerOf
  <2>2. /\ cursor' \in Nat /\ end' \in Nat /\ hi' \in Nat
        /\ size' \in WindowMin..WindowMax
        /\ pc' \in {"window", "ended"}
    BY <1>1, <2>1 DEF Open, TypeOK, windowVars
  <2>3. owed' \subseteq Row /\ opens' \in Nat
    BY <1>1 DEF Open, TypeOK
  <2> QED BY <1>1, <2>2, <2>3 DEF Open, TypeOK
<1>2. ASSUME NEW r \in Row, Write(r) PROVE TypeOK'
  BY <1>2 DEF Write, TypeOK, clientVars, windowVars
<1>3. CASE QueryWindow
  <2>1. hi' \in Nat
    BY <1>3, WindowAssumption DEF QueryWindow, WindowEnd, SmallerOf, TypeOK
  <2> QED BY <1>3, <2>1 DEF QueryWindow, WindowRows, TypeOK, clientVars
<1>4. ASSUME NEW r \in toRead, ReadRow(r) PROVE TypeOK'
  <2>1. r \in Row /\ batch \in Seq(Row)
    BY DEF TypeOK
  <2>2. Append(batch, r) \in Seq(Row) /\ Append(batch, r) # <<>>
    BY <2>1, AppendedRow
  <2>3. batch' \in Seq(Row) /\ wire' \in Event \cup {NoEvent}
    BY <1>4, <2>2, SendRowsType DEF ReadRow, TypeOK
  <2>4. n' \in Nat /\ yielded' \subseteq Row /\ toRead' \subseteq Row
    BY <1>4, <2>1 DEF ReadRow, TypeOK
  <2> QED BY <1>4, <2>3, <2>4 DEF ReadRow, TypeOK, clientVars, windowVars
<1>5. CASE EndWindow
  BY <1>5, NextSizeType DEF EndWindow, TypeOK, clientVars
<1>6. ASSUME FlushBatch
      PROVE  batch' \in Seq(Row) /\ wire' \in Event \cup {NoEvent}
  BY <1>6, SendRowsType DEF FlushBatch, TypeOK
<1>7. CASE EndStream
  BY <1>6, <1>7 DEF EndStream, TypeOK, clientVars, windowVars
<1>8. CASE QueryFails
  BY <1>6, <1>8 DEF QueryFails, TypeOK, clientVars, windowVars
<1>9. CASE ReadEvent
  <2>1. wire \in Event
    BY <1>9 DEF ReadEvent, TypeOK
  <2>2. wire.rows \subseteq Row /\ wire.id \in Ts
    BY <2>1 DEF Event
  <2> QED BY <1>9, <2>2 DEF ReadEvent, TypeOK, windowVars
<1>10. ASSUME StreamGone
       PROVE  /\ cursor' \in Nat /\ end' \in Nat /\ hi' \in Nat /\ n' \in Nat
              /\ size' \in WindowMin..WindowMax
              /\ toRead' \subseteq Row /\ yielded' \subseteq Row
              /\ batch' \in Seq(Row)
  BY <1>10, WindowAssumption DEF StreamGone
<1>11. CASE ReadDone
  BY <1>10, <1>11 DEF ReadDone, TypeOK, clientVars
<1>12. CASE Disconnect
  BY <1>10, <1>12 DEF Disconnect, TypeOK, clientVars
<1>13. CASE UNCHANGED vars
  BY <1>13 DEF vars, TypeOK, clientVars, windowVars
<1> QED BY <1>1, <1>2, <1>3, <1>4, <1>5, <1>7, <1>8, <1>9, <1>11, <1>12, <1>13
        DEF Next, StreamStep

\* The initial states are of their types.
LEMMA TypeInit == Init => TypeOK
<1>1. Ts \subseteq Nat /\ <<>> \in Seq(Row)
  BY Times
<1> QED BY <1>1, WindowAssumption DEF Init, TypeOK

\* Every variable keeps its type, and a window's length is always among the
\* allowed ones (db/questdb.rs:826-835).
THEOREM ExportTypes == Spec => []TypeOK
<1> QED BY TypeInit, TypeStep, PTL DEF Spec

-----------------------------------------------------------------------------
(* Nothing is missed, nothing is repeated.                                 *)

\* Sending a batch on a free wire moves its rows there, and the id says no
\* more than the batch's last row did.
LEMMA SendRowsKeeps ==
  ASSUME TypeOK, NEW s \in Seq(Row), s # <<>>, SendRows(s), UNCHANGED <<got, owed>>,
         \A q \in owed : q.ts < s[Len(s)].ts => q \in Sent \cup Elements(s)
  PROVE  /\ Sent' = Sent \cup Elements(s) /\ Read' = Sent'
         /\ \A q \in owed : q.ts < wire'.id => q \in Sent'
         /\ batch' = <<>>
<1>1. /\ wire = NoEvent /\ batch' = <<>>
      /\ wire'.rows = Elements(s) /\ wire'.id = s[Len(s)].ts
  BY DEF SendRows
<1>2. wire.rows = {} /\ Elements(<<>>) = {}
  BY <1>1, Times, NoRows
<1>3. Sent' = Sent \cup Elements(s)
  BY <1>1, <1>2 DEF Sent
<1>4. Read' = Sent'
  BY <1>1, <1>2 DEF Read
<1> QED BY <1>1, <1>3, <1>4

\* Flushing loses nothing: what was read has then been sent.
LEMMA FlushKeeps ==
  ASSUME TypeOK, IdInv, FlushBatch, UNCHANGED <<got, owed>>
  PROVE  /\ Sent' = Read /\ Read' = Read
         /\ \A q \in owed : q.ts < wire'.id => q \in Sent'
         /\ batch' = <<>>
<1>1. CASE batch = <<>>
  <2>1. UNCHANGED <<batch, wire>> /\ Elements(<<>>) = {}
    BY <1>1, NoRows DEF FlushBatch
  <2>2. Sent' = Sent /\ Read = Sent /\ Read' = Sent
    BY <1>1, <2>1 DEF Sent, Read
  <2> QED BY <1>1, <2>1, <2>2 DEF IdInv
<1>2. CASE batch # <<>>
  <2>1. SendRows(batch) /\ batch \in Seq(Row)
    BY <1>2 DEF FlushBatch, TypeOK
  <2>2. \A q \in owed : q.ts < batch[Len(batch)].ts => q \in Sent \cup Elements(batch)
    BY <1>2 DEF IdInv, Read
  <2>3. /\ Sent' = Sent \cup Elements(batch) /\ Read' = Sent'
        /\ \A q \in owed : q.ts < wire'.id => q \in Sent'
        /\ batch' = <<>>
    BY <1>2, <2>1, <2>2, SendRowsKeeps
  <2> QED BY <2>3 DEF Read
<1> QED BY <1>1, <1>2

\* A dropped stream leaves nothing read and not sent.
LEMMA GoneKeeps ==
  ASSUME StreamGone
  PROVE  toRead' = {} /\ batch' = <<>> /\ Elements(batch') = {}
BY NoRows DEF StreamGone

\* The initial states satisfy the invariant.
LEMMA ExportInit == Init => ExportInv
<1> SUFFICES ASSUME Init PROVE ExportInv
  OBVIOUS
<1>1. wire.id = NoId /\ owed = {} /\ batch = <<>> /\ toRead = {}
  BY Times DEF Init
<1>2. pc = "closed" /\ opens = 0 /\ lastId = NoId /\ wire = NoEvent
  BY DEF Init
<1> QED BY <1>1, <1>2
        DEF ExportInv, RangeInv, IdInv, WindowInv, EndInv, Streaming

\* Every step keeps the invariant.
LEMMA ExportStep == TypeOK /\ ExportInv /\ [Next]_vars => ExportInv'
<1> SUFFICES ASSUME TypeOK, ExportInv, [Next]_vars PROVE ExportInv'
  OBVIOUS
<1> USE Times
<1>0. /\ RangeInv /\ IdInv /\ WindowInv /\ EndInv
      /\ \A r \in table \cup owed : r.ts \in Nat
      /\ cursor \in Nat /\ end \in Nat /\ hi \in Nat
      /\ from \in Nat /\ to \in Nat
      /\ lastId \in Int /\ wire.id \in Int
  <2>1. wire.id \in Int
    <3>1. CASE wire = NoEvent
      BY <3>1
    <3>2. CASE wire \in Event
      <4>1. wire.id \in Ts
        BY <3>2 DEF Event
      <4> QED BY <4>1 DEF Ts
    <3> QED BY <3>1, <3>2 DEF TypeOK
  <2>2. \A r \in table \cup owed : r.ts \in Nat
    BY DEF TypeOK
  <2>3. /\ cursor \in Nat /\ end \in Nat /\ hi \in Nat
        /\ from \in Nat /\ to \in Nat /\ lastId \in Int
    BY DEF TypeOK
  <2> QED BY <2>1, <2>2, <2>3 DEF ExportInv
<1>1. CASE Open
  <2>1. /\ pc = "closed" /\ batch = <<>> /\ wire = NoEvent /\ toRead = {}
        /\ pc' \in {"window", "ended"} /\ opens' # 0 /\ yielded' = {}
        /\ UNCHANGED <<table, from, to, got, lastId, batch, wire, toRead>>
    BY <1>0, <1>1 DEF Open, EndInv, WindowInv, Streaming, TypeOK
  <2>2. /\ owed' \subseteq table
        /\ \A r \in owed' : from <= r.ts /\ r.ts < to
        /\ \A r \in owed' : r.ts < lastId => r \in got
    <3>1. CASE opens = 0
      <4>1. lastId = NoId
        BY <1>0, <3>1 DEF RangeInv
      <4>2. owed' = {r \in table : from <= r.ts /\ r.ts < to}
        BY <1>1, <3>1 DEF Open
      <4> QED BY <1>0, <4>1, <4>2
    <3>2. CASE opens # 0
      <4>1. owed' = owed
        BY <1>1, <3>2 DEF Open
      <4> QED BY <1>0, <4>1 DEF RangeInv, IdInv
    <3> QED BY <3>1, <3>2
  <2>3. CASE /\ table = {} /\ pc' = "ended"
    BY <2>1, <2>2, <2>3
       DEF ExportInv, RangeInv, IdInv, WindowInv, EndInv, Streaming
  <2>4. ASSUME NEW first \in Ts, NEW last \in Ts,
               IsBounds(first, last),
               cursor' = LargerOf(RequestStart, first),
               end' = SmallerOf(to, last + 1),
               pc' = IF cursor' < end' THEN "window" ELSE "ended"
        PROVE  ExportInv'
    <3>1. first \in Nat /\ last \in Nat /\ cursor' \in Nat /\ end' \in Nat
      BY <1>0, <2>4 DEF RequestStart, LargerOf, SmallerOf, TypeOK
    <3>2. \A r \in owed' : r.ts < end'
      BY <1>0, <2>2, <2>4, <3>1 DEF IsBounds, SmallerOf
    <3>3. \A r \in owed' : r.ts < cursor' => r \in got
      BY <1>0, <2>2, <2>4, <3>1 DEF IsBounds, LargerOf, RequestStart
    <3>4. pc' = "ended" => owed' \subseteq got
      BY <2>4, <3>1, <3>2, <3>3, <1>0, <2>2
    <3>5. Sent' = got /\ Read' = got /\ Front' = cursor'
      BY <2>1, NoRows DEF Sent, Read, Front
    <3>6. RangeInv'
      BY <2>1, <2>2, <3>2 DEF RangeInv
    <3>7. IdInv'
      <4>1. \A r \in owed' : ~(r.ts < wire'.id)
        BY <1>0, <2>1, <2>2
      <4> QED BY <2>1, <2>2, <4>1 DEF IdInv
    <3>8. WindowInv' /\ EndInv'
      BY <2>1, <3>3, <3>4, <3>5 DEF WindowInv, EndInv, Streaming
    <3> QED BY <3>6, <3>7, <3>8 DEF ExportInv
  <2> QED BY <1>1, <2>3, <2>4 DEF Open
<1>2. ASSUME NEW r \in Row, Write(r) PROVE ExportInv'
  <2>1. /\ table \subseteq table'
        /\ UNCHANGED <<clientVars, pc, windowVars, toRead, batch, wire, yielded>>
    BY <1>2 DEF Write
  <2>2. Sent' = Sent /\ Read' = Read /\ Front' = Front /\ Streaming' = Streaming
    BY <2>1 DEF Sent, Read, Front, Streaming, windowVars, clientVars, Elements
  <2> QED BY <1>0, <2>1, <2>2
          DEF ExportInv, RangeInv, IdInv, WindowInv, EndInv, clientVars, windowVars
<1>3. CASE QueryWindow
  <2>1. /\ pc = "window" /\ pc' = "rows" /\ Streaming /\ Streaming'
        /\ toRead = {} /\ toRead' = WindowRows(cursor, hi')
        /\ hi' = WindowEnd(cursor, end, size)
        /\ UNCHANGED <<table, clientVars, end, batch, wire, yielded>>
    BY <1>0, <1>3 DEF QueryWindow, WindowInv, Streaming
  <2>2. Sent' = Sent /\ Read' = Read /\ Front = cursor /\ Front' = hi'
    BY <2>1 DEF Sent, Read, Front, clientVars, Elements
  <2>3. cursor <= hi' /\ hi' \in Nat
    BY <1>0, <1>3, <2>1, WindowAssumption
       DEF QueryWindow, WindowEnd, SmallerOf, TypeOK
  <2>4. \A r \in owed : r.ts < hi' => r \in Read \cup toRead'
    <3>1. \A r \in owed : r.ts < cursor => r \in Read
      BY <1>0, <2>1, <2>2 DEF WindowInv
    <3>2. \A r \in owed : cursor <= r.ts /\ r.ts < hi' => r \in toRead'
      BY <1>0, <2>1 DEF RangeInv, WindowRows
    <3> QED BY <1>0, <2>3, <3>1, <3>2
  <2>5. \A r \in yielded : r.ts < cursor
    BY <1>0, <2>1, <2>2 DEF WindowInv
  <2>6. /\ \A r \in toRead' \cup yielded : r.ts < hi'
        /\ toRead' \cap yielded = {}
    <3>1. \A r \in toRead' : cursor <= r.ts /\ r.ts < hi'
      BY <2>1 DEF WindowRows
    <3>2. \A r \in toRead' \cup yielded : r.ts \in Nat
      BY <2>1 DEF WindowRows, TypeOK
    <3> QED BY <1>0, <2>3, <2>5, <3>1, <3>2
  <2> QED BY <1>0, <2>1, <2>2, <2>4, <2>6
          DEF ExportInv, RangeInv, IdInv, WindowInv, EndInv, clientVars, Streaming
<1>4. ASSUME NEW r \in toRead, ReadRow(r) PROVE ExportInv'
  <2> DEFINE filled == Append(batch, r)
  <2>1. /\ pc = "rows" /\ Streaming /\ Streaming' /\ Front' = Front
        /\ toRead' = toRead \ {r} /\ yielded' = yielded \cup {r}
        /\ \A q \in toRead : r.ts <= q.ts
        /\ UNCHANGED <<table, clientVars, pc, windowVars>>
    BY <1>4 DEF ReadRow, Streaming, Front, windowVars
  <2>2. /\ filled \in Seq(Row) /\ filled # <<>> /\ r.ts \in Nat
        /\ Elements(filled) = Elements(batch) \cup {r}
        /\ filled[Len(filled)] = r
    BY AppendedRow DEF TypeOK
  <2> HIDE DEF filled
  <2>3. \A q \in owed : q.ts < r.ts => q \in Read
    <3>1. r.ts < Front
      BY <1>0, <2>1 DEF WindowInv
    <3>2. Front \in Nat
      BY <1>0 DEF Front
    <3>3. \A q \in owed : q.ts < r.ts => q \in Read \cup toRead
      BY <1>0, <2>1, <2>2, <3>1, <3>2 DEF WindowInv
    <3>4. \A q \in owed : q.ts < r.ts => q \notin toRead
      BY <1>0, <2>1, <2>2
    <3> QED BY <3>3, <3>4
  <2>4. /\ Read' = Read \cup {r}
        /\ \A q \in owed : q.ts < wire'.id => q \in Sent'
        /\ batch' # <<>> => \A q \in owed : q.ts < batch'[Len(batch')].ts => q \in Read'
    <3>1. CASE SendRows(filled)
      <4>1. \A q \in owed : q.ts < filled[Len(filled)].ts
                              => q \in Sent \cup Elements(filled)
        BY <2>2, <2>3 DEF Read
      <4>2. /\ Sent' = Sent \cup Elements(filled) /\ Read' = Sent'
            /\ \A q \in owed : q.ts < wire'.id => q \in Sent'
            /\ batch' = <<>>
        BY <2>1, <2>2, <3>1, <4>1, SendRowsKeeps DEF clientVars
      <4> QED BY <2>2, <4>2 DEF Read
    <3>2. CASE batch' = filled /\ UNCHANGED wire
      <4>1. Sent' = Sent
        BY <2>1, <3>2 DEF Sent, clientVars
      <4>2. Read' = Read \cup {r}
        BY <2>2, <3>2, <4>1 DEF Read
      <4> QED BY <1>0, <2>2, <2>3, <3>2, <4>1, <4>2 DEF IdInv
    <3> QED BY <1>4, <3>1, <3>2 DEF ReadRow, filled
  <2>5. WindowInv'
    <3>1. r \in toRead /\ toRead \cap yielded = {}
      BY <1>0, <2>1 DEF WindowInv
    <3>2. \A q \in owed : q.ts < Front => q \in Read' \cup toRead'
      BY <1>0, <2>1, <2>4 DEF WindowInv
    <3>3. \A q \in toRead' \cup yielded' : q.ts < Front
      BY <1>0, <2>1, <3>1 DEF WindowInv
    <3>4. toRead' \cap yielded' = {}
      BY <2>1, <3>1
    <3> QED BY <2>1, <3>2, <3>3, <3>4 DEF WindowInv, clientVars
  <2> QED BY <1>0, <2>1, <2>4, <2>5
          DEF ExportInv, RangeInv, IdInv, EndInv, clientVars, windowVars, Streaming
<1>5. CASE EndWindow
  <2>1. /\ pc = "rows" /\ pc' = "window" /\ toRead = {} /\ cursor' = hi
        /\ Streaming /\ Streaming'
        /\ UNCHANGED <<table, clientVars, end, toRead, batch, wire, yielded>>
    BY <1>5 DEF EndWindow, Streaming
  <2>2. Sent' = Sent /\ Read' = Read /\ Front' = Front
    BY <2>1 DEF Sent, Read, Front, clientVars, Elements
  <2> QED BY <1>0, <2>1, <2>2
          DEF ExportInv, RangeInv, IdInv, WindowInv, EndInv, clientVars, Streaming
<1>6. CASE EndStream
  <2>1. /\ pc = "window" /\ pc' = "ended" /\ cursor >= end /\ FlushBatch
        /\ Streaming /\ ~Streaming' /\ toRead = {} /\ toRead' = {}
        /\ UNCHANGED <<table, clientVars>>
    BY <1>0, <1>6 DEF EndStream, Streaming, WindowInv
  <2>2. /\ Sent' = Read /\ batch' = <<>>
        /\ \A q \in owed : q.ts < wire'.id => q \in Sent'
    BY <1>0, <2>1, FlushKeeps DEF clientVars
  <2>3. owed \subseteq Read
    <3>1. \A q \in owed : q.ts < cursor
      BY <1>0, <2>1 DEF RangeInv
    <3>2. Front = cursor
      BY <2>1 DEF Front
    <3> QED BY <1>0, <2>1, <3>1, <3>2 DEF WindowInv
  <2> QED BY <1>0, <2>1, <2>2, <2>3
          DEF ExportInv, RangeInv, IdInv, WindowInv, EndInv, clientVars
<1>7. CASE QueryFails
  <2>1. /\ pc' = "failed" /\ FlushBatch /\ ~Streaming' /\ Streaming
        /\ toRead' = {}
        /\ UNCHANGED <<table, clientVars>>
    BY <1>7 DEF QueryFails, Streaming
  <2>2. /\ Sent' = Read /\ batch' = <<>>
        /\ \A q \in owed : q.ts < wire'.id => q \in Sent'
    BY <1>0, <2>1, FlushKeeps DEF clientVars
  <2>3. opens # 0
    BY <1>0, <2>1 DEF RangeInv, Streaming
  <2> QED BY <1>0, <2>1, <2>2, <2>3
          DEF ExportInv, RangeInv, IdInv, WindowInv, EndInv, clientVars
<1>8. CASE ReadEvent
  <2>1. /\ wire # NoEvent /\ wire' = NoEvent /\ got' = Sent /\ lastId' = wire.id
        /\ UNCHANGED <<table, from, to, opens, owed, pc, windowVars, toRead,
                       batch, yielded>>
    BY <1>8 DEF ReadEvent, Sent
  <2>2. Sent' = Sent /\ Read' = Read /\ Front' = Front /\ Streaming' = Streaming
    BY <2>1 DEF Sent, Read, Front, Streaming, windowVars, Elements
  <2>3. pc \notin {"closed", "finished"}
    BY <1>0, <2>1 DEF EndInv
  <2>4. opens # 0
    BY <1>0, <2>3 DEF RangeInv
  <2>5. IdInv'
    BY <1>0, <2>1, <2>2 DEF IdInv, Sent
  <2> QED BY <1>0, <2>1, <2>2, <2>3, <2>4, <2>5
          DEF ExportInv, RangeInv, WindowInv, EndInv, windowVars
<1>9. CASE ReadDone
  <2>1. /\ pc = "ended" /\ pc' = "finished" /\ wire = NoEvent /\ StreamGone
        /\ ~Streaming' /\ UNCHANGED <<table, clientVars, wire>>
    BY <1>9 DEF ReadDone, Streaming
  <2>2. toRead' = {} /\ batch' = <<>> /\ Sent = got
    BY <2>1, GoneKeeps DEF Sent
  <2>3. owed \subseteq got /\ opens # 0
    BY <1>0, <2>1, <2>2 DEF EndInv, RangeInv
  <2> QED BY <1>0, <2>1, <2>2, <2>3
          DEF ExportInv, RangeInv, IdInv, WindowInv, EndInv, clientVars
<1>10. CASE Disconnect
  <2>1. /\ pc' = "closed" /\ wire' = NoEvent /\ StreamGone
        /\ pc # "closed" /\ ~Streaming' /\ UNCHANGED <<table, clientVars>>
    BY <1>10 DEF Disconnect, Streaming
  <2>2. toRead' = {} /\ batch' = <<>>
    BY <2>1, GoneKeeps
  <2>3. opens # 0
    BY <1>0, <2>1 DEF RangeInv
  <2> QED BY <1>0, <2>1, <2>2, <2>3
          DEF ExportInv, RangeInv, IdInv, WindowInv, EndInv, clientVars
<1>11. CASE UNCHANGED vars
  <2>1. Sent' = Sent /\ Read' = Read /\ Front' = Front /\ Streaming' = Streaming
    BY <1>11 DEF vars, Sent, Read, Front, Streaming, windowVars, clientVars, Elements
  <2> QED BY <1>0, <1>11, <2>1
          DEF ExportInv, RangeInv, IdInv, WindowInv, EndInv, vars, clientVars, windowVars
<1> QED BY <1>1, <1>2, <1>3, <1>4, <1>5, <1>6, <1>7, <1>8, <1>9, <1>10, <1>11
        DEF Next, StreamStep

\* What the two properties need of the invariant.
LEMMA ExportSuffices == ExportInv => NothingMissed /\ NothingRepeated
BY DEF ExportInv, EndInv, WindowInv, Streaming, NothingMissed, NothingRepeated

\* Every owed row before the front has been read or is about to be, and no id
\* leaves before the rows below it (controllers/data.rs:203-253).
THEOREM ExportInvariant == Spec => []ExportInv
<1>1. Init => TypeOK /\ ExportInv
  BY TypeInit, ExportInit
<1>2. TypeOK /\ ExportInv /\ [Next]_vars => (TypeOK /\ ExportInv)'
  BY TypeStep, ExportStep
<1> QED BY <1>1, <1>2, PTL DEF Spec

\* A client that has read `done` has every row owed to it: resuming from the
\* last id is at least once (controllers/data.rs:29-31, 174).
THEOREM ExportMissesNothing == Spec => []NothingMissed
<1> QED BY ExportInvariant, ExportSuffices, PTL

\* No row is read twice for one response: the windows tile the range
\* (db/questdb.rs:667-670).
THEOREM ExportRepeatsNothing == Spec => []NothingRepeated
<1> QED BY ExportInvariant, ExportSuffices, PTL
=============================================================================
