---------------------------- MODULE IlpWriterProofs ----------------------------
(***************************************************************************)
(* Machine-checked proofs about IlpWriter, for any caps, senders and       *)
(* bounds: its types, its inductive invariant, and that it implements      *)
(* RowSink.                                                                *)
(***************************************************************************)
EXTENDS IlpWriter, TLAPS

-----------------------------------------------------------------------------
(* Type correctness.                                                       *)

\* What a sequence holds is of its elements' set.
LEMMA SeqElement ==
  ASSUME NEW S, NEW q \in Seq(S), NEW i \in DOMAIN q
  PROVE  q[i] \in S
OBVIOUS

\* A queue of senders without its i-th is a queue of senders, one shorter.
LEMMA WithoutType ==
  ASSUME NEW S, waiting \in Seq(S), NEW i \in DOMAIN waiting
  PROVE  Without(i) \in Seq(S)
<1>1. i \in 1..Len(waiting) /\ Len(waiting) \in Nat
  OBVIOUS
<1>2. SubSeq(waiting, 1, i - 1) \in Seq(S)
  BY <1>1
<1>3. SubSeq(waiting, i + 1, Len(waiting)) \in Seq(S)
  BY <1>1
<1> QED BY <1>2, <1>3 DEF Without

\* What is pushed was held or is of the batch.
LEMMA PushedRows ==
  ASSUME NEW held, NEW rows
  PROVE  Pushed(held, rows) \subseteq held \cup {rows[i] : i \in DOMAIN rows}
BY DEF Pushed

\* A row appended to the queue keeps it within its cap.
LEMMA EnqueueType ==
  ASSUME TypeOK, NEW r \in Row, Enqueue(r), Len(queue) < QueueCap
  PROVE  /\ queue' \in Seq(Row) /\ Len(queue') <= QueueCap
         /\ accepted' \in Seq(Row)
<1>1. /\ queue \in Seq(Row) /\ accepted \in Seq(Row)
      /\ Len(queue) \in Nat /\ QueueCap \in Nat
  BY CapsAssumption DEF TypeOK
<1>2. Len(Append(queue, r)) = Len(queue) + 1
  BY <1>1
<1> QED BY <1>1, <1>2 DEF Enqueue

\* Every step keeps the types.
LEMMA TypeStep == TypeOK /\ [Next]_vars => TypeOK'
<1> SUFFICES ASSUME TypeOK, [Next]_vars PROVE TypeOK'
  OBVIOUS
<1>1. /\ Len(queue) \in Nat /\ Len(waiting) \in Nat /\ Len(batch) \in Nat
      /\ QueueCap \in Nat /\ BatchCap \in Nat
      /\ MaxRows \in Nat /\ QueueCap >= 1 /\ BatchCap >= 1
  BY CapsAssumption, RunAssumption DEF TypeOK
<1>2. ASSUME NEW s \in Senders, NEW must \in BOOLEAN, NEW good \in BOOLEAN,
             NEW r, r = [id |-> made + 1, must |-> must, good |-> good],
             TrySend(s, r) \/ Send(s, r)
      PROVE  TypeOK'
  <2>1. Makes(s, r)
    BY <1>2 DEF TrySend, Send
  <2>2. r \in Row /\ made' \in Nat
    BY <1>1, <1>2, <2>1 DEF Makes, Row, TypeOK
  <2>3. CASE Enqueue(r) /\ HasRoom /\ UNCHANGED waiting
    BY <1>1, <1>2, <2>2, <2>3, EnqueueType DEF HasRoom, TrySend, Send, TypeOK
  <2>4. CASE UNCHANGED <<queue, accepted, waiting>>
    BY <1>2, <2>2, <2>4 DEF TrySend, Send, TypeOK
  <2>5. CASE /\ waiting' = Append(waiting, [sender |-> s, row |-> r])
             /\ UNCHANGED <<queue, accepted>>
    <3>1. [sender |-> s, row |-> r] \in [sender : Senders, row : Row]
      BY <2>2
    <3>2. waiting' \in Seq([sender : Senders, row : Row])
      BY <2>5, <3>1 DEF TypeOK
    <3> QED BY <1>2, <2>2, <2>5, <3>2 DEF TrySend, Send, TypeOK
  <2> QED BY <1>2, <2>3, <2>4, <2>5 DEF TrySend, Send
<1>3. ASSUME NEW i \in DOMAIN waiting, Resume(i) PROVE TypeOK'
  <2>1. waiting[i].row \in Row
    <3>1. waiting[i] \in [sender : Senders, row : Row]
      BY SeqElement DEF TypeOK
    <3> QED BY <3>1
  <2>2. Len(queue) < QueueCap
    BY <1>1, <1>3 DEF Resume, TypeOK
  <2>3. waiting' \in Seq([sender : Senders, row : Row])
    BY <1>3, WithoutType DEF Resume, TypeOK
  <2>4. Enqueue(waiting[i].row)
    BY <1>3 DEF Resume
  <2> QED BY <1>3, <2>1, <2>2, <2>3, <2>4, EnqueueType DEF Resume, TypeOK
<1>4. ASSUME NEW i \in DOMAIN waiting, Cancel(i) PROVE TypeOK'
  <2>1. waiting' \in Seq([sender : Senders, row : Row])
    BY <1>4, WithoutType DEF Cancel, TypeOK
  <2> QED BY <1>4, <2>1 DEF Cancel, TypeOK
<1>5. CASE Receive \/ Collect
  <2>1. /\ Head(queue) \in Row /\ Tail(queue) \in Seq(Row)
        /\ Len(Tail(queue)) = Len(queue) - 1
    BY <1>5 DEF Receive, Collect, TypeOK
  <2>2. batch' \in Seq(Row) /\ Len(batch') <= BatchCap
    <3>1. CASE Receive
      <4>1. <<Head(queue)>> \in Seq(Row) /\ Len(<<Head(queue)>>) = 1
        BY <2>1
      <4> QED BY <1>1, <3>1, <4>1 DEF Receive
    <3>2. CASE Collect
      <4>1. /\ Append(batch, Head(queue)) \in Seq(Row)
            /\ Len(Append(batch, Head(queue))) = Len(batch) + 1
        BY <2>1 DEF TypeOK
      <4> QED BY <1>1, <3>2, <4>1 DEF Collect
    <3> QED BY <1>5, <3>1, <3>2
  <2>3. queue' \in Seq(Row) /\ Len(queue') <= QueueCap
    <3>1. queue' = Tail(queue) /\ Len(queue) <= QueueCap
      BY <1>5 DEF Receive, Collect, TypeOK
    <3> QED BY <1>1, <2>1, <3>1
  <2>4. /\ UNCHANGED <<made, waiting, buf, stored, proc, accepted>>
        /\ wpc' \in {"recv", "collect", "flush", "done"}
    BY <1>5 DEF Receive, Collect, TypeOK
  <2> QED BY <2>2, <2>3, <2>4 DEF TypeOK
<1>6. CASE Push
  <2>1. \A i \in DOMAIN batch : batch[i] \in Row
    BY DEF TypeOK
  <2>2. buf' \subseteq Row
    BY <1>6, <2>1, PushedRows DEF Push, TypeOK
  <2>3. batch' \in {batch, <<>>}
    BY <1>6 DEF Push
  <2>4. batch' \in Seq(Row) /\ Len(batch') <= BatchCap
    <3>1. <<>> \in Seq(Row) /\ Len(<<>>) = 0
      OBVIOUS
    <3>2. batch \in Seq(Row) /\ Len(batch) <= BatchCap
      BY DEF TypeOK
    <3>3. CASE batch' = batch
      BY <3>2, <3>3
    <3>4. CASE batch' = <<>>
      BY <1>1, <3>1, <3>4
    <3> QED BY <2>3, <3>3, <3>4
  <2> QED BY <1>6, <2>2, <2>4 DEF Push, TypeOK
<1>7. CASE FlushOk \/ FlushFails
  <2>1. batch' = <<>> /\ stored' \subseteq stored \cup buf /\ buf' = {}
    BY <1>7 DEF FlushOk, FlushFails, EndIteration
  <2>2. batch' \in Seq(Row) /\ Len(batch') <= BatchCap
    BY <1>1, <2>1
  <2> QED BY <1>7, <2>1, <2>2 DEF FlushOk, FlushFails, EndIteration, TypeOK
<1>8. CASE Finish \/ Exit
  BY <1>8 DEF Finish, Exit, TypeOK
<1>9. CASE Close
  <2>1. <<>> \in Seq([sender : Senders, row : Row])
    OBVIOUS
  <2> QED BY <1>9, <2>1 DEF Close, TypeOK
<1>10. CASE UNCHANGED vars
  BY <1>10 DEF vars, TypeOK
<1>11. ASSUME SenderStep PROVE TypeOK'
  BY <1>2, <1>11 DEF SenderStep
<1> QED BY <1>3, <1>4, <1>5, <1>6, <1>7, <1>8, <1>9, <1>10, <1>11
        DEF Next, WriterStep

LEMMA TypeInit == Init => TypeOK
<1> SUFFICES ASSUME Init PROVE TypeOK
  OBVIOUS
<1>1. <<>> \in Seq(Row) /\ <<>> \in Seq([sender : Senders, row : Row])
  OBVIOUS
<1>2. Len(<<>>) = 0
  OBVIOUS
<1> QED BY <1>1, <1>2, CapsAssumption DEF Init, TypeOK

(***************************************************************************)
(* Every variable of the writer keeps its type, and neither the queue nor  *)
(* a batch ever outgrows its cap (db/questdb.rs:1028-1044).                *)
(***************************************************************************)
THEOREM WriterTypes == Spec => []TypeOK
BY TypeInit, TypeStep, PTL DEF Spec

-----------------------------------------------------------------------------
(* The inductive invariant.                                                *)

\* Appending a row to the queue and to what was accepted keeps them lined up.
LEMMA EnqueueInv ==
  ASSUME TypeOK, WriterInv, NEW r \in Row, Enqueue(r),
         UNCHANGED <<wpc, batch, buf>>
  PROVE  WriterInv' /\ SettledRows' = SettledRows
<1>1. /\ Len(queue) \in Nat /\ Len(batch) \in Nat /\ Len(accepted) \in Nat
      /\ queue \in Seq(Row) /\ accepted \in Seq(Row)
  BY DEF TypeOK
<1>2. /\ queue' = Append(queue, r) /\ accepted' = Append(accepted, r)
      /\ batch' = batch /\ Len(batch') = Len(batch)
  BY DEF Enqueue
<1>3. /\ Len(queue') = Len(queue) + 1 /\ Len(accepted') = Len(accepted) + 1
      /\ \A i \in 1..Len(queue) : queue'[i] = queue[i]
      /\ \A i \in 1..Len(accepted) : accepted'[i] = accepted[i]
      /\ queue'[Len(queue) + 1] = r /\ accepted'[Len(accepted) + 1] = r
      /\ DOMAIN queue' = 1..Len(queue) + 1 /\ DOMAIN queue = 1..Len(queue)
      /\ DOMAIN batch = 1..Len(batch)
  BY <1>1, <1>2 DEF TypeOK
<1>4. SettledRows' = SettledRows /\ SettledRows \in Int
  BY <1>1, <1>2, <1>3 DEF SettledRows
<1>5. /\ SettledRows >= 0
      /\ SettledRows + Len(batch) + Len(queue) = Len(accepted)
  BY <1>1 DEF SettledRows, WriterInv
<1>6. ASSUME NEW i \in DOMAIN batch'
      PROVE  batch'[i] = accepted'[SettledRows' + i]
  <2>1. SettledRows + i \in 1..Len(accepted)
    BY <1>1, <1>2, <1>3, <1>4, <1>5
  <2>2. batch[i] = accepted[SettledRows + i]
    BY <1>2 DEF WriterInv
  <2> QED BY <1>2, <1>3, <1>4, <2>1, <2>2
<1>7. ASSUME NEW i \in DOMAIN queue'
      PROVE  queue'[i] = accepted'[SettledRows' + Len(batch') + i]
  <2>1. CASE i \in 1..Len(queue)
    <3>1. SettledRows + Len(batch) + i \in 1..Len(accepted)
      BY <1>1, <1>4, <1>5, <2>1
    <3>2. queue[i] = accepted[SettledRows + Len(batch) + i]
      BY <1>3, <2>1 DEF WriterInv
    <3> QED BY <1>2, <1>3, <1>4, <2>1, <3>1, <3>2
  <2>2. CASE i = Len(queue) + 1
    <3>1. SettledRows + Len(batch) + i = Len(accepted) + 1
      BY <1>1, <1>4, <1>5, <2>2
    <3> QED BY <1>2, <1>3, <1>4, <2>2, <3>1
  <2> QED BY <1>1, <1>3, <2>1, <2>2
<1>8. buf' \subseteq {batch'[i] : i \in DOMAIN batch'}
  <2>1. buf' = buf /\ batch' = batch
    BY <1>2
  <2> QED BY <2>1 DEF WriterInv
<1>9. /\ wpc' # "flush" => buf' = {}
      /\ batch' # <<>> <=> wpc' \in {"collect", "flush"}
  <2>1. buf' = buf /\ batch' = batch /\ wpc' = wpc
    BY <1>2
  <2> QED BY <2>1 DEF WriterInv
<1>10. SettledRows' >= 0
  BY <1>4, <1>5
<1> QED BY <1>4, <1>6, <1>7, <1>8, <1>9, <1>10 DEF WriterInv

\* Taking the queue's first row onto the batch's end keeps them lined up.
LEMMA DequeueInv ==
  ASSUME TypeOK, WriterInv, queue # <<>>,
         batch' = Append(batch, Head(queue)), queue' = Tail(queue),
         wpc' = "collect", wpc # "flush", UNCHANGED <<buf, accepted>>
  PROVE  WriterInv' /\ SettledRows' = SettledRows
<1>1. /\ Len(queue) \in Nat \ {0} /\ Len(batch) \in Nat
      /\ Len(accepted) \in Nat
      /\ queue \in Seq(Row) /\ batch \in Seq(Row)
  BY DEF TypeOK
<1>2. /\ Len(batch') = Len(batch) + 1 /\ Len(queue') = Len(queue) - 1
      /\ DOMAIN batch' = 1..Len(batch) + 1 /\ DOMAIN batch = 1..Len(batch)
      /\ DOMAIN queue' = 1..Len(queue) - 1 /\ DOMAIN queue = 1..Len(queue)
      /\ \A i \in 1..Len(batch) : batch'[i] = batch[i]
      /\ batch'[Len(batch) + 1] = queue[1]
      /\ \A i \in 1..Len(queue) - 1 : queue'[i] = queue[i + 1]
  BY <1>1
<1>3. SettledRows' = SettledRows /\ SettledRows \in Int /\ SettledRows >= 0
  BY <1>1, <1>2 DEF SettledRows, WriterInv
<1>4. ASSUME NEW i \in DOMAIN batch'
      PROVE  batch'[i] = accepted[SettledRows + i]
  <2>1. CASE i \in DOMAIN batch
    BY <1>2, <2>1 DEF WriterInv
  <2>2. CASE i = Len(batch) + 1
    <3>1. queue[1] = accepted[SettledRows + Len(batch) + 1]
      BY <1>1, <1>2 DEF WriterInv
    <3> QED BY <1>1, <1>2, <1>3, <2>2, <3>1
  <2> QED BY <1>1, <1>2, <2>1, <2>2
<1>5. ASSUME NEW i \in DOMAIN queue'
      PROVE  queue'[i] = accepted[SettledRows + Len(batch') + i]
  <2>1. i + 1 \in DOMAIN queue
    BY <1>1, <1>2
  <2>2. queue[i + 1] = accepted[SettledRows + Len(batch) + (i + 1)]
    BY <2>1 DEF WriterInv
  <2>3. SettledRows + Len(batch') + i = SettledRows + Len(batch) + (i + 1)
    BY <1>1, <1>2, <1>3
  <2> QED BY <1>2, <2>2, <2>3
<1>6. buf' = {} /\ batch' # <<>>
  BY <1>1, <1>2 DEF WriterInv
<1> QED BY <1>3, <1>4, <1>5, <1>6 DEF WriterInv

\* Ending an iteration settles its batch and leaves the queue lined up.
LEMMA SettleInv ==
  ASSUME TypeOK, WriterInv, batch' = <<>>, buf' = {}, wpc' = "recv",
         UNCHANGED <<queue, accepted>>
  PROVE  WriterInv' /\ SettledRows' = SettledRows + Len(batch)
<1>1. /\ Len(queue) \in Nat /\ Len(batch) \in Nat /\ Len(accepted) \in Nat
      /\ Len(batch') = 0 /\ DOMAIN batch' = {}
  BY DEF TypeOK
<1>2. /\ SettledRows' = SettledRows + Len(batch)
      /\ SettledRows \in Int /\ SettledRows' >= 0
  BY <1>1 DEF SettledRows, WriterInv
<1>3. ASSUME NEW i \in DOMAIN queue
      PROVE  queue[i] = accepted[SettledRows' + Len(batch') + i]
  <2>1. queue[i] = accepted[SettledRows + Len(batch) + i]
    BY DEF WriterInv
  <2>2. SettledRows' + Len(batch') + i = SettledRows + Len(batch) + i
    BY <1>1, <1>2 DEF TypeOK
  <2> QED BY <2>1, <2>2
<1> QED BY <1>1, <1>2, <1>3 DEF WriterInv

\* A step that leaves the rows in flight alone keeps them lined up.
LEMMA IdleInv ==
  ASSUME WriterInv, UNCHANGED <<wpc, batch, buf, queue, accepted>>
  PROVE  WriterInv' /\ SettledRows' = SettledRows
<1>1. /\ wpc' = wpc /\ batch' = batch /\ buf' = buf /\ queue' = queue
      /\ accepted' = accepted
  OBVIOUS
<1>2. SettledRows' = SettledRows
  BY <1>1 DEF SettledRows
<1> QED BY <1>1, <1>2 DEF WriterInv

-----------------------------------------------------------------------------
(* Refinement of RowSink.                                                  *)

\* A row taken into the queue is a row accepted.
LEMMA AcceptSink ==
  ASSUME TypeOK, WriterInv, NEW r \in Row, Enqueue(r),
         UNCHANGED <<wpc, batch, buf, stored>>
  PROVE  WriterInv' /\ Sink!SinkNext
<1>1. WriterInv' /\ SettledRows' = SettledRows
  BY EnqueueInv
<1>2. accepted' = Append(accepted, r)
  BY DEF Enqueue
<1> QED BY <1>1, <1>2 DEF Sink!SinkNext, Sink!Accept

\* The end of an iteration settles its batch.
LEMMA SettleSink ==
  ASSUME TypeOK, WriterInv, batch # <<>>, batch' = <<>>, buf' = {},
         wpc' = "recv", UNCHANGED <<queue, accepted>>,
         NEW kept \in SUBSET {batch[i] : i \in DOMAIN batch},
         stored' = stored \cup kept
  PROVE  WriterInv' /\ Sink!SinkNext
<1>1. WriterInv' /\ SettledRows' = SettledRows + Len(batch)
  BY SettleInv
<1>2. /\ Len(queue) \in Nat /\ Len(batch) \in Nat \ {0}
      /\ Len(accepted) \in Nat /\ Len(batch) <= BatchCap
      /\ DOMAIN batch = 1..Len(batch)
  BY DEF TypeOK
<1>3. /\ SettledRows \in Int
      /\ SettledRows + Len(batch) + Len(queue) = Len(accepted)
  BY <1>2 DEF SettledRows
<1>4. SettledRows' \in SettledRows + 1 .. Len(accepted)
  BY <1>1, <1>2, <1>3
<1>5. SettledRows' <= SettledRows + BatchCap
  BY <1>1, <1>2, <1>3, CapsAssumption
<1>6. ASSUME NEW i \in DOMAIN batch
      PROVE  batch[i] \in Sink!Between(SettledRows + 1, SettledRows')
  <2>1. batch[i] = accepted[SettledRows + i]
    BY DEF WriterInv
  <2>2. SettledRows + i \in SettledRows + 1 .. SettledRows'
    BY <1>1, <1>2, <1>3
  <2> QED BY <2>1, <2>2 DEF Sink!Between
<1>7. kept \in SUBSET Sink!Between(SettledRows + 1, SettledRows')
  BY <1>6
<1>8. Sink!Settle
  BY <1>4, <1>5, <1>7 DEF Sink!Settle
<1> QED BY <1>1, <1>8 DEF Sink!SinkNext

\* Every step keeps the invariant and is a step of the sink, or none.
LEMMA SinkStep ==
  TypeOK /\ WriterInv /\ [Next]_vars
    => WriterInv' /\ [Sink!SinkNext]_(Sink!sinkVars)
<1> SUFFICES ASSUME TypeOK, WriterInv, [Next]_vars
             PROVE  WriterInv' /\ [Sink!SinkNext]_(Sink!sinkVars)
  OBVIOUS
<1>1. ASSUME UNCHANGED <<wpc, batch, buf, queue, accepted, stored>>
      PROVE  WriterInv' /\ UNCHANGED Sink!sinkVars
  BY <1>1, IdleInv DEF Sink!sinkVars
<1>2. ASSUME NEW s \in Senders, NEW must \in BOOLEAN, NEW good \in BOOLEAN,
             NEW r, r = [id |-> made + 1, must |-> must, good |-> good],
             TrySend(s, r) \/ Send(s, r)
      PROVE  WriterInv' /\ [Sink!SinkNext]_(Sink!sinkVars)
  <2>1. UNCHANGED <<wpc, batch, buf, stored>> /\ Makes(s, r)
    BY <1>2 DEF TrySend, Send
  <2>2. CASE Enqueue(r)
    <3>1. r \in Row
      BY <1>2, <2>1, RunAssumption DEF Makes, Row, TypeOK
    <3> QED BY <2>1, <2>2, <3>1, AcceptSink
  <2>3. CASE UNCHANGED <<queue, accepted>>
    BY <1>1, <2>1, <2>3
  <2> QED BY <1>2, <2>2, <2>3 DEF TrySend, Send
<1>3. ASSUME NEW i \in DOMAIN waiting, Resume(i)
      PROVE  WriterInv' /\ [Sink!SinkNext]_(Sink!sinkVars)
  <2>1. waiting[i] \in [sender : Senders, row : Row]
    BY SeqElement DEF TypeOK
  <2>2. waiting[i].row \in Row
    BY <2>1
  <2>3. Enqueue(waiting[i].row) /\ UNCHANGED <<wpc, batch, buf, stored>>
    BY <1>3 DEF Resume
  <2> QED BY <2>2, <2>3, AcceptSink
<1>4. ASSUME Receive \/ Collect
      PROVE  WriterInv' /\ UNCHANGED Sink!sinkVars
  <2>1. /\ queue # <<>> /\ queue' = Tail(queue) /\ wpc' = "collect"
        /\ wpc # "flush" /\ UNCHANGED <<buf, accepted, stored>>
    BY <1>4 DEF Receive, Collect
  <2>2. batch' = Append(batch, Head(queue))
    <3>1. CASE Receive
      <4>1. batch = <<>> /\ batch' = <<Head(queue)>>
        BY <3>1 DEF Receive, WriterInv
      <4> QED BY <4>1
    <3> QED BY <1>4, <3>1 DEF Collect
  <2>3. WriterInv' /\ SettledRows' = SettledRows
    BY <2>1, <2>2, DequeueInv
  <2> QED BY <2>1, <2>3 DEF Sink!sinkVars
<1>5. ASSUME Push
      PROVE  WriterInv' /\ [Sink!SinkNext]_(Sink!sinkVars)
  <2>1. batch # <<>> /\ UNCHANGED <<queue, accepted, stored>>
    BY <1>5 DEF Push, WriterInv
  <2>2. CASE buf' = {}
    <3>1. batch' = <<>> /\ wpc' = "recv" /\ stored' = stored \cup {}
      BY <1>5, <2>2 DEF Push
    <3> QED BY <2>1, <2>2, <3>1, SettleSink
  <2>3. CASE buf' # {}
    <3>1. batch' = batch /\ wpc' = "flush" /\ buf = {}
      BY <1>5, <2>3 DEF Push, WriterInv
    <3>2. buf' \subseteq {batch'[i] : i \in DOMAIN batch'}
      BY <1>5, <3>1, PushedRows DEF Push
    <3>3. SettledRows' = SettledRows
      BY <2>1, <3>1 DEF SettledRows
    <3>4. /\ SettledRows' >= 0
          /\ \A i \in DOMAIN batch' : batch'[i] = accepted'[SettledRows' + i]
          /\ \A i \in DOMAIN queue' :
               queue'[i] = accepted'[SettledRows' + Len(batch') + i]
      BY <2>1, <3>1, <3>3 DEF WriterInv
    <3>5. WriterInv'
      BY <2>1, <3>1, <3>2, <3>4 DEF WriterInv
    <3> QED BY <2>1, <3>3, <3>5 DEF Sink!sinkVars
  <2> QED BY <2>2, <2>3
<1>6. ASSUME FlushOk \/ FlushFails
      PROVE  WriterInv' /\ [Sink!SinkNext]_(Sink!sinkVars)
  <2>1. /\ batch # <<>> /\ batch' = <<>> /\ wpc' = "recv" /\ buf' = {}
        /\ UNCHANGED <<queue, accepted>>
    BY <1>6 DEF FlushOk, FlushFails, EndIteration, WriterInv
  <2>2. PICK kept \in SUBSET buf : stored' = stored \cup kept
    BY <1>6 DEF FlushOk, FlushFails
  <2>3. kept \in SUBSET {batch[i] : i \in DOMAIN batch}
    BY <2>2 DEF WriterInv
  <2> QED BY <2>1, <2>2, <2>3, SettleSink
<1>7. ASSUME Finish PROVE WriterInv' /\ UNCHANGED Sink!sinkVars
  <2>1. /\ wpc = "recv" /\ wpc' = "done"
        /\ batch' = batch /\ buf' = buf /\ queue' = queue
        /\ accepted' = accepted /\ stored' = stored
    BY <1>7 DEF Finish
  <2>2. SettledRows' = SettledRows
    BY <2>1 DEF SettledRows
  <2>3. WriterInv'
    BY <2>1, <2>2 DEF WriterInv
  <2> QED BY <2>1, <2>2, <2>3 DEF Sink!sinkVars
<1>8. CASE (\E i \in DOMAIN waiting : Cancel(i)) \/ Close \/ Exit
  BY <1>1, <1>8 DEF Cancel, Close, Exit
<1>9. CASE UNCHANGED vars
  BY <1>1, <1>9 DEF vars
<1>10. CASE SenderStep
  BY <1>2, <1>10 DEF SenderStep
<1> QED BY <1>3, <1>4, <1>5, <1>6, <1>7, <1>8, <1>9, <1>10 DEF Next, WriterStep

LEMMA SinkInitially == Init => WriterInv /\ Sink!SinkInit
<1> SUFFICES ASSUME Init PROVE WriterInv /\ Sink!SinkInit
  OBVIOUS
<1>1. /\ queue = <<>> /\ batch = <<>> /\ accepted = <<>> /\ wpc = "recv"
      /\ buf = {} /\ stored = {}
  BY DEF Init
<1>2. SettledRows = 0
  <2>1. Len(queue) = 0 /\ Len(batch) = 0 /\ Len(accepted) = 0
    BY <1>1
  <2> QED BY <2>1 DEF SettledRows
<1>3. DOMAIN queue = {} /\ DOMAIN batch = {}
  BY <1>1
<1>4. WriterInv
  BY <1>1, <1>2, <1>3 DEF WriterInv
<1> QED BY <1>1, <1>2, <1>4 DEF Sink!SinkInit

(***************************************************************************)
(* The rows in flight are always the last ones accepted, in order, and the *)
(* buffer holds rows of the current batch only                             *)
(* (db/questdb.rs:1028-1077).                                              *)
(***************************************************************************)
THEOREM WriterInvariant == Spec => []WriterInv
<1>1. Init => TypeOK /\ WriterInv
  BY TypeInit, SinkInitially
<1>2. TypeOK /\ WriterInv /\ [Next]_vars => (TypeOK /\ WriterInv)'
  BY TypeStep, SinkStep
<1> QED BY <1>1, <1>2, PTL DEF Spec

(***************************************************************************)
(* The writer implements RowSink: whatever is rejected, fails or is        *)
(* cancelled, each row accepted is dealt with once, in order, at most      *)
(* ILP_BATCH at a time, and what is lost stays lost.                       *)
(***************************************************************************)
THEOREM WriterRefinesSink == Spec => WriterIsSink
<1>1. Init => TypeOK /\ WriterInv /\ Sink!SinkInit
  BY TypeInit, SinkInitially
<1>2. TypeOK /\ WriterInv /\ [Next]_vars =>
        /\ (TypeOK /\ WriterInv)'
        /\ [Sink!SinkNext]_(Sink!sinkVars)
  BY TypeStep, SinkStep
<1> QED BY <1>1, <1>2, PTL DEF Spec, WriterIsSink, Sink!SinkSpec
=============================================================================
