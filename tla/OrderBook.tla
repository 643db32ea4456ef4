------------------------------ MODULE OrderBook ------------------------------
(***************************************************************************)
(* kalshi/book.rs: one market's order book, rebuilt from the exchange's    *)
(* `orderbook_snapshot` and `orderbook_delta` messages.                    *)
(*                                                                         *)
(* A level is a (side, price) pair; the two BTreeMaps of the code become   *)
(* one function from levels to resting size, in which 0 stands for a key   *)
(* the map does not hold.  Prices and sizes are the code's fixed-point     *)
(* integers; their text forms are left out.                                *)
(***************************************************************************)
EXTENDS Integers

CONSTANT Levels  \* the (side, price) pairs a book can have

-----------------------------------------------------------------------------
\* Nothing at or below zero rests in a book.
Sizes == [Levels -> Nat]

Book == [size : Sizes, seq : Nat]

\* OrderBook::default().
EmptyBook == [size |-> [l \in Levels |-> 0], seq |-> 0]

(***************************************************************************)
(* A parsed `msg`, by the shape `apply_msg` finds in it: levels on at      *)
(* least one side, a (side, price, signed change) triple, or neither.      *)
(***************************************************************************)
SnapshotMsg == [shape : {"snapshot"}, rows : [Levels -> Int]]
DeltaMsg    == [shape : {"delta"}, level : Levels, change : Int]
NoShapeMsg  == [shape : {"neither"}]

Msg == SnapshotMsg \cup DeltaMsg \cup NoShapeMsg

\* What is kept of a level: a snapshot filters it, a delta removes it.
Resting(qty) == IF qty > 0 THEN qty ELSE 0

Snapshot(rows, seq) ==
  [size |-> [l \in Levels |-> Resting(rows[l])], seq |-> seq]

\* Slip: the emptied level is left in the map.
ApplyDeltaKeepsEmptied(book, level, change, seq) ==
  [size |-> [book.size EXCEPT ![level] = @ + change], seq |-> seq]

ApplyDelta(book, level, change, seq) ==
  [size |-> [book.size EXCEPT ![level] = Resting(@ + change)], seq |-> seq]

\* A message of neither shape leaves the book, its `seq` included, alone.
ApplyMsg(book, msg, seq) ==
  CASE msg.shape = "snapshot" -> Snapshot(msg.rows, seq)
    [] msg.shape = "delta"    -> ApplyDelta(book, msg.level, msg.change, seq)
    [] OTHER                  -> book

(***************************************************************************)
(* The levels `snapshot_frame` replays to a new proxy client: the book's   *)
(* own, so that applying the frame as a snapshot gives the book back.      *)
(***************************************************************************)
SnapshotFrame(book) == [shape |-> "snapshot", rows |-> book.size]
=============================================================================
