--------------------------- MODULE BookProxyProofs ---------------------------
(***************************************************************************)
(* Machine-checked proofs about BookProxy and the feed it runs with: their *)
(* types, that a client that has been sent everything holds the cached     *)
(* books, and that the cached books are the exchange's, for any markets,   *)
(* levels, clients, channel capacity and bounds.                           *)
(***************************************************************************)
EXTENDS BookProxyInv, TLAPS

-----------------------------------------------------------------------------
(* What applying a frame does to one entry of the cache.                   *)

\* A size kept in a book is never negative.
LEMMA RestingNat == \A n \in Int : Resting(n) \in Nat
BY DEF Resting

\* OrderBook::apply_msg keeps a book a book.
LEMMA ApplyMsgType ==
  ASSUME NEW b \in Book, NEW m \in SnapshotMsg \cup DeltaMsg, NEW n \in Nat
  PROVE  ApplyMsg(b, m, n) \in Book
<1>1. CASE m \in SnapshotMsg
  <2>1. m.shape = "snapshot" /\ m.rows \in [Levels -> Int]
    BY <1>1 DEF SnapshotMsg
  <2>2. ApplyMsg(b, m, n) = Snapshot(m.rows, n)
    BY <2>1 DEF ApplyMsg
  <2>3. \A l \in Levels : Resting(m.rows[l]) \in Nat
    BY <2>1, RestingNat
  <2> QED BY <2>2, <2>3 DEF Snapshot, Book, Sizes
<1>2. CASE m \in DeltaMsg
  <2>1. m.shape = "delta" /\ m.level \in Levels /\ m.change \in Int
    BY <1>2 DEF DeltaMsg
  <2>2. ApplyMsg(b, m, n) = ApplyDelta(b, m.level, m.change, n)
    BY <2>1 DEF ApplyMsg
  <2>3. b.size \in [Levels -> Nat]
    BY DEF Book, Sizes
  <2>4. Resting(b.size[m.level] + m.change) \in Nat
    BY <2>1, <2>3, RestingNat
  <2>5. [b.size EXCEPT ![m.level] = Resting(@ + m.change)] \in [Levels -> Nat]
    BY <2>3, <2>4
  <2> QED BY <2>2, <2>5 DEF ApplyDelta, Book, Sizes
<1> QED BY <1>1, <1>2

\* The cache entry after a frame is an entry.
LEMMA AfterFrameType ==
  ASSUME NEW b \in Cached, NEW f \in Frame, NEW t \in Tickers
  PROVE  AfterFrame(b, f, t) \in Cached
<1>1. EmptyBook \in Book
  BY DEF EmptyBook, Book, Sizes
<1>2. f.msg \in SnapshotMsg \cup DeltaMsg /\ f.seq \in Nat
  BY DEF Frame
<1>3. \A x \in Book : ApplyMsg(x, f.msg, f.seq) \in Book
  BY <1>2, ApplyMsgType
<1> QED BY <1>1, <1>3 DEF AfterFrame, Cached

\* After a snapshot the entry does not depend on what it was before.
LEMMA AfterReset ==
  ASSUME NEW b \in Cached, NEW f \in Frame, NEW t \in Tickers, Resets(f, t)
  PROVE  /\ AfterFrame(b, f, t) = Snapshot(f.msg.rows, f.seq)
         /\ AfterFrame(b, f, t) # NoBook
<1>1. /\ f.parses /\ f.ticker = t /\ f.typ = "orderbook_snapshot"
      /\ f.msg \in SnapshotMsg /\ f.seq \in Nat
  BY DEF Resets, Frame
<1>2. f.msg.shape = "snapshot"
  BY <1>1 DEF SnapshotMsg
<1>3. AfterFrame(b, f, t) = Snapshot(f.msg.rows, f.seq)
  BY <1>1, <1>2 DEF AfterFrame, ApplyMsg
<1>4. ApplyMsg(EmptyBook, f.msg, f.seq) \in Book
  BY <1>1, ApplyMsgType DEF EmptyBook, Book, Sizes
<1>5. Snapshot(f.msg.rows, f.seq) \in Book
  BY <1>2, <1>4 DEF ApplyMsg
<1> QED BY <1>3, <1>5, NoBookAssumption

\* Any other frame leaves an absent entry absent; a present one it either does
\* not touch or moves on to its own number.
LEMMA AfterOther ==
  ASSUME NEW b \in Cached, NEW f \in Frame, NEW t \in Tickers, ~Resets(f, t)
  PROVE  /\ b = NoBook => AfterFrame(b, f, t) = NoBook
         /\ ~Touches(f, t) => AfterFrame(b, f, t) = b
         /\ (b # NoBook /\ Touches(f, t)) =>
              /\ f.typ = "orderbook_delta"
              /\ AfterFrame(b, f, t) \in Book
              /\ AfterFrame(b, f, t).seq = f.seq
<1>1. ASSUME b # NoBook, Touches(f, t)
      PROVE  /\ f.typ = "orderbook_delta"
             /\ AfterFrame(b, f, t) \in Book
             /\ AfterFrame(b, f, t).seq = f.seq
  <2>1. /\ f.typ = "orderbook_delta" /\ f.msg \in DeltaMsg /\ f.seq \in Nat
        /\ f.parses /\ f.ticker = t
    BY <1>1 DEF Touches, Resets, Frame
  <2>2. f.msg.shape = "delta"
    BY <2>1 DEF DeltaMsg
  <2>3. AfterFrame(b, f, t) = ApplyMsg(b, f.msg, f.seq)
    BY <1>1, <2>1 DEF AfterFrame
  <2>4. AfterFrame(b, f, t) = ApplyDelta(b, f.msg.level, f.msg.change, f.seq)
    BY <2>2, <2>3 DEF ApplyMsg
  <2>5. AfterFrame(b, f, t) \in Book
    BY <1>1, <2>1, <2>3, ApplyMsgType DEF Cached
  <2> QED BY <2>1, <2>4, <2>5 DEF ApplyDelta
<1> QED BY <1>1 DEF AfterFrame, Touches, Resets

\* The client restarts from a snapshot, applies what is above its book's
\* number and skips the rest.
LEMMA ClientAfterCases ==
  ASSUME NEW b \in Cached, NEW f \in Frame, NEW t \in Tickers
  PROVE  /\ ClientAfter(b, f, t) \in Cached
         /\ Resets(f, t) => ClientAfter(b, f, t) = AfterFrame(b, f, t)
         /\ (b # NoBook /\ b.seq < f.seq) =>
              ClientAfter(b, f, t) = AfterFrame(b, f, t)
         /\ (b # NoBook /\ ~Resets(f, t)
               /\ (~Touches(f, t) \/ f.seq <= b.seq)) =>
              ClientAfter(b, f, t) = b
<1>1. f.seq \in Nat /\ (b # NoBook => b.seq \in Nat)
  BY DEF Frame, Cached, Book
<1>2. f.typ \in {"orderbook_snapshot", "orderbook_delta"}
  BY DEF Frame
<1>3. AfterFrame(b, f, t) \in Cached
  BY AfterFrameType
<1> QED BY <1>1, <1>2, <1>3, AfterOther DEF ClientAfter, Resets, Touches

\* Replaying a book to a client as a snapshot frame gives the client the book.
LEMMA SnapshotRoundTrip ==
  ASSUME NEW b \in Book
  PROVE  ApplyMsg(EmptyBook, SnapshotFrame(b), b.seq) = b
<1>1. b = [size |-> b.size, seq |-> b.seq] /\ b.size \in [Levels -> Nat]
  BY DEF Book, Sizes
<1>2. \A l \in Levels : Resting(b.size[l]) = b.size[l]
  BY <1>1 DEF Resting
<1>3. [l \in Levels |-> Resting(b.size[l])] = b.size
  BY <1>1, <1>2
<1>4. ApplyMsg(EmptyBook, SnapshotFrame(b), b.seq) = Snapshot(b.size, b.seq)
  BY DEF ApplyMsg, SnapshotFrame
<1> QED BY <1>1, <1>3, <1>4 DEF Snapshot

-----------------------------------------------------------------------------
(* Type correctness.                                                       *)

\* Each subscription that numbers a frame puts it on the wire or loses it; the
\* others' wires and numbers stay as they are.
LEMMA EmitEffect ==
  ASSUME FeedTypeOK, NEW t \in Tickers, NEW typ, NEW msg, NEW subs,
         \/ typ = "orderbook_snapshot" /\ msg \in SnapshotMsg
         \/ typ = "orderbook_delta" /\ msg \in DeltaMsg,
         Emit(subs, typ, t, msg), NEW s \in Sids
  PROVE  /\ s \notin subs => upSeq'[s] = upSeq[s] /\ wire'[s] = wire[s]
         /\ s \in subs =>
              /\ upSeq'[s] = upSeq[s] + 1
              /\ \/ wire'[s] = wire[s]
                 \/ \E f \in Frame :
                      /\ f.typ = typ /\ f.ticker = t /\ f.msg = msg
                      /\ f.seq = upSeq[s] + 1
                      /\ wire'[s] = Append(wire[s], f)
<1>1. upSeq[s] \in Nat
  BY DEF FeedTypeOK
<1>2. upSeq'[s] = IF s \in subs THEN upSeq[s] + 1 ELSE upSeq[s]
  BY DEF Emit
<1>. PICK sent \in SUBSET subs : \E garbled \in SUBSET sent :
        wire' = [q \in Sids |->
                   IF q \in sent
                     THEN Append(wire[q],
                                 [typ |-> typ, seq |-> upSeq[q] + 1,
                                  ticker |-> t, parses |-> q \notin garbled,
                                  msg |-> msg])
                     ELSE wire[q]]
  BY Zenon DEF Emit
<1>3. PICK garbled \in SUBSET sent :
        wire' = [q \in Sids |->
                   IF q \in sent
                     THEN Append(wire[q],
                                 [typ |-> typ, seq |-> upSeq[q] + 1,
                                  ticker |-> t, parses |-> q \notin garbled,
                                  msg |-> msg])
                     ELSE wire[q]]
  OBVIOUS
<1>4. PICK f : f = [typ |-> typ, seq |-> upSeq[s] + 1, ticker |-> t,
                    parses |-> s \notin garbled, msg |-> msg]
  OBVIOUS
<1>5. f \in Frame
  <2>1. upSeq[s] + 1 \in Nat \ {0}
    BY <1>1
  <2>2. PICK ok \in BOOLEAN : ok = (s \notin garbled)
    OBVIOUS
  <2>3. f = [typ |-> typ, seq |-> upSeq[s] + 1, ticker |-> t, parses |-> ok,
             msg |-> msg]
    BY <1>4, <2>2
  <2> QED BY <2>1, <2>3 DEF Frame
<1>6. wire'[s] = IF s \in sent THEN Append(wire[s], f) ELSE wire[s]
  BY <1>3, <1>4, Zenon
<1>7. f.typ = typ /\ f.ticker = t /\ f.msg = msg /\ f.seq = upSeq[s] + 1
  BY <1>4
<1> QED BY <1>2, <1>5, <1>6, <1>7

\* Numbers stay numbers and wires stay wires.
LEMMA EmitType ==
  ASSUME FeedTypeOK, NEW t \in Tickers, NEW typ, NEW msg, NEW subs,
         \/ typ = "orderbook_snapshot" /\ msg \in SnapshotMsg
         \/ typ = "orderbook_delta" /\ msg \in DeltaMsg,
         Emit(subs, typ, t, msg)
  PROVE  upSeq' \in [Sids -> Nat] /\ wire' \in [Sids -> Seq(Frame)]
<1>1. upSeq \in [Sids -> Nat] /\ wire \in [Sids -> Seq(Frame)]
  BY DEF FeedTypeOK
<1>2. ASSUME NEW s \in Sids
      PROVE  upSeq'[s] \in Nat /\ wire'[s] \in Seq(Frame)
  <2>1. upSeq'[s] \in Nat
    BY <1>1, EmitEffect
  <2>2. wire'[s] = wire[s] \/ \E f \in Frame : wire'[s] = Append(wire[s], f)
    BY EmitEffect
  <2>3. wire[s] \in Seq(Frame)
    BY <1>1
  <2>4. \A f \in Frame : Append(wire[s], f) \in Seq(Frame)
    BY <2>3
  <2> QED BY <2>1, <2>2, <2>3, <2>4
<1>3. upSeq' = [s \in Sids |-> upSeq'[s]] /\ wire' = [s \in Sids |-> wire'[s]]
  BY Zenon DEF Emit
<1> QED BY <1>2, <1>3

\* A session that is dropped leaves empty wires.
LEMMA DropSessionType ==
  ASSUME DropSession
  PROVE  /\ made' \in 0..MaxSubs /\ sid' \in 0..made' /\ subscribed' \subseteq Tickers
         /\ asked' \in [Sids -> SUBSET Tickers]
         /\ served' \in [Sids -> SUBSET Tickers]
         /\ deleting' \in [Sids -> SUBSET Tickers]
         /\ upSeq' \in [Sids -> Nat] /\ lastSeq' \in [Sids -> Nat]
         /\ wire' \in [Sids -> Seq(Frame)]
<1>1. <<>> \in Seq(Frame)
  OBVIOUS
<1> QED BY <1>1, BoundsAssumption DEF DropSession

\* A subscribe command asks for markets on a subscription of its own.
LEMMA SubscribeMarketsType ==
  ASSUME FeedTypeOK, NEW open \in SUBSET Tickers, SubscribeMarkets(open)
  PROVE  /\ made' \in 0..MaxSubs /\ made <= made'
         /\ asked' \in [Sids -> SUBSET Tickers]
<1>1. made \in 0..MaxSubs /\ asked \in [Sids -> SUBSET Tickers] /\ MaxSubs \in Nat
  BY BoundsAssumption DEF FeedTypeOK
<1>2. CASE open = {}
  BY <1>1, <1>2 DEF SubscribeMarkets
<1>3. CASE open # {}
  <2>1. made < MaxSubs /\ made' = made + 1
    BY <1>3 DEF SubscribeMarkets
  <2>2. asked' = [asked EXCEPT ![made + 1] = open]
    BY <1>3 DEF SubscribeMarkets
  <2>3. asked' \in [Sids -> SUBSET Tickers]
    BY <1>1, <2>2
  <2> QED BY <1>1, <2>1, <2>3
<1> QED BY <1>2, <1>3

\* Every step of the feed other than a broadcast keeps the feed's types.
LEMMA SilentStepType == FeedTypeOK /\ SilentStep => FeedTypeOK'
<1> SUFFICES ASSUME FeedTypeOK, SilentStep PROVE FeedTypeOK'
  OBVIOUS
<1>0. books' \in {books, NoBooks} => books' \in Cache
  BY DEF FeedTypeOK, Cache, Cached, NoBooks
<1>1. ASSUME NEW t \in Tickers, NEW l \in Levels, NEW change \in {-1, 1},
             Trade(t, l, change)
      PROVE  FeedTypeOK'
  <2>1. exch' \in [Tickers -> Sizes]
    <3>1. exch \in [Tickers -> [Levels -> Nat]]
      BY DEF FeedTypeOK, Sizes
    <3>2. exch[t][l] + change \in Nat
      BY <1>1, BoundsAssumption DEF Trade
    <3>3. exch' = [exch EXCEPT ![t] = [exch[t] EXCEPT ![l] = @ + change]]
      BY <1>1 DEF Trade
    <3>4. [exch[t] EXCEPT ![l] = @ + change] \in [Levels -> Nat]
      BY <3>1, <3>2
    <3> QED BY <3>1, <3>3, <3>4 DEF Sizes
  <2>2. upSeq' \in [Sids -> Nat] /\ wire' \in [Sids -> Seq(Frame)]
    <3>1. [shape |-> "delta", level |-> l, change |-> change] \in DeltaMsg
      BY DEF DeltaMsg
    <3> QED BY <1>1, <3>1, EmitType DEF Trade
  <2> QED BY <1>1, <2>1, <2>2 DEF Trade, FeedTypeOK
<1>2. ASSUME NEW s \in Sids, NEW t \in Tickers, ServeMarket(s, t)
      PROVE  FeedTypeOK'
  <2>1. [shape |-> "snapshot", rows |-> exch[t]] \in SnapshotMsg
    <3>1. exch[t] \in [Levels -> Int]
      BY DEF FeedTypeOK, Sizes
    <3> QED BY <3>1 DEF SnapshotMsg
  <2>2. upSeq' \in [Sids -> Nat] /\ wire' \in [Sids -> Seq(Frame)]
    BY <1>2, <2>1, EmitType DEF ServeMarket
  <2>3. served' \in [Sids -> SUBSET Tickers]
    BY <1>2 DEF ServeMarket, FeedTypeOK
  <2>4. sources' \in [Tickers -> SUBSET Sids]
    BY <1>2 DEF ServeMarket, FeedTypeOK
  <2> QED BY <1>2, <2>2, <2>3, <2>4 DEF ServeMarket, FeedTypeOK
<1>3. ASSUME NEW s \in Sids, NEW t \in Tickers, DropMarket(s, t)
      PROVE  FeedTypeOK'
  <2>1. served' \in [Sids -> SUBSET Tickers]
    BY <1>3 DEF DropMarket, FeedTypeOK
  <2>2. deleting' \in [Sids -> SUBSET Tickers]
    BY <1>3 DEF DropMarket, FeedTypeOK
  <2> QED BY <1>3, <2>1, <2>2 DEF DropMarket, FeedTypeOK
<1>4. ASSUME NEW open \in SUBSET Tickers, OpenSession(open)
      PROVE  FeedTypeOK'
  <2>1. /\ made' \in 0..MaxSubs /\ made <= made'
        /\ asked' \in [Sids -> SUBSET Tickers]
    BY <1>4, SubscribeMarketsType DEF OpenSession
  <2>2. sid' \in 0..made'
    BY <1>4, <2>1 DEF OpenSession, FeedTypeOK
  <2> QED BY <1>0, <1>4, <2>1, <2>2 DEF OpenSession, FeedTypeOK
<1>5. ASSUME NEW open \in SUBSET Tickers, Refresh(open)
      PROVE  FeedTypeOK'
  <2>1. /\ made' \in 0..MaxSubs /\ made <= made'
        /\ asked' \in [Sids -> SUBSET Tickers]
        /\ deleting' \in [Sids -> SUBSET Tickers]
    <3>1. CASE UpdateMarkets(open \ subscribed, subscribed \ open)
      <4>1. made' = made /\ made \in 0..MaxSubs /\ subscribed \subseteq Tickers
        BY <3>1 DEF UpdateMarkets, FeedTypeOK
      <4>2. asked' \in [Sids -> SUBSET Tickers]
        BY <3>1, <4>1 DEF UpdateMarkets, FeedTypeOK
      <4>3. deleting' \in [Sids -> SUBSET Tickers]
        BY <3>1, <4>1 DEF UpdateMarkets, FeedTypeOK
      <4> QED BY <4>1, <4>2, <4>3, BoundsAssumption
    <3>2. CASE SubscribeAgain(open)
      BY <3>2, SubscribeMarketsType DEF SubscribeAgain, FeedTypeOK
    <3>3. CASE UpdateTickerOnly
      BY <3>3, BoundsAssumption DEF UpdateTickerOnly, FeedTypeOK
    <3> QED BY <1>5, <3>1, <3>2, <3>3 DEF Refresh
  <2>2. sid' \in 0..made'
    BY <1>5, <2>1 DEF Refresh, FeedTypeOK
  <2>3. books' \in Cache
    BY <1>5 DEF Refresh, FeedTypeOK, Cache, Cached
  <2> QED BY <1>5, <2>1, <2>2, <2>3 DEF Refresh, FeedTypeOK
<1>6. CASE OpenSessionFails
  BY <1>0, <1>6 DEF OpenSessionFails, FeedTypeOK, subVars
<1>7. CASE SessionEnds
  BY <1>7, DropSessionType DEF SessionEnds, CloseSession, FeedTypeOK
<1>8. ASSUME NEW s \in Sids, HandleGap(s)
      PROVE  FeedTypeOK'
  BY <1>8, DropSessionType DEF HandleGap, CloseSession, FeedTypeOK
<1>9. CASE Stop
  BY <1>9, DropSessionType DEF Stop, FeedTypeOK
<1>10. ASSUME NEW s \in Sids, LearnSid(s)
       PROVE  FeedTypeOK'
  <2>1. sid' \in 0..made'
    BY <1>10 DEF LearnSid, FeedTypeOK
  <2> QED BY <1>10, <2>1 DEF LearnSid, FeedTypeOK, subVars
<1> QED
  BY <1>1, <1>2, <1>3, <1>4, <1>5, <1>6, <1>7, <1>8, <1>9, <1>10 DEF SilentStep

\* The frame handle_text reads, and what it leaves of the rest.
LEMMA HandleFrameType ==
  ASSUME FeedTypeOK, NEW s \in Sids, HandleFrame(s)
  PROVE  /\ FeedTypeOK'
         /\ Head(wire[s]) \in Frame
         /\ lastSeq' = [lastSeq EXCEPT ![s] = Head(wire[s]).seq]
         /\ books' = [t \in Tickers |-> AfterFrame(books[t], Head(wire[s]), t)]
         /\ books' \in Cache
<1>1. wire[s] \in Seq(Frame) /\ wire[s] # <<>>
  BY DEF FeedTypeOK, HandleFrame
<1>2. Head(wire[s]) \in Frame /\ Tail(wire[s]) \in Seq(Frame)
  BY <1>1
<1>3. /\ lastSeq' = [lastSeq EXCEPT ![s] = Head(wire[s]).seq]
      /\ books' = [t \in Tickers |-> AfterFrame(books[t], Head(wire[s]), t)]
      /\ wire' = [wire EXCEPT ![s] = Tail(@)]
  BY DEF HandleFrame
<1>4. \A t \in Tickers : AfterFrame(books[t], Head(wire[s]), t) \in Cached
  BY <1>2, AfterFrameType DEF FeedTypeOK, Cache
<1>5. books' \in Cache
  BY <1>3, <1>4 DEF Cache
<1>6. Head(wire[s]).seq \in Nat /\ Head(wire[s]).ticker \in Tickers
  BY <1>2 DEF Frame
<1>7. spoiled' \subseteq Tickers
  BY <1>6 DEF HandleFrame, FeedTypeOK
<1>8. wire' \in [Sids -> Seq(Frame)] /\ lastSeq' \in [Sids -> Nat]
  BY <1>2, <1>3, <1>6 DEF FeedTypeOK
<1> QED
  BY <1>2, <1>3, <1>5, <1>7, <1>8 DEF HandleFrame, FeedTypeOK

\* A broadcast keeps every type.
LEMMA BroadcastType ==
  ASSUME TypeOK, NEW s \in Sids, BroadcastFrame(s)
  PROVE  /\ TypeOK'
         /\ Head(wire[s]) \in Frame
         /\ log' = Append(log, [frame |-> Head(wire[s]), before |-> books,
                                mixed |-> Mixed])
<1>1. FeedTypeOK' /\ Head(wire[s]) \in Frame
  BY HandleFrameType DEF TypeOK, BroadcastFrame
<1>2. log' = Append(log, [frame |-> Head(wire[s]), before |-> books,
                          mixed |-> Mixed])
  BY DEF BroadcastFrame
<1>3. [frame |-> Head(wire[s]), before |-> books, mixed |-> Mixed] \in Broadcast
  BY <1>1 DEF Broadcast, TypeOK, FeedTypeOK, Mixed
<1>4. log' \in Seq(Broadcast)
  BY <1>2, <1>3 DEF TypeOK
<1> QED BY <1>1, <1>2, <1>4 DEF TypeOK, BroadcastFrame, clientVars

\* What no step of a connection touches.
LEMMA ConnectionFrame ==
  ASSUME NEW c \in Clients, ProxyStep(c) \/ ClientStep(c)
  PROVE  feedVars' = feedVars /\ log' = log
BY DEF ProxyStep, ClientStep, Subscribe, ReadCache, SendSnapshot, Receive,
       Forward, Lag, SendNotice, ServerClose, SendClose, ClientGone, Disconnect

\* Every step of a connection keeps every type.
LEMMA ConnectionType ==
  ASSUME TypeOK, NEW c \in Clients, ProxyStep(c) \/ ClientStep(c),
         sending[c] = "frame" => pos[c] <= Len(log)
  PROVE  TypeOK'
<1>1. feedVars' = feedVars /\ log' = log
  BY ConnectionFrame
<1>2. FeedTypeOK' /\ log' \in Seq(Broadcast)
  BY <1>1 DEF TypeOK, FeedTypeOK, feedVars, subVars
<1>3. Len(log) \in Nat /\ Oldest \in Nat \ {0}
  BY CapacityAssumption DEF TypeOK, Oldest
<1>4. NoBooks \in Cache /\ books \in Cache
  BY DEF NoBooks, Cache, Cached, TypeOK, FeedTypeOK
<1>5. CASE Subscribe(c)
  BY <1>2, <1>3, <1>5 DEF Subscribe, TypeOK
<1>6. CASE ReadCache(c)
  BY <1>2, <1>4, <1>6 DEF ReadCache, TypeOK
<1>7. ASSUME NEW t \in Tickers, SendSnapshot(c, t)
      PROVE  TypeOK'
  <2> DEFINE book == preamble[c][t]
  <2>1. book \in Book
    BY <1>7 DEF SendSnapshot, TypeOK, Cache, Cached
  <2>2. ApplyMsg(EmptyBook, SnapshotFrame(book), book.seq) = book
    BY <2>1, SnapshotRoundTrip
  <2>3. view' = [view EXCEPT ![c] = [view[c] EXCEPT ![t] = book]]
    BY <1>7, <2>2 DEF SendSnapshot
  <2>4. preamble' = [preamble EXCEPT ![c] = [preamble[c] EXCEPT ![t] = NoBook]]
    BY <1>7 DEF SendSnapshot
  <2>5. view[c] \in Cache /\ preamble[c] \in Cache
    BY DEF TypeOK
  <2>6. /\ [view[c] EXCEPT ![t] = book] \in Cache
        /\ [preamble[c] EXCEPT ![t] = NoBook] \in Cache
    BY <2>1, <2>5 DEF Cache, Cached
  <2>7. view' \in [Clients -> Cache] /\ preamble' \in [Clients -> Cache]
    BY <2>3, <2>4, <2>6 DEF TypeOK
  <2> QED BY <1>2, <1>7, <2>7 DEF SendSnapshot, TypeOK
<1>8. ASSUME Forward(c) PROVE TypeOK'
  <2> DEFINE f == log[pos[c]].frame
             after == [t \in Tickers |-> ClientAfter(view[c][t], f, t)]
  <2>5. f \in Frame
    <3>1. pos[c] \in 1..Len(log) /\ log \in Seq(Broadcast)
      BY <1>3, <1>8 DEF Forward, TypeOK
    <3>2. log[pos[c]] \in Broadcast
      BY <3>1
    <3> QED BY <3>2 DEF Broadcast
  <2>6. after \in Cache
    <3>1. \A t \in Tickers : ClientAfter(view[c][t], f, t) \in Cached
      BY <2>5, ClientAfterCases DEF TypeOK, Cache
    <3> QED BY <3>1 DEF Cache
  <2>1. sending' \in [Clients -> {"nothing", "frame", "notice", "close"}]
    BY <1>8 DEF Forward, TypeOK
  <2>2. dirty' \in [Clients -> SUBSET Tickers]
    BY <1>8 DEF Forward, TypeOK
  <2>3. pos' \in [Clients -> Nat \ {0}]
    BY <1>8 DEF Forward, TypeOK
  <2>4. view' \in [Clients -> Cache]
    <3>1. view' = [view EXCEPT ![c] = after]
      BY <1>8 DEF Forward
    <3> HIDE DEF after
    <3> QED BY <2>6, <3>1 DEF TypeOK
  <2> QED BY <1>2, <1>8, <2>1, <2>2, <2>3, <2>4 DEF Forward, TypeOK
<1>9. CASE Receive(c) \/ Lag(c) \/ ServerClose(c)
  BY <1>2, <1>3, <1>9 DEF Receive, Lag, ServerClose, TypeOK
<1>10. CASE SendNotice(c)
  BY <1>2, <1>10 DEF SendNotice, TypeOK
<1>11. CASE SendClose(c) \/ ClientGone(c)
  <2>1. Disconnect(c)
    BY <1>11 DEF SendClose, ClientGone
  <2>2. pc' \in [Clients -> {"idle", "subscribed", "pumping", "closed"}]
    BY <2>1 DEF Disconnect, TypeOK
  <2>3. pos' \in [Clients -> Nat \ {0}]
    BY <2>1 DEF Disconnect, TypeOK
  <2>4. preamble' \in [Clients -> Cache] /\ view' \in [Clients -> Cache]
    BY <1>4, <2>1 DEF Disconnect, TypeOK
  <2>5. dirty' \in [Clients -> SUBSET Tickers]
    BY <2>1 DEF Disconnect, TypeOK
  <2>6. sending' \in [Clients -> {"nothing", "frame", "notice", "close"}]
    BY <2>1 DEF Disconnect, TypeOK
  <2> QED BY <1>2, <2>2, <2>3, <2>4, <2>5, <2>6 DEF TypeOK
<1> QED
  BY <1>5, <1>6, <1>7, <1>8, <1>9, <1>10, <1>11 DEF ProxyStep, ClientStep

\* The initial state has its types.
LEMMA InitType == Init => TypeOK
<1> SUFFICES ASSUME Init PROVE TypeOK
  OBVIOUS
<1>1. NoBooks \in Cache
  BY DEF NoBooks, Cache, Cached
<1>2. exch \in [Tickers -> Sizes]
  <2>1. 0..MaxSize \subseteq Nat
    BY BoundsAssumption
  <2> QED BY <2>1 DEF Init, FeedInit, Sizes
<1>3. FeedTypeOK
  <2>1. /\ made \in 0..MaxSubs /\ sid \in 0..made
        /\ <<>> \in Seq(Frame)
    BY BoundsAssumption DEF Init, FeedInit
  <2> QED BY <1>1, <1>2, <2>1 DEF Init, FeedInit, FeedTypeOK
<1> QED BY <1>1, <1>3 DEF Init, TypeOK

-----------------------------------------------------------------------------
(* The inductive invariant.                                                *)

LogInv == ChainInv /\ OrderInv

\* CacheAt yields caches, and the log frames.
LEMMA LogFacts ==
  ASSUME TypeOK
  PROVE  /\ Len(log) \in Nat
         /\ \A i \in 0..Len(log) : CacheAt(i) \in Cache
         /\ \A i \in 1..Len(log) : log[i].frame \in Frame
<1>1. log \in Seq(Broadcast) /\ books \in Cache
  BY DEF TypeOK, FeedTypeOK
<1>2. Len(log) \in Nat /\ \A i \in 1..Len(log) : log[i] \in Broadcast
  BY <1>1
<1>3. ASSUME NEW i \in 0..Len(log) PROVE CacheAt(i) \in Cache
  <2>1. CASE i = Len(log)
    BY <1>1, <2>1 DEF CacheAt
  <2>2. CASE i # Len(log)
    <3>1. log[i + 1] \in Broadcast
      BY <1>2, <2>2
    <3> QED BY <2>2, <3>1 DEF CacheAt, Broadcast
  <2> QED BY <2>1, <2>2
<1> QED BY <1>2, <1>3 DEF Broadcast

\* A book that a frame does not restart stays the same or, if one subscription
\* feeds it, moves on to a number above its own.
LEMMA FrameOrder ==
  ASSUME FeedTypeOK, SessionInv, NEW s \in Sids, HandleFrame(s), NEW t \in Tickers
  PROVE  LET f == Head(wire[s])
         IN /\ f \in Frame
            /\ link = "up" /\ s \in sources[f.ticker]
            /\ books'[t] = AfterFrame(books[t], f, t)
            /\ books'[t] # NoBook =>
                 books'[t] = books[t] \/ (f.ticker = t /\ books'[t].seq = f.seq)
            /\ (books'[t] # NoBook /\ ~Resets(f, t)) =>
                 /\ books[t] # NoBook
                 /\ t \notin Mixed =>
                      /\ Touches(f, t) => books[t].seq < f.seq
                      /\ books[t].seq <= books'[t].seq
<1> DEFINE f == Head(wire[s])
<1>1. /\ f \in Frame
      /\ books' = [u \in Tickers |-> AfterFrame(books[u], f, u)]
  BY HandleFrameType
<1>2. books'[t] = AfterFrame(books[t], f, t)
  BY <1>1
<1>3. link = "up"
  BY DEF HandleFrame, SessionInv
<1>4. s \in sources[f.ticker]
  <2>1. wire[s] \in Seq(Frame) /\ wire[s] # <<>>
    BY DEF HandleFrame, FeedTypeOK
  <2>2. f = wire[s][1] /\ 1 \in 1..Len(wire[s])
    BY <2>1
  <2> QED BY <2>2 DEF SessionInv
<1>5. books[t] \in Cached /\ f.seq \in Nat \ {0} /\ lastSeq[s] \in Nat
  BY <1>1 DEF FeedTypeOK, Cache, Frame
<1>6. CASE Resets(f, t)
  <2>1. books'[t].seq = f.seq /\ f.ticker = t
    BY <1>1, <1>2, <1>5, <1>6, AfterReset DEF Snapshot, Resets
  <2> QED BY <1>1, <1>2, <1>3, <1>4, <1>6, <2>1
<1>7. CASE ~Resets(f, t)
  <2>1. /\ books[t] = NoBook => books'[t] = NoBook
        /\ ~Touches(f, t) => books'[t] = books[t]
        /\ (books[t] # NoBook /\ Touches(f, t)) => books'[t].seq = f.seq
    BY <1>1, <1>2, <1>5, <1>7, AfterOther
  <2>2. books[t] # NoBook => books[t].seq \in Nat
    BY <1>5 DEF Cached, Book
  <2>3. ASSUME Touches(f, t), books[t] # NoBook, t \notin Mixed
        PROVE  books[t].seq < f.seq
    <3>1. PICK r \in sources[t] : lastSeq[r] # 0 /\ books[t].seq <= lastSeq[r]
      BY <1>3, <2>3 DEF SessionInv, CacheWithinSession
    <3>2. r = s
      BY <1>4, <2>3, <3>1 DEF Touches, Mixed
    <3>3. f.seq = lastSeq[s] + 1
      BY <3>1, <3>2 DEF HandleFrame, IsGap
    <3> QED BY <1>5, <2>2, <2>3, <3>1, <3>2, <3>3
  <2>4. (books[t] # NoBook /\ t \notin Mixed) => books[t].seq <= books'[t].seq
    BY <1>5, <2>1, <2>2, <2>3
  <2> QED BY <1>1, <1>2, <1>3, <1>4, <1>7, <2>1, <2>3, <2>4 DEF Touches
<1> QED BY <1>6, <1>7

\* The session's part is kept by a broadcast ...
LEMMA BroadcastSession ==
  ASSUME FeedTypeOK, SessionInv, NEW s \in Sids, HandleFrame(s)
  PROVE  SessionInv'
<1> DEFINE f == Head(wire[s])
<1>1. /\ link' = link /\ made' = made /\ served' = served /\ sources' = sources
      /\ lastSeq' = [lastSeq EXCEPT ![s] = f.seq]
      /\ wire' = [wire EXCEPT ![s] = Tail(@)]
      /\ ~IsGap(s, f)
  BY DEF HandleFrame
<1>2. /\ lastSeq \in [Sids -> Nat] /\ wire \in [Sids -> Seq(Frame)]
      /\ wire[s] # <<>> /\ sources \in [Tickers -> SUBSET Sids]
      /\ books \in Cache
  BY DEF HandleFrame, FeedTypeOK
<1>3. /\ lastSeq'[s] = f.seq /\ f.seq \in Nat \ {0}
      /\ lastSeq[s] # 0 => f.seq = lastSeq[s] + 1
      /\ \A r \in Sids \ {s} : lastSeq'[r] = lastSeq[r]
  BY <1>1, <1>2, HandleFrameType DEF IsGap, Frame
<1>4. link = "up"
  BY <1>2 DEF SessionInv
<1>5. ASSUME NEW r \in Sids, NEW i \in 1..Len(wire'[r])
      PROVE  r \in sources'[wire'[r][i].ticker]
  <2>1. CASE r # s
    BY <1>1, <1>2, <1>5, <2>1 DEF SessionInv
  <2>2. CASE r = s
    <3>1. /\ wire'[s] = Tail(wire[s]) /\ wire[s] \in Seq(Frame)
          /\ i \in 1..Len(wire'[s])
      BY <1>1, <1>2, <1>5, <2>2
    <3>2. i + 1 \in 1..Len(wire[s]) /\ wire'[s][i] = wire[s][i + 1]
      BY <1>2, <3>1
    <3> QED BY <1>1, <2>2, <3>2 DEF SessionInv
  <2> QED BY <2>1, <2>2
<1>6. ASSUME NEW t \in Tickers, books'[t] # NoBook
      PROVE  \E r \in sources[t] : lastSeq'[r] # 0 /\ books'[t].seq <= lastSeq'[r]
  <2>1. /\ s \in sources[f.ticker]
        /\ books'[t] = books[t] \/ (f.ticker = t /\ books'[t].seq = f.seq)
    BY <1>6, FrameOrder
  <2>2. CASE f.ticker = t /\ books'[t].seq = f.seq
    BY <1>3, <2>1, <2>2
  <2>3. CASE books'[t] = books[t]
    <3>1. PICK r \in sources[t] : lastSeq[r] # 0 /\ books[t].seq <= lastSeq[r]
      BY <1>4, <1>6, <2>3 DEF SessionInv, CacheWithinSession
    <3>2. r \in Sids /\ lastSeq[r] \in Nat /\ books[t].seq \in Nat
      BY <1>2, <1>6, <2>3 DEF Cache, Cached, Book
    <3>3. lastSeq'[r] # 0 /\ lastSeq[r] <= lastSeq'[r] /\ lastSeq'[r] \in Nat
      BY <1>3, <3>1, <3>2
    <3> QED BY <2>3, <3>1, <3>2, <3>3
  <2> QED BY <2>1, <2>2, <2>3
<1>7. CacheWithinSession'
  BY <1>1, <1>6 DEF CacheWithinSession
<1>8. \A r \in Sids : \A t \in served'[r] : r \in sources'[t]
  BY <1>1 DEF SessionInv
<1> QED BY <1>1, <1>4, <1>5, <1>7, <1>8 DEF SessionInv

\* Frames put on the wire by subscriptions on record keep the session's part.
LEMMA EmitSession ==
  ASSUME FeedTypeOK, SessionInv, NEW t \in Tickers, NEW typ, NEW msg,
         NEW subs,
         \/ typ = "orderbook_snapshot" /\ msg \in SnapshotMsg
         \/ typ = "orderbook_delta" /\ msg \in DeltaMsg,
         Emit(subs, typ, t, msg), link = "up",
         UNCHANGED <<link, made, books, lastSeq>>,
         sources' \in [Tickers -> SUBSET Sids],
         \A u \in Tickers : sources[u] \subseteq sources'[u],
         subs \subseteq sources'[t],
         \A s \in Sids : \A u \in served'[s] : s \in sources'[u]
  PROVE  SessionInv'
<1>1. ASSUME NEW s \in Sids, NEW i \in 1..Len(wire'[s])
      PROVE  s \in sources'[wire'[s][i].ticker]
  <2>1. wire[s] \in Seq(Frame)
    BY DEF FeedTypeOK
  <2>2. ASSUME NEW j \in 1..Len(wire[s])
        PROVE  s \in sources'[wire[s][j].ticker]
    <3>1. wire[s][j] \in Frame /\ s \in sources[wire[s][j].ticker]
      BY <2>1 DEF SessionInv
    <3> QED BY <3>1 DEF Frame
  <2>3. CASE wire'[s] = wire[s]
    BY <1>1, <2>2, <2>3
  <2>4. ASSUME NEW f \in Frame, s \in subs, f.ticker = t,
               wire'[s] = Append(wire[s], f)
        PROVE  s \in sources'[wire'[s][i].ticker]
    <3>1. /\ Len(wire'[s]) = Len(wire[s]) + 1 /\ Len(wire[s]) \in Nat
          /\ wire'[s][Len(wire[s]) + 1] = f
          /\ \A j \in 1..Len(wire[s]) : wire'[s][j] = wire[s][j]
      BY <2>1, <2>4
    <3>2. CASE i = Len(wire[s]) + 1
      BY <2>4, <3>1, <3>2
    <3>3. CASE i # Len(wire[s]) + 1
      <4>1. i \in 1..Len(wire[s])
        BY <1>1, <3>1, <3>3
      <4> QED BY <2>2, <3>1, <4>1
    <3> QED BY <3>2, <3>3
  <2> QED BY <2>3, <2>4, EmitEffect
<1>2. CacheWithinSession'
  BY DEF SessionInv, CacheWithinSession, FeedTypeOK
<1> QED BY <1>1, <1>2 DEF SessionInv

\* What a step leaves of a book, and of the record of its subscriptions.
Forgets ==
  \A t \in Tickers :
    /\ books'[t] \in {books[t], NoBook}
    /\ (books'[t] # NoBook /\ t \notin Mixed') => t \notin Mixed

\* ... and by every other step of the feed, none of which adds to a book.
LEMMA SilentSession ==
  ASSUME FeedTypeOK, SessionInv, SilentStep
  PROVE  SessionInv' /\ Forgets
<1>1. ASSUME NEW t \in Tickers, NEW l \in Levels, NEW change \in {-1, 1},
             Trade(t, l, change)
      PROVE  SessionInv' /\ Forgets
  <2> DEFINE subs == {s \in Sids : t \in served[s]}
  <2>1. [shape |-> "delta", level |-> l, change |-> change] \in DeltaMsg
    BY DEF DeltaMsg
  <2>2. /\ Emit(subs, "orderbook_delta", t,
                [shape |-> "delta", level |-> l, change |-> change])
        /\ UNCHANGED <<link, made, served, books, lastSeq, sources>>
    BY <1>1 DEF Trade
  <2>3. subs \subseteq sources[t]
    BY DEF SessionInv
  <2>4. CASE link = "up"
    <3>1. SessionInv'
      <4> HIDE DEF subs
      <4>1. PICK msg : msg = [shape |-> "delta", level |-> l, change |-> change]
        OBVIOUS
      <4>2. /\ Emit(subs, "orderbook_delta", t, msg)
            /\ msg \in DeltaMsg
        BY <2>1, <2>2, <4>1
      <4>3. /\ sources' = sources /\ sources \in [Tickers -> SUBSET Sids]
            /\ \A s \in Sids : \A u \in served'[s] : s \in sources'[u]
        BY <2>2 DEF SessionInv, FeedTypeOK
      <4> QED BY <2>2, <2>3, <2>4, <4>2, <4>3, EmitSession
    <3> QED BY <2>2, <3>1 DEF Forgets, Mixed
  <2>5. CASE link # "up"
    <3>1. subs = {}
      BY <2>5 DEF SessionInv
    <3>2. \A s \in Sids : wire'[s] = wire[s]
      BY <2>1, <2>2, <3>1, EmitEffect
    <3> QED BY <2>2, <2>5, <3>2
         DEF SessionInv, Forgets, Mixed, CacheWithinSession
  <2> QED BY <2>4, <2>5
<1>2. ASSUME NEW s \in Sids, NEW t \in Tickers, ServeMarket(s, t)
      PROVE  SessionInv' /\ Forgets
  <2>1. [shape |-> "snapshot", rows |-> exch[t]] \in SnapshotMsg
    <3>1. exch[t] \in [Levels -> Int]
      BY DEF FeedTypeOK, Sizes
    <3> QED BY <3>1 DEF SnapshotMsg
  <2>2. /\ sources' = [sources EXCEPT ![t] = @ \cup {s}]
        /\ served' = [served EXCEPT ![s] = @ \cup {t}]
        /\ link = "up" /\ UNCHANGED <<link, made, books, lastSeq>>
    BY <1>2 DEF ServeMarket
  <2>3. /\ sources' \in [Tickers -> SUBSET Sids]
        /\ \A u \in Tickers : sources[u] \subseteq sources'[u]
        /\ {s} \subseteq sources'[t]
    BY <2>2 DEF FeedTypeOK
  <2>4. ASSUME NEW r \in Sids, NEW u \in served'[r] PROVE r \in sources'[u]
    <3>1. served \in [Sids -> SUBSET Tickers]
      BY DEF FeedTypeOK
    <3>2. u \in served[r] \/ (r = s /\ u = t)
      BY <2>2, <2>4, <3>1
    <3>3. CASE u \in served[r]
      <4>1. r \in sources[u] /\ u \in Tickers
        BY <3>1, <3>3 DEF SessionInv
      <4> QED BY <2>3, <4>1
    <3> QED BY <2>3, <3>2, <3>3
  <2>5. PICK msg : msg = [shape |-> "snapshot", rows |-> exch[t]]
    OBVIOUS
  <2>6. Emit({s}, "orderbook_snapshot", t, msg) /\ msg \in SnapshotMsg
    BY <1>2, <2>1, <2>5 DEF ServeMarket
  <2>7. SessionInv'
    BY <2>2, <2>3, <2>4, <2>6, EmitSession
  <2> QED BY <2>2, <2>3, <2>7 DEF Forgets, Mixed
<1>3. ASSUME NEW s \in Sids, NEW t \in Tickers, DropMarket(s, t)
      PROVE  SessionInv' /\ Forgets
  <2>1. served' = [served EXCEPT ![s] = @ \ {t}] /\ link = "up"
    BY <1>3 DEF DropMarket
  <2>2. \A r \in Sids : served'[r] \subseteq served[r]
    BY <2>1 DEF FeedTypeOK
  <2> QED BY <1>3, <2>1, <2>2
       DEF DropMarket, SessionInv, Forgets, Mixed, CacheWithinSession
<1>4. ASSUME NEW open \in SUBSET Tickers, OpenSession(open)
      PROVE  SessionInv' /\ Forgets
  <2>1. /\ link = "down" /\ link' = "up" /\ books' = NoBooks
        /\ served' = served /\ wire' = wire /\ lastSeq' = lastSeq
        /\ sources' = [t \in Tickers |-> {}]
    BY <1>4 DEF OpenSession
  <2>2. \A r \in Sids : wire'[r] = <<>> /\ served'[r] = {}
    BY <2>1 DEF SessionInv
  <2> QED BY <2>1, <2>2
       DEF SessionInv, Forgets, CacheWithinSession, NoBooks
<1>5. ASSUME NEW open \in SUBSET Tickers, Refresh(open)
      PROVE  SessionInv' /\ Forgets
  <2>1. /\ link = "up"
        /\ UNCHANGED <<link, served, wire, lastSeq, sources>>
        /\ \A t \in Tickers : books'[t] \in {books[t], NoBook}
    BY <1>5 DEF Refresh
  <2> QED BY <2>1 DEF SessionInv, Forgets, Mixed, CacheWithinSession
<1>6. CASE OpenSessionFails
  <2>1. /\ link = "down" /\ books' \in {books, NoBooks}
        /\ UNCHANGED <<link, made, served, wire, lastSeq, sources>>
    BY <1>6 DEF OpenSessionFails, subVars
  <2> QED BY <2>1 DEF SessionInv, Forgets, Mixed, CacheWithinSession, NoBooks
<1>7. ASSUME SessionEnds \/ Stop \/ \E s \in Sids : HandleGap(s)
      PROVE  SessionInv' /\ Forgets
  <2>1. /\ link' # "up" /\ DropSession
        /\ UNCHANGED <<books, sources>>
    BY <1>7 DEF SessionEnds, HandleGap, Stop, CloseSession
  <2>2. made' = 0 /\ \A s \in Sids : wire'[s] = <<>> /\ served'[s] = {}
    BY <2>1 DEF DropSession
  <2> QED BY <2>1, <2>2 DEF SessionInv, Forgets, Mixed, CacheWithinSession
<1>8. ASSUME NEW s \in Sids, LearnSid(s)
      PROVE  SessionInv' /\ Forgets
  BY <1>8 DEF LearnSid, subVars, SessionInv, Forgets, Mixed, CacheWithinSession
<1> QED BY <1>1, <1>2, <1>3, <1>4, <1>5, <1>6, <1>7, <1>8 DEF SilentStep

\* What a broadcast does to the log and to the caches it records.
LEMMA BroadcastLog ==
  ASSUME TypeOK, NEW s \in Sids, BroadcastFrame(s)
  PROVE  /\ Len(log') = Len(log) + 1
         /\ \A j \in 1..Len(log) : log'[j] = log[j]
         /\ log'[Len(log) + 1].frame = Head(wire[s])
         /\ \A i \in 0..Len(log) :
              CacheAt(i)' = CacheAt(i) /\ MixedAt(i)' = MixedAt(i)
         /\ \A i \in Nat : i = Len(log) + 1 =>
              CacheAt(i)' = books' /\ MixedAt(i)' = Mixed
<1> DEFINE n == Len(log)
           e == [frame |-> Head(wire[s]), before |-> books, mixed |-> Mixed]
<1>1. log \in Seq(Broadcast) /\ n \in Nat
  BY LogFacts DEF TypeOK
<1>2. log' = Append(log, e)
  BY BroadcastType
<1>3. /\ Len(log') = n + 1
      /\ \A j \in 1..n : log'[j] = log[j]
      /\ log'[n + 1] = e
  BY <1>1, <1>2
<1>4. Mixed' = Mixed
  BY DEF BroadcastFrame, HandleFrame, Mixed
<1>5. \A i \in Nat : i = n + 1 => CacheAt(i)' = books' /\ MixedAt(i)' = Mixed
  BY <1>3, <1>4 DEF CacheAt, MixedAt
<1>6. ASSUME NEW i \in 0..n
      PROVE  CacheAt(i)' = CacheAt(i) /\ MixedAt(i)' = MixedAt(i)
  <2>1. CacheAt(i)' = log'[i + 1].before /\ MixedAt(i)' = log'[i + 1].mixed
    BY <1>1, <1>3 DEF CacheAt, MixedAt
  <2>2. CASE i = n
    BY <1>3, <2>1, <2>2 DEF CacheAt, MixedAt
  <2>3. CASE i # n
    <3>1. log'[i + 1] = log[i + 1]
      BY <1>1, <1>3, <2>3
    <3> QED BY <2>1, <2>3, <3>1 DEF CacheAt, MixedAt
  <2> QED BY <2>2, <2>3
<1> QED BY <1>3, <1>5, <1>6

\* The log's part is kept by a broadcast.
LEMMA BroadcastLogInv ==
  ASSUME TypeOK, SessionInv, LogInv, NEW s \in Sids, BroadcastFrame(s)
  PROVE  LogInv'
<1> DEFINE n == Len(log)
           f == Head(wire[s])
<1>1. /\ n \in Nat
      /\ Len(log') = n + 1
      /\ \A j \in 1..n : log'[j] = log[j]
      /\ log'[n + 1].frame = f
      /\ \A i \in 0..n : CacheAt(i)' = CacheAt(i) /\ MixedAt(i)' = MixedAt(i)
      /\ \A i \in Nat : i = n + 1 => CacheAt(i)' = books' /\ MixedAt(i)' = Mixed
  BY BroadcastLog, LogFacts
<1>2. CacheAt(n) = books /\ MixedAt(n) = Mixed
  BY DEF CacheAt, MixedAt
<1>3. ASSUME NEW t \in Tickers
      PROVE  /\ f \in Frame
             /\ books'[t] = AfterFrame(books[t], f, t)
             /\ (books'[t] # NoBook /\ ~Resets(f, t)) =>
                  /\ books[t] # NoBook
                  /\ t \notin Mixed =>
                       /\ Touches(f, t) => books[t].seq < f.seq
                       /\ books[t].seq <= books'[t].seq
  BY FrameOrder DEF BroadcastFrame, TypeOK
<1>4. ChainInv'
  <2>1. \A t \in Tickers : CacheAt(0)'[t] = NoBook
    BY <1>1 DEF LogInv, ChainInv
  <2>2. ASSUME NEW i \in 1..n + 1, NEW t \in Tickers, CacheAt(i)'[t] # NoBook
        PROVE  CacheAt(i)'[t] =
                 AfterFrame(CacheAt(i - 1)'[t], log'[i].frame, t)
    <3>1. CASE i = n + 1
      <4>1. CacheAt(i - 1)' = books
        BY <1>1, <1>2, <3>1
      <4> QED BY <1>1, <1>3, <3>1, <4>1
    <3>2. CASE i # n + 1
      <4>1. i \in 1..n /\ i - 1 \in 0..n /\ i \in 0..n
        BY <1>1, <3>2
      <4>2. /\ CacheAt(i)' = CacheAt(i) /\ CacheAt(i - 1)' = CacheAt(i - 1)
            /\ log'[i] = log[i]
        BY <1>1, <4>1
      <4> QED BY <2>2, <4>1, <4>2 DEF LogInv, ChainInv
    <3> QED BY <3>1, <3>2
  <2> QED BY <1>1, <2>1, <2>2 DEF ChainInv
<1>5. ASSUME NEW k \in 0..n + 1, NEW i \in 0..k - 1, NEW t \in Tickers,
             CacheAt(k)'[t] # NoBook, NoReset(i, k, t)'
      PROVE  /\ CacheAt(i)'[t] # NoBook
             /\ t \notin MixedAt(k)' =>
                  /\ t \notin MixedAt(i)'
                  /\ Touches(log'[k].frame, t) =>
                       CacheAt(i)'[t].seq < log'[k].frame.seq
                  /\ CacheAt(i)'[t].seq <= CacheAt(k)'[t].seq
  <2>1. i \in 0..n /\ CacheAt(i)' = CacheAt(i) /\ MixedAt(i)' = MixedAt(i)
    BY <1>1
  <2>2. \A j \in i + 1..k : ~Resets(log'[j].frame, t)
    BY <1>5 DEF NoReset
  <2>3. CASE k # n + 1
    <3>1. /\ k \in 0..n /\ k \in 1..n
          /\ CacheAt(k)' = CacheAt(k) /\ MixedAt(k)' = MixedAt(k)
      BY <1>1, <2>3
    <3>2. NoReset(i, k, t)
      BY <1>1, <2>1, <2>2, <3>1 DEF NoReset
    <3>3. log'[k] = log[k]
      BY <1>1, <3>1
    <3> QED BY <1>5, <2>1, <3>1, <3>2, <3>3 DEF LogInv, OrderInv
  <2>4. CASE k = n + 1
    <3>1. ~Resets(f, t) /\ books'[t] # NoBook
      BY <1>1, <1>5, <2>1, <2>2, <2>4
    <3>2. /\ books[t] # NoBook
          /\ t \notin Mixed =>
               /\ Touches(f, t) => books[t].seq < f.seq
               /\ books[t].seq <= books'[t].seq
      BY <1>3, <3>1
    <3>3. CASE i = n
      BY <1>1, <1>2, <2>1, <2>4, <3>2, <3>3
    <3>4. CASE i # n
      <4>1. n \in 0..n /\ i \in 0..n - 1
        BY <1>1, <2>1, <3>4
      <4>2. NoReset(i, n, t)
        <5> SUFFICES ASSUME NEW j \in i + 1..n PROVE ~Resets(log[j].frame, t)
          BY DEF NoReset
        <5>1. j \in i + 1..k /\ j \in 1..n
          BY <1>1, <2>1, <2>4
        <5> QED BY <1>1, <2>2, <5>1
      <4>3. /\ CacheAt(i)[t] # NoBook
            /\ t \notin Mixed => /\ t \notin MixedAt(i)
                                 /\ CacheAt(i)[t].seq <= books[t].seq
        BY <1>2, <3>2, <4>1, <4>2 DEF LogInv, OrderInv
      <4>4. CacheAt(i)[t].seq \in Nat /\ books[t].seq \in Nat /\ f.seq \in Nat
        <5>1. CacheAt(i)[t] \in Cached /\ books[t] \in Cached /\ f \in Frame
          BY <1>2, <1>3, <2>1, <4>1, LogFacts DEF Cache
        <5> QED BY <3>2, <4>3, <5>1 DEF Cached, Book, Frame
      <4>5. books'[t].seq \in Nat
        <5>1. books'[t] \in Cached
          BY HandleFrameType DEF TypeOK, BroadcastFrame, Cache
        <5> QED BY <3>1, <5>1 DEF Cached, Book
      <4>6. CacheAt(k)' = books' /\ MixedAt(k)' = Mixed /\ log'[k].frame = f
        BY <1>1, <2>4
      <4> QED BY <2>1, <3>2, <4>3, <4>4, <4>5, <4>6
    <3> QED BY <3>3, <3>4
  <2> QED BY <2>3, <2>4
<1>6. OrderInv'
  BY <1>1, <1>5 DEF OrderInv
<1> QED BY <1>4, <1>6 DEF LogInv

\* The log's part and the clients' are kept by a step that broadcasts nothing
\* and at most forgets cached books.
LEMMA ForgetInv ==
  ASSUME TypeOK, LogInv, ClientInv, UNCHANGED <<log, clientVars>>, Forgets
  PROVE  LogInv' /\ ClientInv'
<1> DEFINE n == Len(log)
<1>1. n \in Nat /\ log' = log
  BY LogFacts
<1>2. ASSUME NEW i \in 0..n, i # n
      PROVE  CacheAt(i)' = CacheAt(i) /\ MixedAt(i)' = MixedAt(i)
  BY <1>1, <1>2 DEF CacheAt, MixedAt
<1>3. ASSUME NEW i \in 0..n, NEW t \in Tickers, CacheAt(i)'[t] # NoBook
      PROVE  /\ CacheAt(i)'[t] = CacheAt(i)[t]
             /\ t \notin MixedAt(i)' => t \notin MixedAt(i)
  BY <1>1, <1>3 DEF CacheAt, MixedAt, Forgets
<1>4. ChainInv'
  <2>1. \A t \in Tickers : CacheAt(0)'[t] = NoBook
    BY <1>1, <1>3 DEF LogInv, ChainInv
  <2>2. ASSUME NEW i \in 1..n, NEW t \in Tickers, CacheAt(i)'[t] # NoBook
        PROVE  CacheAt(i)'[t] =
                 AfterFrame(CacheAt(i - 1)'[t], log'[i].frame, t)
    <3>1. i \in 0..n /\ i - 1 \in 0..n /\ i - 1 # n
      BY <1>1
    <3> QED BY <1>1, <1>2, <1>3, <2>2, <3>1 DEF LogInv, ChainInv
  <2> QED BY <1>1, <2>1, <2>2 DEF ChainInv
<1>5. OrderInv'
  <2>1. ASSUME NEW k \in 0..n, NEW i \in 0..k - 1, NEW t \in Tickers,
               CacheAt(k)'[t] # NoBook, NoReset(i, k, t)'
        PROVE  /\ CacheAt(i)'[t] # NoBook
               /\ t \notin MixedAt(k)' =>
                    /\ t \notin MixedAt(i)'
                    /\ Touches(log'[k].frame, t) =>
                         CacheAt(i)'[t].seq < log'[k].frame.seq
                    /\ CacheAt(i)'[t].seq <= CacheAt(k)'[t].seq
    <3>1. i \in 0..n /\ i # n
      BY <1>1
    <3>2. NoReset(i, k, t)
      BY <1>1, <2>1 DEF NoReset
    <3> QED BY <1>1, <1>2, <1>3, <2>1, <3>1, <3>2 DEF LogInv, OrderInv
  <2> QED BY <1>1, <2>1 DEF OrderInv
<1>6. ClientInv'
  <2>1. /\ pc' = pc /\ pos' = pos /\ sending' = sending
        /\ preamble' = preamble /\ view' = view /\ dirty' = dirty
    BY DEF clientVars
  <2>2. ASSUME NEW c \in Clients, NEW t \in Tickers,
               NEW r \in pos[c] - 1..n, ReplicaAt(c, t, r)
        PROVE  ReplicaAt(c, t, r)'
    <3> SUFFICES ASSUME CacheAt(r)'[t] # NoBook, t \notin MixedAt(r)',
                        NoReset(pos[c] - 1, r, t)
                 PROVE  \/ preamble[c][t] = CacheAt(r)'[t]
                        \/ /\ preamble[c][t] = NoBook
                           /\ view[c][t] \in {CacheAt(r)'[t],
                                              CacheAt(pos[c] - 1)'[t]}
      BY <1>1, <2>1 DEF ReplicaAt, NoReset, CacheAt
    <3>1. pos[c] - 1 \in 0..n /\ r \in 0..n
      BY <1>1 DEF TypeOK
    <3>2. CacheAt(r)'[t] = CacheAt(r)[t] /\ t \notin MixedAt(r)
      BY <1>3, <3>1
    <3>3. \/ pos[c] - 1 = r
          \/ CacheAt(pos[c] - 1)[t] = CacheAt(pos[c] - 1)'[t]
      <4>1. ASSUME NEW p \in 0..n, p = pos[c] - 1, p # r
            PROVE  CacheAt(p)' = CacheAt(p)
        BY <1>1, <1>2, <3>1, <4>1
      <4> QED BY <2>1, <3>1, <4>1
    <3> QED BY <2>1, <2>2, <3>2, <3>3 DEF ReplicaAt
  <2> QED BY <1>1, <2>1, <2>2 DEF ClientInv, ClientOK
<1> QED BY <1>4, <1>5, <1>6 DEF LogInv

\* The clients' part is kept by a broadcast, which adds at the log's end.
LEMMA BroadcastClientInv ==
  ASSUME TypeOK, ClientInv, NEW s \in Sids, BroadcastFrame(s)
  PROVE  ClientInv'
<1> DEFINE n == Len(log)
<1>1. /\ n \in Nat
      /\ Len(log') = n + 1
      /\ \A j \in 1..n : log'[j] = log[j]
      /\ \A i \in 0..n : CacheAt(i)' = CacheAt(i) /\ MixedAt(i)' = MixedAt(i)
  BY BroadcastLog, LogFacts
<1>2. /\ pc' = pc /\ pos' = pos /\ sending' = sending /\ preamble' = preamble
      /\ view' = view /\ dirty' = dirty
  BY DEF BroadcastFrame, clientVars
<1>3. ASSUME NEW c \in Clients, NEW t \in Tickers,
             NEW r \in pos[c] - 1..n, ReplicaAt(c, t, r)
      PROVE  ReplicaAt(c, t, r)'
  <2>1. pos[c] - 1 \in 0..n /\ r \in 0..n
    BY <1>1 DEF TypeOK
  <2>2. CacheAt(r)' = CacheAt(r) /\ MixedAt(r)' = MixedAt(r)
    BY <1>1, <2>1
  <2>3. CacheAt(pos[c] - 1)' = CacheAt(pos[c] - 1)
    <3>1. ASSUME NEW p \in 0..n, p = pos[c] - 1
          PROVE  CacheAt(p)' = CacheAt(p)
      BY <1>1
    <3> QED BY <1>2, <2>1, <3>1
  <2>4. NoReset(pos[c] - 1, r, t)' <=> NoReset(pos[c] - 1, r, t)
    <3>1. \A j \in pos[c]..r : log'[j] = log[j]
      BY <1>1, <2>1 DEF TypeOK
    <3>2. pos[c] - 1 + 1 = pos[c]
      BY DEF TypeOK
    <3> QED BY <1>2, <3>1, <3>2 DEF NoReset
  <2> QED BY <1>2, <1>3, <2>2, <2>3, <2>4 DEF ReplicaAt
<1>4. ASSUME NEW c \in Clients, ClientOK(c)
      PROVE  ClientOK(c)'
  <2>1. pos[c] \in Nat
    BY DEF TypeOK
  <2>2. /\ pos'[c] <= Len(log') + 1
        /\ sending'[c] # "nothing" => pc'[c] = "pumping" /\ preamble'[c] = NoBooks
        /\ sending'[c] = "frame" => pos'[c] <= Len(log')
    BY <1>1, <1>2, <1>4, <2>1 DEF ClientOK
  <2>3. ASSUME NEW t \in Tickers \ dirty[c],
               pc[c] = "pumping", sending[c] # "notice"
        PROVE  \E r \in pos[c] - 1..n + 1 : ReplicaAt(c, t, r)'
    <3>1. PICK r \in pos[c] - 1..n : ReplicaAt(c, t, r)
      BY <1>4, <2>3 DEF ClientOK
    <3>2. ReplicaAt(c, t, r)'
      BY <1>3, <3>1
    <3>3. r \in pos[c] - 1..n + 1
      BY <1>1, <2>1
    <3> QED BY <3>2, <3>3
  <2> QED BY <1>1, <1>2, <2>2, <2>3 DEF ClientOK
<1> QED BY <1>4 DEF ClientInv

\* A connection whose own state a step leaves alone keeps its part.
LEMMA OtherClient ==
  ASSUME NEW d \in Clients, ClientOK(d), log' = log, books' = books,
         sources' = sources, pc'[d] = pc[d], pos'[d] = pos[d],
         sending'[d] = sending[d], preamble'[d] = preamble[d],
         view'[d] = view[d], dirty'[d] = dirty[d]
  PROVE  ClientOK(d)'
<1>1. ASSUME NEW t \in Tickers, NEW r, ReplicaAt(d, t, r)
      PROVE  ReplicaAt(d, t, r)'
  BY <1>1 DEF ReplicaAt, NoReset, CacheAt, MixedAt, Mixed
<1> QED BY <1>1 DEF ClientOK

\* The copy of the cache is current at the end of the log.
LEMMA ReadCacheInv ==
  ASSUME TypeOK, NEW c \in Clients, ClientOK(c), ReadCache(c)
  PROVE  ClientOK(c)'
<1>1. /\ log' = log /\ books' = books /\ pos' = pos /\ dirty' = dirty
      /\ preamble'[c] = books /\ sending[c] = "nothing" /\ sending' = sending
  BY DEF ReadCache, feedVars, TypeOK, ClientOK
<1>2. Len(log) \in Nat /\ pos[c] \in Nat \ {0} /\ pos[c] <= Len(log) + 1
  BY LogFacts DEF TypeOK, ClientOK
<1>3. Len(log) \in pos[c] - 1..Len(log)
  BY <1>2
<1>4. ASSUME NEW t \in Tickers, NEW r, r = Len(log)
      PROVE  ReplicaAt(c, t, r)'
  BY <1>1, <1>4 DEF ReplicaAt, CacheAt
<1> QED BY <1>1, <1>2, <1>3, <1>4 DEF ClientOK

\* Sending one snapshot moves a book from the preamble to the client.
LEMMA SendSnapshotInv ==
  ASSUME TypeOK, NEW c \in Clients, ClientOK(c),
         NEW u \in Tickers, SendSnapshot(c, u)
  PROVE  ClientOK(c)'
<1> DEFINE book == preamble[c][u]
<1>1. book \in Book /\ book # NoBook
  BY DEF SendSnapshot, TypeOK, Cache, Cached
<1>2. ApplyMsg(EmptyBook, SnapshotFrame(book), book.seq) = book
  BY <1>1, SnapshotRoundTrip
<1>3. /\ log' = log /\ books' = books /\ sources' = sources
      /\ pos' = pos /\ dirty' = dirty /\ pc' = pc /\ sending' = sending
  BY DEF SendSnapshot, feedVars
<1>4. view' = [view EXCEPT ![c][u] = book]
  BY <1>2 DEF SendSnapshot
<1>5. preamble' = [preamble EXCEPT ![c][u] = NoBook]
  BY DEF SendSnapshot
<1>6. /\ view'[c] = [view[c] EXCEPT ![u] = book]
      /\ preamble'[c] = [preamble[c] EXCEPT ![u] = NoBook]
      /\ view[c] \in Cache /\ preamble[c] \in Cache
  BY <1>4, <1>5 DEF TypeOK
<1>7. sending[c] = "nothing"
  BY <1>1 DEF ClientOK, NoBooks
<1>8. ASSUME NEW t \in Tickers, NEW r, ReplicaAt(c, t, r)
      PROVE  ReplicaAt(c, t, r)'
  <2> SUFFICES ASSUME CacheAt(r)[t] # NoBook, t \notin MixedAt(r),
                      NoReset(pos[c] - 1, r, t)
               PROVE  \/ preamble'[c][t] = CacheAt(r)[t]
                      \/ /\ preamble'[c][t] = NoBook
                         /\ view'[c][t] \in {CacheAt(r)[t],
                                             CacheAt(pos[c] - 1)[t]}
    BY <1>3 DEF ReplicaAt, NoReset, CacheAt, MixedAt, Mixed
  <2>1. \/ preamble[c][t] = CacheAt(r)[t]
        \/ /\ preamble[c][t] = NoBook
           /\ view[c][t] \in {CacheAt(r)[t], CacheAt(pos[c] - 1)[t]}
    BY <1>8 DEF ReplicaAt
  <2>2. CASE t = u
    <3>1. preamble'[c][t] = NoBook /\ view'[c][t] = preamble[c][t]
      BY <1>6, <2>2 DEF Cache
    <3> QED BY <1>1, <2>1, <2>2, <3>1
  <2>3. CASE t # u
    <3>1. preamble'[c][t] = preamble[c][t] /\ view'[c][t] = view[c][t]
      BY <1>6, <2>3 DEF Cache
    <3> QED BY <2>1, <3>1
  <2> QED BY <2>2, <2>3
<1> QED BY <1>3, <1>7, <1>8 DEF ClientOK

\* Taking the next frame off the channel, or learning that there will be none,
\* leaves the client's books alone.
LEMMA TakeInv ==
  ASSUME TypeOK, NEW c \in Clients, ClientOK(c), Receive(c) \/ ServerClose(c)
  PROVE  ClientOK(c)'
<1>1. /\ feedVars' = feedVars /\ log' = log /\ pc' = pc /\ pos' = pos
      /\ preamble' = preamble /\ view' = view /\ dirty' = dirty
      /\ pc[c] = "pumping" /\ preamble[c] = NoBooks /\ sending[c] = "nothing"
      /\ \/ sending' = [sending EXCEPT ![c] = "frame"] /\ pos[c] <= Len(log)
         \/ sending' = [sending EXCEPT ![c] = "close"]
  BY DEF Receive, ServerClose, Awaiting
<1>2. /\ \/ sending'[c] = "frame" /\ pos[c] <= Len(log)
         \/ sending'[c] = "close"
      /\ books' = books /\ sources' = sources
  BY <1>1 DEF TypeOK, feedVars
<1>3. ASSUME NEW t \in Tickers, NEW r, ReplicaAt(c, t, r)
      PROVE  ReplicaAt(c, t, r)'
  BY <1>1, <1>2, <1>3 DEF ReplicaAt, NoReset, CacheAt, MixedAt, Mixed
<1> QED BY <1>1, <1>2, <1>3 DEF ClientOK

\* A lagged client is about to be told of every market ...
LEMMA LagInv ==
  ASSUME TypeOK, NEW c \in Clients, ClientOK(c), Lag(c)
  PROVE  ClientOK(c)'
<1>1. /\ log' = log /\ pos'[c] = Oldest /\ sending'[c] = "notice"
      /\ pc'[c] = "pumping" /\ preamble'[c] = NoBooks
  BY DEF Lag, Awaiting, TypeOK
<1>2. Len(log) \in Nat /\ Oldest <= Len(log) + 1
  BY LogFacts, CapacityAssumption DEF Oldest
<1> QED BY <1>1, <1>2 DEF ClientOK

\* ... and then has been.
LEMMA SendNoticeInv ==
  ASSUME TypeOK, NEW c \in Clients, ClientOK(c), SendNotice(c)
  PROVE  ClientOK(c)'
<1>1. /\ log' = log /\ pos' = pos /\ sending'[c] = "nothing"
      /\ dirty'[c] = Tickers
  BY DEF SendNotice, TypeOK
<1> QED BY <1>1 DEF ClientOK

\* A connection that is closed has nothing to keep.
LEMMA DisconnectInv ==
  ASSUME TypeOK, NEW c \in Clients, Disconnect(c)
  PROVE  ClientOK(c)'
<1>1. log' = log /\ pos'[c] = 1 /\ pc'[c] = "closed" /\ sending'[c] = "nothing"
  BY DEF Disconnect, TypeOK
<1> QED BY <1>1, LogFacts DEF ClientOK

(***************************************************************************)
(* One forwarded frame, seen from one market.  With p frames consumed so   *)
(* far and the preamble current at r >= p, the client's book is the cached *)
(* one at r or at p; after the frame it is the cached one at r or at p + 1.*)
(***************************************************************************)
LEMMA ForwardBook ==
  ASSUME TypeOK, LogInv, NEW t \in Tickers,
         NEW p \in 0..Len(log) - 1, NEW r \in p..Len(log),
         NEW b \in Cached,
         (CacheAt(r)[t] # NoBook /\ t \notin MixedAt(r) /\ NoReset(p, r, t)) =>
           b \in {CacheAt(r)[t], CacheAt(p)[t]}
  PROVE  LET f  == log[p + 1].frame
             r2 == IF r = p THEN p + 1 ELSE r
         IN  (/\ CacheAt(r2)[t] # NoBook /\ t \notin MixedAt(r2)
              /\ NoReset(p + 1, r2, t)) =>
               ClientAfter(b, f, t) \in {CacheAt(r2)[t], CacheAt(p + 1)[t]}
<1> DEFINE f  == log[p + 1].frame
           r2 == IF r = p THEN p + 1 ELSE r
           n  == Len(log)
<1> SUFFICES ASSUME CacheAt(r2)[t] # NoBook, t \notin MixedAt(r2),
                    NoReset(p + 1, r2, t)
             PROVE  ClientAfter(b, f, t) \in {CacheAt(r2)[t], CacheAt(p + 1)[t]}
  OBVIOUS
<1>1. /\ n \in Nat /\ p + 1 \in 1..n /\ p + 1 \in 0..n /\ p \in 0..n
      /\ r2 \in p + 1..n /\ r2 \in 0..n /\ r \in 0..n
  BY LogFacts
<1>2. /\ f \in Frame
      /\ CacheAt(p) \in Cache /\ CacheAt(p + 1) \in Cache
      /\ CacheAt(r) \in Cache /\ CacheAt(r2) \in Cache
  BY <1>1, LogFacts
<1>3. CacheAt(p + 1)[t] # NoBook /\ t \notin MixedAt(p + 1)
  <2>1. CASE r2 = p + 1
    BY <2>1
  <2>2. CASE r2 # p + 1
    <3>1. p + 1 \in 0..r2 - 1
      BY <1>1, <2>2
    <3> QED BY <1>1, <3>1 DEF LogInv, OrderInv
  <2> QED BY <2>1, <2>2
<1>4. CacheAt(p + 1)[t] = AfterFrame(CacheAt(p)[t], f, t)
  <2>1. p + 1 - 1 = p
    BY <1>1
  <2> QED BY <1>1, <1>3, <2>1 DEF LogInv, ChainInv
<1>5. CASE Resets(f, t)
  <2>1. ClientAfter(b, f, t) = AfterFrame(b, f, t)
    BY <1>2, <1>5, ClientAfterCases
  <2>2. AfterFrame(b, f, t) = AfterFrame(CacheAt(p)[t], f, t)
    <3>1. CacheAt(p)[t] \in Cached
      BY <1>2 DEF Cache
    <3> QED BY <1>2, <1>5, <3>1, AfterReset
  <2> QED BY <1>4, <2>1, <2>2
<1>6. CASE ~Resets(f, t)
  <2>1. NoReset(p, p + 1, t)
    <3>1. \A j \in p + 1..p + 1 : j = p + 1
      BY <1>1
    <3> QED BY <1>6, <3>1 DEF NoReset
  <2>2. /\ CacheAt(p)[t] # NoBook /\ t \notin MixedAt(p)
        /\ Touches(f, t) => CacheAt(p)[t].seq < f.seq
    <3>1. p \in 0..(p + 1) - 1
      BY <1>1
    <3> QED BY <1>1, <1>3, <2>1, <3>1 DEF LogInv, OrderInv
  <2>3. ASSUME b = CacheAt(p)[t]
        PROVE  ClientAfter(b, f, t) = CacheAt(p + 1)[t]
    <3>1. CASE Touches(f, t)
      BY <1>2, <1>4, <2>2, <2>3, <3>1, ClientAfterCases
    <3>2. CASE ~Touches(f, t)
      BY <1>2, <1>4, <1>6, <2>2, <2>3, <3>2, ClientAfterCases, AfterOther
    <3> QED BY <3>1, <3>2
  <2>4. CASE r = p
    BY <2>2, <2>3, <2>4 DEF NoReset
  <2>5. CASE r # p
    <3>1. r2 = r
      BY <2>5
    <3>2. NoReset(p, r, t)
      <4> SUFFICES ASSUME NEW j \in p + 1..r PROVE ~Resets(log[j].frame, t)
        BY DEF NoReset
      <4>1. CASE j = p + 1
        BY <1>6, <4>1
      <4>2. CASE j # p + 1
        <5>1. j \in p + 1 + 1..r2
          BY <1>1, <3>1, <4>2
        <5> QED BY <5>1 DEF NoReset
      <4> QED BY <4>1, <4>2
    <3>3. b \in {CacheAt(r)[t], CacheAt(p)[t]}
      BY <3>1, <3>2
    <3>4. ASSUME b = CacheAt(r)[t]
          PROVE  ClientAfter(b, f, t) = CacheAt(r)[t]
      <4>1. b # NoBook
        BY <3>1, <3>4
      <4>2. Touches(f, t) => f.seq <= b.seq
        <5> SUFFICES ASSUME Touches(f, t) PROVE f.seq <= b.seq
          OBVIOUS
        <5>1. CacheAt(p + 1)[t].seq = f.seq
          <6>1. CacheAt(p)[t] \in Cached
            BY <1>2 DEF Cache
          <6> QED BY <1>2, <1>4, <1>6, <2>2, <6>1, AfterOther
        <5>2. CASE r = p + 1
          <6>1. f.seq \in Nat
            BY <1>2 DEF Frame
          <6> QED BY <3>4, <5>1, <5>2, <6>1
        <5>3. CASE r # p + 1
          <6>1. p + 1 \in 0..r - 1
            BY <1>1, <3>1, <5>3
          <6>2. CacheAt(p + 1)[t].seq <= CacheAt(r)[t].seq
            BY <1>1, <3>1, <6>1 DEF LogInv, OrderInv
          <6> QED BY <3>4, <5>1, <6>2
        <5> QED BY <5>2, <5>3
      <4> QED BY <1>2, <1>6, <3>4, <4>1, <4>2, ClientAfterCases
    <3> QED BY <2>3, <3>1, <3>3, <3>4
  <2> QED BY <2>4, <2>5
<1> QED BY <1>5, <1>6

\* A forwarded frame keeps the connection's part.
LEMMA ForwardInv ==
  ASSUME TypeOK, LogInv, NEW c \in Clients, ClientOK(c), Forward(c)
  PROVE  ClientOK(c)'
<1> DEFINE n == Len(log)
           p == pos[c] - 1
           f == log[pos[c]].frame
<1>1. /\ n \in Nat /\ pos[c] \in Nat \ {0} /\ pos[c] <= n
      /\ preamble[c] = NoBooks /\ pc[c] = "pumping"
      /\ sending[c] # "notice"
  BY LogFacts DEF Forward, ClientOK, TypeOK
<1>2. /\ p \in 0..n - 1 /\ p + 1 = pos[c] /\ pos[c] \in 1..n
  BY <1>1
<1>3. /\ log' = log /\ books' = books /\ sources' = sources
      /\ pc' = pc /\ preamble' = preamble /\ pos'[c] = p + 2
      /\ sending'[c] = "nothing"
      /\ view'[c] = [t \in Tickers |-> ClientAfter(view[c][t], f, t)]
      /\ dirty'[c] = {t \in dirty[c] : ~Resets(f, t)}
  BY <1>1 DEF Forward, feedVars, TypeOK
<1>4. f \in Frame /\ view[c] \in Cache
  BY <1>2, LogFacts DEF TypeOK
<1>5. ASSUME NEW t \in Tickers \ dirty'[c]
      PROVE  \E r \in p + 1..n : ReplicaAt(c, t, r)'
  <2>1. view'[c][t] = ClientAfter(view[c][t], f, t) /\ view[c][t] \in Cached
    BY <1>3, <1>4 DEF Cache
  <2>2. ASSUME NEW r2 \in p + 1..n,
               (/\ CacheAt(r2)[t] # NoBook /\ t \notin MixedAt(r2)
                /\ NoReset(p + 1, r2, t)) =>
                 view'[c][t] \in {CacheAt(r2)[t], CacheAt(p + 1)[t]}
        PROVE  ReplicaAt(c, t, r2)'
    <3>1. preamble'[c][t] = NoBook
      BY <1>1, <1>3 DEF NoBooks
    <3>2. pos'[c] - 1 = p + 1
      BY <1>2, <1>3
    <3> QED BY <1>3, <2>2, <3>1, <3>2
         DEF ReplicaAt, NoReset, CacheAt, MixedAt, Mixed
  <2>3. CASE t \notin dirty[c]
    <3>1. PICK r \in p..n : ReplicaAt(c, t, r)
      BY <1>1, <2>3 DEF ClientOK
    <3>2. (CacheAt(r)[t] # NoBook /\ t \notin MixedAt(r) /\ NoReset(p, r, t)) =>
            view[c][t] \in {CacheAt(r)[t], CacheAt(p)[t]}
      <4>1. preamble[c][t] = NoBook
        BY <1>1 DEF NoBooks
      <4> QED BY <3>1, <4>1 DEF ReplicaAt
    <3> DEFINE r2 == IF r = p THEN p + 1 ELSE r
    <3>3. r2 \in p + 1..n
      BY <1>1, <1>2
    <3>4. (/\ CacheAt(r2)[t] # NoBook /\ t \notin MixedAt(r2)
           /\ NoReset(p + 1, r2, t)) =>
            view'[c][t] \in {CacheAt(r2)[t], CacheAt(p + 1)[t]}
      <4> HIDE DEF p
      <4>1. LET g == log[p + 1].frame
            IN  (/\ CacheAt(r2)[t] # NoBook /\ t \notin MixedAt(r2)
                 /\ NoReset(p + 1, r2, t)) =>
                  ClientAfter(view[c][t], g, t)
                    \in {CacheAt(r2)[t], CacheAt(p + 1)[t]}
        BY <1>2, <2>1, <3>2, ForwardBook
      <4> QED BY <1>2, <2>1, <4>1
    <3> HIDE DEF r2
    <3> QED BY <2>2, <3>3, <3>4
  <2>4. CASE t \in dirty[c]
    <3>1. Resets(f, t)
      BY <1>3, <2>4
    <3>2. /\ p + 1 \in 0..n /\ p \in 0..n /\ p + 1 \in p + 1..n
          /\ p + 1 - 1 = p /\ p + 1 \in 1..n
      BY <1>1, <1>2
    <3>3. view'[c][t] = AfterFrame(view[c][t], f, t)
      BY <1>4, <2>1, <3>1, ClientAfterCases
    <3>4. CacheAt(p)[t] \in Cached
      BY <3>2, LogFacts DEF Cache
    <3>5. AfterFrame(view[c][t], f, t) = AfterFrame(CacheAt(p)[t], f, t)
      BY <1>4, <2>1, <3>1, <3>4, AfterReset
    <3>6. CacheAt(p + 1)[t] # NoBook => view'[c][t] = CacheAt(p + 1)[t]
      BY <1>2, <3>2, <3>3, <3>5 DEF LogInv, ChainInv
    <3> QED BY <2>2, <3>2, <3>6
  <2> QED BY <2>3, <2>4
<1>6. pos'[c] <= n + 1 /\ pos'[c] - 1 = p + 1
  BY <1>1, <1>2, <1>3
<1> QED BY <1>3, <1>5, <1>6 DEF ClientOK

\* Every step of a connection keeps the invariant.
LEMMA ConnectionInv ==
  ASSUME ProxyInv, NEW c \in Clients, ProxyStep(c) \/ ClientStep(c)
  PROVE  SessionInv' /\ LogInv' /\ ClientInv'
<1>1. TypeOK /\ SessionInv /\ LogInv /\ ClientOK(c)
  BY DEF ProxyInv, LogInv, ClientInv
<1>2. /\ feedVars' = feedVars /\ log' = log
      /\ books' = books /\ sources' = sources
  BY ConnectionFrame DEF feedVars
<1>3. SessionInv'
  BY <1>1, <1>2 DEF SessionInv, CacheWithinSession, feedVars, subVars
<1>4. LogInv'
  BY <1>1, <1>2 DEF LogInv, ChainInv, OrderInv, NoReset, CacheAt, MixedAt, Mixed
<1>5. ASSUME NEW d \in Clients, d # c PROVE ClientOK(d)'
  <2>1. /\ ClientOK(d)
        /\ pc \in [Clients -> {"idle", "subscribed", "pumping", "closed"}]
        /\ pos \in [Clients -> Nat \ {0}]
        /\ sending \in [Clients -> {"nothing", "frame", "notice", "close"}]
        /\ preamble \in [Clients -> Cache] /\ view \in [Clients -> Cache]
        /\ dirty \in [Clients -> SUBSET Tickers]
    BY <1>1 DEF ProxyInv, ClientInv, TypeOK
  <2>2. /\ pc'[d] = pc[d] /\ pos'[d] = pos[d] /\ sending'[d] = sending[d]
        /\ preamble'[d] = preamble[d]
        /\ view'[d] = view[d] /\ dirty'[d] = dirty[d]
    BY <1>5, <2>1
       DEF ProxyStep, ClientStep, Subscribe, ReadCache, SendSnapshot, Receive,
           Forward, Lag, SendNotice, ServerClose, SendClose, ClientGone,
           Disconnect
  <2> QED BY <1>2, <2>1, <2>2, OtherClient
<1>6. ClientOK(c)'
  <2>1. CASE Subscribe(c)
    <3>1. /\ log' = log /\ pos'[c] = Len(log) + 1 /\ pc'[c] = "subscribed"
          /\ sending' = sending /\ sending[c] = "nothing"
      BY <1>1, <2>1 DEF Subscribe, TypeOK, ClientOK
    <3> QED BY <1>1, <3>1, LogFacts DEF ClientOK
  <2>2. CASE ReadCache(c)
    BY <1>1, <2>2, ReadCacheInv
  <2>3. ASSUME NEW t \in Tickers, SendSnapshot(c, t) PROVE ClientOK(c)'
    BY <1>1, <2>3, SendSnapshotInv
  <2>4. CASE Receive(c) \/ ServerClose(c)
    BY <1>1, <2>4, TakeInv
  <2>5. CASE Forward(c)
    BY <1>1, <2>5, ForwardInv
  <2>6. CASE Lag(c)
    BY <1>1, <2>6, LagInv
  <2>7. CASE SendNotice(c)
    BY <1>1, <2>7, SendNoticeInv
  <2>8. CASE SendClose(c) \/ ClientGone(c)
    BY <1>1, <2>8, DisconnectInv DEF SendClose, ClientGone
  <2> QED
    BY <2>1, <2>2, <2>3, <2>4, <2>5, <2>6, <2>7, <2>8 DEF ProxyStep, ClientStep
<1>7. ClientInv'
  BY <1>5, <1>6 DEF ClientInv
<1> QED BY <1>3, <1>4, <1>7

\* The invariant holds at the start.
LEMMA InitInv == Init => ProxyInv
<1> SUFFICES ASSUME Init PROVE ProxyInv
  OBVIOUS
<1>1. TypeOK
  BY InitType
<1>2. /\ log = <<>> /\ Len(log) = 0 /\ books = NoBooks /\ link = "down"
      /\ made = 0
      /\ \A s \in Sids : served[s] = {} /\ wire[s] = <<>>
      /\ \A c \in Clients : pos[c] = 1 /\ pc[c] = "idle" /\ sending[c] = "nothing"
  BY DEF Init, FeedInit
<1>3. SessionInv
  BY <1>2 DEF SessionInv, CacheWithinSession
<1>4. ChainInv
  BY <1>2 DEF ChainInv, CacheAt, NoBooks
<1>5. OrderInv
  BY <1>2 DEF OrderInv
<1>6. ClientInv
  BY <1>2 DEF ClientInv, ClientOK
<1> QED BY <1>1, <1>3, <1>4, <1>5, <1>6 DEF ProxyInv

\* Every step keeps the invariant.
LEMMA NextInv == ProxyInv /\ [Next]_vars => ProxyInv'
<1> SUFFICES ASSUME ProxyInv, [Next]_vars PROVE ProxyInv'
  OBVIOUS
<1>1. TypeOK /\ SessionInv /\ LogInv /\ ClientInv
  BY DEF ProxyInv, LogInv
<1>2. ASSUME NEW s \in Sids, BroadcastFrame(s)
      PROVE  ProxyInv'
  <2>1. SessionInv'
    BY <1>1, <1>2, BroadcastSession DEF BroadcastFrame, TypeOK
  <2>2. TypeOK' /\ LogInv' /\ ClientInv'
    BY <1>1, <1>2, BroadcastType, BroadcastLogInv, BroadcastClientInv
  <2> QED BY <2>1, <2>2 DEF ProxyInv, LogInv
<1>3. CASE FeedStep
  <2>1. SessionInv' /\ Forgets
    BY <1>1, <1>3, SilentSession DEF FeedStep, TypeOK
  <2>2. LogInv' /\ ClientInv'
    BY <1>1, <1>3, <2>1, ForgetInv DEF FeedStep
  <2>3. TypeOK'
    BY <1>1, <1>3, SilentStepType DEF FeedStep, TypeOK, clientVars
  <2> QED BY <2>1, <2>2, <2>3 DEF ProxyInv, LogInv
<1>4. ASSUME NEW c \in Clients, ProxyStep(c) \/ ClientStep(c)
      PROVE  ProxyInv'
  <2>1. TypeOK'
    BY <1>1, <1>4, ConnectionType DEF ClientInv, ClientOK
  <2> QED BY <1>4, <2>1, ConnectionInv DEF ProxyInv, LogInv
<1>5. CASE UNCHANGED vars
  <2>1. /\ UNCHANGED <<log, clientVars>> /\ Forgets
        /\ UNCHANGED feedVars
    BY <1>5 DEF vars, feedVars, Forgets, Mixed
  <2>2. LogInv' /\ ClientInv'
    BY <1>1, <2>1, ForgetInv
  <2>3. SessionInv'
    BY <1>1, <2>1 DEF SessionInv, CacheWithinSession, feedVars, subVars
  <2>4. TypeOK'
    BY <1>1, <2>1 DEF feedVars, subVars, clientVars, TypeOK, FeedTypeOK
  <2> QED BY <2>2, <2>3, <2>4 DEF ProxyInv, LogInv
<1> QED BY <1>2, <1>3, <1>4, <1>5 DEF Next

(***************************************************************************)
(* Every variable keeps its type, whatever the feed, the exchange and the  *)
(* clients do (feeds/task.rs, controllers/ws.rs).  No book, cached, in     *)
(* flight or a client's, ever holds a size below zero.                     *)
(***************************************************************************)
THEOREM TypeCorrect == Spec => []TypeOK
<1>1. Spec => []ProxyInv
  BY InitInv, NextInv, PTL DEF Spec
<1>2. ProxyInv => TypeOK
  BY DEF ProxyInv
<1> QED BY <1>1, <1>2, PTL

\* A drained client's place is the end of the log, where only one book is left.
LEMMA InvMatches == ProxyInv => ReplayMatchesCache
<1> SUFFICES ASSUME ProxyInv, NEW c \in Clients, Drained(c),
                    NEW t \in Tickers \ (dirty[c] \cup Mixed), books[t] # NoBook
             PROVE  view[c][t] = books[t]
  BY DEF ReplayMatchesCache
<1>1. /\ pc[c] = "pumping" /\ preamble[c][t] = NoBook
      /\ sending[c] = "nothing"
      /\ pos[c] = Len(log) + 1 /\ Len(log) \in Nat
  BY LogFacts DEF Drained, Awaiting, NoBooks, ProxyInv
<1>2. PICK r \in pos[c] - 1..Len(log) : ReplicaAt(c, t, r)
  BY <1>1 DEF ProxyInv, ClientInv, ClientOK
<1>3. r = Len(log) /\ pos[c] - 1 = r
  BY <1>1, <1>2
<1>4. CacheAt(r) = books /\ t \notin MixedAt(r) /\ NoReset(pos[c] - 1, r, t)
  BY <1>1, <1>3 DEF CacheAt, MixedAt, NoReset
<1>5. view[c][t] \in {CacheAt(r)[t], CacheAt(pos[c] - 1)[t]}
  BY <1>1, <1>2, <1>4 DEF ReplicaAt
<1> QED BY <1>3, <1>4, <1>5

(***************************************************************************)
(* A client that has been sent everything holds the cached book of every   *)
(* cached market that one subscription fed and that it was not told it may *)
(* have missed frames of, however many subscriptions and sessions there    *)
(* are (controllers/ws.rs:36-95 with feeds/task.rs:325-379).               *)
(***************************************************************************)
THEOREM ProxyCorrect == Spec => []ReplayMatchesCache
<1>1. Spec => []ProxyInv
  BY InitInv, NextInv, PTL DEF Spec
<1> QED BY <1>1, InvMatches, PTL

(***************************************************************************)
(* While a session is up, every cached book carries a number one of its    *)
(* own subscriptions has sent in this session: none is left over from an   *)
(* earlier one, whatever subscribed again (feeds/task.rs:135-136, 328-346).*)
(***************************************************************************)
THEOREM CacheSessionCorrect == Spec => []CacheWithinSession
<1>1. Spec => []ProxyInv
  BY InitInv, NextInv, PTL DEF Spec
<1>2. ProxyInv => CacheWithinSession
  BY DEF ProxyInv, SessionInv
<1> QED BY <1>1, <1>2, PTL

-----------------------------------------------------------------------------
(***************************************************************************)
(* The cached books are the exchange's.                                    *)
(*                                                                         *)
(* A cached book lags the exchange by the frames on the wire, so what can  *)
(* be said of it in every state is what it will be once they are read:     *)
(* provided none is missing, the exchange's book.  A market that one       *)
(* subscription feeds is changed by the frames of that wire alone.         *)
(***************************************************************************)

\* Of n frames w on the wire, when u numbers were given out and r was the last
\* one read: each has at most the number it has when no frame after it was lost,
\* and what has been read is before all of them.
SlotsOf(n, u, r, w) ==
  /\ r <= u - n
  /\ \A i \in 1..n : w[i].seq <= u - n + i

\* No gap between here and the exchange; the first number read starts anywhere.
WholeOf(n, u, r, w) ==
  /\ \A i \in 1..n : w[i].seq = u - n + i
  /\ r # 0 => r = u - n

Slots(s) == SlotsOf(Len(wire[s]), upSeq[s], lastSeq[s], wire[s])
Whole(s) == WholeOf(Len(wire[s]), upSeq[s], lastSeq[s], wire[s])

\* The cached book of t, where nothing unreadable has put it in doubt, and what
\* handle_text makes of that.
Sound(t) == IF t \in spoiled THEN NoBook ELSE books[t]

SoundAfter(b, f, t) ==
  IF ~f.parses /\ f.ticker = t THEN NoBook ELSE AfterFrame(b, f, t)

\* b is what the book of t goes through as the wire of s is read.
Replay(s, t, b) ==
  /\ b \in [0..Len(wire[s]) -> Cached]
  /\ b[0] = Sound(t)
  /\ \A i \in 1..Len(wire[s]) : b[i] = SoundAfter(b[i - 1], wire[s][i], t)

Agrees(s, t, book) ==
  (Whole(s) /\ t \in served[s] /\ book # NoBook) => book.size = exch[t]

Tracks(s, t) ==
  sources[t] = {s} =>
    \E b \in [0..Len(wire[s]) -> Cached] :
      Replay(s, t, b) /\ Agrees(s, t, b[Len(wire[s])])

(***************************************************************************)
(* The inductive invariant of the feed.                                    *)
(***************************************************************************)
FeedInv ==
  /\ FeedTypeOK
  /\ SessionInv
  /\ \A s \in Sids : Slots(s)
  /\ \A s \in Sids, t \in Tickers : Tracks(s, t)

\* What is on the wire, by its type.
LEMMA WireFacts ==
  ASSUME FeedTypeOK, NEW s \in Sids
  PROVE  /\ wire[s] \in Seq(Frame)
         /\ Len(wire[s]) \in Nat /\ upSeq[s] \in Nat /\ lastSeq[s] \in Nat
         /\ \A i \in 1..Len(wire[s]) :
              wire[s][i] \in Frame /\ wire[s][i].seq \in Nat \ {0}
<1>1. wire[s] \in Seq(Frame) /\ upSeq[s] \in Nat /\ lastSeq[s] \in Nat
  BY DEF FeedTypeOK
<1>2. Len(wire[s]) \in Nat /\ \A i \in 1..Len(wire[s]) : wire[s][i] \in Frame
  BY <1>1
<1> QED BY <1>1, <1>2 DEF Frame

\* A cached book, in doubt or not, and what a frame makes of one.
LEMMA SoundTypes ==
  ASSUME FeedTypeOK, NEW t \in Tickers
  PROVE  /\ Sound(t) \in Cached
         /\ \A b \in Cached, f \in Frame :
              /\ SoundAfter(b, f, t) \in Cached
              /\ f.ticker # t => SoundAfter(b, f, t) = b
              /\ Resets(f, t) =>
                   SoundAfter(b, f, t) = AfterFrame(NoBook, f, t)
              /\ ~Resets(f, t) => SoundAfter(NoBook, f, t) = NoBook
<1>1. NoBook \in Cached
  BY DEF Cached
<1>2. Sound(t) \in Cached
  BY <1>1 DEF Sound, FeedTypeOK, Cache
<1>3. ASSUME NEW b \in Cached, NEW f \in Frame
      PROVE  /\ SoundAfter(b, f, t) \in Cached
             /\ f.ticker # t => SoundAfter(b, f, t) = b
             /\ Resets(f, t) => SoundAfter(b, f, t) = AfterFrame(NoBook, f, t)
             /\ ~Resets(f, t) => SoundAfter(NoBook, f, t) = NoBook
  <2>1. SoundAfter(b, f, t) \in Cached
    BY <1>1, AfterFrameType DEF SoundAfter
  <2>2. f.ticker # t => SoundAfter(b, f, t) = b
    BY DEF SoundAfter, AfterFrame
  <2>3. ASSUME Resets(f, t)
        PROVE  SoundAfter(b, f, t) = AfterFrame(NoBook, f, t)
    BY <1>1, <2>3, AfterReset DEF SoundAfter, Resets
  <2>4. ~Resets(f, t) => SoundAfter(NoBook, f, t) = NoBook
    BY <1>1, AfterOther DEF SoundAfter
  <2> QED BY <2>1, <2>2, <2>3, <2>4
<1> QED BY <1>2, <1>3

\* A number that is lost leaves a gap, unless no frame was read or sent yet ...
LEMMA LostNumber ==
  ASSUME NEW n \in Nat, NEW u \in Nat, NEW r \in Nat, NEW w,
         \A i \in 1..n : w[i].seq \in Nat, SlotsOf(n, u, r, w)
  PROVE  /\ SlotsOf(n, u + 1, r, w)
         /\ WholeOf(n, u + 1, r, w) => n = 0 /\ r = 0
<1>1. r <= u - n
  BY DEF SlotsOf
<1>2. ASSUME NEW i \in 1..n
      PROVE  w[i].seq <= u + 1 - n + i /\ w[i].seq # u + 1 - n + i
  <2>1. w[i].seq \in Nat /\ w[i].seq <= u - n + i
    BY DEF SlotsOf
  <2> QED BY <2>1
<1>3. r <= u + 1 - n /\ r # u + 1 - n
  BY <1>1
<1>4. ASSUME WholeOf(n, u + 1, r, w) PROVE n = 0 /\ r = 0
  <2>1. r = 0 /\ \A i \in 1..n : FALSE
    BY <1>2, <1>3, <1>4 DEF WholeOf
  <2> QED BY <2>1
<1> QED BY <1>2, <1>3, <1>4 DEF SlotsOf

\* ... one that is sent leaves no new gap and closes none ...
LEMMA SentNumber ==
  ASSUME NEW n \in Nat, NEW u \in Nat, NEW r \in Nat, NEW w, NEW v,
         \A i \in 1..n : w[i].seq \in Nat, SlotsOf(n, u, r, w),
         v[n + 1].seq = u + 1, \A i \in 1..n : v[i] = w[i]
  PROVE  /\ SlotsOf(n + 1, u + 1, r, v)
         /\ WholeOf(n + 1, u + 1, r, v) => WholeOf(n, u, r, w)
<1>1. r <= u - n /\ r <= u + 1 - (n + 1)
  BY DEF SlotsOf
<1>2. ASSUME NEW i \in 1..n
      PROVE  /\ i \in 1..n + 1
             /\ v[i].seq <= u + 1 - (n + 1) + i
             /\ v[i].seq = u + 1 - (n + 1) + i => w[i].seq = u - n + i
  <2>1. w[i].seq \in Nat /\ w[i].seq <= u - n + i /\ v[i] = w[i]
    BY DEF SlotsOf
  <2> QED BY <2>1
<1>3. ASSUME NEW i \in 1..n + 1, i \notin 1..n
      PROVE  v[i].seq <= u + 1 - (n + 1) + i
  <2>1. i = n + 1
    BY <1>3
  <2> QED BY <2>1
<1>4. r = u + 1 - (n + 1) => r = u - n
  OBVIOUS
<1>5. SlotsOf(n + 1, u + 1, r, v)
  BY <1>1, <1>2, <1>3 DEF SlotsOf
<1>6. WholeOf(n + 1, u + 1, r, v) => WholeOf(n, u, r, w)
  BY <1>2, <1>4 DEF WholeOf
<1> QED BY <1>5, <1>6

\* ... and so does reading one that is not a gap.
LEMMA ReadNumber ==
  ASSUME NEW n \in Nat \ {0}, NEW u \in Nat, NEW r \in Nat, NEW w, NEW v,
         \A i \in 1..n : w[i].seq \in Nat, SlotsOf(n, u, r, w),
         r # 0 => w[1].seq = r + 1,
         \A i \in 1..n - 1 : v[i] = w[i + 1]
  PROVE  /\ SlotsOf(n - 1, u, w[1].seq, v)
         /\ WholeOf(n - 1, u, w[1].seq, v) /\ w[1].seq # 0 =>
              WholeOf(n, u, r, w)
<1>1. 1 \in 1..n /\ w[1].seq \in Nat /\ w[1].seq <= u - n + 1
  BY DEF SlotsOf
<1>2. w[1].seq <= u - (n - 1)
  BY <1>1
<1>3. ASSUME NEW i \in 1..n - 1
      PROVE  v[i].seq <= u - (n - 1) + i
  <2>1. /\ i + 1 \in 1..n /\ v[i] = w[i + 1]
        /\ w[i + 1].seq \in Nat /\ w[i + 1].seq <= u - n + (i + 1)
    BY DEF SlotsOf
  <2> QED BY <2>1
<1>4. SlotsOf(n - 1, u, w[1].seq, v)
  BY <1>2, <1>3 DEF SlotsOf
<1>5. ASSUME WholeOf(n - 1, u, w[1].seq, v), w[1].seq # 0
      PROVE  WholeOf(n, u, r, w)
  <2>1. w[1].seq = u - (n - 1)
    BY <1>5 DEF WholeOf
  <2>2. ASSUME NEW i \in 1..n PROVE w[i].seq = u - n + i
    <3>1. CASE i = 1
      BY <2>1, <3>1
    <3>2. CASE i # 1
      <4>1. i - 1 \in 1..n - 1 /\ (i - 1) + 1 = i
        BY <3>2
      <4>2. v[i - 1].seq = u - (n - 1) + (i - 1) /\ v[i - 1] = w[i]
        BY <1>5, <4>1 DEF WholeOf
      <4> QED BY <4>2
    <3> QED BY <3>1, <3>2
  <2>3. r # 0 => r = u - n
    BY <2>1
  <2> QED BY <2>2, <2>3 DEF WholeOf
<1> QED BY <1>4, <1>5

\* Frames that name other markets leave the book of t as it is.
LEMMA ReplayOfOthers ==
  ASSUME FeedTypeOK, NEW s \in Sids, NEW t \in Tickers,
         \A i \in 1..Len(wire[s]) : wire[s][i].ticker # t
  PROVE  \E b \in [0..Len(wire[s]) -> Cached] : Replay(s, t, b)
<1> PICK x \in Cached : x = Sound(t)
  BY SoundTypes
<1> PICK n \in Nat : n = Len(wire[s])
  BY WireFacts
<1> PICK b : b = [i \in 0..n |-> x]
  OBVIOUS
<1>1. b \in [0..n -> Cached] /\ \A i \in 0..n : b[i] = x
  OBVIOUS
<1>2. ASSUME NEW i \in 1..n PROVE b[i] = SoundAfter(b[i - 1], wire[s][i], t)
  <2>1. b[i] = x /\ b[i - 1] = x
    BY <1>1
  <2>2. wire[s][i] \in Frame /\ wire[s][i].ticker # t
    BY WireFacts
  <2> QED BY <2>1, <2>2, SoundTypes
<1>3. Replay(s, t, b)
  <2>1. b \in [0..Len(wire[s]) -> Cached]
    BY <1>1
  <2>2. b[0] = Sound(t)
    BY <1>1
  <2>3. \A i \in 1..Len(wire[s]) : b[i] = SoundAfter(b[i - 1], wire[s][i], t)
    BY <1>2
  <2> QED BY <2>1, <2>2, <2>3 DEF Replay
<1> QED BY <1>1, <1>3

\* A frame put on the wire lengthens the replay by what it makes of its end.
LEMMA ReplayOfMore ==
  ASSUME FeedTypeOK, NEW s \in Sids, NEW t \in Tickers,
         NEW f \in Frame, wire'[s] = Append(wire[s], f),
         books' = books, spoiled' = spoiled,
         NEW b, Replay(s, t, b),
         NEW x, x = SoundAfter(b[Len(wire[s])], f, t), Agrees(s, t, x)'
  PROVE  Tracks(s, t)'
<1> PICK n \in Nat : n = Len(wire[s])
  BY WireFacts
<1>1. b \in [0..n -> Cached] /\ b[n] \in Cached
  BY DEF Replay
<1>8. x \in Cached
  BY <1>1, SoundTypes
<1> PICK c : c = [i \in 0..n + 1 |-> IF i <= n THEN b[i] ELSE x]
  OBVIOUS
<1>2. /\ Len(wire'[s]) = n + 1
      /\ \A i \in 1..n : wire'[s][i] = wire[s][i]
      /\ wire'[s][n + 1] = f
  BY WireFacts
<1>3. /\ c \in [0..n + 1 -> Cached]
      /\ \A i \in 0..n : c[i] = b[i]
      /\ c[n + 1] = x
  BY <1>1, <1>8
<1>4. ASSUME NEW i \in 1..n + 1
      PROVE  c[i] = SoundAfter(c[i - 1], wire'[s][i], t)
  <2>1. CASE i = n + 1
    <3>1. i - 1 = n /\ n \in 0..n
      BY <2>1
    <3> QED BY <1>2, <1>3, <2>1, <3>1
  <2>2. CASE i # n + 1
    <3>1. i \in 1..n /\ i - 1 \in 0..n /\ i \in 0..n
      BY <2>2
    <3>2. b[i] = SoundAfter(b[i - 1], wire[s][i], t)
      BY <3>1 DEF Replay
    <3> QED BY <1>2, <1>3, <3>1, <3>2
  <2> QED BY <2>1, <2>2
<1>5. c[0] = Sound(t)'
  BY <1>3 DEF Replay, Sound
<1>6. Replay(s, t, c)'
  BY <1>2, <1>3, <1>4, <1>5 DEF Replay
<1>7. Agrees(s, t, c[n + 1])'
  BY <1>3 DEF Agrees
<1> QED BY <1>2, <1>3, <1>6, <1>7 DEF Tracks

\* A book taken out of the cache stays out of the replay until a snapshot.
LEMMA ReplayForgets ==
  ASSUME FeedTypeOK, NEW s \in Sids, NEW t \in Tickers, Tracks(s, t),
         UNCHANGED <<exch, served, upSeq, wire, lastSeq, spoiled, sources>>,
         books'[t] \in {books[t], NoBook}
  PROVE  Tracks(s, t)'
<1> SUFFICES ASSUME sources[t] = {s}
             PROVE  \E c \in [0..Len(wire[s]) -> Cached] :
                      Replay(s, t, c)' /\ Agrees(s, t, c[Len(wire[s])])'
  BY DEF Tracks
<1> PICK n \in Nat : n = Len(wire[s])
  BY WireFacts
<1>1. PICK b \in [0..n -> Cached] : Replay(s, t, b) /\ Agrees(s, t, b[n])
  BY DEF Tracks
<1>2. CASE Sound(t)' = Sound(t)
  BY <1>1, <1>2 DEF Replay, Agrees, Whole
<1>3. CASE Sound(t)' = NoBook
  <2> DEFINE Fresh(i) == \A j \in 1..i : ~Resets(wire[s][j], t)
  <2> PICK c : c = [i \in 0..n |-> IF Fresh(i) THEN NoBook ELSE b[i]]
    OBVIOUS
  <2>1. \A i \in 0..n : c[i] = IF Fresh(i) THEN NoBook ELSE b[i]
    OBVIOUS
  <2>2. c \in [0..n -> Cached]
    BY DEF Cached
  <2>3. c[0] = Sound(t)'
    <3>1. Fresh(0) /\ 0 \in 0..n
      OBVIOUS
    <3> QED BY <1>3, <2>1, <3>1
  <2>4. ASSUME NEW i \in 1..n PROVE c[i] = SoundAfter(c[i - 1], wire[s][i], t)
    <3>1. i \in 0..n /\ i - 1 \in 0..n /\ 1..i = 1..i - 1 \cup {i}
      OBVIOUS
    <3>2. /\ b[i] = SoundAfter(b[i - 1], wire[s][i], t)
          /\ wire[s][i] \in Frame /\ b[i - 1] \in Cached
      BY <1>1, <3>1, WireFacts DEF Replay
    <3>3. NoBook \in Cached /\ c[i - 1] \in Cached
      BY <2>2, <3>1 DEF Cached
    <3>4. CASE Resets(wire[s][i], t)
      <4>1. ~Fresh(i)
        BY <3>1, <3>4
      <4>2. c[i] = b[i]
        BY <2>1, <3>1, <4>1
      <4> HIDE DEF Fresh
      <4> QED BY <3>2, <3>3, <3>4, <4>2, SoundTypes
    <3>5. CASE ~Resets(wire[s][i], t)
      <4>1. Fresh(i) <=> Fresh(i - 1)
        BY <3>1, <3>5
      <4> HIDE DEF Fresh
      <4>2. CASE Fresh(i)
        <5>1. c[i] = NoBook /\ c[i - 1] = NoBook
          BY <2>1, <3>1, <4>1, <4>2
        <5> QED BY <3>2, <3>3, <3>5, <5>1, SoundTypes
      <4>3. CASE ~Fresh(i)
        <5>1. c[i] = b[i] /\ c[i - 1] = b[i - 1]
          BY <2>1, <3>1, <4>1, <4>3
        <5> QED BY <3>2, <5>1
      <4> QED BY <4>2, <4>3
    <3> QED BY <3>4, <3>5
  <2>5. Replay(s, t, c)'
    BY <2>2, <2>3, <2>4 DEF Replay
  <2>6. c[n] \in {b[n], NoBook}
    BY <2>1
  <2>7. Agrees(s, t, c[n])'
    BY <1>1, <2>6 DEF Agrees, Whole
  <2> QED BY <2>2, <2>5, <2>7
<1> QED BY <1>2, <1>3 DEF Sound

\* What a step changes nothing of that concerns t on s leaves it tracked.
LEMMA StaysTracked ==
  ASSUME NEW s \in Sids, NEW t \in Tickers, Tracks(s, t),
         sources'[t] = {s} => sources[t] = {s},
         wire'[s] = wire[s], upSeq'[s] = upSeq[s], lastSeq'[s] = lastSeq[s],
         Sound(t)' = Sound(t),
         t \in served'[s] => t \in served[s] /\ exch'[t] = exch[t]
  PROVE  Tracks(s, t)'
<1> SUFFICES ASSUME sources'[t] = {s}
             PROVE  \E b \in [0..Len(wire[s]) -> Cached] :
                      Replay(s, t, b)' /\ Agrees(s, t, b[Len(wire[s])])'
  BY DEF Tracks
<1>1. PICK b \in [0..Len(wire[s]) -> Cached] :
        Replay(s, t, b) /\ Agrees(s, t, b[Len(wire[s])])
  BY DEF Tracks
<1>2. Replay(s, t, b)'
  BY <1>1 DEF Replay
<1>3. Agrees(s, t, b[Len(wire[s])])'
  BY <1>1 DEF Agrees, Whole
<1> QED BY <1>2, <1>3

\* A number given out on s keeps the numbers in order.
LEMMA SlotsOfMore ==
  ASSUME FeedTypeOK, NEW s \in Sids, Slots(s),
         upSeq'[s] = upSeq[s] + 1, lastSeq' = lastSeq,
         \/ wire'[s] = wire[s]
         \/ \E f \in Frame : f.seq = upSeq[s] + 1 /\ wire'[s] = Append(wire[s], f)
  PROVE  /\ Slots(s)'
         /\ (Whole(s)' /\ wire'[s] = wire[s]) => wire[s] = <<>> /\ lastSeq[s] = 0
         /\ (Whole(s)' /\ wire'[s] # wire[s]) => Whole(s)
<1> PICK n \in Nat : n = Len(wire[s])
  BY WireFacts
<1>1. /\ upSeq[s] \in Nat /\ lastSeq[s] \in Nat
      /\ \A i \in 1..n : wire[s][i].seq \in Nat
      /\ SlotsOf(n, upSeq[s], lastSeq[s], wire[s])
  BY WireFacts DEF Slots
<1>2. ASSUME wire'[s] = wire[s]
      PROVE  Slots(s)' /\ (Whole(s)' => wire[s] = <<>> /\ lastSeq[s] = 0)
  <2>1. /\ SlotsOf(n, upSeq[s] + 1, lastSeq[s], wire[s])
        /\ WholeOf(n, upSeq[s] + 1, lastSeq[s], wire[s]) => n = 0 /\ lastSeq[s] = 0
    BY <1>1, LostNumber, Zenon
  <2>2. Slots(s)' /\ (Whole(s)' => n = 0 /\ lastSeq[s] = 0)
    BY <1>2, <2>1 DEF Slots, Whole
  <2> QED BY <2>2, WireFacts
<1>3. ASSUME NEW f \in Frame, f.seq = upSeq[s] + 1, wire'[s] = Append(wire[s], f)
      PROVE  /\ Slots(s)' /\ (Whole(s)' => Whole(s))
             /\ wire'[s] # wire[s]
  <2> PICK v : v = wire'[s]
    OBVIOUS
  <2>1. Len(v) = n + 1 /\ v[n + 1] = f /\ \A i \in 1..n : v[i] = wire[s][i]
    BY <1>3, WireFacts
  <2>2. v[n + 1].seq = upSeq[s] + 1
    BY <1>3, <2>1
  <2>3. /\ SlotsOf(n + 1, upSeq[s] + 1, lastSeq[s], v)
        /\ WholeOf(n + 1, upSeq[s] + 1, lastSeq[s], v) =>
             WholeOf(n, upSeq[s], lastSeq[s], wire[s])
    BY <1>1, <2>1, <2>2, SentNumber, Zenon
  <2>4. Slots(s)' /\ (Whole(s)' => Whole(s))
    BY <2>1, <2>3 DEF Slots, Whole
  <2>5. Len(wire'[s]) # Len(wire[s])
    BY <2>1
  <2> QED BY <2>4, <2>5
<1> QED BY <1>2, <1>3

\* The exchange numbers a frame on s that keeps the end of the replay its book.
LEMMA EmitTracks ==
  ASSUME FeedTypeOK, SessionInv', NEW s \in Sids, NEW t \in Tickers, Slots(s),
         NEW b, Replay(s, t, b), sources'[t] = {s}, link' = "up",
         UNCHANGED <<books, spoiled, lastSeq>>,
         upSeq'[s] = upSeq[s] + 1,
         \/ wire'[s] = wire[s]
         \/ \E f \in Frame :
              /\ f.seq = upSeq[s] + 1
              /\ wire'[s] = Append(wire[s], f)
              /\ LET book == SoundAfter(b[Len(wire[s])], f, t)
                 IN  (Whole(s) /\ t \in served'[s] /\ book # NoBook) =>
                       book.size = exch'[t]
  PROVE  Tracks(s, t)'
<1>1. CASE wire'[s] = wire[s]
  <2>1. Whole(s)' => wire[s] = <<>> /\ lastSeq[s] = 0
    BY <1>1, SlotsOfMore
  <2>2. Replay(s, t, b)'
    BY <1>1 DEF Replay, Sound
  <2>3. ASSUME Whole(s)' PROVE b[Len(wire[s])] = NoBook
    <3>1. wire[s] = <<>> /\ lastSeq[s] = 0
      BY <2>1, <2>3
    <3>2. books[t] = NoBook
      BY <3>1 DEF SessionInv, CacheWithinSession
    <3> QED BY <3>1, <3>2 DEF Replay, Sound
  <2>4. Agrees(s, t, b[Len(wire[s])])'
    BY <1>1, <2>3 DEF Agrees
  <2>5. b \in [0..Len(wire'[s]) -> Cached]
    BY <2>2 DEF Replay
  <2> QED BY <1>1, <2>2, <2>4, <2>5 DEF Tracks
<1>2. ASSUME NEW f \in Frame, f.seq = upSeq[s] + 1,
             wire'[s] = Append(wire[s], f),
             LET book == SoundAfter(b[Len(wire[s])], f, t)
             IN  (Whole(s) /\ t \in served'[s] /\ book # NoBook) =>
                   book.size = exch'[t]
      PROVE  Tracks(s, t)'
  <2>1. Whole(s)' => Whole(s)
    <3>1. wire'[s] # wire[s]
      BY <1>2, WireFacts
    <3> QED BY <1>2, <3>1, SlotsOfMore
  <2>2. PICK x : x = SoundAfter(b[Len(wire[s])], f, t)
    OBVIOUS
  <2>3. (Whole(s)' /\ t \in served'[s] /\ x # NoBook) => x.size = exch'[t]
    BY <1>2, <2>1, <2>2
  <2>4. Agrees(s, t, x)'
    BY <2>3 DEF Agrees
  <2>5. books' = books /\ spoiled' = spoiled
    OBVIOUS
  <2> QED BY <1>2, <2>2, <2>4, <2>5, ReplayOfMore
<1> QED BY <1>1, <1>2

\* A trade: the delta makes the same change to a book on every wire it is put on.
LEMMA TradeTracks ==
  ASSUME FeedInv, FeedTypeOK', SessionInv', NEW u \in Tickers, NEW l \in Levels,
         NEW change \in {-1, 1}, Trade(u, l, change), NEW s \in Sids
  PROVE  Slots(s)' /\ \A t \in Tickers : Tracks(s, t)'
<1>1. /\ FeedTypeOK /\ Slots(s) /\ \A t \in Tickers : Tracks(s, t)
      /\ served[s] # {} => link = "up"
  BY DEF FeedInv, SessionInv
<1>2. UNCHANGED <<made, served, link, lastSeq, books, spoiled, sources>>
  BY DEF Trade
<1>3. /\ exch \in [Tickers -> [Levels -> Nat]]
      /\ exch[u][l] + change \in Nat
      /\ exch' = [exch EXCEPT ![u][l] = @ + change]
  BY <1>1, BoundsAssumption DEF Trade, FeedTypeOK, Sizes
<1>4. \A t \in Tickers : t # u => exch'[t] = exch[t]
  BY <1>3
<1> PICK subs : subs = {q \in Sids : u \in served[q]}
  OBVIOUS
<1> PICK msg : msg = [shape |-> "delta", level |-> l, change |-> change]
  OBVIOUS
<1>5. msg \in DeltaMsg
  BY DEF DeltaMsg
<1>6. Emit(subs, "orderbook_delta", u, msg)
  BY DEF Trade
<1>7. CASE u \notin served[s]
  <2>1. upSeq'[s] = upSeq[s] /\ wire'[s] = wire[s]
    BY <1>1, <1>5, <1>6, <1>7, EmitEffect
  <2>2. Slots(s)'
    BY <1>1, <1>2, <2>1 DEF Slots
  <2>3. ASSUME NEW t \in Tickers PROVE Tracks(s, t)'
    <3>1. t \in served'[s] => t \in served[s] /\ exch'[t] = exch[t]
      BY <1>2, <1>4, <1>7
    <3>2. Sound(t)' = Sound(t)
      BY <1>2 DEF Sound
    <3> QED BY <1>1, <1>2, <2>1, <3>1, <3>2, StaysTracked
  <2> QED BY <2>2, <2>3
<1>8. CASE u \in served[s]
  <2>1. /\ upSeq'[s] = upSeq[s] + 1
        /\ \/ wire'[s] = wire[s]
           \/ \E f \in Frame :
                /\ f.typ = "orderbook_delta" /\ f.ticker = u /\ f.msg = msg
                /\ f.seq = upSeq[s] + 1
                /\ wire'[s] = Append(wire[s], f)
    BY <1>1, <1>5, <1>6, <1>8, EmitEffect
  <2>2. Slots(s)'
    BY <1>1, <1>2, <2>1, SlotsOfMore
  <2>3. ASSUME NEW t \in Tickers, sources'[t] = {s} PROVE Tracks(s, t)'
    <3>1. PICK b \in [0..Len(wire[s]) -> Cached] :
            Replay(s, t, b) /\ Agrees(s, t, b[Len(wire[s])])
      BY <1>1, <1>2, <2>3 DEF Tracks
    <3>2. PICK x \in Cached : x = b[Len(wire[s])]
      BY <1>1, WireFacts
    <3>3. ASSUME NEW f \in Frame, f.typ = "orderbook_delta", f.ticker = u,
                 f.msg = msg, Whole(s), t \in served[s],
                 SoundAfter(x, f, t) # NoBook
          PROVE  SoundAfter(x, f, t).size = exch'[t]
      <4>1. x # NoBook => x.size = exch[t]
        BY <3>1, <3>2, <3>3 DEF Agrees
      <4>2. CASE t # u
        BY <1>1, <1>4, <3>3, <4>1, <4>2, SoundTypes
      <4>3. CASE t = u
        <5>1. f.parses /\ x # NoBook
          BY <3>3, <4>3 DEF SoundAfter, AfterFrame
        <5>2. SoundAfter(x, f, t) = ApplyDelta(x, l, change, f.seq)
          BY <3>3, <4>3, <5>1 DEF SoundAfter, AfterFrame, ApplyMsg
        <5>3. Resting(exch[u][l] + change) = exch[u][l] + change
          BY <1>3 DEF Resting
        <5>4. SoundAfter(x, f, t).size = [exch[u] EXCEPT ![l] = Resting(@ + change)]
          BY <4>1, <4>3, <5>1, <5>2 DEF ApplyDelta
        <5>5. exch'[u] = [exch[u] EXCEPT ![l] = @ + change]
          BY <1>3
        <5> QED BY <1>3, <4>3, <5>3, <5>4, <5>5
      <4> QED BY <4>2, <4>3
    <3>4. \/ wire'[s] = wire[s]
          \/ \E f \in Frame :
               /\ f.seq = upSeq[s] + 1
               /\ wire'[s] = Append(wire[s], f)
               /\ LET book == SoundAfter(b[Len(wire[s])], f, t)
                  IN  (Whole(s) /\ t \in served'[s] /\ book # NoBook) =>
                        book.size = exch'[t]
      BY <1>2, <2>1, <3>2, <3>3
    <3> QED BY <1>1, <1>2, <1>8, <2>1, <2>3, <3>1, <3>4, EmitTracks
  <2> QED BY <2>2, <2>3 DEF Tracks
<1> QED BY <1>7, <1>8

\* A market newly served: its snapshot is the exchange's book.
LEMMA ServeTracks ==
  ASSUME FeedInv, FeedTypeOK', SessionInv', NEW r \in Sids, NEW u \in Tickers,
         ServeMarket(r, u), NEW s \in Sids
  PROVE  Slots(s)' /\ \A t \in Tickers : Tracks(s, t)'
<1>1. FeedTypeOK /\ SessionInv /\ Slots(s) /\ \A t \in Tickers : Tracks(s, t)
  BY DEF FeedInv
<1>2. /\ link' = "up" /\ UNCHANGED <<exch, lastSeq, books, spoiled>>
      /\ served' = [served EXCEPT ![r] = @ \cup {u}]
      /\ sources' = [sources EXCEPT ![u] = @ \cup {r}]
  BY DEF ServeMarket
<1>3. /\ exch[u] \in [Levels -> Nat]
      /\ served \in [Sids -> SUBSET Tickers]
      /\ sources \in [Tickers -> SUBSET Sids]
  BY <1>1 DEF FeedTypeOK, Sizes
<1> PICK msg : msg = [shape |-> "snapshot", rows |-> exch[u]]
  OBVIOUS
<1>4. msg \in SnapshotMsg
  <2>1. exch[u] \in [Levels -> Int]
    BY <1>3
  <2> QED BY <2>1 DEF SnapshotMsg
<1>5. Emit({r}, "orderbook_snapshot", u, msg)
  BY DEF ServeMarket
<1>6. CASE s # r
  <2>1. upSeq'[s] = upSeq[s] /\ wire'[s] = wire[s] /\ served'[s] = served[s]
    BY <1>1, <1>2, <1>3, <1>4, <1>5, <1>6, EmitEffect
  <2>2. Slots(s)'
    BY <1>1, <1>2, <2>1 DEF Slots
  <2>3. ASSUME NEW t \in Tickers PROVE Tracks(s, t)'
    <3>1. sources'[t] = {s} => sources[t] = {s}
      BY <1>2, <1>3, <1>6
    <3>2. Sound(t)' = Sound(t)
      BY <1>2 DEF Sound
    <3> QED BY <1>1, <1>2, <2>1, <3>1, <3>2, StaysTracked
  <2> QED BY <2>2, <2>3
<1>7. CASE s = r
  <2>1. /\ upSeq'[s] = upSeq[s] + 1
        /\ \/ wire'[s] = wire[s]
           \/ \E f \in Frame :
                /\ f.typ = "orderbook_snapshot" /\ f.ticker = u /\ f.msg = msg
                /\ f.seq = upSeq[s] + 1
                /\ wire'[s] = Append(wire[s], f)
    BY <1>1, <1>4, <1>5, <1>7, EmitEffect
  <2>2. Slots(s)'
    BY <1>1, <1>2, <2>1, SlotsOfMore
  <2>3. ASSUME NEW t \in Tickers, sources'[t] = {s} PROVE Tracks(s, t)'
    <3>1. sources[t] = {s} \/ (t = u /\ sources[t] = {})
      BY <1>2, <1>3, <1>7, <2>3
    <3>2. PICK b \in [0..Len(wire[s]) -> Cached] :
            /\ Replay(s, t, b)
            /\ t # u => Agrees(s, t, b[Len(wire[s])])
      <4>1. CASE sources[t] = {s}
        BY <1>1, <4>1 DEF Tracks
      <4>2. CASE t = u /\ sources[t] = {}
        <5>1. \A i \in 1..Len(wire[s]) : wire[s][i].ticker # t
          BY <1>1, <4>2 DEF SessionInv
        <5> QED BY <1>1, <4>2, <5>1, ReplayOfOthers
      <4> QED BY <3>1, <4>1, <4>2
    <3>3. PICK x \in Cached : x = b[Len(wire[s])]
      BY <1>1, WireFacts
    <3>4. ASSUME NEW f \in Frame, f.typ = "orderbook_snapshot", f.ticker = u,
                 f.msg = msg, Whole(s), t \in served'[s],
                 SoundAfter(x, f, t) # NoBook
          PROVE  SoundAfter(x, f, t).size = exch'[t]
      <4>1. CASE t # u
        <5>1. t \in served[s]
          BY <1>2, <1>3, <1>7, <3>4, <4>1
        <5>2. SoundAfter(x, f, t) = x
          BY <1>1, <3>4, <4>1, SoundTypes
        <5> QED BY <1>2, <3>2, <3>3, <3>4, <4>1, <5>1, <5>2 DEF Agrees
      <4>2. CASE t = u
        <5>1. f.parses
          BY <3>4, <4>2 DEF SoundAfter
        <5>2. Resets(f, t)
          BY <3>4, <4>2, <5>1 DEF Resets
        <5>3. SoundAfter(x, f, t) = Snapshot(exch[u], f.seq)
          BY <3>4, <4>2, <5>1, <5>2, AfterReset DEF SoundAfter
        <5>4. \A k \in Levels : Resting(exch[u][k]) = exch[u][k]
          BY <1>3 DEF Resting
        <5>5. [k \in Levels |-> Resting(exch[u][k])] = exch[u]
          BY <1>3, <5>4
        <5> QED BY <1>2, <4>2, <5>3, <5>5 DEF Snapshot
      <4> QED BY <4>1, <4>2
    <3>5. \/ wire'[s] = wire[s]
          \/ \E f \in Frame :
               /\ f.seq = upSeq[s] + 1
               /\ wire'[s] = Append(wire[s], f)
               /\ LET book == SoundAfter(b[Len(wire[s])], f, t)
                  IN  (Whole(s) /\ t \in served'[s] /\ book # NoBook) =>
                        book.size = exch'[t]
      BY <2>1, <3>3, <3>4
    <3> QED BY <1>1, <1>2, <2>1, <2>3, <3>2, <3>5, EmitTracks
  <2> QED BY <2>2, <2>3 DEF Tracks
<1> QED BY <1>6, <1>7

\* Reading a frame is the first step of its own wire's replay, and no other
\* replay's.
LEMMA HandleFrameTracks ==
  ASSUME FeedInv, FeedTypeOK', NEW r \in Sids, HandleFrame(r), NEW s \in Sids
  PROVE  Slots(s)' /\ \A t \in Tickers : Tracks(s, t)'
<1> DEFINE f == Head(wire[r])
<1>1. FeedTypeOK /\ SessionInv /\ Slots(s) /\ \A t \in Tickers : Tracks(s, t)
  BY DEF FeedInv
<1>2. /\ f \in Frame /\ r \in sources[f.ticker]
      /\ wire[r] # <<>> /\ ~IsGap(r, f)
      /\ lastSeq' = [lastSeq EXCEPT ![r] = f.seq]
      /\ wire' = [wire EXCEPT ![r] = Tail(@)]
      /\ books' = [t \in Tickers |-> AfterFrame(books[t], f, t)]
      /\ spoiled' = IF ~f.parses THEN spoiled \cup {f.ticker}
                      ELSE {t \in spoiled : ~Resets(f, t)}
      /\ UNCHANGED <<exch, served, upSeq, sources>>
  <2>1. f \in Frame
    BY <1>1, HandleFrameType
  <2>2. r \in sources[f.ticker]
    <3>1. f.ticker \in Tickers
      BY <2>1 DEF Frame
    <3> QED BY <1>1, <3>1, FrameOrder
  <2> QED BY <2>1, <2>2 DEF HandleFrame
<1>3. /\ wire \in [Sids -> Seq(Frame)] /\ lastSeq \in [Sids -> Nat]
      /\ books \in Cache
  BY <1>1 DEF FeedTypeOK
<1>4. ASSUME NEW t \in Tickers
      PROVE  Sound(t)' = SoundAfter(Sound(t), f, t)
  <2>1. /\ books[t] \in Cached /\ NoBook \in Cached
        /\ books'[t] = AfterFrame(books[t], f, t)
    BY <1>2, <1>3 DEF Cache, Cached
  <2>2. CASE ~f.parses
    <3>1. books'[t] = books[t] /\ AfterFrame(NoBook, f, t) = NoBook
      BY <2>1, <2>2 DEF AfterFrame
    <3>2. t \in spoiled' <=> t \in spoiled \/ t = f.ticker
      BY <1>2, <2>2
    <3> QED BY <2>1, <2>2, <3>1, <3>2 DEF Sound, SoundAfter
  <2>3. CASE f.parses /\ Resets(f, t)
    <3>1. t \notin spoiled'
      BY <1>2, <2>3
    <3>2. AfterFrame(NoBook, f, t) = AfterFrame(books[t], f, t)
      BY <1>2, <2>1, <2>3, AfterReset
    <3> QED BY <2>1, <2>3, <3>1, <3>2 DEF Sound, SoundAfter
  <2>4. CASE f.parses /\ ~Resets(f, t)
    <3>1. t \in spoiled' <=> t \in spoiled
      BY <1>2, <2>4
    <3>2. AfterFrame(NoBook, f, t) = NoBook
      BY <1>2, <2>1, <2>4, AfterOther
    <3> QED BY <2>1, <2>4, <3>1, <3>2 DEF Sound, SoundAfter
  <2> QED BY <2>2, <2>3, <2>4
<1>5. CASE s # r
  <2>1. wire'[s] = wire[s] /\ lastSeq'[s] = lastSeq[s] /\ upSeq'[s] = upSeq[s]
    BY <1>2, <1>3, <1>5
  <2>2. Slots(s)'
    BY <1>1, <2>1 DEF Slots
  <2>3. ASSUME NEW t \in Tickers, sources[t] = {s} PROVE Tracks(s, t)'
    <3>1. f.ticker # t
      BY <1>2, <1>5, <2>3
    <3>2. Sound(t)' = Sound(t)
      BY <1>1, <1>2, <1>4, <3>1, SoundTypes
    <3> QED BY <1>1, <1>2, <2>1, <3>2, StaysTracked
  <2> QED BY <1>2, <2>2, <2>3 DEF Tracks
<1>6. CASE s = r
  <2> PICK n \in Nat : n = Len(wire[s])
    BY <1>1, WireFacts
  <2> PICK w : w = wire[s]
    OBVIOUS
  <2> PICK v : v = wire'[s]
    OBVIOUS
  <2>1. /\ n \in Nat \ {0} /\ w[1] = f /\ Len(v) = n - 1
        /\ \A i \in 1..n - 1 : v[i] = w[i + 1]
    <3>1. w \in Seq(Frame) /\ w # <<>> /\ v = Tail(w)
      BY <1>2, <1>3, <1>6
    <3> QED BY <1>6, <3>1
  <2>2. /\ upSeq[s] \in Nat /\ lastSeq[s] \in Nat
        /\ \A i \in 1..n : w[i] \in Frame /\ w[i].seq \in Nat
        /\ f.seq # 0
    BY <1>1, <1>2, WireFacts DEF Frame
  <2>3. lastSeq'[s] = w[1].seq /\ upSeq'[s] = upSeq[s]
    BY <1>2, <1>3, <1>6, <2>1
  <2>4. lastSeq[s] # 0 => w[1].seq = lastSeq[s] + 1
    BY <1>2, <1>6, <2>1 DEF IsGap
  <2>5. SlotsOf(n, upSeq[s], lastSeq[s], w)
    BY <1>1 DEF Slots
  <2>6. /\ SlotsOf(n - 1, upSeq[s], w[1].seq, v)
        /\ WholeOf(n - 1, upSeq[s], w[1].seq, v) /\ w[1].seq # 0 =>
             WholeOf(n, upSeq[s], lastSeq[s], w)
    BY <2>1, <2>2, <2>4, <2>5, ReadNumber
  <2>7. Slots(s)' /\ (Whole(s)' => Whole(s))
    <3>1. w[1].seq # 0
      BY <2>1, <2>2
    <3> QED BY <2>1, <2>3, <2>6, <3>1 DEF Slots, Whole
  <2>8. ASSUME NEW t \in Tickers, sources[t] = {s} PROVE Tracks(s, t)'
    <3>1. PICK b \in [0..n -> Cached] : Replay(s, t, b) /\ Agrees(s, t, b[n])
      BY <1>1, <2>8 DEF Tracks
    <3> PICK c : c = [i \in 0..n - 1 |-> b[i + 1]]
      OBVIOUS
    <3>2. /\ c \in [0..n - 1 -> Cached]
          /\ \A i \in 0..n - 1 : c[i] = b[i + 1]
          /\ c[n - 1] = b[n]
      BY <2>1
    <3>3. c[0] = Sound(t)'
      <4>1. b[1] = SoundAfter(b[0], w[1], t) /\ b[0] = Sound(t)
        BY <2>1, <3>1 DEF Replay
      <4> QED BY <1>4, <2>1, <3>2, <4>1
    <3>4. ASSUME NEW i \in 1..n - 1
          PROVE  c[i] = SoundAfter(c[i - 1], v[i], t)
      <4>1. i + 1 \in 1..n /\ (i + 1) - 1 = i /\ i \in 0..n - 1 /\ i - 1 \in 0..n - 1
        BY <2>1
      <4>2. b[i + 1] = SoundAfter(b[i], w[i + 1], t)
        BY <3>1, <4>1 DEF Replay
      <4>3. c[i] = b[i + 1] /\ c[i - 1] = b[i] /\ v[i] = w[i + 1]
        BY <2>1, <3>2, <4>1
      <4> QED BY <4>2, <4>3
    <3>5. Replay(s, t, c)'
      BY <2>1, <3>2, <3>3, <3>4 DEF Replay
    <3>6. Agrees(s, t, c[n - 1])'
      BY <1>2, <2>7, <3>1, <3>2 DEF Agrees
    <3> QED BY <2>1, <3>2, <3>5, <3>6 DEF Tracks
  <2> QED BY <1>2, <2>7, <2>8 DEF Tracks
<1> QED BY <1>5, <1>6

\* A session that ends leaves nothing to read and nothing served.
LEMMA DroppedTracks ==
  ASSUME FeedTypeOK', DropSession, NEW s \in Sids
  PROVE  Slots(s)' /\ \A t \in Tickers : Tracks(s, t)'
<1>1. wire'[s] = <<>> /\ served'[s] = {} /\ upSeq'[s] = 0 /\ lastSeq'[s] = 0
  BY DEF DropSession
<1>2. Slots(s)'
  BY <1>1 DEF Slots, SlotsOf
<1>3. ASSUME NEW t \in Tickers PROVE Tracks(s, t)'
  <2>0. Sound(t)' \in Cached
    BY DEF Sound, FeedTypeOK, Cache, Cached
  <2> PICK x \in Cached : x = Sound(t)'
    BY <2>0
  <2> PICK b : b = [i \in 0..0 |-> x]
    OBVIOUS
  <2>1. Len(wire[s])' = 0
    BY <1>1
  <2>2. b \in [0..0 -> Cached] /\ b[0] = x
    OBVIOUS
  <2>3. Replay(s, t, b)'
    BY <2>1, <2>2 DEF Replay
  <2>4. Agrees(s, t, b[0])'
    BY <1>1 DEF Agrees
  <2> QED BY <2>1, <2>2, <2>3, <2>4 DEF Tracks
<1> QED BY <1>2, <1>3

\* Every step of the feed keeps the invariant.
LEMMA FeedNextInv == FeedInv /\ [FeedNext]_feedVars => FeedInv'
<1> SUFFICES ASSUME FeedInv, [FeedNext]_feedVars PROVE FeedInv'
  OBVIOUS
<1>1. /\ FeedTypeOK /\ SessionInv
      /\ \A s \in Sids : Slots(s)
      /\ \A s \in Sids, t \in Tickers : Tracks(s, t)
  BY DEF FeedInv
<1>2. FeedTypeOK'
  <2>1. CASE SilentStep
    BY <1>1, <2>1, SilentStepType
  <2>2. ASSUME NEW s \in Sids, HandleFrame(s) PROVE FeedTypeOK'
    BY <1>1, <2>2, HandleFrameType
  <2>3. CASE UNCHANGED feedVars
    BY <1>1, <2>3 DEF feedVars, subVars, FeedTypeOK
  <2> QED BY <2>1, <2>2, <2>3 DEF FeedNext
<1>3. SessionInv'
  <2>1. CASE SilentStep
    BY <1>1, <2>1, SilentSession
  <2>2. ASSUME NEW s \in Sids, HandleFrame(s) PROVE SessionInv'
    BY <1>1, <2>2, BroadcastSession
  <2>3. CASE UNCHANGED feedVars
    BY <1>1, <2>3 DEF feedVars, subVars, SessionInv, CacheWithinSession
  <2> QED BY <2>1, <2>2, <2>3 DEF FeedNext
<1> SUFFICES ASSUME NEW s \in Sids
             PROVE  Slots(s)' /\ \A t \in Tickers : Tracks(s, t)'
  BY <1>2, <1>3 DEF FeedInv
<1>4. ASSUME UNCHANGED <<exch, upSeq, wire, lastSeq, books, spoiled, sources>>,
             served'[s] \subseteq served[s]
      PROVE  Slots(s)' /\ \A t \in Tickers : Tracks(s, t)'
  <2>1. Slots(s)'
    BY <1>1, <1>4 DEF Slots
  <2>2. ASSUME NEW t \in Tickers PROVE Tracks(s, t)'
    <3>1. Sound(t)' = Sound(t)
      BY <1>4 DEF Sound
    <3> QED BY <1>1, <1>4, <3>1, StaysTracked
  <2> QED BY <2>1, <2>2
<1>5. ASSUME UNCHANGED <<exch, served, upSeq, wire, lastSeq, spoiled, sources>>,
             \A t \in Tickers : books'[t] \in {books[t], NoBook}
      PROVE  Slots(s)' /\ \A t \in Tickers : Tracks(s, t)'
  BY <1>1, <1>5, ReplayForgets DEF Slots
<1>6. ASSUME NEW t \in Tickers, NEW l \in Levels, NEW change \in {-1, 1},
             Trade(t, l, change)
      PROVE  Slots(s)' /\ \A u \in Tickers : Tracks(s, u)'
  BY <1>2, <1>3, <1>6, TradeTracks
<1>7. ASSUME NEW r \in Sids, NEW t \in Tickers, ServeMarket(r, t)
      PROVE  Slots(s)' /\ \A u \in Tickers : Tracks(s, u)'
  BY <1>2, <1>3, <1>7, ServeTracks
<1>8. ASSUME NEW r \in Sids, NEW t \in Tickers, DropMarket(r, t)
      PROVE  Slots(s)' /\ \A u \in Tickers : Tracks(s, u)'
  <2>1. served'[s] \subseteq served[s]
    BY <1>1, <1>8 DEF DropMarket, FeedTypeOK
  <2> QED BY <1>4, <1>8, <2>1 DEF DropMarket
<1>9. ASSUME NEW open \in SUBSET Tickers, OpenSession(open)
      PROVE  Slots(s)' /\ \A t \in Tickers : Tracks(s, t)'
  <2>1. /\ UNCHANGED <<upSeq, wire, lastSeq>>
        /\ \A t \in Tickers : sources'[t] = {}
    BY <1>9 DEF OpenSession
  <2> QED BY <1>1, <2>1 DEF Slots, Tracks
<1>10. ASSUME NEW open \in SUBSET Tickers, Refresh(open)
       PROVE  Slots(s)' /\ \A t \in Tickers : Tracks(s, t)'
  <2>1. /\ UNCHANGED <<exch, served, upSeq, wire, lastSeq, spoiled, sources>>
        /\ \A t \in Tickers : books'[t] \in {books[t], NoBook}
    BY <1>10 DEF Refresh
  <2> QED BY <1>5, <2>1
<1>11. ASSUME OpenSessionFails
       PROVE  Slots(s)' /\ \A t \in Tickers : Tracks(s, t)'
  <2>1. /\ UNCHANGED <<exch, served, upSeq, wire, lastSeq, spoiled, sources>>
        /\ \A t \in Tickers : books'[t] \in {books[t], NoBook}
    BY <1>11 DEF OpenSessionFails, subVars, NoBooks
  <2> QED BY <1>5, <2>1
<1>12. ASSUME SessionEnds \/ Stop \/ \E r \in Sids : HandleGap(r)
       PROVE  Slots(s)' /\ \A t \in Tickers : Tracks(s, t)'
  <2>1. DropSession
    BY <1>12 DEF SessionEnds, HandleGap, Stop, CloseSession
  <2> QED BY <1>2, <2>1, DroppedTracks
<1>13. ASSUME NEW r \in Sids, LearnSid(r)
       PROVE  Slots(s)' /\ \A t \in Tickers : Tracks(s, t)'
  BY <1>4, <1>13 DEF LearnSid, subVars
<1>14. ASSUME NEW r \in Sids, HandleFrame(r)
       PROVE  Slots(s)' /\ \A t \in Tickers : Tracks(s, t)'
  BY <1>2, <1>14, HandleFrameTracks
<1>15. ASSUME UNCHANGED feedVars
       PROVE  Slots(s)' /\ \A t \in Tickers : Tracks(s, t)'
  BY <1>4, <1>15 DEF feedVars, subVars
<1>16. CASE SilentStep
  BY <1>16, <1>6, <1>7, <1>8, <1>9, <1>10, <1>11, <1>12, <1>13 DEF SilentStep
<1> QED BY <1>14, <1>15, <1>16 DEF FeedNext

\* The initial state satisfies the invariant.
LEMMA FeedInitInv == FeedInit => FeedInv
<1> SUFFICES ASSUME FeedInit PROVE FeedInv
  OBVIOUS
<1>1. NoBooks \in Cache
  BY DEF NoBooks, Cache, Cached
<1>2. exch \in [Tickers -> Sizes]
  <2>1. 0..MaxSize \subseteq Nat
    BY BoundsAssumption
  <2> QED BY <2>1 DEF FeedInit, Sizes
<1>3. FeedTypeOK
  <2>1. /\ made \in 0..MaxSubs /\ sid \in 0..made
        /\ <<>> \in Seq(Frame)
    BY BoundsAssumption DEF FeedInit
  <2> QED BY <1>1, <1>2, <2>1 DEF FeedInit, FeedTypeOK
<1>4. SessionInv
  BY DEF FeedInit, SessionInv, CacheWithinSession
<1>5. \A s \in Sids : Slots(s)
  BY DEF FeedInit, Slots, SlotsOf
<1>6. \A s \in Sids, t \in Tickers : Tracks(s, t)
  BY DEF FeedInit, Tracks
<1> QED BY <1>3, <1>4, <1>5, <1>6 DEF FeedInv

\* The invariant answers for the property: read to the end, nothing is left to
\* replay.
LEMMA FeedInvTracks == FeedInv => CacheTracksExchange
<1> SUFFICES ASSUME FeedInv, NEW s \in Sids, CaughtUp(s),
                    NEW t \in Tickers, Follows(s, t), books[t] # NoBook
             PROVE  books[t].size = exch[t]
  BY DEF CacheTracksExchange
<1>1. /\ Len(wire[s]) \in Nat /\ upSeq[s] \in Nat
      /\ lastSeq[s] <= upSeq[s] - Len(wire[s]) /\ lastSeq[s] = upSeq[s]
  BY WireFacts DEF FeedInv, Slots, SlotsOf, CaughtUp
<1>2. Len(wire[s]) = 0
  BY <1>1
<1>3. Whole(s)
  BY <1>1, <1>2 DEF Whole, WholeOf
<1>4. PICK b \in [0..0 -> Cached] : Replay(s, t, b) /\ Agrees(s, t, b[0])
  BY <1>2 DEF FeedInv, Tracks, Follows
<1>5. b[0] = books[t]
  BY <1>4 DEF Replay, Sound, Follows
<1> QED BY <1>3, <1>4, <1>5 DEF Agrees, Follows

(***************************************************************************)
(* Once the session has read everything a subscription sent, each cached   *)
(* book that it alone feeds is the exchange's, whatever frames were lost   *)
(* or did not parse, whichever markets came and went, whatever other       *)
(* subscriptions the session made and however many sessions there were     *)
(* before (feeds/task.rs:328-353, 136, 205-209, 222-227).                  *)
(***************************************************************************)
THEOREM CacheCorrect == FeedSpec => []CacheTracksExchange
<1>1. FeedSpec => []FeedInv
  BY FeedInitInv, FeedNextInv, PTL DEF FeedSpec
<1> QED BY <1>1, FeedInvTracks, PTL
=============================================================================
