--------------------------- MODULE FeedSessionProofs ---------------------------
(***************************************************************************)
(* Machine-checked proofs about FeedSession, for any markets, however      *)
(* often they change and sessions end, and whatever Kalshi refuses.        *)
(***************************************************************************)
EXTENDS FeedSession, SequenceTheorems, WellFoundedInduction, TLAPS

-----------------------------------------------------------------------------
(* The inductive invariant.                                                *)

\* What subscribe_* and update_markets_cmd build.
Command == SubscribeCmd \cup UpdateCmd

\* What is on its way in either direction, and where it may come from.
WireType ==
  /\ open \subseteq Tickers /\ subscribed \subseteq Tickers
  /\ cmdId \in Nat
  /\ cmds \in Seq(Sent)
  /\ replies \in Seq(Reply)
  /\ kalshiSubs \in Seq([sub : Subs, markets : SUBSET Tickers])
  /\ sids \in [MarketSubs -> Nat]

\* Ids are given out in order: an answer's is below that of every later answer
\* and command, a command's below every later one's.
IdsInv ==
  /\ \A i \in DOMAIN cmds : cmds[i].id <= cmdId
  /\ \A i, j \in DOMAIN cmds : i < j => cmds[i].id < cmds[j].id
  /\ \A i \in DOMAIN replies : replies[i].id <= cmdId
  /\ \A i, j \in DOMAIN replies : i < j => replies[i].id < replies[j].id
  /\ \A i \in DOMAIN replies, j \in DOMAIN cmds : replies[i].id < cmds[j].id

\* `pending` has an entry for each subscribe command and its answer, naming
\* its channel, and others only for what was refused.
PendingInv ==
  /\ DOMAIN pending \subseteq 1..cmdId
  /\ \A id \in DOMAIN pending : pending[id] \in Subs
  /\ \A i \in DOMAIN cmds : cmds[i].cmd.verb = "subscribe" =>
       cmds[i].id \in DOMAIN pending /\ pending[cmds[i].id] = cmds[i].cmd.sub
  /\ \A i \in DOMAIN replies : replies[i].typ = "subscribed" =>
       replies[i].id \in DOMAIN pending /\ pending[replies[i].id] = replies[i].sub
  /\ \A id \in DOMAIN pending :
       \/ \E i \in DOMAIN cmds : cmds[i].id = id /\ cmds[i].cmd.verb = "subscribe"
       \/ \E i \in DOMAIN replies : replies[i].id = id /\ replies[i].typ = "subscribed"
       \/ pending[id] \in refused

\* An answer names a subscription of this connection and its channel.
RepliesGenuine ==
  \A i \in DOMAIN replies : replies[i].typ = "subscribed" =>
    replies[i].sid \in SidsOf(replies[i].sub)

\* The inductive invariant.
SessionInv == WireType /\ IdsInv /\ PendingInv /\ RepliesGenuine /\ SidsGenuine

-----------------------------------------------------------------------------
(* Sending commands.                                                       *)

\* The commands that are sent are commands.
LEMMA SubscribeType ==
  ASSUME NEW sub \in Subs, NEW markets \in SUBSET Tickers
  PROVE  Subscribe(sub, markets) \in Command /\ Subscribe(sub, markets) \in SubscribeCmd
  BY DEF Subscribe, SubscribeCmd, Command

\* subscribe_markets builds commands (task.rs:114-126).
LEMMA SubscribeMarketsType ==
  ASSUME NEW markets \in SUBSET Tickers
  PROVE  SubscribeMarkets(markets) \in Seq(Command)
<1>1. "orderbook" \in Subs /\ "ticker" \in Subs
  BY DEF Subs, MarketSubs
<1>2. Subscribe("orderbook", markets) \in Command /\ Subscribe("ticker", markets) \in Command
  BY <1>1, SubscribeType
<1>3. <<Subscribe("orderbook", markets), Subscribe("ticker", markets)>> \in Seq(Command)
  BY <1>2
<1> QED BY <1>3 DEF SubscribeMarkets

\* A subscription's update builds commands, none for no change (task.rs:211-218).
LEMMA UpdatesType ==
  ASSUME NEW sid \in Nat, NEW add \in SUBSET Tickers, NEW del \in SUBSET Tickers
  PROVE  UpdatesOf(sid, add, del) \in Seq(Command)
<1>1. CASE sid = 0
  BY <1>1 DEF UpdatesOf
<1>2. CASE sid # 0
  <2>1. ASSUME NEW verb \in {"add_markets", "delete_markets"}, NEW set \in SUBSET Tickers
        PROVE  (IF set = {} THEN <<>> ELSE <<Update(sid, verb, set)>>) \in Seq(Command)
    <3>1. Update(sid, verb, set) \in Command
      BY <1>2 DEF Update, UpdateCmd, Command
    <3> QED BY <3>1
  <2>2. UpdatesOf(sid, add, del) =
          (IF add = {} THEN <<>> ELSE <<Update(sid, "add_markets", add)>>)
            \o (IF del = {} THEN <<>> ELSE <<Update(sid, "delete_markets", del)>>)
    BY <1>2 DEF UpdatesOf
  <2> QED BY <2>1, <2>2, ConcatProperties
<1> QED BY <1>1, <1>2

\* What a command list and the entries of `pending` are to begin with.
Known(last, entries, before) ==
  /\ last \in Nat /\ before \in Seq(Sent)
  /\ \A i \in DOMAIN before : before[i].id <= last
  /\ \A i, j \in DOMAIN before : i < j => before[i].id < before[j].id
  /\ DOMAIN entries \subseteq 1..last
  /\ \A id \in DOMAIN entries : entries[id] \in Subs
  /\ \A i \in DOMAIN before : before[i].cmd.verb = "subscribe" =>
       before[i].id \in DOMAIN entries /\ entries[before[i].id] = before[i].cmd.sub

\* What sending makes of them.
SentAfter(last, entries, before) ==
  /\ cmdId' \in Nat /\ cmdId' >= last
  /\ cmds' \in Seq(Sent)
  /\ \A i \in DOMAIN cmds' : cmds'[i].id <= cmdId'
  /\ \A i, j \in DOMAIN cmds' : i < j => cmds'[i].id < cmds'[j].id
  /\ \A i \in DOMAIN cmds' :
       cmds'[i].id > last \/ \E j \in DOMAIN before : cmds'[i].id = before[j].id
  /\ DOMAIN pending' \subseteq 1..cmdId'
  /\ \A id \in DOMAIN pending' : pending'[id] \in Subs
  /\ \A i \in DOMAIN cmds' : cmds'[i].cmd.verb = "subscribe" =>
       cmds'[i].id \in DOMAIN pending' /\ pending'[cmds'[i].id] = cmds'[i].cmd.sub
  /\ \A id \in DOMAIN entries : id \in DOMAIN pending' /\ pending'[id] = entries[id]
  /\ \A id \in DOMAIN pending' \ DOMAIN entries :
       \E i \in DOMAIN cmds' : cmds'[i].id = id /\ cmds'[i].cmd.verb = "subscribe"
  /\ \A j \in DOMAIN before : \E i \in DOMAIN cmds' : cmds'[i] = before[j]

\* Commands sent after those there are keep what is known of ids and entries.
LEMMA SendKeeps ==
  ASSUME NEW last, NEW entries, NEW before, NEW list \in Seq(Command),
         Known(last, entries, before), SendFrom(last, entries, before, list)
  PROVE  SentAfter(last, entries, before)
<1> USE DEF Known
<1> DEFINE awaiting == {last + i : i \in {i \in DOMAIN list : list[i].verb = "subscribe"}}
<1> DEFINE new == [i \in DOMAIN list |-> [id |-> last + i, cmd |-> list[i]]]
<1>1. /\ cmdId' = last + Len(list) /\ cmds' = before \o new
      /\ pending' = [id \in DOMAIN entries \cup awaiting |->
                      IF id \in awaiting THEN list[id - last].sub ELSE entries[id]]
  BY DEF SendFrom
<1>2. Len(list) \in Nat /\ DOMAIN list = 1..Len(list) /\ \A i \in DOMAIN list : list[i] \in Command
  BY ElementOfSeq, LenProperties
<1>3. new \in Seq(Sent) /\ Len(new) = Len(list) /\ DOMAIN new = 1..Len(list)
  <2>1. \A i \in 1..Len(list) : [id |-> last + i, cmd |-> list[i]] \in Sent
    BY <1>2 DEF Sent, Command
  <2>2. new = [i \in 1..Len(list) |-> [id |-> last + i, cmd |-> list[i]]]
    BY <1>2
  <2> QED BY <1>2, <2>1, <2>2, IsASeq
<1>4. \A i \in 1..Len(list) : new[i].id = last + i /\ new[i].cmd = list[i]
  BY <1>2
<1> HIDE DEF new
<1>5. /\ cmds' \in Seq(Sent) /\ Len(cmds') = Len(before) + Len(list)
      /\ \A i \in 1..Len(before) : cmds'[i] = before[i]
      /\ \A i \in Len(before) + 1 .. Len(before) + Len(list) : cmds'[i] = new[i - Len(before)]
  BY <1>1, <1>3, ConcatProperties
<1>6. Len(before) \in Nat /\ DOMAIN before = 1..Len(before)
        /\ DOMAIN cmds' = 1..(Len(before) + Len(list))
        /\ \A i \in DOMAIN before : before[i] \in Sent /\ before[i].id \in Nat
  <2>1. Len(before) \in Nat /\ DOMAIN before = 1..Len(before)
    BY LenProperties
  <2>2. DOMAIN cmds' = 1..Len(cmds')
    BY <1>5, LenProperties
  <2>3. \A i \in DOMAIN before : before[i] \in Sent
    BY <2>1, ElementOfSeq
  <2> QED BY <1>5, <2>1, <2>2, <2>3 DEF Sent
<1>7. ASSUME NEW i \in DOMAIN cmds'
      PROVE  \/ i \in DOMAIN before /\ cmds'[i] = before[i]
             \/ i - Len(before) \in 1..Len(list) /\ i > Len(before)
                  /\ cmds'[i].id = last + (i - Len(before))
                  /\ cmds'[i].cmd = list[i - Len(before)]
  <2>1. CASE i <= Len(before)
    BY <1>5, <1>6, <2>1
  <2>2. CASE i > Len(before)
    <3>1. i - Len(before) \in 1..Len(list) /\ i \in Len(before) + 1 .. Len(before) + Len(list)
      BY <1>2, <1>6, <2>2
    <3> QED BY <1>4, <1>5, <2>2, <3>1
  <2> QED BY <1>6, <2>1, <2>2
<1>8. ASSUME NEW n \in 1..Len(list)
      PROVE  Len(before) + n \in DOMAIN cmds' /\ cmds'[Len(before) + n].id = last + n
               /\ cmds'[Len(before) + n].cmd = list[n]
  <2>1. Len(before) + n \in Len(before) + 1 .. Len(before) + Len(list)
          /\ (Len(before) + n) - Len(before) = n
    BY <1>2, <1>6
  <2>2. Len(before) + n \in DOMAIN cmds'
    BY <1>2, <1>6
  <2>3. cmds'[Len(before) + n] = new[n]
    BY <1>5, <2>1
  <2> QED BY <1>4, <2>2, <2>3
<1>9. cmdId' \in Nat /\ cmdId' >= last
  BY <1>1, <1>2
<1>10. \A i \in DOMAIN cmds' : cmds'[i].id <= cmdId'
  BY <1>1, <1>2, <1>6, <1>7
<1>11. ASSUME NEW i \in DOMAIN cmds', NEW j \in DOMAIN cmds', i < j
       PROVE  cmds'[i].id < cmds'[j].id
  <2>1. CASE j \in DOMAIN before
    <3>1. i \in DOMAIN before /\ cmds'[i] = before[i] /\ cmds'[j] = before[j]
      BY <1>6, <1>7, <1>11, <2>1
    <3>2. before[i].id < before[j].id
      BY <1>11, <2>1, <3>1
    <3> QED BY <3>1, <3>2
  <2>2. CASE j \notin DOMAIN before
    <3>1. cmds'[j].id = last + (j - Len(before)) /\ j > Len(before)
      BY <1>7, <2>2
    <3>2. CASE i \in DOMAIN before
      <4>1. cmds'[i].id <= last /\ cmds'[i].id \in Nat
        BY <1>6, <1>7, <3>2
      <4> QED BY <1>6, <3>1, <4>1
    <3>3. CASE i \notin DOMAIN before
      <4>1. cmds'[i].id = last + (i - Len(before))
        BY <1>7, <3>3
      <4> QED BY <1>6, <1>11, <3>1, <4>1
    <3> QED BY <3>2, <3>3
  <2> QED BY <2>1, <2>2
<1>12. \A id \in awaiting : id > last /\ id <= cmdId' /\ id \in Nat /\ id \notin DOMAIN entries
  BY <1>1, <1>2
<1>13. DOMAIN pending' = DOMAIN entries \cup awaiting
  BY <1>1
<1>14. ASSUME NEW id \in awaiting
       PROVE  /\ id - last \in 1..Len(list) /\ list[id - last].verb = "subscribe"
              /\ pending'[id] = list[id - last].sub
  <2>1. PICK n \in DOMAIN list : id = last + n /\ list[n].verb = "subscribe"
    OBVIOUS
  <2>2. id - last = n
    BY <1>2, <2>1
  <2> QED BY <1>1, <1>2, <2>1, <2>2
<1>15. \A id \in DOMAIN entries : id \in DOMAIN pending' /\ pending'[id] = entries[id]
  BY <1>1, <1>12
<1>16. ASSUME NEW n \in 1..Len(list), list[n].verb = "subscribe"
       PROVE  last + n \in awaiting /\ pending'[last + n] = list[n].sub /\ list[n].sub \in Subs
  <2>1. last + n \in awaiting /\ (last + n) - last = n
    BY <1>2, <1>16
  <2>2. list[n].sub \in Subs
    BY <1>2, <1>16 DEF Command, SubscribeCmd, UpdateCmd
  <2> QED BY <1>14, <2>1, <2>2
<1> HIDE DEF awaiting
<1>17. DOMAIN pending' \subseteq 1..cmdId'
  BY <1>1, <1>2, <1>12, <1>13
<1>18. \A id \in DOMAIN pending' : pending'[id] \in Subs
  <2> SUFFICES ASSUME NEW id \in DOMAIN pending' PROVE pending'[id] \in Subs
    OBVIOUS
  <2>1. CASE id \in awaiting
    <3>1. last + (id - last) = id
      BY <1>12, <2>1
    <3> QED BY <1>14, <1>16, <2>1, <3>1
  <2>2. CASE id \in DOMAIN entries
    BY <1>15, <2>2
  <2> QED BY <1>13, <2>1, <2>2
<1>19. ASSUME NEW i \in DOMAIN cmds', cmds'[i].cmd.verb = "subscribe"
       PROVE  cmds'[i].id \in DOMAIN pending' /\ pending'[cmds'[i].id] = cmds'[i].cmd.sub
  <2>1. CASE i \in DOMAIN before /\ cmds'[i] = before[i]
    BY <1>15, <1>19, <2>1
  <2>2. CASE /\ i - Len(before) \in 1..Len(list) /\ cmds'[i].id = last + (i - Len(before))
             /\ cmds'[i].cmd = list[i - Len(before)]
    BY <1>13, <1>16, <1>19, <2>2
  <2> QED BY <1>7, <2>1, <2>2
<1>20. ASSUME NEW id \in DOMAIN pending' \ DOMAIN entries
       PROVE  \E i \in DOMAIN cmds' : cmds'[i].id = id /\ cmds'[i].cmd.verb = "subscribe"
  <2>1. id \in awaiting /\ last + (id - last) = id
    BY <1>12, <1>13
  <2> QED BY <1>8, <1>14, <2>1
<1>21. \A j \in DOMAIN before : \E i \in DOMAIN cmds' : cmds'[i] = before[j]
  BY <1>2, <1>5, <1>6
<1>22. \A i \in DOMAIN cmds' : cmds'[i].id > last \/ \E j \in DOMAIN before : cmds'[i].id = before[j].id
  BY <1>2, <1>6, <1>7
<1> QED BY <1>5, <1>9, <1>10, <1>11, <1>15, <1>17, <1>18, <1>19, <1>20, <1>21, <1>22
      DEF SentAfter

-----------------------------------------------------------------------------
(* The session's steps.                                                    *)

\* A step that leaves all this alone keeps the invariant.
LEMMA StillKeeps ==
  ASSUME SessionInv,
         UNCHANGED <<kalshiSubs, cmds, replies, refused, cmdId, pending, sids>>,
         open' \subseteq Tickers, subscribed' \subseteq Tickers
  PROVE  SessionInv'
<1>1. WireType'
  BY DEF SessionInv, WireType
<1>2. IdsInv' /\ PendingInv'
  BY DEF SessionInv, IdsInv, PendingInv
<1>3. RepliesGenuine' /\ SidsGenuine'
  BY DEF SessionInv, RepliesGenuine, SidsGenuine, SidsOf
<1> QED BY <1>1, <1>2, <1>3 DEF SessionInv

\* A connection begins with nothing on its way and no sid.
LEMMA ConnectKeeps == SessionInv /\ Connect => SessionInv'
<1> SUFFICES ASSUME SessionInv, Connect PROVE SessionInv'
  OBVIOUS
<1> DEFINE list == <<Subscribe("index", {})>> \o SubscribeMarkets(open)
<1>1. list \in Seq(Command)
  <2>1. "index" \in Subs
    BY DEF Subs
  <2>2. <<Subscribe("index", {})>> \in Seq(Command)
    BY <2>1, SubscribeType
  <2>3. SubscribeMarkets(open) \in Seq(Command)
    BY SubscribeMarketsType DEF SessionInv, WireType
  <2> QED BY <2>2, <2>3, ConcatProperties
<1>2. SendFrom(0, <<>>, <<>>, list)
  BY DEF Connect
<1>3. <<>> \in Seq(Sent) /\ DOMAIN <<>> = {}
  BY EmptySeq
<1> HIDE DEF list
<1>4. SentAfter(0, <<>>, <<>>)
  <2>1. Known(0, <<>>, <<>>)
    BY <1>3 DEF Known
  <2> QED BY <1>1, <1>2, <2>1, SendKeeps
<1>5. /\ kalshiSubs' = <<>> /\ replies' = <<>> /\ sids' = [s \in MarketSubs |-> 0]
      /\ open' = open /\ subscribed' = open
  BY DEF Connect, kalshiVars
<1>6. WireType'
  BY <1>4, <1>5, EmptySeq DEF SessionInv, WireType, SentAfter
<1>7. DOMAIN replies' = {}
  BY <1>5
<1>8. IdsInv' /\ PendingInv'
  BY <1>3, <1>4, <1>7 DEF IdsInv, PendingInv, SentAfter
<1>9. RepliesGenuine' /\ SidsGenuine'
  BY <1>5, <1>7 DEF RepliesGenuine, SidsGenuine
<1> QED BY <1>6, <1>8, <1>9 DEF SessionInv

\* A refresh sends under new ids, whether it updates or subscribes again.
LEMMA RefreshKeeps == SessionInv /\ Refresh => SessionInv'
<1> SUFFICES ASSUME SessionInv, Refresh PROVE SessionInv'
  OBVIOUS
<1> DEFINE list == IF NoSids THEN SubscribeMarkets(open)
                     ELSE UpdatesOfAll(open \ subscribed, subscribed \ open)
<1>1. list \in Seq(Command)
  <2>1. open \subseteq Tickers /\ subscribed \subseteq Tickers
          /\ sids["orderbook"] \in Nat /\ sids["ticker"] \in Nat
    BY DEF SessionInv, WireType, MarketSubs
  <2>2. SubscribeMarkets(open) \in Seq(Command)
    BY <2>1, SubscribeMarketsType
  <2>3. /\ UpdatesOf(sids["orderbook"], open \ subscribed, subscribed \ open) \in Seq(Command)
        /\ UpdatesOf(sids["ticker"], open \ subscribed, subscribed \ open) \in Seq(Command)
    BY <2>1, UpdatesType
  <2>4. UpdatesOfAll(open \ subscribed, subscribed \ open) \in Seq(Command)
    BY <2>3, ConcatProperties DEF UpdatesOfAll
  <2> QED BY <2>2, <2>4
<1>2. SendFrom(cmdId, pending, cmds, list)
  BY DEF Refresh
<1> HIDE DEF list
<1>3. Known(cmdId, pending, cmds)
  BY DEF SessionInv, WireType, IdsInv, PendingInv, Known
<1>4. SentAfter(cmdId, pending, cmds)
  BY <1>1, <1>2, <1>3, SendKeeps
<1>5. UNCHANGED <<open, kalshiSubs, replies, refused, sids>> /\ subscribed' = open
  BY DEF Refresh, kalshiVars
<1>6. WireType'
  BY <1>4, <1>5 DEF SessionInv, WireType, SentAfter
<1>7. IdsInv'
  <2>1. \A i \in DOMAIN replies : replies[i].id \in Nat /\ replies[i].id <= cmdId
    <3>1. \A i \in DOMAIN replies : replies[i] \in Reply
      BY ElementOfSeq, LenProperties DEF SessionInv, WireType
    <3> QED BY <3>1 DEF SessionInv, IdsInv, Reply
  <2>2. cmdId \in Nat /\ cmdId' \in Nat /\ cmdId' >= cmdId
    BY <1>3, <1>4 DEF Known, SentAfter
  <2>3. ASSUME NEW i \in DOMAIN replies, NEW j \in DOMAIN cmds'
        PROVE  replies[i].id < cmds'[j].id
    <3>1. cmds'[j].id \in Nat
      <4>1. cmds'[j] \in Sent
        BY <1>4, ElementOfSeq, LenProperties DEF SentAfter
      <4> QED BY <4>1 DEF Sent
    <3>2. cmds'[j].id > cmdId \/ \E k \in DOMAIN cmds : cmds'[j].id = cmds[k].id
      BY <1>4 DEF SentAfter
    <3>3. \A k \in DOMAIN cmds : replies[i].id < cmds[k].id
      BY DEF SessionInv, IdsInv
    <3>4. replies[i].id \in Nat /\ replies[i].id <= cmdId
      BY <2>1
    <3> QED BY <2>2, <3>1, <3>2, <3>3, <3>4
  <2>4. \A i \in DOMAIN replies : replies[i].id <= cmdId'
    BY <2>1, <2>2
  <2>5. /\ \A i \in DOMAIN cmds' : cmds'[i].id <= cmdId'
        /\ \A i, j \in DOMAIN cmds' : i < j => cmds'[i].id < cmds'[j].id
    BY <1>4 DEF SentAfter
  <2> QED BY <1>5, <2>3, <2>4, <2>5 DEF SessionInv, IdsInv
<1>8. PendingInv'
  <2>1. \A i \in DOMAIN replies : replies[i].typ = "subscribed" =>
          replies[i].id \in DOMAIN pending' /\ pending'[replies[i].id] = replies[i].sub
    BY <1>4 DEF SessionInv, PendingInv, SentAfter
  <2>2. ASSUME NEW id \in DOMAIN pending'
        PROVE  \/ \E i \in DOMAIN cmds' : cmds'[i].id = id /\ cmds'[i].cmd.verb = "subscribe"
               \/ \E i \in DOMAIN replies : replies[i].id = id /\ replies[i].typ = "subscribed"
               \/ pending'[id] \in refused
    <3>1. CASE id \in DOMAIN pending
      <4>1. pending'[id] = pending[id]
        BY <1>4, <3>1 DEF SentAfter
      <4>2. \/ \E i \in DOMAIN cmds : cmds[i].id = id /\ cmds[i].cmd.verb = "subscribe"
            \/ \E i \in DOMAIN replies : replies[i].id = id /\ replies[i].typ = "subscribed"
            \/ pending[id] \in refused
        BY <3>1 DEF SessionInv, PendingInv
      <4>3. ASSUME NEW j \in DOMAIN cmds, cmds[j].id = id, cmds[j].cmd.verb = "subscribe"
            PROVE  \E i \in DOMAIN cmds' : cmds'[i].id = id /\ cmds'[i].cmd.verb = "subscribe"
        BY <1>4, <4>3 DEF SentAfter
      <4> QED BY <4>1, <4>2, <4>3
    <3>2. CASE id \notin DOMAIN pending
      BY <1>4, <3>2 DEF SentAfter
    <3> QED BY <3>1, <3>2
  <2> QED BY <1>4, <1>5, <2>1, <2>2 DEF PendingInv, SentAfter
<1>9. RepliesGenuine' /\ SidsGenuine'
  BY <1>5 DEF SessionInv, RepliesGenuine, SidsGenuine, SidsOf
<1> QED BY <1>6, <1>7, <1>8, <1>9 DEF SessionInv

\* A reply is filed under the channel of its command, by either of its marks.
LEMMA ReadReplyKeeps == SessionInv /\ ReadReply => SessionInv'
<1> SUFFICES ASSUME SessionInv, ReadReply PROVE SessionInv'
  OBVIOUS
<1> DEFINE r == Head(replies)
<1>1. /\ replies # <<>> /\ replies' = Tail(replies) /\ sids' = Learned(r)
      /\ pending' = (IF r.typ = "subscribed" THEN Restrict(pending, DOMAIN pending \ {r.id})
                       ELSE pending)
      /\ UNCHANGED <<open, kalshiSubs, cmds, refused, cmdId, subscribed>>
  BY DEF ReadReply, kalshiVars
<1>2. /\ replies \in Seq(Reply) /\ Len(replies) \in Nat /\ Len(replies) > 0
      /\ DOMAIN replies = 1..Len(replies)
      /\ r = replies[1] /\ r \in Reply /\ 1 \in DOMAIN replies
      /\ replies' \in Seq(Reply) /\ DOMAIN replies' = 1..(Len(replies) - 1)
      /\ \A i \in DOMAIN replies' : i + 1 \in DOMAIN replies /\ replies'[i] = replies[i + 1]
  BY <1>1, HeadTailProperties, ElementOfSeq, LenProperties, EmptySeq DEF SessionInv, WireType
<1> HIDE DEF r
<1>3. r.typ = "subscribed" =>
        /\ r.id \in DOMAIN pending /\ pending[r.id] = r.sub
        /\ r.sid \in SidsOf(r.sub)
  BY <1>2 DEF SessionInv, PendingInv, RepliesGenuine
<1>4. /\ DOMAIN pending' \subseteq DOMAIN pending
      /\ \A id \in DOMAIN pending' : pending'[id] = pending[id]
      /\ r.typ = "subscribed" => DOMAIN pending' = DOMAIN pending \ {r.id}
      /\ r.typ # "subscribed" => DOMAIN pending' = DOMAIN pending
  BY <1>1 DEF Restrict
<1>5. \/ sids' = sids
      \/ /\ r.typ = "subscribed" /\ r.sub \in MarketSubs
         /\ sids' = [sids EXCEPT ![r.sub] = r.sid]
  <2> DEFINE filed == {s \in MarketSubs :
                  s = r.sub \/ (r.id \in DOMAIN pending /\ pending[r.id] = s)}
  <2>1. CASE r.typ = "subscribed" /\ filed # {}
    <3>1. filed = {r.sub} /\ r.sub \in MarketSubs
      BY <1>3, <2>1
    <3>2. (IF "orderbook" \in filed THEN "orderbook" ELSE "ticker") = r.sub
      BY <3>1 DEF MarketSubs
    <3>3. sids' = [sids EXCEPT ![IF "orderbook" \in filed THEN "orderbook" ELSE "ticker"] = r.sid]
      BY <1>1, <2>1 DEF Learned
    <3> QED BY <2>1, <3>1, <3>2, <3>3
  <2>2. CASE ~(r.typ = "subscribed" /\ filed # {})
    BY <1>1, <2>2 DEF Learned
  <2> QED BY <2>1, <2>2
<1>6. r.sid \in Nat /\ sids \in [MarketSubs -> Nat]
  BY <1>2 DEF Reply, SessionInv, WireType
<1>7. WireType'
  <2>1. sids' \in [MarketSubs -> Nat]
    BY <1>5, <1>6
  <2> QED BY <1>1, <1>2, <2>1 DEF SessionInv, WireType
<1>8. IdsInv'
  BY <1>1, <1>2 DEF SessionInv, IdsInv
<1>9. \A i \in DOMAIN replies' : replies'[i].id # r.id
  <2>1. \A i \in DOMAIN replies : replies[i] \in Reply
    BY <1>2, ElementOfSeq
  <2>2. ASSUME NEW i \in DOMAIN replies' PROVE replies'[i].id # r.id
    <3>1. i + 1 \in DOMAIN replies /\ replies'[i] = replies[i + 1] /\ 1 < i + 1
      BY <1>2
    <3>2. replies[1].id < replies[i + 1].id
      BY <1>2, <3>1 DEF SessionInv, IdsInv
    <3>3. replies[1].id \in Nat /\ replies[i + 1].id \in Nat
      BY <1>2, <2>1, <3>1 DEF Reply
    <3> QED BY <1>2, <3>1, <3>2, <3>3
  <2> QED BY <2>2
<1>10. \A i \in DOMAIN cmds : cmds[i].id # r.id
  <2>1. \A i \in DOMAIN cmds : cmds[i] \in Sent
    BY ElementOfSeq, LenProperties DEF SessionInv, WireType
  <2>2. ASSUME NEW i \in DOMAIN cmds PROVE cmds[i].id # r.id
    <3>1. replies[1].id < cmds[i].id
      BY <1>2 DEF SessionInv, IdsInv
    <3>2. replies[1].id \in Nat /\ cmds[i].id \in Nat
      BY <1>2, <2>1 DEF Reply, Sent
    <3> QED BY <1>2, <3>1, <3>2
  <2> QED BY <2>2
<1>11. PendingInv'
  <2>1. /\ DOMAIN pending' \subseteq 1..cmdId
        /\ \A id \in DOMAIN pending' : pending'[id] \in Subs
    BY <1>4 DEF SessionInv, PendingInv
  <2>2. \A i \in DOMAIN cmds : cmds[i].cmd.verb = "subscribe" =>
          cmds[i].id \in DOMAIN pending' /\ pending'[cmds[i].id] = cmds[i].cmd.sub
    BY <1>4, <1>10 DEF SessionInv, PendingInv
  <2>3. \A i \in DOMAIN replies' : replies'[i].typ = "subscribed" =>
          replies'[i].id \in DOMAIN pending' /\ pending'[replies'[i].id] = replies'[i].sub
    BY <1>2, <1>4, <1>9 DEF SessionInv, PendingInv
  <2>4. ASSUME NEW id \in DOMAIN pending'
        PROVE  \/ \E i \in DOMAIN cmds : cmds[i].id = id /\ cmds[i].cmd.verb = "subscribe"
               \/ \E i \in DOMAIN replies' : replies'[i].id = id /\ replies'[i].typ = "subscribed"
               \/ pending'[id] \in refused
    <3>1. id \in DOMAIN pending /\ pending'[id] = pending[id]
      BY <1>4
    <3>2. \/ \E i \in DOMAIN cmds : cmds[i].id = id /\ cmds[i].cmd.verb = "subscribe"
          \/ \E i \in DOMAIN replies : replies[i].id = id /\ replies[i].typ = "subscribed"
          \/ pending[id] \in refused
      BY <3>1 DEF SessionInv, PendingInv
    <3>3. ASSUME NEW i \in DOMAIN replies, replies[i].id = id, replies[i].typ = "subscribed"
          PROVE  \E k \in DOMAIN replies' : replies'[k].id = id /\ replies'[k].typ = "subscribed"
      <4>1. i # 1
        BY <1>2, <1>4, <3>3
      <4>2. i - 1 \in DOMAIN replies' /\ (i - 1) + 1 = i
        BY <1>2, <4>1
      <4>3. replies'[i - 1] = replies[i]
        BY <1>2, <4>2
      <4> QED BY <3>3, <4>2, <4>3
    <3> QED BY <3>1, <3>2, <3>3
  <2> QED BY <1>1, <2>1, <2>2, <2>3, <2>4 DEF PendingInv
<1>12. RepliesGenuine'
  BY <1>1, <1>2 DEF SessionInv, RepliesGenuine, SidsOf
<1>13. SidsGenuine'
  BY <1>1, <1>3, <1>5, <1>6 DEF SessionInv, SidsGenuine, SidsOf
<1> QED BY <1>7, <1>8, <1>11, <1>12, <1>13 DEF SessionInv

\* The end of a session leaves nothing of it.
LEMMA EndKeeps ==
  ASSUME SessionInv, NEW long \in BOOLEAN, SessionEnds(long)
  PROVE  SessionInv'
<1>1. /\ cmdId' = 0 /\ pending' = <<>> /\ cmds' = <<>> /\ replies' = <<>>
      /\ kalshiSubs' = <<>> /\ sids' = [s \in MarketSubs |-> 0]
      /\ subscribed' = {} /\ open' = open
  BY DEF SessionEnds, kalshiVars
<1>2. DOMAIN <<>> = {}
  OBVIOUS
<1>3. WireType'
  BY <1>1, EmptySeq DEF SessionInv, WireType
<1>4. IdsInv' /\ PendingInv' /\ RepliesGenuine' /\ SidsGenuine'
  BY <1>1, <1>2 DEF IdsInv, PendingInv, RepliesGenuine, SidsGenuine
<1> QED BY <1>3, <1>4 DEF SessionInv

\* Kalshi answers the first command, under its id.
LEMMA KalshiKeeps == SessionInv /\ KalshiActs => SessionInv'
<1> SUFFICES ASSUME SessionInv, KalshiActs PROVE SessionInv'
  OBVIOUS
<1> DEFINE id == Head(cmds).id
<1> DEFINE c == Head(cmds).cmd
<1>1. /\ cmds # <<>> /\ cmds' = Tail(cmds)
      /\ AcceptSubscribe(id, c) \/ AcceptUpdate(c) \/ Refuse(id, c)
      /\ UNCHANGED <<open, cmdId, pending, sids, subscribed>>
  BY DEF KalshiActs, kalshiVars, sessionVars
<1>2. /\ cmds \in Seq(Sent) /\ Len(cmds) \in Nat /\ Len(cmds) > 0
      /\ DOMAIN cmds = 1..Len(cmds) /\ 1 \in DOMAIN cmds
      /\ cmds[1] \in Sent /\ id = cmds[1].id /\ c = cmds[1].cmd
      /\ cmds' \in Seq(Sent) /\ DOMAIN cmds' = 1..(Len(cmds) - 1)
      /\ \A i \in DOMAIN cmds' : i + 1 \in DOMAIN cmds /\ cmds'[i] = cmds[i + 1]
  BY <1>1, HeadTailProperties, ElementOfSeq, LenProperties, EmptySeq DEF SessionInv, WireType
<1>3. /\ replies \in Seq(Reply) /\ Len(replies) \in Nat /\ DOMAIN replies = 1..Len(replies)
      /\ kalshiSubs \in Seq([sub : Subs, markets : SUBSET Tickers])
      /\ Len(kalshiSubs) \in Nat /\ DOMAIN kalshiSubs = 1..Len(kalshiSubs)
  BY LenProperties DEF SessionInv, WireType
<1> HIDE DEF id, c
<1>4. id \in Nat \ {0} /\ c \in SubscribeCmd \cup UpdateCmd
  BY <1>2 DEF Sent
<1> DEFINE Answered(r) ==
      /\ r \in Reply /\ r.id = id /\ replies' = Append(replies, r)
      /\ r.typ = "subscribed" =>
           /\ c.verb = "subscribe" /\ r.sub = c.sub
           /\ r.sid \in DOMAIN kalshiSubs' /\ kalshiSubs'[r.sid].sub = r.sub

\* Whatever becomes of the command, there is an answer to it or none.
<1>5. /\ kalshiSubs' \in Seq([sub : Subs, markets : SUBSET Tickers])
      /\ \A i \in DOMAIN kalshiSubs : i \in DOMAIN kalshiSubs' /\ kalshiSubs'[i].sub = kalshiSubs[i].sub
      /\ refused \subseteq refused'
      /\ c.verb = "subscribe" =>
           c.sub \in refused' \/ \E r \in Reply : Answered(r) /\ r.typ = "subscribed"
      /\ replies' = replies \/ \E r \in Reply : Answered(r)
  <2>1. CASE AcceptSubscribe(id, c)
    <3> DEFINE new == [sub |-> c.sub, markets |-> c.markets]
    <3> DEFINE r == [typ |-> "subscribed", id |-> id, sub |-> c.sub, sid |-> Len(kalshiSubs) + 1]
    <3>1. c \in SubscribeCmd /\ c.sub \in Subs /\ c.markets \in SUBSET Tickers
            /\ c.verb = "subscribe"
      BY <2>1, <1>4 DEF AcceptSubscribe, SubscribeCmd, UpdateCmd
    <3>2. new \in [sub : Subs, markets : SUBSET Tickers] /\ new.sub = c.sub
      BY <3>1
    <3>3. r \in Reply /\ r.id = id /\ r.typ = "subscribed" /\ r.sub = c.sub
            /\ r.sid = Len(kalshiSubs) + 1
      BY <1>3, <1>4, <3>1 DEF Reply
    <3>4. kalshiSubs' = Append(kalshiSubs, new) /\ replies' = Append(replies, r)
            /\ refused' = refused
      BY <2>1 DEF AcceptSubscribe, Answer
    <3> HIDE DEF new, r
    <3>5. /\ kalshiSubs' \in Seq([sub : Subs, markets : SUBSET Tickers])
          /\ DOMAIN kalshiSubs' = 1..(Len(kalshiSubs) + 1)
          /\ kalshiSubs'[Len(kalshiSubs) + 1] = new
          /\ \A i \in 1..Len(kalshiSubs) : kalshiSubs'[i] = kalshiSubs[i]
      BY <1>3, <3>2, <3>4, AppendProperties, LenProperties
    <3>6. r.sid \in DOMAIN kalshiSubs' /\ kalshiSubs'[r.sid].sub = r.sub
      BY <1>3, <3>2, <3>3, <3>5
    <3>7. Answered(r)
      BY <3>1, <3>3, <3>4, <3>6
    <3> HIDE DEF Answered
    <3>8. \E x \in Reply : Answered(x) /\ x.typ = "subscribed"
      BY <3>3, <3>7
    <3>9. \A i \in DOMAIN kalshiSubs :
            i \in DOMAIN kalshiSubs' /\ kalshiSubs'[i].sub = kalshiSubs[i].sub
      BY <1>3, <3>5
    <3> QED BY <3>4, <3>5, <3>8, <3>9
  <2>2. CASE AcceptUpdate(c)
    <3>1. c.verb # "subscribe" /\ replies' = replies /\ refused' = refused
      BY <2>2 DEF AcceptUpdate
    <3>2. c \in UpdateCmd
      BY <1>4, <3>1 DEF SubscribeCmd
    <3>3. kalshiSubs' = [kalshiSubs EXCEPT ![c.sid].markets =
            IF c.verb = "add_markets" THEN @ \cup c.markets ELSE @ \ c.markets]
      BY <2>2 DEF AcceptUpdate
    <3>4. DOMAIN kalshiSubs' = 1..Len(kalshiSubs)
      BY <1>3, <3>3
    <3>5. ASSUME NEW i \in 1..Len(kalshiSubs)
          PROVE  kalshiSubs'[i] \in [sub : Subs, markets : SUBSET Tickers]
                   /\ kalshiSubs'[i].sub = kalshiSubs[i].sub
      <4>1. kalshiSubs[i] \in [sub : Subs, markets : SUBSET Tickers]
        BY <1>3, ElementOfSeq
      <4>2. c.markets \subseteq Tickers
        BY <3>2 DEF UpdateCmd
      <4>3. CASE i = c.sid
        <5>1. kalshiSubs'[i] = [kalshiSubs[i] EXCEPT !.markets =
                IF c.verb = "add_markets" THEN @ \cup c.markets ELSE @ \ c.markets]
          BY <1>3, <3>3, <4>3
        <5> QED BY <4>1, <4>2, <5>1
      <4>4. CASE i # c.sid
        BY <1>3, <3>3, <4>1, <4>4
      <4> QED BY <4>3, <4>4
    <3>6. kalshiSubs' \in Seq([sub : Subs, markets : SUBSET Tickers])
      <4>1. kalshiSubs' = [i \in 1..Len(kalshiSubs) |-> kalshiSubs'[i]]
        BY <1>3, <3>3
      <4> DEFINE f == kalshiSubs'
      <4>2. f = [i \in 1..Len(kalshiSubs) |-> f[i]] /\ \A i \in 1..Len(kalshiSubs) : f[i] \in [sub : Subs, markets : SUBSET Tickers]
        BY <4>1, <3>5
      <4> HIDE DEF f
      <4>3. f \in Seq([sub : Subs, markets : SUBSET Tickers])
        BY <1>3, <4>2, IsASeq
      <4> QED BY <4>3 DEF f
    <3> QED BY <1>3, <3>1, <3>4, <3>5, <3>6
  <2>3. CASE Refuse(id, c)
    <3> DEFINE r == [typ |-> "error", id |-> id, sub |-> "none", sid |-> 0]
    <3>1. r \in Reply /\ r.id = id /\ r.typ = "error"
      BY <1>4 DEF Reply
    <3>2. /\ kalshiSubs' = kalshiSubs /\ replies' = Append(replies, r)
          /\ refused \subseteq refused' /\ (c.verb = "subscribe" => c.sub \in refused')
      BY <2>3 DEF Refuse, Answer
    <3> HIDE DEF r
    <3>3. Answered(r)
      BY <3>1, <3>2
    <3> HIDE DEF Answered
    <3> QED BY <1>3, <3>1, <3>2, <3>3
  <2> QED BY <1>1, <2>1, <2>2, <2>3
<1>6. ASSUME NEW r \in Reply, Answered(r)
      PROVE  /\ replies' \in Seq(Reply) /\ DOMAIN replies' = 1..(Len(replies) + 1)
             /\ replies'[Len(replies) + 1] = r
             /\ \A i \in 1..Len(replies) : replies'[i] = replies[i]
  BY <1>3, <1>6, AppendProperties, LenProperties
<1>7. WireType'
  BY <1>1, <1>2, <1>3, <1>5, <1>6 DEF SessionInv, WireType
<1>8. \A i \in DOMAIN cmds' : id < cmds'[i].id /\ cmds'[i].id \in Nat
  <2> SUFFICES ASSUME NEW i \in DOMAIN cmds' PROVE id < cmds'[i].id /\ cmds'[i].id \in Nat
    OBVIOUS
  <2>1. i + 1 \in DOMAIN cmds /\ cmds'[i] = cmds[i + 1] /\ 1 < i + 1
    BY <1>2
  <2>2. cmds[1].id < cmds[i + 1].id
    BY <1>2, <2>1 DEF SessionInv, IdsInv
  <2>3. cmds[i + 1] \in Sent
    BY <1>2, <2>1, ElementOfSeq
  <2> QED BY <1>2, <2>1, <2>2, <2>3 DEF Sent

\* An old answer, or the new one.
<1>9. ASSUME NEW i \in DOMAIN replies'
      PROVE  \/ i \in DOMAIN replies /\ replies'[i] = replies[i]
             \/ i = Len(replies) + 1 /\ Answered(replies'[i])
  <2>1. CASE replies' = replies
    BY <2>1
  <2>2. CASE \E r \in Reply : Answered(r)
    <3>1. PICK r \in Reply : Answered(r)
      BY <2>2
    <3>2. i \in 1..Len(replies) \/ i = Len(replies) + 1
      BY <1>3, <1>6, <3>1
    <3> QED BY <1>3, <1>6, <3>1, <3>2
  <2> QED BY <1>5, <2>1, <2>2
<1>10. IdsInv'
  <2>1. /\ \A i \in DOMAIN cmds' : cmds'[i].id <= cmdId'
        /\ \A i, j \in DOMAIN cmds' : i < j => cmds'[i].id < cmds'[j].id
    BY <1>1, <1>2 DEF SessionInv, IdsInv
  <2>2. id <= cmdId /\ \A i \in DOMAIN replies : replies[i].id < id /\ replies[i].id <= cmdId
    BY <1>2 DEF SessionInv, IdsInv
  <2>3. \A i \in DOMAIN replies' : replies'[i].id <= cmdId'
    BY <1>1, <1>9, <2>2
  <2>4. ASSUME NEW i \in DOMAIN replies', NEW j \in DOMAIN replies', i < j
        PROVE  replies'[i].id < replies'[j].id
    <3>1. i \in DOMAIN replies /\ replies'[i] = replies[i]
      <4>1. i # Len(replies) + 1
        BY <1>3, <1>9, <2>4
      <4> QED BY <1>9, <4>1
    <3>2. CASE j \in DOMAIN replies /\ replies'[j] = replies[j]
      BY <2>4, <3>1, <3>2 DEF SessionInv, IdsInv
    <3>3. CASE Answered(replies'[j])
      BY <2>2, <3>1, <3>3
    <3> QED BY <1>9, <3>2, <3>3
  <2>5. ASSUME NEW i \in DOMAIN replies', NEW j \in DOMAIN cmds'
        PROVE  replies'[i].id < cmds'[j].id
    <3>1. CASE i \in DOMAIN replies /\ replies'[i] = replies[i]
      BY <1>2, <3>1 DEF SessionInv, IdsInv
    <3>2. CASE Answered(replies'[i])
      BY <1>8, <3>2
    <3> QED BY <1>9, <3>1, <3>2
  <2> QED BY <2>1, <2>3, <2>4, <2>5 DEF IdsInv
<1>11. PendingInv'
  <2>1. /\ DOMAIN pending' \subseteq 1..cmdId'
        /\ \A k \in DOMAIN pending' : pending'[k] \in Subs
        /\ \A i \in DOMAIN cmds' : cmds'[i].cmd.verb = "subscribe" =>
             cmds'[i].id \in DOMAIN pending' /\ pending'[cmds'[i].id] = cmds'[i].cmd.sub
    BY <1>1, <1>2 DEF SessionInv, PendingInv
  <2>2. c.verb = "subscribe" => id \in DOMAIN pending /\ pending[id] = c.sub
    BY <1>2 DEF SessionInv, PendingInv
  <2>3. ASSUME NEW i \in DOMAIN replies', replies'[i].typ = "subscribed"
        PROVE  replies'[i].id \in DOMAIN pending' /\ pending'[replies'[i].id] = replies'[i].sub
    <3>1. CASE i \in DOMAIN replies /\ replies'[i] = replies[i]
      BY <1>1, <2>3, <3>1 DEF SessionInv, PendingInv
    <3>2. CASE Answered(replies'[i])
      BY <1>1, <2>2, <2>3, <3>2
    <3> QED BY <1>9, <3>1, <3>2
  <2>4. ASSUME NEW k \in DOMAIN pending'
        PROVE  \/ \E i \in DOMAIN cmds' : cmds'[i].id = k /\ cmds'[i].cmd.verb = "subscribe"
               \/ \E i \in DOMAIN replies' : replies'[i].id = k /\ replies'[i].typ = "subscribed"
               \/ pending'[k] \in refused'
    <3>1. \/ \E i \in DOMAIN cmds : cmds[i].id = k /\ cmds[i].cmd.verb = "subscribe"
          \/ \E i \in DOMAIN replies : replies[i].id = k /\ replies[i].typ = "subscribed"
          \/ pending[k] \in refused
      BY <1>1 DEF SessionInv, PendingInv
    <3>2. ASSUME NEW i \in DOMAIN cmds, i # 1, cmds[i].id = k, cmds[i].cmd.verb = "subscribe"
          PROVE  \E j \in DOMAIN cmds' : cmds'[j].id = k /\ cmds'[j].cmd.verb = "subscribe"
      <4>1. i - 1 \in DOMAIN cmds' /\ (i - 1) + 1 = i
        BY <1>2, <3>2
      <4>2. cmds'[i - 1] = cmds[i]
        BY <1>2, <4>1
      <4> QED BY <3>2, <4>1, <4>2
    <3>3. CASE id = k /\ c.verb = "subscribe"
      <4>1. pending'[k] = c.sub
        BY <1>1, <2>2, <3>3
      <4>2. CASE \E r \in Reply : Answered(r) /\ r.typ = "subscribed"
        <5>1. PICK r \in Reply : Answered(r) /\ r.typ = "subscribed"
          BY <4>2
        <5>2. Len(replies) + 1 \in DOMAIN replies' /\ replies'[Len(replies) + 1] = r
          BY <1>3, <1>6, <5>1
        <5> QED BY <3>3, <5>1, <5>2
      <4> QED BY <1>5, <3>3, <4>1, <4>2
    <3>4. ASSUME NEW i \in DOMAIN replies, replies[i].id = k, replies[i].typ = "subscribed"
          PROVE  \E j \in DOMAIN replies' : replies'[j].id = k /\ replies'[j].typ = "subscribed"
      <4>1. CASE replies' = replies
        BY <3>4, <4>1
      <4>2. CASE \E r \in Reply : Answered(r)
        <5>1. PICK r \in Reply : Answered(r)
          BY <4>2
        <5>2. i \in DOMAIN replies' /\ replies'[i] = replies[i]
          BY <1>3, <1>6, <5>1
        <5> QED BY <3>4, <5>2
      <4> QED BY <1>5, <4>1, <4>2
    <3> QED BY <1>1, <1>2, <1>5, <3>1, <3>2, <3>3, <3>4
  <2> QED BY <2>1, <2>3, <2>4 DEF PendingInv
<1>12. RepliesGenuine'
  <2>1. ASSUME NEW i \in DOMAIN replies', replies'[i].typ = "subscribed"
        PROVE  replies'[i].sid \in DOMAIN kalshiSubs'
                 /\ kalshiSubs'[replies'[i].sid].sub = replies'[i].sub
    <3>1. CASE i \in DOMAIN replies /\ replies'[i] = replies[i]
      <4>1. replies[i].sid \in DOMAIN kalshiSubs
              /\ kalshiSubs[replies[i].sid].sub = replies[i].sub
        BY <2>1, <3>1 DEF SessionInv, RepliesGenuine, SidsOf
      <4> QED BY <1>5, <3>1, <4>1
    <3>2. CASE Answered(replies'[i])
      BY <2>1, <3>2
    <3> QED BY <1>9, <3>1, <3>2
  <2> QED BY <2>1 DEF RepliesGenuine, SidsOf
<1>13. SidsGenuine'
  BY <1>1, <1>5 DEF SessionInv, SidsGenuine, SidsOf
<1> QED BY <1>7, <1>10, <1>11, <1>12, <1>13 DEF SessionInv

-----------------------------------------------------------------------------
(* The theorems.                                                           *)

\* A feed starts with nothing asked for and nothing on its way.
LEMMA InitSession == Init => SessionInv
<1> SUFFICES ASSUME Init PROVE SessionInv
  OBVIOUS
<1>1. /\ cmdId = 0 /\ pending = <<>> /\ cmds = <<>> /\ replies = <<>> /\ kalshiSubs = <<>>
      /\ sids = [s \in MarketSubs |-> 0] /\ subscribed = {} /\ open \subseteq Tickers
  BY DEF Init
<1>2. DOMAIN <<>> = {}
  OBVIOUS
<1>3. WireType
  BY <1>1, EmptySeq DEF WireType
<1>4. IdsInv /\ PendingInv /\ RepliesGenuine /\ SidsGenuine
  BY <1>1, <1>2 DEF IdsInv, PendingInv, RepliesGenuine, SidsGenuine
<1> QED BY <1>3, <1>4 DEF SessionInv

\* Every step of the feed or of Kalshi keeps the invariant.
LEMMA NextSession == SessionInv /\ [Next]_vars => SessionInv'
<1> SUFFICES ASSUME SessionInv, [Next]_vars PROVE SessionInv'
  OBVIOUS
<1>1. CASE RollMarkets
  BY <1>1, StillKeeps DEF RollMarkets, SessionInv, WireType, wireVars, sessionVars
<1>2. CASE KalshiActs
  BY <1>2, KalshiKeeps
<1>3. CASE Connect
  BY <1>3, ConnectKeeps
<1>4. CASE Refresh
  BY <1>4, RefreshKeeps
<1>5. CASE ReadReply
  BY <1>5, ReadReplyKeeps
<1>6. CASE \E long \in BOOLEAN : SessionEnds(long)
  BY <1>6, EndKeeps
<1>7. CASE UNCHANGED vars
  BY <1>7, StillKeeps DEF vars, SessionInv, WireType, kalshiVars, wireVars, sessionVars
<1> QED BY <1>1, <1>2, <1>3, <1>4, <1>5, <1>6, <1>7 DEF Next

\* The invariant of a session holds throughout.
THEOREM SessionInvariant == Spec => []SessionInv
  BY InitSession, NextSession, PTL DEF Spec

\* A sid the session sends updates to is a subscription of this connection and
\* of that channel (feeds/task.rs:138-140, 391-401).
THEOREM SessionSids == Spec => []SidsGenuine
<1>1. SessionInv => SidsGenuine
  BY DEF SessionInv
<1> QED BY <1>1, SessionInvariant, PTL

\* An id is used once per session, and what awaits a reply has a command or an
\* answer under way, or was refused (feeds/task.rs:108-126, 391-392).
THEOREM SessionPending == Spec => []PendingAwaited
<1>1. SessionInv => PendingAwaited
  <2> SUFFICES ASSUME SessionInv PROVE PendingAwaited
    OBVIOUS
  <2>1. ASSUME NEW i \in DOMAIN cmds, NEW j \in DOMAIN cmds, i # j
        PROVE  cmds[i].id # cmds[j].id
    <3>1. cmds \in Seq(Sent) /\ Len(cmds) \in Nat /\ DOMAIN cmds = 1..Len(cmds)
      BY LenProperties DEF SessionInv, WireType
    <3>2. cmds[i].id \in Nat /\ cmds[j].id \in Nat
      <4>1. cmds[i] \in Sent /\ cmds[j] \in Sent
        BY <3>1, ElementOfSeq
      <4> QED BY <4>1 DEF Sent
    <3>3. (i < j => cmds[i].id < cmds[j].id) /\ (j < i => cmds[j].id < cmds[i].id)
      BY DEF SessionInv, IdsInv
    <3>4. i < j \/ j < i
      BY <2>1, <3>1
    <3> QED BY <3>2, <3>3, <3>4
  <2>2. ASSUME NEW id \in DOMAIN pending
        PROVE  \/ \E i \in DOMAIN cmds :
                    /\ cmds[i].id = id
                    /\ cmds[i].cmd.verb = "subscribe" /\ cmds[i].cmd.sub = pending[id]
               \/ \E i \in DOMAIN replies :
                    /\ replies[i].id = id
                    /\ replies[i].typ = "subscribed" => replies[i].sub = pending[id]
               \/ pending[id] \in refused
    BY DEF SessionInv, PendingInv
  <2> QED BY <2>1, <2>2 DEF PendingAwaited
<1> QED BY <1>1, SessionInvariant, PTL

-----------------------------------------------------------------------------
(***************************************************************************)
(* Every market subscribed has a book, or a command under way for one.     *)
(***************************************************************************)

Asks(c, sub) == c.verb = "subscribe" /\ c.sub = sub
Adds(c, s, m) == c.verb = "add_markets" /\ c.sid = s /\ m \in c.markets
Deletes(c, s, m) == c.verb = "delete_markets" /\ c.sid = s /\ m \in c.markets
Accepts(r, sub) == r.typ = "subscribed" /\ r.sub = sub

\* An update on its way names a subscription of this connection.
CmdsGenuine ==
  \A i \in DOMAIN cmds :
    cmds[i].cmd.verb # "subscribe" => cmds[i].cmd.sid \in DOMAIN kalshiSubs

\* subscribe_markets asks for the orderbook first, so the ticker's sid is not
\* learned while the orderbook's is unknown, or the orderbook was refused.
BookFirst ==
  \/ "orderbook" \in refused
  \/ sids["orderbook"] # 0
  \/ /\ sids["ticker"] = 0
     /\ \A i \in DOMAIN replies : Accepts(replies[i], "ticker") =>
          \E j \in DOMAIN replies : j < i /\ Accepts(replies[j], "orderbook")
     /\ \A i \in DOMAIN cmds : Asks(cmds[i].cmd, "ticker") =>
          \/ \E j \in DOMAIN replies : Accepts(replies[j], "orderbook")
          \/ \E j \in DOMAIN cmds : j < i /\ Asks(cmds[j].cmd, "orderbook")

\* A subscription has m and will keep it, or a command that will add m is on
\* its way, and no later one will take m from the same subscription.
WillServe(m) ==
  \/ \E s \in SidsOf("orderbook") :
       /\ m \in kalshiSubs[s].markets
       /\ \A j \in DOMAIN cmds : ~Deletes(cmds[j].cmd, s, m)
  \/ \E i \in DOMAIN cmds :
       Asks(cmds[i].cmd, "orderbook") /\ m \in cmds[i].cmd.markets
  \/ \E i \in DOMAIN cmds, s \in SidsOf("orderbook") :
       /\ Adds(cmds[i].cmd, s, m)
       /\ \A j \in DOMAIN cmds : j > i => ~Deletes(cmds[j].cmd, s, m)

(***************************************************************************)
(* The inductive invariant behind OrderbookServed.                         *)
(***************************************************************************)
ServedInv ==
  /\ SessionInv
  /\ CmdsGenuine
  /\ BookFirst
  /\ "orderbook" \in refused \/ \A m \in subscribed : WillServe(m)

\* Where the elements of a concatenation come from.
LEMMA Concatenated ==
  ASSUME NEW S, NEW a \in Seq(S), NEW b \in Seq(S)
  PROVE  /\ a \o b \in Seq(S)
         /\ Len(a) \in Nat /\ Len(b) \in Nat /\ Len(a \o b) = Len(a) + Len(b)
         /\ \A i \in 1..Len(a) : (a \o b)[i] = a[i]
         /\ \A i \in Len(a) + 1..Len(a) + Len(b) : (a \o b)[i] = b[i - Len(a)]
<1>1. Len(a) \in Nat /\ Len(b) \in Nat
  BY LenProperties
<1>2. /\ a \o b \in Seq(S) /\ Len(a \o b) = Len(a) + Len(b)
      /\ \A i \in 1..Len(a) + Len(b) :
           (a \o b)[i] = IF i <= Len(a) THEN a[i] ELSE b[i - Len(a)]
  BY ConcatProperties
<1>3. ASSUME NEW i \in 1..Len(a) PROVE (a \o b)[i] = a[i]
  <2>1. i \in 1..Len(a) + Len(b) /\ i <= Len(a)
    BY <1>1
  <2> QED BY <1>2, <2>1
<1>4. ASSUME NEW i \in Len(a) + 1..Len(a) + Len(b)
      PROVE  (a \o b)[i] = b[i - Len(a)]
  <2>1. i \in 1..Len(a) + Len(b) /\ ~(i <= Len(a))
    BY <1>1
  <2> QED BY <1>2, <2>1
<1> QED BY <1>1, <1>2, <1>3, <1>4

\* Where the commands sent are: behind those there were, in their order.
LEMMA SentWhere ==
  ASSUME NEW last \in Nat, NEW entries, NEW before \in Seq(Sent),
         NEW list \in Seq(Command), SendFrom(last, entries, before, list)
  PROVE  /\ Len(before) \in Nat /\ Len(list) \in Nat
         /\ DOMAIN before = 1..Len(before) /\ DOMAIN list = 1..Len(list)
         /\ DOMAIN cmds' = 1..(Len(before) + Len(list))
         /\ \A i \in 1..Len(before) : cmds'[i] = before[i]
         /\ \A i \in 1..Len(list) : cmds'[Len(before) + i].cmd = list[i]
<1> DEFINE new == [i \in DOMAIN list |-> [id |-> last + i, cmd |-> list[i]]]
<1>1. cmds' = before \o new
  BY DEF SendFrom
<1>2. /\ Len(before) \in Nat /\ Len(list) \in Nat
      /\ DOMAIN before = 1..Len(before) /\ DOMAIN list = 1..Len(list)
      /\ \A i \in 1..Len(list) : list[i] \in Command
  BY LenProperties, ElementOfSeq
<1>3. new \in Seq(Sent) /\ Len(new) = Len(list)
  <2>1. \A i \in 1..Len(list) : new[i] \in Sent
    BY <1>2 DEF Sent, Command
  <2>2. new = [i \in 1..Len(list) |-> new[i]]
    BY <1>2
  <2> HIDE DEF new
  <2>3. new \in Seq(Sent)
    BY <1>2, <2>1, <2>2, IsASeq
  <2>4. DOMAIN new = 1..Len(list)
    BY <2>2
  <2> QED BY <1>2, <2>3, <2>4, LenProperties
<1>4. \A i \in 1..Len(list) : new[i].cmd = list[i]
  BY <1>2
<1> HIDE DEF new
<1>5. /\ Len(before \o new) = Len(before) + Len(new)
      /\ before \o new \in Seq(Sent)
      /\ \A i \in 1..Len(before) : (before \o new)[i] = before[i]
      /\ \A i \in Len(before) + 1..Len(before) + Len(new) :
           (before \o new)[i] = new[i - Len(before)]
  BY <1>3, Concatenated
<1>6. DOMAIN cmds' = 1..(Len(before) + Len(list))
  BY <1>1, <1>3, <1>5, LenProperties
<1>7. ASSUME NEW i \in 1..Len(list)
      PROVE  cmds'[Len(before) + i].cmd = list[i]
  <2>1. /\ Len(before) + i \in Len(before) + 1..Len(before) + Len(new)
        /\ (Len(before) + i) - Len(before) = i
    BY <1>2, <1>3
  <2> QED BY <1>1, <1>4, <1>5, <2>1
<1> QED BY <1>1, <1>2, <1>5, <1>6, <1>7

\* The commands of a first or second subscription to the market channels.
LEMMA SubscribeMarketsAre ==
  ASSUME NEW markets \in SUBSET Tickers
  PROVE  LET list == SubscribeMarkets(markets)
         IN /\ list \in Seq(Command)
            /\ markets = {} => list = <<>>
            /\ markets # {} =>
                 /\ Len(list) = 2
                 /\ list[1] = Subscribe("orderbook", markets)
                 /\ list[2] = Subscribe("ticker", markets)
BY SubscribeMarketsType DEF SubscribeMarkets

\* An update adds before it deletes, and names the sid it is for.
LEMMA UpdatesAre ==
  ASSUME NEW sid \in Nat, NEW add \in SUBSET Tickers, NEW del \in SUBSET Tickers
  PROVE  LET list == UpdatesOf(sid, add, del)
         IN /\ list \in Seq(Command)
            /\ \A i \in 1..Len(list) :
                 list[i] \in {Update(sid, "add_markets", add),
                              Update(sid, "delete_markets", del)} /\ sid # 0
            /\ (sid # 0 /\ add # {}) =>
                 1 \in 1..Len(list) /\ list[1] = Update(sid, "add_markets", add)
<1>1. UpdatesOf(sid, add, del) \in Seq(Command)
  BY UpdatesType
<1>2. CASE sid = 0
  <2>1. UpdatesOf(sid, add, del) = <<>>
    BY <1>2 DEF UpdatesOf
  <2> QED BY <1>1, <1>2, <2>1
<1>3. CASE sid # 0
  <2>1. ASSUME NEW verb \in {"add_markets", "delete_markets"},
               NEW set \in SUBSET Tickers,
               NEW part, part = IF set = {} THEN <<>> ELSE <<Update(sid, verb, set)>>
        PROVE  /\ part \in Seq(Command) /\ Len(part) \in {0, 1}
               /\ Len(part) = 1 => part[1] = Update(sid, verb, set)
               /\ set # {} => Len(part) = 1
    <3>1. Update(sid, verb, set) \in Command
      BY <1>3 DEF Update, UpdateCmd, Command
    <3>2. CASE set = {}
      BY <2>1, <3>2
    <3>3. CASE set # {}
      <4>1. part = <<Update(sid, verb, set)>>
        BY <2>1, <3>3
      <4> QED BY <3>1, <4>1
    <3> QED BY <3>2, <3>3
  <2> PICK a : a = IF add = {} THEN <<>> ELSE <<Update(sid, "add_markets", add)>>
    OBVIOUS
  <2> PICK b : b = IF del = {} THEN <<>> ELSE <<Update(sid, "delete_markets", del)>>
    OBVIOUS
  <2>2. /\ a \in Seq(Command) /\ Len(a) \in {0, 1}
        /\ Len(a) = 1 => a[1] = Update(sid, "add_markets", add)
        /\ add # {} => Len(a) = 1
    BY <2>1
  <2>3. /\ b \in Seq(Command) /\ Len(b) \in {0, 1}
        /\ Len(b) = 1 => b[1] = Update(sid, "delete_markets", del)
    BY <2>1
  <2>4. UpdatesOf(sid, add, del) = a \o b
    BY <1>3 DEF UpdatesOf
  <2> PICK list : list = a \o b
    OBVIOUS
  <2>5. /\ list \in Seq(Command) /\ Len(list) = Len(a) + Len(b)
        /\ \A i \in 1..Len(a) : list[i] = a[i]
        /\ \A i \in Len(a) + 1..Len(a) + Len(b) : list[i] = b[i - Len(a)]
    BY <2>2, <2>3, Concatenated
  <2>6. ASSUME NEW i \in 1..Len(list)
        PROVE  list[i] \in {Update(sid, "add_markets", add),
                            Update(sid, "delete_markets", del)}
    <3>1. CASE i \in 1..Len(a)
      <4>1. i = 1 /\ Len(a) = 1
        BY <2>2, <3>1
      <4> QED BY <2>2, <2>5, <4>1
    <3>2. CASE i \notin 1..Len(a)
      <4>1. i \in Len(a) + 1..Len(a) + Len(b) /\ i - Len(a) = 1 /\ Len(b) = 1
        BY <2>2, <2>3, <2>5, <3>2
      <4> QED BY <2>3, <2>5, <4>1
    <3> QED BY <3>1, <3>2
  <2>7. add # {} => 1 \in 1..Len(list) /\ list[1] = Update(sid, "add_markets", add)
    BY <2>2, <2>3, <2>5
  <2> QED BY <1>3, <2>4, <2>5, <2>6, <2>7
<1> QED BY <1>2, <1>3

\* The updates of a refresh, the orderbook's first.
LEMMA UpdatesOfAllAre ==
  ASSUME SessionInv, NEW add \in SUBSET Tickers, NEW del \in SUBSET Tickers
  PROVE  LET list == UpdatesOfAll(add, del)
         IN /\ list \in Seq(Command)
            /\ \A i \in 1..Len(list) : \E s \in MarketSubs :
                 /\ sids[s] # 0
                 /\ list[i] \in {Update(sids[s], "add_markets", add),
                                 Update(sids[s], "delete_markets", del)}
            /\ (sids["orderbook"] # 0 /\ add # {}) =>
                 /\ 1 \in 1..Len(list)
                 /\ list[1] = Update(sids["orderbook"], "add_markets", add)
<1> DEFINE a == UpdatesOf(sids["orderbook"], add, del)
           b == UpdatesOf(sids["ticker"], add, del)
<1>1. sids["orderbook"] \in Nat /\ sids["ticker"] \in Nat
  BY DEF SessionInv, WireType, MarketSubs
<1>2. /\ a \in Seq(Command)
      /\ \A i \in 1..Len(a) :
           /\ a[i] \in {Update(sids["orderbook"], "add_markets", add),
                        Update(sids["orderbook"], "delete_markets", del)}
           /\ sids["orderbook"] # 0
      /\ (sids["orderbook"] # 0 /\ add # {}) =>
           /\ 1 \in 1..Len(a)
           /\ a[1] = Update(sids["orderbook"], "add_markets", add)
  BY <1>1, UpdatesAre
<1>3. /\ b \in Seq(Command)
      /\ \A i \in 1..Len(b) :
           /\ b[i] \in {Update(sids["ticker"], "add_markets", add),
                        Update(sids["ticker"], "delete_markets", del)}
           /\ sids["ticker"] # 0
  BY <1>1, UpdatesAre
<1>4. UpdatesOfAll(add, del) = a \o b
  BY DEF UpdatesOfAll
<1> HIDE DEF a, b
<1>5. /\ a \o b \in Seq(Command)
      /\ Len(a \o b) = Len(a) + Len(b)
      /\ \A i \in 1..Len(a) : (a \o b)[i] = a[i]
      /\ \A i \in Len(a) + 1..Len(a) + Len(b) : (a \o b)[i] = b[i - Len(a)]
      /\ Len(a) \in Nat /\ Len(b) \in Nat
  BY <1>2, <1>3, Concatenated
<1>6. ASSUME NEW i \in 1..Len(a \o b)
      PROVE  \E s \in MarketSubs :
               /\ sids[s] # 0
               /\ (a \o b)[i] \in {Update(sids[s], "add_markets", add),
                                   Update(sids[s], "delete_markets", del)}
  <2>1. CASE i \in 1..Len(a)
    BY <1>2, <1>5, <2>1 DEF MarketSubs
  <2>2. CASE i \notin 1..Len(a)
    <3>1. i \in Len(a) + 1..Len(a) + Len(b) /\ i - Len(a) \in 1..Len(b)
      BY <1>5, <2>2
    <3> QED BY <1>3, <1>5, <3>1 DEF MarketSubs
  <2> QED BY <2>1, <2>2
<1>7. (sids["orderbook"] # 0 /\ add # {}) =>
        /\ 1 \in 1..Len(a \o b)
        /\ (a \o b)[1] = Update(sids["orderbook"], "add_markets", add)
  BY <1>2, <1>5
<1> QED BY <1>4, <1>5, <1>6, <1>7

\* Kalshi takes the first command; the others move up.
LEMMA KalshiHead ==
  ASSUME SessionInv, KalshiActs
  PROVE  /\ Len(cmds) \in Nat \ {0} /\ DOMAIN cmds = 1..Len(cmds)
         /\ DOMAIN cmds' = 1..(Len(cmds) - 1)
         /\ cmds[1] \in Sent /\ Head(cmds) = cmds[1]
         /\ \A i \in DOMAIN cmds' : i + 1 \in DOMAIN cmds /\ cmds'[i] = cmds[i + 1]
         /\ \A i \in DOMAIN cmds :
              i = 1 \/ (i - 1 \in DOMAIN cmds' /\ cmds'[i - 1] = cmds[i])
         /\ UNCHANGED <<cmdId, pending, sids, subscribed>>
<1>1. cmds \in Seq(Sent) /\ cmds # <<>> /\ cmds' = Tail(cmds)
  BY DEF SessionInv, WireType, KalshiActs
<1>2. /\ Len(cmds) \in Nat \ {0} /\ DOMAIN cmds = 1..Len(cmds)
      /\ DOMAIN cmds' = 1..(Len(cmds) - 1)
      /\ cmds[1] \in Sent /\ Head(cmds) = cmds[1]
      /\ \A i \in DOMAIN cmds' : i + 1 \in DOMAIN cmds /\ cmds'[i] = cmds[i + 1]
  BY <1>1, HeadTailProperties, ElementOfSeq, LenProperties, EmptySeq
<1>3. ASSUME NEW i \in DOMAIN cmds, i # 1
      PROVE  i - 1 \in DOMAIN cmds' /\ cmds'[i - 1] = cmds[i]
  <2>1. i - 1 \in DOMAIN cmds' /\ (i - 1) + 1 = i
    BY <1>2, <1>3
  <2> QED BY <1>2, <2>1
<1> QED BY <1>2, <1>3 DEF KalshiActs, sessionVars

\* What acting on command c does to the subscriptions, n of them before.
SubsAfter(id, c, n) ==
  /\ n \in Nat /\ DOMAIN kalshiSubs = 1..n
  /\ AcceptSubscribe(id, c) =>
       /\ DOMAIN kalshiSubs' = 1..(n + 1)
       /\ kalshiSubs'[n + 1] = [sub |-> c.sub, markets |-> c.markets]
       /\ \A s \in 1..n : kalshiSubs'[s] = kalshiSubs[s]
  /\ AcceptUpdate(c) =>
       /\ DOMAIN kalshiSubs' = 1..n
       /\ \A s \in 1..n : kalshiSubs'[s].sub = kalshiSubs[s].sub
       /\ \A s \in 1..n \ {c.sid} : kalshiSubs'[s] = kalshiSubs[s]
       /\ c.sid \in 1..n => kalshiSubs'[c.sid].markets =
            IF c.verb = "add_markets"
              THEN kalshiSubs[c.sid].markets \cup c.markets
              ELSE kalshiSubs[c.sid].markets \ c.markets
  /\ Refuse(id, c) => kalshiSubs' = kalshiSubs

\* The subscriptions are what SubsAfter says of them.
LEMMA KalshiSubsAre ==
  ASSUME SessionInv, NEW id, NEW c \in Command, NEW n, n = Len(kalshiSubs)
  PROVE  SubsAfter(id, c, n)
<1>1. /\ kalshiSubs \in Seq([sub : Subs, markets : SUBSET Tickers])
      /\ Len(kalshiSubs) \in Nat /\ DOMAIN kalshiSubs = 1..Len(kalshiSubs)
  BY LenProperties DEF SessionInv, WireType
<1>2. ASSUME AcceptSubscribe(id, c)
      PROVE  /\ DOMAIN kalshiSubs' = 1..(n + 1)
             /\ kalshiSubs'[n + 1] = [sub |-> c.sub, markets |-> c.markets]
             /\ \A s \in 1..n : kalshiSubs'[s] = kalshiSubs[s]
  <2>1. c \in SubscribeCmd
    BY <1>2 DEF AcceptSubscribe, Command, SubscribeCmd, UpdateCmd
  <2>2. [sub |-> c.sub, markets |-> c.markets]
          \in [sub : Subs, markets : SUBSET Tickers]
    BY <2>1 DEF SubscribeCmd
  <2>3. kalshiSubs' = Append(kalshiSubs, [sub |-> c.sub, markets |-> c.markets])
    BY <1>2 DEF AcceptSubscribe
  <2> QED BY <1>1, <2>2, <2>3, AppendProperties, LenProperties
<1>3. ASSUME AcceptUpdate(c)
      PROVE  /\ DOMAIN kalshiSubs' = 1..n
             /\ \A s \in 1..n : kalshiSubs'[s].sub = kalshiSubs[s].sub
             /\ \A s \in 1..n \ {c.sid} : kalshiSubs'[s] = kalshiSubs[s]
             /\ c.sid \in 1..n => kalshiSubs'[c.sid].markets =
                  IF c.verb = "add_markets"
                    THEN kalshiSubs[c.sid].markets \cup c.markets
                    ELSE kalshiSubs[c.sid].markets \ c.markets
  <2>1. kalshiSubs' = [kalshiSubs EXCEPT ![c.sid].markets =
          IF c.verb = "add_markets" THEN @ \cup c.markets ELSE @ \ c.markets]
    BY <1>3 DEF AcceptUpdate
  <2>2. \A s \in 1..n : kalshiSubs[s] \in [sub : Subs, markets : SUBSET Tickers]
    BY <1>1, ElementOfSeq
  <2>3. ASSUME NEW s \in 1..n, s # c.sid PROVE kalshiSubs'[s] = kalshiSubs[s]
    BY <1>1, <2>1, <2>3
  <2>4. ASSUME c.sid \in 1..n
        PROVE  kalshiSubs'[c.sid] = [kalshiSubs[c.sid] EXCEPT !.markets =
                 IF c.verb = "add_markets" THEN @ \cup c.markets ELSE @ \ c.markets]
    BY <1>1, <2>1, <2>4
  <2>5. DOMAIN kalshiSubs' = 1..n
    BY <1>1, <2>1
  <2>6. c.sid \in 1..n =>
          /\ kalshiSubs'[c.sid].sub = kalshiSubs[c.sid].sub
          /\ kalshiSubs'[c.sid].markets =
               IF c.verb = "add_markets"
                 THEN kalshiSubs[c.sid].markets \cup c.markets
                 ELSE kalshiSubs[c.sid].markets \ c.markets
    BY <2>2, <2>4
  <2> QED BY <2>3, <2>5, <2>6
<1> QED BY <1>1, <1>2, <1>3 DEF Refuse, SubsAfter

\* An acceptance answers a subscribe command, and a subscribe command is
\* accepted or refused.
LEMMA KalshiAnswers ==
  ASSUME SessionInv, KalshiActs, NEW c, c = cmds[1].cmd
  PROVE  /\ Len(replies) \in Nat /\ DOMAIN replies = 1..Len(replies)
         /\ refused \subseteq refused'
         /\ \A i \in DOMAIN replies :
              i \in DOMAIN replies' /\ replies'[i] = replies[i]
         /\ \A i \in DOMAIN replies' : i \notin DOMAIN replies =>
              /\ i = Len(replies) + 1
              /\ \A x : Accepts(replies'[i], x) => Asks(c, x)
         /\ \A x : Asks(c, x) =>
              x \in refused' \/ \E i \in DOMAIN replies' : Accepts(replies'[i], x)
<1>1. /\ replies \in Seq(Reply) /\ Len(replies) \in Nat
      /\ DOMAIN replies = 1..Len(replies)
  BY LenProperties DEF SessionInv, WireType
<1> PICK id : id = cmds[1].id
  OBVIOUS
<1>2. /\ AcceptSubscribe(id, c) \/ AcceptUpdate(c) \/ Refuse(id, c)
      /\ id \in Nat \ {0} /\ c \in Command
  BY KalshiHead DEF KalshiActs, Sent, Command
<1>3. ASSUME NEW r \in Reply, replies' = Append(replies, r)
      PROVE  /\ DOMAIN replies' = 1..(Len(replies) + 1)
             /\ replies'[Len(replies) + 1] = r
             /\ \A i \in 1..Len(replies) : replies'[i] = replies[i]
  BY <1>1, <1>3, AppendProperties, LenProperties
<1>4. CASE AcceptSubscribe(id, c)
  <2>1. PICK r : r = [typ |-> "subscribed", id |-> id, sub |-> c.sub,
                      sid |-> Len(kalshiSubs) + 1]
    OBVIOUS
  <2>2. c \in SubscribeCmd
    BY <1>2, <1>4 DEF AcceptSubscribe, Command, SubscribeCmd, UpdateCmd
  <2>3. Len(kalshiSubs) \in Nat
    BY LenProperties DEF SessionInv, WireType
  <2>4. r \in Reply
    BY <1>2, <2>1, <2>2, <2>3 DEF SubscribeCmd, Reply
  <2>5. replies' = Append(replies, r) /\ refused' = refused
    BY <1>4, <2>1 DEF AcceptSubscribe, Answer
  <2>6. /\ DOMAIN replies' = 1..(Len(replies) + 1)
        /\ replies'[Len(replies) + 1] = r
        /\ \A i \in 1..Len(replies) : replies'[i] = replies[i]
    BY <1>3, <2>4, <2>5
  <2>7. \A x : Accepts(r, x) <=> Asks(c, x)
    BY <1>4, <2>1 DEF Accepts, Asks, AcceptSubscribe
  <2>8. /\ \A i \in DOMAIN replies' : i \notin DOMAIN replies =>
             i = Len(replies) + 1 /\ replies'[i] = r
        /\ Len(replies) + 1 \in DOMAIN replies'
    BY <1>1, <2>6
  <2>9. \A i \in DOMAIN replies : i \in DOMAIN replies' /\ replies'[i] = replies[i]
    BY <1>1, <2>6
  <2> HIDE <2>1
  <2> QED BY <1>1, <2>5, <2>6, <2>7, <2>8, <2>9
<1>5. CASE AcceptUpdate(c)
  BY <1>1, <1>5 DEF AcceptUpdate, Asks
<1>6. CASE Refuse(id, c)
  <2>1. PICK r : r = [typ |-> "error", id |-> id, sub |-> "none", sid |-> 0]
    OBVIOUS
  <2>2. r \in Reply
    BY <1>2, <2>1 DEF Reply
  <2>3. replies' = Append(replies, r) /\ refused \subseteq refused'
    BY <1>6, <2>1 DEF Refuse, Answer
  <2>4. /\ DOMAIN replies' = 1..(Len(replies) + 1)
        /\ replies'[Len(replies) + 1] = r
        /\ \A i \in 1..Len(replies) : replies'[i] = replies[i]
    BY <1>3, <2>2, <2>3
  <2>5. \A x : ~Accepts(r, x)
    BY <2>1 DEF Accepts
  <2>6. \A x : Asks(c, x) => x \in refused'
    BY <1>6 DEF Refuse, Asks
  <2>7. \A i \in DOMAIN replies' : i \notin DOMAIN replies =>
          i = Len(replies) + 1 /\ replies'[i] = r
    BY <1>1, <2>4
  <2>8. \A i \in DOMAIN replies : i \in DOMAIN replies' /\ replies'[i] = replies[i]
    BY <1>1, <2>4
  <2> QED BY <1>1, <2>3, <2>4, <2>5, <2>6, <2>7, <2>8
<1> QED BY <1>2, <1>4, <1>5, <1>6

\* Acting on a command makes good what it promised.
LEMMA KalshiServes ==
  ASSUME SessionInv, CmdsGenuine, KalshiActs, NEW m, WillServe(m)
  PROVE  "orderbook" \in refused' \/ WillServe(m)'
<1> PICK c : c = cmds[1].cmd
  OBVIOUS
<1> PICK id : id = cmds[1].id
  OBVIOUS
<1> PICK n : n = Len(kalshiSubs)
  OBVIOUS
<1>1. /\ DOMAIN cmds' = 1..(Len(cmds) - 1)
      /\ \A i \in DOMAIN cmds' : i + 1 \in DOMAIN cmds /\ cmds'[i] = cmds[i + 1]
      /\ \A i \in DOMAIN cmds :
           i = 1 \/ (i - 1 \in DOMAIN cmds' /\ cmds'[i - 1] = cmds[i])
      /\ 1 \in DOMAIN cmds /\ DOMAIN cmds = 1..Len(cmds) /\ Len(cmds) \in Nat
      /\ c \in Command
      /\ AcceptSubscribe(id, c) \/ AcceptUpdate(c) \/ Refuse(id, c)
  BY KalshiHead DEF Sent, Command, KalshiActs
<1>2. /\ n \in Nat /\ DOMAIN kalshiSubs = 1..n
      /\ AcceptSubscribe(id, c) =>
           /\ DOMAIN kalshiSubs' = 1..(n + 1)
           /\ kalshiSubs'[n + 1] = [sub |-> c.sub, markets |-> c.markets]
           /\ \A s \in 1..n : kalshiSubs'[s] = kalshiSubs[s]
      /\ AcceptUpdate(c) =>
           /\ DOMAIN kalshiSubs' = 1..n
           /\ \A s \in 1..n : kalshiSubs'[s].sub = kalshiSubs[s].sub
           /\ \A s \in 1..n \ {c.sid} : kalshiSubs'[s] = kalshiSubs[s]
           /\ c.sid \in 1..n => kalshiSubs'[c.sid].markets =
                IF c.verb = "add_markets"
                  THEN kalshiSubs[c.sid].markets \cup c.markets
                  ELSE kalshiSubs[c.sid].markets \ c.markets
      /\ Refuse(id, c) => kalshiSubs' = kalshiSubs
  <2>1. SubsAfter(id, c, n)
    BY <1>1, KalshiSubsAre
  <2> QED BY <2>1 DEF SubsAfter
<1>3. \A s \in SidsOf("orderbook") : s \in SidsOf("orderbook")'
  BY <1>1, <1>2 DEF SidsOf
<1>4. SidsOf("orderbook") \subseteq 1..n
  BY <1>2 DEF SidsOf
<1>5. ASSUME NEW s \in SidsOf("orderbook"), m \in kalshiSubs[s].markets,
             \A j \in DOMAIN cmds : ~Deletes(cmds[j].cmd, s, m)
      PROVE  WillServe(m)'
  <2>1. ~Deletes(c, s, m) /\ \A j \in DOMAIN cmds' : ~Deletes(cmds'[j].cmd, s, m)
    BY <1>1, <1>5
  <2>2. s \in 1..n
    BY <1>4
  <2>3. m \in kalshiSubs'[s].markets
    <3>1. CASE AcceptSubscribe(id, c) \/ Refuse(id, c)
      BY <1>2, <1>5, <2>2, <3>1
    <3>2. CASE AcceptUpdate(c)
      <4>1. CASE s # c.sid
        BY <1>2, <1>5, <2>2, <3>2, <4>1
      <4>2. CASE s = c.sid
        <5>1. c.verb = "add_markets" \/ m \notin c.markets
          BY <1>1, <2>1, <3>2, <4>2
             DEF Deletes, AcceptUpdate, Command, SubscribeCmd, UpdateCmd
        <5> QED BY <1>2, <1>5, <2>2, <3>2, <4>2, <5>1
      <4> QED BY <4>1, <4>2
    <3> QED BY <1>1, <3>1, <3>2
  <2> QED BY <1>3, <2>1, <2>3 DEF WillServe
<1>6. ASSUME NEW i \in DOMAIN cmds, Asks(cmds[i].cmd, "orderbook"),
             m \in cmds[i].cmd.markets
      PROVE  "orderbook" \in refused' \/ WillServe(m)'
  <2>1. CASE i # 1
    <3>1. i - 1 \in DOMAIN cmds' /\ cmds'[i - 1] = cmds[i]
      BY <1>1, <2>1
    <3> QED BY <1>6, <3>1 DEF WillServe
  <2>2. CASE i = 1
    <3>1. c.verb = "subscribe" /\ c.sub = "orderbook" /\ m \in c.markets
      BY <1>6, <2>2 DEF Asks
    <3>2. CASE AcceptSubscribe(id, c)
      <4>1. n + 1 \in SidsOf("orderbook")' /\ m \in kalshiSubs'[n + 1].markets
        BY <1>2, <3>1, <3>2 DEF SidsOf
      <4>2. ASSUME NEW j \in DOMAIN cmds' PROVE ~Deletes(cmds'[j].cmd, n + 1, m)
        <5>1. j + 1 \in DOMAIN cmds /\ cmds'[j] = cmds[j + 1]
          BY <1>1
        <5>2. cmds[j + 1].cmd.verb # "subscribe" => cmds[j + 1].cmd.sid \in 1..n
          BY <1>2, <5>1 DEF CmdsGenuine
        <5> QED BY <1>2, <5>1, <5>2 DEF Deletes
      <4> QED BY <4>1, <4>2 DEF WillServe
    <3>3. CASE AcceptUpdate(c)
      BY <3>1, <3>3 DEF AcceptUpdate
    <3>4. CASE Refuse(id, c)
      BY <3>1, <3>4 DEF Refuse
    <3> QED BY <1>1, <3>2, <3>3, <3>4
  <2> QED BY <2>1, <2>2
<1>7. ASSUME NEW i \in DOMAIN cmds, NEW s \in SidsOf("orderbook"),
             Adds(cmds[i].cmd, s, m),
             \A j \in DOMAIN cmds : j > i => ~Deletes(cmds[j].cmd, s, m)
      PROVE  "orderbook" \in refused' \/ WillServe(m)'
  <2>1. CASE i # 1
    <3>1. i - 1 \in DOMAIN cmds' /\ cmds'[i - 1] = cmds[i]
      BY <1>1, <2>1
    <3>2. ASSUME NEW j \in DOMAIN cmds', j > i - 1
          PROVE  ~Deletes(cmds'[j].cmd, s, m)
      <4>1. j + 1 \in DOMAIN cmds /\ cmds'[j] = cmds[j + 1] /\ j + 1 > i
        BY <1>1, <3>2
      <4> QED BY <1>7, <4>1
    <3>3. s \in SidsOf("orderbook")'
      BY <1>3
    <3> QED BY <1>7, <3>1, <3>2, <3>3 DEF WillServe
  <2>2. CASE i = 1
    <3>1. c.verb = "add_markets" /\ c.sid = s /\ m \in c.markets
      BY <1>7, <2>2 DEF Adds
    <3>2. s \in 1..n /\ kalshiSubs[s].sub = "orderbook"
      BY <1>2 DEF SidsOf
    <3>3. CASE AcceptSubscribe(id, c)
      BY <3>1, <3>3 DEF AcceptSubscribe
    <3>4. CASE AcceptUpdate(c)
      <4>1. m \in kalshiSubs'[s].markets
        BY <1>2, <3>1, <3>2, <3>4
      <4>2. ASSUME NEW j \in DOMAIN cmds' PROVE ~Deletes(cmds'[j].cmd, s, m)
        <5>1. j + 1 \in DOMAIN cmds /\ cmds'[j] = cmds[j + 1] /\ j + 1 > 1
          BY <1>1
        <5> QED BY <1>7, <2>2, <5>1
      <4>3. s \in SidsOf("orderbook")'
        BY <1>3
      <4> QED BY <4>1, <4>2, <4>3 DEF WillServe
    <3>5. CASE Refuse(id, c)
      BY <3>1, <3>2, <3>5 DEF Refuse
    <3> QED BY <1>1, <3>3, <3>4, <3>5
  <2> QED BY <2>1, <2>2
<1> QED BY <1>5, <1>6, <1>7 DEF WillServe

\* Kalshi's part of the step.
LEMMA KalshiServedInv == ServedInv /\ KalshiActs => ServedInv'
<1> SUFFICES ASSUME ServedInv, KalshiActs PROVE ServedInv'
  OBVIOUS
<1>1. /\ SessionInv /\ CmdsGenuine /\ BookFirst
      /\ "orderbook" \in refused \/ \A m \in subscribed : WillServe(m)
  BY DEF ServedInv
<1>2. SessionInv'
  BY <1>1, KalshiKeeps
<1> PICK c : c = cmds[1].cmd
  OBVIOUS
<1>3. /\ \A i \in DOMAIN cmds' : i + 1 \in DOMAIN cmds /\ cmds'[i] = cmds[i + 1]
      /\ \A i \in DOMAIN cmds :
           i = 1 \/ (i - 1 \in DOMAIN cmds' /\ cmds'[i - 1] = cmds[i])
      /\ 1 \in DOMAIN cmds /\ DOMAIN cmds = 1..Len(cmds) /\ Len(cmds) \in Nat
      /\ DOMAIN cmds' = 1..(Len(cmds) - 1)
      /\ c \in Command
      /\ UNCHANGED <<sids, subscribed>>
  BY <1>1, KalshiHead DEF Sent, Command
<1>4. /\ Len(replies) \in Nat /\ DOMAIN replies = 1..Len(replies)
      /\ refused \subseteq refused'
      /\ \A i \in DOMAIN replies :
           i \in DOMAIN replies' /\ replies'[i] = replies[i]
      /\ \A i \in DOMAIN replies' : i \notin DOMAIN replies =>
           /\ i = Len(replies) + 1
           /\ \A x : Accepts(replies'[i], x) => Asks(c, x)
      /\ \A x : Asks(c, x) =>
           x \in refused' \/ \E i \in DOMAIN replies' : Accepts(replies'[i], x)
  BY <1>1, KalshiAnswers
<1>5. CmdsGenuine'
  <2>1. PICK id : id = cmds[1].id
    OBVIOUS
  <2>2. PICK n : n = Len(kalshiSubs)
    OBVIOUS
  <2>3. AcceptSubscribe(id, c) \/ AcceptUpdate(c) \/ Refuse(id, c)
    BY <1>1, <2>1, KalshiHead DEF KalshiActs
  <2>4. SubsAfter(id, c, n)
    BY <1>1, <1>3, <2>2, KalshiSubsAre
  <2>5. DOMAIN kalshiSubs \subseteq DOMAIN kalshiSubs'
    BY <2>3, <2>4 DEF SubsAfter
  <2> QED BY <1>1, <1>3, <2>5 DEF CmdsGenuine
<1>6. BookFirst'
  <2>1. CASE "orderbook" \in refused \/ sids["orderbook"] # 0
    BY <1>3, <1>4, <2>1 DEF BookFirst
  <2>2. CASE ~("orderbook" \in refused \/ sids["orderbook"] # 0)
    <3>1. /\ sids["ticker"] = 0
          /\ \A i \in DOMAIN replies : Accepts(replies[i], "ticker") =>
               \E j \in DOMAIN replies : j < i /\ Accepts(replies[j], "orderbook")
          /\ \A i \in DOMAIN cmds : Asks(cmds[i].cmd, "ticker") =>
               \/ \E j \in DOMAIN replies : Accepts(replies[j], "orderbook")
               \/ \E j \in DOMAIN cmds : j < i /\ Asks(cmds[j].cmd, "orderbook")
      BY <1>1, <2>2 DEF BookFirst
    <3> SUFFICES ASSUME "orderbook" \notin refused'
                 PROVE  BookFirst'
      BY DEF BookFirst
    <3>2. ASSUME NEW i \in DOMAIN replies', Accepts(replies'[i], "ticker")
          PROVE  \E j \in DOMAIN replies' : j < i /\ Accepts(replies'[j], "orderbook")
      <4>1. CASE i \in DOMAIN replies
        BY <1>4, <3>1, <3>2, <4>1
      <4>2. CASE i \notin DOMAIN replies
        <5>1. i = Len(replies) + 1 /\ Asks(cmds[1].cmd, "ticker")
          BY <1>4, <3>2, <4>2
        <5>2. ~ \E j \in DOMAIN cmds : j < 1 /\ Asks(cmds[j].cmd, "orderbook")
          BY <1>3
        <5>3. PICK j \in DOMAIN replies : Accepts(replies[j], "orderbook")
          BY <1>3, <3>1, <5>1, <5>2
        <5>4. j < i /\ j \in DOMAIN replies' /\ replies'[j] = replies[j]
          BY <1>4, <5>1
        <5> QED BY <5>3, <5>4
      <4> QED BY <4>1, <4>2
    <3>3. ASSUME NEW i \in DOMAIN cmds', Asks(cmds'[i].cmd, "ticker")
          PROVE  \/ \E j \in DOMAIN replies' : Accepts(replies'[j], "orderbook")
                 \/ \E j \in DOMAIN cmds' : j < i /\ Asks(cmds'[j].cmd, "orderbook")
      <4>1. i + 1 \in DOMAIN cmds /\ cmds'[i] = cmds[i + 1]
        BY <1>3
      <4>2. CASE \E j \in DOMAIN replies : Accepts(replies[j], "orderbook")
        BY <1>4, <4>2
      <4>3. ASSUME NEW j \in DOMAIN cmds, j < i + 1, Asks(cmds[j].cmd, "orderbook")
            PROVE  \/ \E k \in DOMAIN replies' : Accepts(replies'[k], "orderbook")
                   \/ \E k \in DOMAIN cmds' : k < i /\ Asks(cmds'[k].cmd, "orderbook")
        <5>1. CASE j = 1
          BY <1>4, <4>3, <5>1
        <5>2. CASE j # 1
          <6>1. j - 1 \in DOMAIN cmds' /\ cmds'[j - 1] = cmds[j] /\ j - 1 < i
            BY <1>3, <4>3, <5>2
          <6> QED BY <4>3, <6>1
        <5> QED BY <5>1, <5>2
      <4> QED BY <3>1, <3>3, <4>1, <4>2, <4>3
    <3> QED BY <1>3, <3>1, <3>2, <3>3 DEF BookFirst
  <2> QED BY <2>1, <2>2
<1>7. "orderbook" \in refused' \/ \A m \in subscribed' : WillServe(m)'
  <2>1. CASE "orderbook" \in refused
    BY <1>4, <2>1
  <2>2. ASSUME "orderbook" \notin refused, NEW m \in subscribed
        PROVE  "orderbook" \in refused' \/ WillServe(m)'
    BY <1>1, <2>2, KalshiServes
  <2> QED BY <1>3, <2>1, <2>2
<1> QED BY <1>2, <1>5, <1>6, <1>7 DEF ServedInv

\* What subscribe_markets asks for, the orderbook first.
AskedFor(list, markets) ==
  /\ list \in Seq(Command) /\ Len(list) \in Nat
  /\ \A i \in 1..Len(list) : list[i].verb = "subscribe"
  /\ markets # {} =>
       1 \in 1..Len(list) /\ list[1] = Subscribe("orderbook", markets)
  /\ \A i \in 1..Len(list) : Asks(list[i], "ticker") =>
       i > 1 /\ 1 \in 1..Len(list) /\ list[1] = Subscribe("orderbook", markets)

LEMMA MarketsAskedFor ==
  ASSUME NEW markets \in SUBSET Tickers
  PROVE  AskedFor(SubscribeMarkets(markets), markets)
<1> DEFINE list == SubscribeMarkets(markets)
<1>1. /\ list \in Seq(Command)
      /\ markets = {} => list = <<>>
      /\ markets # {} =>
           /\ Len(list) = 2
           /\ list[1] = Subscribe("orderbook", markets)
           /\ list[2] = Subscribe("ticker", markets)
  BY SubscribeMarketsAre
<1> HIDE DEF list
<1>2. CASE markets = {}
  <2>1. list = <<>> /\ Len(list) = 0 /\ 1..0 = {}
    BY <1>1, <1>2
  <2> QED BY <1>1, <1>2, <2>1 DEF AskedFor, list
<1>3. CASE markets # {}
  <2>1. Len(list) = 2 /\ 1..2 = {1, 2}
    BY <1>1, <1>3
  <2>2. list[1].verb = "subscribe" /\ list[1].sub = "orderbook" /\ list[2].verb = "subscribe"
    BY <1>1, <1>3 DEF Subscribe
  <2>3. AskedFor(list, markets)
    BY <1>1, <1>3, <2>1, <2>2 DEF AskedFor, Asks
  <2> QED BY <2>3 DEF list
<1> QED BY <1>2, <1>3

\* What a refresh updates, the orderbook's subscription first.
UpdatedFor(list, add, del) ==
  /\ list \in Seq(Command) /\ Len(list) \in Nat
  /\ \A i \in 1..Len(list) : \E s \in MarketSubs :
       /\ sids[s] # 0
       /\ list[i] \in {Update(sids[s], "add_markets", add),
                       Update(sids[s], "delete_markets", del)}
  /\ (sids["orderbook"] # 0 /\ add # {}) =>
       /\ 1 \in 1..Len(list)
       /\ list[1] = Update(sids["orderbook"], "add_markets", add)

LEMMA MarketsUpdatedFor ==
  ASSUME SessionInv, NEW add \in SUBSET Tickers, NEW del \in SUBSET Tickers
  PROVE  UpdatedFor(UpdatesOfAll(add, del), add, del)
<1> DEFINE list == UpdatesOfAll(add, del)
<1>1. /\ list \in Seq(Command)
      /\ \A i \in 1..Len(list) : \E s \in MarketSubs :
           /\ sids[s] # 0
           /\ list[i] \in {Update(sids[s], "add_markets", add),
                           Update(sids[s], "delete_markets", del)}
      /\ (sids["orderbook"] # 0 /\ add # {}) =>
           /\ 1 \in 1..Len(list)
           /\ list[1] = Update(sids["orderbook"], "add_markets", add)
  BY UpdatesOfAllAre
<1> HIDE DEF list
<1>2. Len(list) \in Nat
  BY <1>1, LenProperties
<1> QED BY <1>1, <1>2 DEF UpdatedFor, list

\* Commands behind those there were.
SentBehind(before, n, list) ==
  /\ n \in Nat /\ DOMAIN before = 1..n
  /\ DOMAIN cmds' = 1..(n + Len(list))
  /\ \A i \in 1..n : cmds'[i] = before[i]
  /\ \A i \in 1..Len(list) : cmds'[n + i].cmd = list[i]

LEMMA SendsBehind ==
  \A entries : \A last \in Nat, before \in Seq(Sent), list \in Seq(Command) :
    SendFrom(last, entries, before, list) => SentBehind(before, Len(before), list)
<1> TAKE entries
<1> TAKE last \in Nat, before \in Seq(Sent), list \in Seq(Command)
<1> HAVE SendFrom(last, entries, before, list)
<1> QED BY SentWhere DEF SentBehind

\* A connection asks for the orderbook of every open market.
LEMMA ConnectServes == ServedInv /\ Connect => ServedInv'
<1> SUFFICES ASSUME ServedInv, Connect PROVE ServedInv'
  OBVIOUS
<1>1. SessionInv'
  BY ConnectKeeps DEF ServedInv
<1>2. /\ sids' = [s \in MarketSubs |-> 0] /\ replies' = <<>>
      /\ subscribed' = open /\ open \subseteq Tickers
  BY DEF Connect, ServedInv, SessionInv, WireType
<1> PICK rest : rest = SubscribeMarkets(open)
  OBVIOUS
<1>3. AskedFor(rest, open)
  BY <1>2, MarketsAskedFor
<1> PICK first : first = <<Subscribe("index", {})>>
  OBVIOUS
<1>4. first \in Seq(Command) /\ Len(first) = 1 /\ first[1] = Subscribe("index", {})
  <2>1. Subscribe("index", {}) \in Command
    BY SubscribeType DEF Subs
  <2> QED BY <2>1
<1> PICK list : list = first \o rest
  OBVIOUS
<1>5. /\ list \in Seq(Command) /\ Len(list) = 1 + Len(rest) /\ Len(rest) \in Nat
      /\ list[1] = Subscribe("index", {})
      /\ \A i \in 2..1 + Len(rest) : list[i] = rest[i - 1]
  <2>1. rest \in Seq(Command)
    BY <1>3 DEF AskedFor
  <2> QED BY <1>4, <2>1, Concatenated
<1> PICK none : none = <<>>
  OBVIOUS
<1>6. SendFrom(0, none, none, list)
  BY DEF Connect
<1>7. none \in Seq(Sent) /\ Len(none) = 0 /\ 0 \in Nat
  OBVIOUS
<1>8. /\ DOMAIN cmds' = 1..(1 + Len(rest))
      /\ \A i \in 1..(1 + Len(rest)) : cmds'[i].cmd = list[i]
  <2>1. SentBehind(none, Len(none), list)
    BY <1>5, <1>6, <1>7, SendsBehind
  <2>2. /\ DOMAIN cmds' = 1..(0 + Len(list))
        /\ \A i \in 1..Len(list) : cmds'[0 + i].cmd = list[i]
    BY <1>7, <2>1 DEF SentBehind
  <2> QED BY <1>5, <2>2
<1>9. /\ \A i \in DOMAIN cmds' : cmds'[i].cmd.verb = "subscribe"
      /\ open # {} =>
           /\ 2 \in DOMAIN cmds' /\ Asks(cmds'[2].cmd, "orderbook")
           /\ cmds'[2].cmd.markets = open
      /\ \A i \in DOMAIN cmds' : Asks(cmds'[i].cmd, "ticker") =>
           i > 2 /\ 2 \in DOMAIN cmds' /\ Asks(cmds'[2].cmd, "orderbook")
  <2>1. cmds'[1].cmd = Subscribe("index", {}) /\ 1 \in DOMAIN cmds'
    BY <1>5, <1>8
  <2>2. \A i \in 1..Len(rest) : i + 1 \in DOMAIN cmds' /\ cmds'[i + 1].cmd = rest[i]
    <3> SUFFICES ASSUME NEW i \in 1..Len(rest)
                 PROVE  i + 1 \in DOMAIN cmds' /\ cmds'[i + 1].cmd = rest[i]
      OBVIOUS
    <3>1. i + 1 \in 2..(1 + Len(rest)) /\ i + 1 \in 1..(1 + Len(rest)) /\ (i + 1) - 1 = i
      BY <1>5
    <3> QED BY <1>5, <1>8, <3>1
  <2>3. ASSUME NEW i \in DOMAIN cmds'
        PROVE  \/ i = 1
               \/ /\ i - 1 \in 1..Len(rest) /\ cmds'[i].cmd = rest[i - 1]
                  /\ i \in Int /\ i # 1
    <3>1. i = 1 \/ (i - 1 \in 1..Len(rest) /\ (i - 1) + 1 = i /\ i \in Int /\ i # 1)
      BY <1>5, <1>8
    <3> QED BY <2>2, <3>1
  <2>4. \A i \in DOMAIN cmds' : cmds'[i].cmd.verb = "subscribe"
    BY <1>3, <2>1, <2>3 DEF AskedFor, Subscribe
  <2>5. 1 \in 1..Len(rest) =>
          2 \in DOMAIN cmds' /\ cmds'[2].cmd = rest[1]
    <3>1. 1 + 1 = 2
      OBVIOUS
    <3> QED BY <2>2, <3>1
  <2>6. open # {} => /\ 2 \in DOMAIN cmds' /\ Asks(cmds'[2].cmd, "orderbook")
                     /\ cmds'[2].cmd.markets = open
    BY <1>3, <2>5 DEF AskedFor, Asks, Subscribe
  <2>7. ASSUME NEW i \in DOMAIN cmds', Asks(cmds'[i].cmd, "ticker")
        PROVE  i > 2 /\ 2 \in DOMAIN cmds' /\ Asks(cmds'[2].cmd, "orderbook")
    <3>1. i # 1
      BY <2>1, <2>7 DEF Asks, Subscribe
    <3>2. i - 1 \in 1..Len(rest) /\ cmds'[i].cmd = rest[i - 1] /\ i \in Int
      BY <2>3, <3>1
    <3>3. /\ i - 1 > 1 /\ 1 \in 1..Len(rest)
          /\ rest[1] = Subscribe("orderbook", open)
      <4>1. Asks(rest[i - 1], "ticker")
        BY <2>7, <3>2
      <4> QED BY <1>3, <3>2, <4>1 DEF AskedFor
    <3>4. i > 2
      BY <3>2, <3>3
    <3>5. Asks(rest[1], "orderbook")
      BY <3>3 DEF Asks, Subscribe
    <3> QED BY <2>5, <3>3, <3>4, <3>5
  <2> QED BY <2>4, <2>6, <2>7
<1>10. CmdsGenuine'
  BY <1>9 DEF CmdsGenuine
<1>11. BookFirst'
  <2>1. DOMAIN replies' = {} /\ sids'["ticker"] = 0
    BY <1>2 DEF MarketSubs
  <2>2. \A i \in DOMAIN cmds' : Asks(cmds'[i].cmd, "ticker") =>
          \E j \in DOMAIN cmds' : j < i /\ Asks(cmds'[j].cmd, "orderbook")
    BY <1>8, <1>9
  <2> QED BY <2>1, <2>2 DEF BookFirst
<1>12. \A m \in subscribed' : WillServe(m)'
  BY <1>2, <1>9 DEF WillServe
<1> QED BY <1>1, <1>10, <1>11, <1>12 DEF ServedInv

\* A refresh asks for what is new: of a subscription it knows, or of a new one.
LEMMA RefreshServes == ServedInv /\ Refresh => ServedInv'
<1> SUFFICES ASSUME ServedInv, Refresh PROVE ServedInv'
  OBVIOUS
<1>1. /\ SessionInv /\ CmdsGenuine /\ BookFirst
      /\ "orderbook" \in refused \/ \A m \in subscribed : WillServe(m)
  BY DEF ServedInv
<1>2. SessionInv'
  BY <1>1, RefreshKeeps
<1>3. /\ open \subseteq Tickers /\ subscribed \subseteq Tickers
      /\ UNCHANGED <<kalshiSubs, replies, refused, sids>> /\ subscribed' = open
      /\ cmdId \in Nat /\ cmds \in Seq(Sent)
      /\ sids["orderbook"] \in Nat /\ sids["ticker"] \in Nat
  BY <1>1 DEF Refresh, SessionInv, WireType, MarketSubs
<1> PICK add : add = open \ subscribed
  OBVIOUS
<1> PICK del : del = subscribed \ open
  OBVIOUS
<1> PICK n : n = Len(cmds)
  OBVIOUS
<1> PICK list : SendFrom(cmdId, pending, cmds, list)
                /\ (NoSids => AskedFor(list, open))
                /\ (~NoSids => UpdatedFor(list, add, del))
  <2>1. CASE NoSids
    <3>1. SendFrom(cmdId, pending, cmds, SubscribeMarkets(open))
      BY <2>1 DEF Refresh
    <3> QED BY <1>3, <2>1, <3>1, MarketsAskedFor
  <2>2. CASE ~NoSids
    <3>1. SendFrom(cmdId, pending, cmds, UpdatesOfAll(add, del))
      BY <2>2 DEF Refresh
    <3>2. add \in SUBSET Tickers /\ del \in SUBSET Tickers
      BY <1>3
    <3> QED BY <1>1, <2>2, <3>1, <3>2, MarketsUpdatedFor
  <2> QED BY <2>1, <2>2
<1>4. NoSids => AskedFor(list, open)
  OBVIOUS
<1>5. ~NoSids => UpdatedFor(list, add, del)
  OBVIOUS
<1>6. list \in Seq(Command) /\ Len(list) \in Nat
  BY <1>4, <1>5 DEF AskedFor, UpdatedFor
<1>7. SendFrom(cmdId, pending, cmds, list)
  OBVIOUS
<1>8. /\ n \in Nat /\ DOMAIN cmds = 1..n /\ DOMAIN cmds' = 1..(n + Len(list))
      /\ \A i \in 1..n : cmds'[i] = cmds[i]
      /\ \A i \in 1..Len(list) : cmds'[n + i].cmd = list[i]
  <2>1. SentBehind(cmds, Len(cmds), list)
    BY <1>3, <1>6, <1>7, SendsBehind
  <2> QED BY <2>1 DEF SentBehind
<1>9. \A i \in DOMAIN cmds' :
        \/ i \in DOMAIN cmds /\ cmds'[i] = cmds[i]
        \/ i > n /\ i - n \in 1..Len(list) /\ cmds'[i].cmd = list[i - n]
  <2> SUFFICES ASSUME NEW i \in DOMAIN cmds', i \notin 1..n
               PROVE  i > n /\ i - n \in 1..Len(list) /\ cmds'[i].cmd = list[i - n]
    BY <1>8
  <2>1. i > n /\ i - n \in 1..Len(list) /\ n + (i - n) = i
    BY <1>6, <1>8
  <2> QED BY <1>8, <2>1
<1>10. \A i \in DOMAIN cmds : i \in DOMAIN cmds' /\ cmds'[i] = cmds[i] /\ i <= n
  BY <1>6, <1>8
<1>11. CmdsGenuine'
  <2> SUFFICES ASSUME NEW i \in 1..Len(list), list[i].verb # "subscribe"
               PROVE  list[i].sid \in DOMAIN kalshiSubs
    BY <1>1, <1>3, <1>9 DEF CmdsGenuine
  <2>1. PICK s \in MarketSubs : sids[s] # 0 /\ list[i].sid = sids[s]
    BY <1>4, <1>5 DEF Update, AskedFor, UpdatedFor
  <2> QED BY <1>1, <2>1 DEF SessionInv, SidsGenuine, SidsOf
<1>12. BookFirst'
  <2>1. CASE "orderbook" \in refused \/ sids["orderbook"] # 0
    BY <1>3, <2>1 DEF BookFirst
  <2>2. CASE ~("orderbook" \in refused \/ sids["orderbook"] # 0)
    <3>1. /\ sids["ticker"] = 0
          /\ \A i \in DOMAIN replies : Accepts(replies[i], "ticker") =>
               \E j \in DOMAIN replies : j < i /\ Accepts(replies[j], "orderbook")
          /\ \A i \in DOMAIN cmds : Asks(cmds[i].cmd, "ticker") =>
               \/ \E j \in DOMAIN replies : Accepts(replies[j], "orderbook")
               \/ \E j \in DOMAIN cmds : j < i /\ Asks(cmds[j].cmd, "orderbook")
      BY <1>1, <2>2 DEF BookFirst
    <3>2. NoSids
      BY <2>2, <3>1 DEF NoSids, MarketSubs
    <3>3. ASSUME NEW i \in DOMAIN cmds', Asks(cmds'[i].cmd, "ticker")
          PROVE  \/ \E j \in DOMAIN replies : Accepts(replies[j], "orderbook")
                 \/ \E j \in DOMAIN cmds' : j < i /\ Asks(cmds'[j].cmd, "orderbook")
      <4>1. CASE i \in DOMAIN cmds /\ cmds'[i] = cmds[i]
        BY <1>10, <3>1, <3>3, <4>1
      <4>2. CASE i > n /\ i - n \in 1..Len(list) /\ cmds'[i].cmd = list[i - n]
        <5>1. i - n > 1 /\ list[1] = Subscribe("orderbook", open)
          BY <1>4, <3>2, <3>3, <4>2 DEF AskedFor
        <5>2. 1 \in 1..Len(list) /\ n + 1 \in DOMAIN cmds' /\ n + 1 < i
          BY <1>6, <1>8, <4>2, <5>1
        <5>3. Asks(cmds'[n + 1].cmd, "orderbook")
          BY <1>8, <5>1, <5>2 DEF Asks, Subscribe
        <5> QED BY <5>2, <5>3
      <4> QED BY <1>9, <4>1, <4>2
    <3> QED BY <1>3, <3>1, <3>3 DEF BookFirst
  <2> QED BY <2>1, <2>2
<1>13. ASSUME "orderbook" \notin refused, NEW m \in open
       PROVE  WillServe(m)'
  <2>1. CASE NoSids
    <3>1. 1 \in 1..Len(list) /\ list[1] = Subscribe("orderbook", open)
      BY <1>4, <1>13, <2>1 DEF AskedFor
    <3>2. n + 1 \in DOMAIN cmds' /\ cmds'[n + 1].cmd = Subscribe("orderbook", open)
      BY <1>6, <1>8, <3>1
    <3> QED BY <1>13, <3>2 DEF WillServe, Asks, Subscribe
  <2>2. CASE ~NoSids
    <3>1. sids["orderbook"] # 0
      BY <1>1, <1>13, <2>2 DEF BookFirst, NoSids, MarketSubs
    <3>2. sids["orderbook"] \in SidsOf("orderbook")
      BY <1>1, <3>1 DEF SessionInv, SidsGenuine, MarketSubs
    <3>3. ASSUME NEW s, NEW i \in 1..Len(list) PROVE ~Deletes(list[i], s, m)
      BY <1>5, <1>13, <2>2 DEF Deletes, Update, UpdatedFor
    <3>4. SidsOf("orderbook")' = SidsOf("orderbook")
      BY <1>3 DEF SidsOf
    <3>5. CASE m \in add
      <4>1. 1 \in 1..Len(list) /\ list[1] = Update(sids["orderbook"], "add_markets", add)
        BY <1>5, <2>2, <3>1, <3>5 DEF UpdatedFor
      <4>2. n + 1 \in DOMAIN cmds' /\ cmds'[n + 1].cmd = list[1]
        BY <1>6, <1>8, <4>1
      <4>3. Adds(cmds'[n + 1].cmd, sids["orderbook"], m)
        BY <3>5, <4>1, <4>2 DEF Adds, Update
      <4>4. ASSUME NEW j \in DOMAIN cmds', j > n + 1
            PROVE  ~Deletes(cmds'[j].cmd, sids["orderbook"], m)
        <5>1. j \notin DOMAIN cmds
          BY <1>8, <4>4
        <5> QED BY <1>9, <3>3, <5>1
      <4> QED BY <1>3, <3>2, <3>4, <4>2, <4>3, <4>4 DEF WillServe
    <3>6. CASE m \notin add
      <4>1. WillServe(m)
        BY <1>1, <1>13, <3>6
      <4>2. ASSUME NEW s \in SidsOf("orderbook"), m \in kalshiSubs[s].markets,
                   \A j \in DOMAIN cmds : ~Deletes(cmds[j].cmd, s, m)
            PROVE  WillServe(m)'
        <5>1. \A j \in DOMAIN cmds' : ~Deletes(cmds'[j].cmd, s, m)
          BY <1>9, <3>3, <4>2
        <5> QED BY <1>3, <3>4, <4>2, <5>1 DEF WillServe
      <4>3. ASSUME NEW i \in DOMAIN cmds, Asks(cmds[i].cmd, "orderbook"),
                   m \in cmds[i].cmd.markets
            PROVE  WillServe(m)'
        BY <1>10, <4>3 DEF WillServe
      <4>4. ASSUME NEW i \in DOMAIN cmds, NEW s \in SidsOf("orderbook"),
                   Adds(cmds[i].cmd, s, m),
                   \A j \in DOMAIN cmds : j > i => ~Deletes(cmds[j].cmd, s, m)
            PROVE  WillServe(m)'
        <5>1. \A j \in DOMAIN cmds' : j > i => ~Deletes(cmds'[j].cmd, s, m)
          BY <1>9, <3>3, <4>4
        <5>2. i \in DOMAIN cmds' /\ cmds'[i] = cmds[i]
          BY <1>10
        <5> QED BY <3>4, <4>4, <5>1, <5>2 DEF WillServe
      <4> QED BY <4>1, <4>2, <4>3, <4>4 DEF WillServe
    <3> QED BY <3>5, <3>6
  <2> QED BY <2>1, <2>2
<1> QED BY <1>2, <1>3, <1>11, <1>12, <1>13 DEF ServedInv

\* Reading a reply may be how the orderbook's sid is learned.
LEMMA ReadReplyServes == ServedInv /\ ReadReply => ServedInv'
<1> SUFFICES ASSUME ServedInv, ReadReply PROVE ServedInv'
  OBVIOUS
<1>1. /\ SessionInv /\ CmdsGenuine /\ BookFirst
      /\ "orderbook" \in refused \/ \A m \in subscribed : WillServe(m)
  BY DEF ServedInv
<1>2. SessionInv'
  BY <1>1, ReadReplyKeeps
<1>3. UNCHANGED <<kalshiSubs, cmds, refused, subscribed>>
  BY DEF ReadReply
<1> PICK r : r = Head(replies)
  OBVIOUS
<1>4. /\ replies \in Seq(Reply) /\ replies # <<>> /\ replies' = Tail(replies)
      /\ sids' = Learned(r) /\ sids \in [MarketSubs -> Nat]
  BY <1>1 DEF ReadReply, SessionInv, WireType
<1>5. /\ r = replies[1] /\ r \in Reply /\ Len(replies) \in Nat
      /\ DOMAIN replies = 1..Len(replies) /\ 1 \in DOMAIN replies
      /\ DOMAIN replies' = 1..(Len(replies) - 1)
      /\ \A i \in DOMAIN replies' : i + 1 \in DOMAIN replies /\ replies'[i] = replies[i + 1]
  BY <1>4, HeadTailProperties, ElementOfSeq, LenProperties, EmptySeq
<1>6. \A j \in DOMAIN replies :
        j = 1 \/ (j - 1 \in DOMAIN replies' /\ replies'[j - 1] = replies[j])
  <2> SUFFICES ASSUME NEW j \in DOMAIN replies, j # 1
               PROVE  j - 1 \in DOMAIN replies' /\ replies'[j - 1] = replies[j]
    OBVIOUS
  <2>1. j - 1 \in DOMAIN replies' /\ (j - 1) + 1 = j
    BY <1>5
  <2> QED BY <1>5, <2>1
<1>7. r.typ = "subscribed" =>
        /\ r.id \in DOMAIN pending /\ pending[r.id] = r.sub
        /\ r.sid \in SidsOf(r.sub) /\ r.sid # 0
  <2>1. r.typ = "subscribed" =>
          /\ r.id \in DOMAIN pending /\ pending[r.id] = r.sub
          /\ r.sid \in SidsOf(r.sub)
    BY <1>1, <1>5 DEF SessionInv, PendingInv, RepliesGenuine
  <2>2. \A s \in DOMAIN kalshiSubs : s # 0
    BY <1>1, LenProperties DEF SessionInv, WireType
  <2> QED BY <2>1, <2>2 DEF SidsOf
<1>8. /\ Accepts(r, "orderbook") => sids'["orderbook"] # 0
      /\ ~Accepts(r, "ticker") => sids'["ticker"] = sids["ticker"]
      /\ sids["orderbook"] # 0 => sids'["orderbook"] # 0
  <2>1. CASE r.typ = "subscribed" /\ r.sub \in MarketSubs
    <3>1. {s \in MarketSubs : s = r.sub \/ (r.id \in DOMAIN pending /\ pending[r.id] = s)}
            = {r.sub}
      BY <1>7, <2>1
    <3>2. sids' = [sids EXCEPT ![IF "orderbook" \in {r.sub} THEN "orderbook"
                                   ELSE "ticker"] = r.sid]
      BY <1>4, <2>1, <3>1 DEF Learned
    <3>3. (IF "orderbook" \in {r.sub} THEN "orderbook" ELSE "ticker") = r.sub
      BY <2>1 DEF MarketSubs
    <3>4. sids' = [sids EXCEPT ![r.sub] = r.sid]
      BY <3>2, <3>3
    <3> QED BY <1>4, <1>7, <2>1, <3>4 DEF Accepts, MarketSubs
  <2>2. CASE r.typ = "subscribed" /\ r.sub \notin MarketSubs
    <3>1. {s \in MarketSubs : s = r.sub \/ (r.id \in DOMAIN pending /\ pending[r.id] = s)}
            = {}
      BY <1>7, <2>2
    <3>2. sids' = sids
      BY <1>4, <3>1 DEF Learned
    <3> QED BY <2>2, <3>2 DEF Accepts, MarketSubs
  <2>3. CASE r.typ # "subscribed"
    <3>1. sids' = sids
      BY <1>4, <2>3 DEF Learned
    <3> QED BY <2>3, <3>1 DEF Accepts
  <2> QED BY <2>1, <2>2, <2>3
<1>9. CmdsGenuine'
  BY <1>1, <1>3 DEF CmdsGenuine
<1>10. BookFirst'
  <2>1. CASE "orderbook" \in refused \/ sids["orderbook"] # 0
    BY <1>3, <1>8, <2>1 DEF BookFirst
  <2>2. CASE Accepts(r, "orderbook")
    BY <1>8, <2>2 DEF BookFirst
  <2>3. CASE /\ ~("orderbook" \in refused \/ sids["orderbook"] # 0)
             /\ ~Accepts(r, "orderbook")
    <3>1. /\ sids["ticker"] = 0
          /\ \A i \in DOMAIN replies : Accepts(replies[i], "ticker") =>
               \E j \in DOMAIN replies : j < i /\ Accepts(replies[j], "orderbook")
          /\ \A i \in DOMAIN cmds : Asks(cmds[i].cmd, "ticker") =>
               \/ \E j \in DOMAIN replies : Accepts(replies[j], "orderbook")
               \/ \E j \in DOMAIN cmds : j < i /\ Asks(cmds[j].cmd, "orderbook")
      BY <1>1, <2>3 DEF BookFirst
    <3>2. ~Accepts(r, "ticker")
      <4>1. ~ \E j \in DOMAIN replies : j < 1 /\ Accepts(replies[j], "orderbook")
        BY <1>5
      <4> QED BY <1>5, <3>1, <4>1
    <3>3. ASSUME NEW i \in DOMAIN replies', Accepts(replies'[i], "ticker")
          PROVE  \E j \in DOMAIN replies' : j < i /\ Accepts(replies'[j], "orderbook")
      <4>1. i + 1 \in DOMAIN replies /\ replies'[i] = replies[i + 1]
        BY <1>5
      <4>2. PICK j \in DOMAIN replies : j < i + 1 /\ Accepts(replies[j], "orderbook")
        BY <3>1, <3>3, <4>1
      <4>3. j - 1 \in DOMAIN replies' /\ replies'[j - 1] = replies[j] /\ j - 1 < i
        BY <1>5, <1>6, <2>3, <4>2
      <4> QED BY <4>2, <4>3
    <3>4. ASSUME NEW j \in DOMAIN replies, Accepts(replies[j], "orderbook")
          PROVE  \E k \in DOMAIN replies' : Accepts(replies'[k], "orderbook")
      BY <1>5, <1>6, <2>3, <3>4
    <3>5. \A i \in DOMAIN cmds : Asks(cmds[i].cmd, "ticker") =>
            \/ \E j \in DOMAIN replies' : Accepts(replies'[j], "orderbook")
            \/ \E j \in DOMAIN cmds : j < i /\ Asks(cmds[j].cmd, "orderbook")
      BY <3>1, <3>4
    <3>6. sids'["ticker"] = 0
      BY <1>8, <3>1, <3>2
    <3> QED BY <1>3, <3>3, <3>5, <3>6 DEF BookFirst
  <2> QED BY <2>1, <2>2, <2>3
<1>11. \A m \in subscribed : WillServe(m) => WillServe(m)'
  BY <1>3 DEF WillServe, SidsOf
<1> QED BY <1>1, <1>2, <1>3, <1>9, <1>10, <1>11 DEF ServedInv

\* A session that ended, or has not begun, has nothing subscribed.
NothingSent ==
  /\ cmds = <<>> /\ replies = <<>> /\ subscribed = {}
  /\ sids = [s \in MarketSubs |-> 0]

LEMMA NothingServes == SessionInv /\ NothingSent => ServedInv
<1> SUFFICES ASSUME SessionInv, NothingSent PROVE ServedInv
  OBVIOUS
<1>1. DOMAIN cmds = {} /\ DOMAIN replies = {}
  BY DEF NothingSent
<1> QED BY <1>1 DEF ServedInv, CmdsGenuine, BookFirst, NothingSent, MarketSubs

\* The initial state satisfies the invariant, and every step keeps it.
LEMMA InitServed == Init => ServedInv
BY InitSession, NothingServes DEF Init, NothingSent

LEMMA NextServed == ServedInv /\ [Next]_vars => ServedInv'
<1> SUFFICES ASSUME ServedInv, [Next]_vars PROVE ServedInv'
  OBVIOUS
<1>1. SessionInv'
  BY NextSession DEF ServedInv
<1>2. ASSUME UNCHANGED <<wireVars, sids, subscribed>>
      PROVE  ServedInv'
  BY <1>1, <1>2
     DEF wireVars, ServedInv, CmdsGenuine, BookFirst, WillServe, SidsOf
<1>3. ASSUME NEW long \in BOOLEAN, SessionEnds(long)
      PROVE  ServedInv'
  <2>1. NothingSent'
    BY <1>3 DEF SessionEnds, NothingSent
  <2>2. SessionInv' /\ NothingSent' => ServedInv'
    BY NothingServes, PTL
  <2> QED BY <1>1, <2>1, <2>2
<1>4. CASE RollMarkets
  BY <1>2, <1>4 DEF RollMarkets, sessionVars
<1>5. CASE UNCHANGED vars
  BY <1>2, <1>5 DEF vars, sessionVars
<1> QED
  BY <1>3, <1>4, <1>5, KalshiServedInv, ConnectServes, RefreshServes,
     ReadReplyServes DEF Next

(***************************************************************************)
(* Once quiet, and unless Kalshi refused an orderbook command, every       *)
(* market the session counts as subscribed is served on the orderbook      *)
(* channel, whichever way refreshes, replies and second subscriptions      *)
(* interleaved (feeds/task.rs:114-126, 205-220).                           *)
(***************************************************************************)
THEOREM SessionServes == Spec => []OrderbookServed
<1>1. Spec => []ServedInv
  BY InitServed, NextServed, PTL DEF Spec
<1>2. ServedInv => OrderbookServed
  <2> SUFFICES ASSUME ServedInv, cmds = <<>>, "orderbook" \notin refused,
                      NEW m \in subscribed
               PROVE  m \in Served("orderbook")
    BY DEF OrderbookServed, Quiet
  <2>1. WillServe(m) /\ DOMAIN cmds = {}
    BY DEF ServedInv
  <2> QED BY <2>1 DEF WillServe, Served
<1> QED BY <1>1, <1>2, PTL

-----------------------------------------------------------------------------
(***************************************************************************)
(* Types.                                                                  *)
(***************************************************************************)

\* What TypeOK asks beyond the invariant of a session.
RestType ==
  /\ rolls \in 0..MaxRolls
  /\ refused \subseteq Subs
  /\ link \in {"down", "up"}
  /\ strikes \subseteq Tickers /\ openTickers \subseteq Tickers
  /\ backoff \in 1..BackoffMax /\ slept \in 0..BackoffMax /\ tries \in Nat

\* A command is refused for a channel: an update because it names a
\* subscription of this connection.
LEMMA RefusesChannels ==
  ASSUME ServedInv, RestType, KalshiActs
  PROVE  refused' \subseteq Subs
<1> PICK id, c : id = cmds[1].id /\ c = cmds[1].cmd
  OBVIOUS
<1>1. SessionInv /\ CmdsGenuine /\ refused \subseteq Subs
  BY DEF ServedInv, RestType
<1>2. /\ 1 \in DOMAIN cmds /\ cmds[1] \in Sent
      /\ AcceptSubscribe(id, c) \/ AcceptUpdate(c) \/ Refuse(id, c)
  BY <1>1, KalshiHead DEF KalshiActs
<1>3. CASE AcceptSubscribe(id, c) \/ AcceptUpdate(c)
  BY <1>1, <1>3 DEF AcceptSubscribe, AcceptUpdate
<1>4. CASE Refuse(id, c)
  <2>1. (IF c.verb = "subscribe" THEN c.sub ELSE kalshiSubs[c.sid].sub) \in Subs
    <3>1. CASE c.verb = "subscribe"
      <4>1. c \in SubscribeCmd
        BY <1>2, <3>1 DEF Sent, UpdateCmd, SubscribeCmd
      <4> QED BY <3>1, <4>1 DEF SubscribeCmd
    <3>2. CASE c.verb # "subscribe"
      <4>1. c.sid \in DOMAIN kalshiSubs
        BY <1>1, <1>2, <3>2 DEF CmdsGenuine
      <4>2. kalshiSubs[c.sid] \in [sub : Subs, markets : SUBSET Tickers]
        <5>1. kalshiSubs \in Seq([sub : Subs, markets : SUBSET Tickers])
          BY <1>1 DEF SessionInv, WireType
        <5>2. DOMAIN kalshiSubs = 1..Len(kalshiSubs)
          BY <5>1, LenProperties
        <5> QED BY <4>1, <5>1, <5>2, ElementOfSeq
      <4> QED BY <3>2, <4>2
    <3> QED BY <3>1, <3>2
  <2> QED BY <1>1, <1>4, <2>1 DEF Refuse
<1> QED BY <1>2, <1>3, <1>4

\* Doubling stays within the ceiling.
LEMMA DoubledWithin ==
  ASSUME NEW b \in 1..BackoffMax
  PROVE  Doubled(b) \in 1..BackoffMax
<1>1. BackoffMax \in Nat /\ b \in Nat /\ b >= 1 /\ b <= BackoffMax
  BY BackoffAssumption
<1>2. 2 * b \in Nat /\ 2 * b >= 1
  BY <1>1
<1> QED BY <1>1, <1>2 DEF Doubled

\* What run_feed sleeps next stays within its ceiling.
LEMMA BackOffTypes ==
  ASSUME RestType, NEW long \in BOOLEAN, BackOff(long)
  PROVE  backoff' \in 1..BackoffMax /\ slept' \in 0..BackoffMax /\ tries' \in Nat
<1>1. slept' \in 1..BackoffMax /\ backoff' = Doubled(slept')
  BY BackoffAssumption DEF BackOff, RestType
<1>2. backoff' \in 1..BackoffMax
  BY <1>1, DoubledWithin
<1>3. tries' \in Nat
  BY DEF BackOff, RestType
<1> QED BY <1>1, <1>2, <1>3

\* Every step keeps the rest of the types.
LEMMA NextTypes == ServedInv /\ RestType /\ [Next]_vars => RestType'
<1> SUFFICES ASSUME ServedInv, RestType, [Next]_vars PROVE RestType'
  OBVIOUS
<1>1. open \subseteq Tickers
  BY DEF ServedInv, SessionInv, WireType
<1>2. CASE RollMarkets
  <2>1. rolls' \in 0..MaxRolls
    BY <1>2, BoundAssumption DEF RollMarkets, RestType
  <2> QED BY <1>2, <2>1 DEF RollMarkets, RestType, wireVars, sessionVars, backoffVars
<1>3. CASE KalshiActs
  <2>1. refused' \subseteq Subs
    BY <1>3, RefusesChannels
  <2> QED BY <1>3, <2>1 DEF KalshiActs, RestType, kalshiVars, sessionVars, backoffVars
<1>4. CASE Connect
  BY <1>1, <1>4 DEF Connect, RestType, kalshiVars, backoffVars
<1>5. CASE Refresh
  BY <1>1, <1>5 DEF Refresh, RestType, kalshiVars, backoffVars
<1>6. CASE ReadReply
  BY <1>6 DEF ReadReply, RestType, kalshiVars, backoffVars
<1>7. ASSUME NEW long \in BOOLEAN, SessionEnds(long)
      PROVE  RestType'
  <2>1. BackOff(long)
    BY <1>7 DEF SessionEnds
  <2>2. backoff' \in 1..BackoffMax /\ slept' \in 0..BackoffMax /\ tries' \in Nat
    BY <2>1, BackOffTypes
  <2> QED BY <1>7, <2>2 DEF SessionEnds, RestType, kalshiVars
<1>8. CASE UNCHANGED vars
  BY <1>8 DEF vars, RestType, kalshiVars, wireVars, sessionVars, backoffVars
<1> QED BY <1>2, <1>3, <1>4, <1>5, <1>6, <1>7, <1>8 DEF Next

\* Every variable of a feed keeps its type; an update is refused only for a
\* channel because every update on its way names a subscription there is.
THEOREM SessionTypes == Spec => []TypeOK
<1>1. Init => ServedInv /\ RestType
  BY InitServed, BackoffAssumption, BoundAssumption DEF Init, RestType
<1>2. ServedInv /\ RestType /\ [Next]_vars => (ServedInv /\ RestType)'
  BY NextServed, NextTypes
<1>3. ServedInv /\ RestType => TypeOK
  BY DEF ServedInv, SessionInv, WireType, PendingInv, RestType, TypeOK
<1> QED BY <1>1, <1>2, <1>3, PTL DEF Spec

-----------------------------------------------------------------------------
(***************************************************************************)
(* The backoff.                                                            *)
(***************************************************************************)

Below == {p \in Nat \X Nat : p[1] < p[2]}

\* Induction, over a set of numbers.
LEMMA SetInduction ==
  ASSUME NEW S, 0 \in S, \A n \in Nat : n \in S => n + 1 \in S
  PROVE  Nat \subseteq S
<1> SUFFICES ASSUME Nat \ S # {} PROVE FALSE
  OBVIOUS
<1>1. IsWellFoundedOn(Below, Nat)
  BY NatLessThanWellFounded DEF OpToRel, Below
<1>2. \A a, b \in Nat : a < b => <<a, b>> \in Below
  BY DEF Below
<1>3. PICK x \in Nat \ S : \A y \in Nat \ S : ~(<<y, x>> \in Below)
  BY <1>1, WFMin
<1>4. x # 0 /\ x - 1 \in Nat /\ x - 1 < x /\ (x - 1) + 1 = x
  OBVIOUS
<1>5. x - 1 \in S
  BY <1>2, <1>3, <1>4
<1> QED BY <1>4, <1>5

\* g is the powers of 2 up to the n-th.
IsTable(g, n) ==
  /\ g \in [0..n -> Nat]
  /\ g[0] = 1
  /\ \A i \in 0..n : i + 1 \in 0..n => g[i + 1] = 2 * g[i]

\* There is a table of any length.
LEMMA TablesExist == \A n \in Nat : \E g : IsTable(g, n)
<1> DEFINE S == {n \in Nat : \E g : IsTable(g, n)}
<1>1. 0 \in S
  <2> DEFINE g == [i \in 0..0 |-> 1]
  <2>1. 0..0 = {0} /\ g \in [0..0 -> Nat] /\ g[0] = 1
    OBVIOUS
  <2>2. \A i \in 0..0 : i + 1 \notin 0..0
    BY <2>1
  <2>3. IsTable(g, 0)
    BY <2>1, <2>2 DEF IsTable
  <2> QED BY <2>3
<1>2. ASSUME NEW n \in Nat, n \in S
      PROVE  n + 1 \in S
  <2>1. PICK g : IsTable(g, n)
    BY <1>2
  <2> DEFINE h == [i \in 0..(n + 1) |-> IF i = n + 1 THEN 2 * g[n] ELSE g[i]]
  <2>2. /\ \A i \in 0..n : g[i] \in Nat
        /\ n \in 0..n /\ 0 \in 0..n /\ n + 1 \in Nat
        /\ 0 \in 0..(n + 1) /\ n + 1 \in 0..(n + 1) /\ 0 # n + 1
        /\ \A i \in 0..(n + 1) : i = n + 1 \/ i \in 0..n
        /\ \A i \in 0..n : i \in 0..(n + 1) /\ i # n + 1
    BY <2>1 DEF IsTable
  <2>3. \A i \in 0..n : h[i] = g[i]
    BY <2>2
  <2>4. h[n + 1] = 2 * g[n]
    BY <2>2
  <2>5. h \in [0..(n + 1) -> Nat]
    <3>1. \A i \in 0..(n + 1) : (IF i = n + 1 THEN 2 * g[n] ELSE g[i]) \in Nat
      BY <2>2
    <3> QED BY <3>1
  <2> HIDE DEF h
  <2>6. ASSUME NEW i \in 0..(n + 1), i + 1 \in 0..(n + 1)
        PROVE  h[i + 1] = 2 * h[i]
    <3>1. i \in 0..n
      BY <2>6
    <3>2. CASE i = n
      BY <2>2, <2>3, <2>4, <3>2
    <3>3. CASE i # n
      <4>1. i + 1 \in 0..n
        BY <3>1, <3>3
      <4>2. g[i + 1] = 2 * g[i]
        BY <2>1, <3>1, <4>1 DEF IsTable
      <4> QED BY <2>3, <3>1, <4>1, <4>2
    <3> QED BY <3>2, <3>3
  <2>7. h[0] = 1
    BY <2>1, <2>2, <2>3 DEF IsTable
  <2>8. IsTable(h, n + 1)
    BY <2>5, <2>6, <2>7 DEF IsTable
  <2> QED BY <2>2, <2>8
<1> HIDE DEF S
<1>3. Nat \subseteq S
  BY <1>1, <1>2, SetInduction
<1> QED BY <1>3 DEF S

\* Tables agree as far as both go.
LEMMA TablesAgree ==
  ASSUME NEW n \in Nat, NEW m \in Nat, NEW g, NEW h, IsTable(g, n), IsTable(h, m)
  PROVE  \A i \in Nat : i <= n /\ i <= m => g[i] = h[i]
<1> DEFINE S == {i \in Nat : i <= n /\ i <= m => g[i] = h[i]}
<1>1. 0 \in S
  BY DEF IsTable
<1>2. ASSUME NEW i \in Nat, i \in S
      PROVE  i + 1 \in S
  <2>1. CASE i + 1 <= n /\ i + 1 <= m
    <3>1. /\ i \in 0..n /\ i + 1 \in 0..n /\ i \in 0..m /\ i + 1 \in 0..m
          /\ i <= n /\ i <= m
      BY <2>1
    <3>2. g[i + 1] = 2 * g[i] /\ h[i + 1] = 2 * h[i] /\ g[i] = h[i]
      BY <1>2, <3>1 DEF IsTable
    <3> QED BY <3>2
  <2>2. CASE ~(i + 1 <= n /\ i + 1 <= m)
    BY <2>2
  <2> QED BY <2>1, <2>2
<1> HIDE DEF S
<1>3. Nat \subseteq S
  BY <1>1, <1>2, SetInduction
<1> QED BY <1>3 DEF S

\* What Pow2's recursion says of it.
LEMMA PowersOf2 ==
  /\ Pow2[0] = 1
  /\ \A n \in Nat : Pow2[n] \in Nat /\ Pow2[n + 1] = 2 * Pow2[n]
<1> DEFINE T(n) == CHOOSE g : IsTable(g, n)
           f == [n \in Nat |-> T(n)[n]]
<1>1. \A n \in Nat : IsTable(T(n), n)
  BY TablesExist
<1> HIDE DEF T
<1>2. f[0] = 1
  BY <1>1 DEF IsTable
<1>3. ASSUME NEW n \in Nat
      PROVE  f[n] \in Nat /\ f[n + 1] = 2 * f[n]
  <2>1. /\ n + 1 \in Nat /\ n \in 0..n /\ n \in 0..(n + 1) /\ n + 1 \in 0..(n + 1)
        /\ n <= n /\ n <= n + 1
    OBVIOUS
  <2>2. IsTable(T(n), n) /\ IsTable(T(n + 1), n + 1)
    BY <1>1, <2>1
  <2>3. T(n + 1)[n] = T(n)[n]
    BY <2>1, <2>2, TablesAgree
  <2>4. T(n + 1)[n + 1] = 2 * T(n + 1)[n] /\ T(n)[n] \in Nat
    BY <2>1, <2>2 DEF IsTable
  <2> QED BY <2>1, <2>3, <2>4
<1> HIDE DEF f
<1>4. f = [n \in Nat |-> IF n = 0 THEN 1 ELSE 2 * f[n - 1]]
  <2>1. f = [n \in Nat |-> f[n]]
    BY DEF f
  <2>2. ASSUME NEW n \in Nat
        PROVE  f[n] = IF n = 0 THEN 1 ELSE 2 * f[n - 1]
    <3>1. CASE n = 0
      BY <1>2, <3>1
    <3>2. CASE n # 0
      <4>1. n - 1 \in Nat /\ (n - 1) + 1 = n
        BY <3>2
      <4>2. f[(n - 1) + 1] = 2 * f[n - 1]
        BY <1>3, <4>1
      <4> QED BY <3>2, <4>1, <4>2
    <3> QED BY <3>1, <3>2
  <2> QED BY <2>1, <2>2
<1>5. Pow2 = [n \in Nat |-> IF n = 0 THEN 1 ELSE 2 * Pow2[n - 1]]
  BY <1>4 DEF Pow2
<1>6. Pow2[0] = 1
  BY <1>5
<1>7. \A n \in Nat : Pow2[n + 1] = 2 * Pow2[n]
  <2> TAKE n \in Nat
  <2>1. n + 1 \in Nat /\ n + 1 # 0 /\ (n + 1) - 1 = n
    OBVIOUS
  <2> QED BY <1>5, <2>1
<1>8. \A n \in Nat : Pow2[n] \in Nat
  <2> DEFINE S == {n \in Nat : Pow2[n] \in Nat}
  <2>1. 0 \in S /\ \A n \in Nat : n \in S => n + 1 \in S
    BY <1>6, <1>7
  <2> HIDE DEF S
  <2>2. Nat \subseteq S
    BY <2>1, SetInduction
  <2> QED BY <2>2 DEF S
<1> QED BY <1>6, <1>7, <1>8

\* The wait is what the failures since the last reset make it.
BackoffInv ==
  /\ tries \in Nat
  /\ backoff = Capped(Pow2[tries])
  /\ tries > 0 => slept = Capped(Pow2[tries - 1])

\* Doubling under the ceiling is one power more under the ceiling.
LEMMA DoubledPower ==
  ASSUME NEW n \in Nat
  PROVE  Doubled(Capped(Pow2[n])) = Capped(Pow2[n + 1])
<1> PICK p : p = Pow2[n]
  OBVIOUS
<1>1. p \in Nat /\ Pow2[n + 1] = 2 * p
  BY PowersOf2
<1>2. BackoffMax \in Nat /\ BackoffMax > 0
  BY BackoffAssumption
<1>3. CASE p > BackoffMax
  <2>1. 2 * p > BackoffMax /\ 2 * BackoffMax > BackoffMax
    BY <1>1, <1>2, <1>3
  <2> QED BY <1>1, <1>2, <1>3, <2>1 DEF Capped, Doubled
<1>4. CASE ~(p > BackoffMax)
  BY <1>1, <1>2, <1>4 DEF Capped, Doubled
<1> QED BY <1>3, <1>4

LEMMA NextBackoff == BackoffInv /\ [Next]_vars => BackoffInv'
<1> SUFFICES ASSUME BackoffInv, [Next]_vars PROVE BackoffInv'
  OBVIOUS
<1>1. CASE UNCHANGED backoffVars
  BY <1>1 DEF BackoffInv, backoffVars
<1>2. ASSUME NEW long \in BOOLEAN, BackOff(long)
      PROVE  BackoffInv'
  <2> PICK n : n = IF long THEN 0 ELSE tries
    OBVIOUS
  <2>1. n \in Nat /\ n + 1 \in Nat /\ n + 1 > 0 /\ (n + 1) - 1 = n
    BY DEF BackoffInv
  <2>2. tries' = n + 1
    BY <1>2 DEF BackOff, BackoffInv
  <2>3. slept' = Capped(Pow2[n])
    <3>1. Capped(1) = 1
      BY BackoffAssumption DEF Capped
    <3>2. CASE long
      BY <1>2, <3>1, <3>2, PowersOf2 DEF BackOff
    <3>3. CASE ~long
      BY <1>2, <3>3 DEF BackOff, BackoffInv
    <3> QED BY <3>2, <3>3
  <2>4. backoff' = Capped(Pow2[n + 1])
    <3>1. backoff' = Doubled(Capped(Pow2[n]))
      BY <1>2, <2>3 DEF BackOff
    <3> QED BY <2>1, <3>1, DoubledPower
  <2> QED BY <2>1, <2>2, <2>3, <2>4 DEF BackoffInv
<1> QED
  BY <1>1, <1>2
     DEF Next, RollMarkets, KalshiActs, Connect, Refresh, ReadReply, SessionEnds, vars

(***************************************************************************)
(* The n-th wait after a session of over a minute, or after the start, is  *)
(* 2^(n-1) seconds, BACKOFF_MAX at most, for any BACKOFF_MAX               *)
(* (feeds/task.rs:99-104).                                                 *)
(***************************************************************************)
THEOREM SessionBackoff == Spec => []BackoffBounded
<1>1. Init => BackoffInv
  <2>1. Capped(1) = 1
    BY BackoffAssumption DEF Capped
  <2> QED BY <2>1, PowersOf2 DEF Init, BackoffInv
<1>2. BackoffInv => BackoffBounded
  BY DEF BackoffInv, BackoffBounded
<1> QED BY <1>1, <1>2, NextBackoff, PTL DEF Spec
=============================================================================
