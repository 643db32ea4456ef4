----------------------------- MODULE FeedSession -----------------------------
(***************************************************************************)
(* feeds/task.rs: how one feed comes by its subscriptions and keeps them.  *)
(* A session numbers its commands, remembers which of them await a         *)
(* `subscribed` reply, learns the subscription ids from the replies, and   *)
(* on every market refresh updates the subscriptions it knows the ids of.  *)
(* Between sessions run_feed backs off.                                    *)
(*                                                                         *)
(* Kalshi (external) takes commands in order and answers in order; the     *)
(* answers are read whenever the session's select loop gets to them, so a  *)
(* refresh may come before, between or after the answers it would need.    *)
(* `ok` replies and data frames change nothing here and are left out.      *)
(***************************************************************************)
EXTENDS Integers, Sequences, FiniteSets, Functions

CONSTANTS
  Tickers,      \* markets of the series
  BackoffMax,   \* BACKOFF_MAX, in units of BACKOFF_MIN
  Refusals,     \* whether Kalshi may answer a command with an error
  MaxRolls,     \* bound: changes to the set of open markets
  MaxTries      \* bound: sessions between two resets of the backoff

ASSUME BackoffAssumption == BackoffMax \in Nat \ {0}
ASSUME BoundAssumption ==
  Refusals \in BOOLEAN /\ MaxRolls \in Nat /\ MaxTries \in Nat

MarketSubs == {"orderbook", "ticker"}
Subs == MarketSubs \cup {"index"}

\* A command without its id: `subscribe`, or one action of
\* `update_subscription` on one sid.
SubscribeCmd == [verb : {"subscribe"}, sub : Subs, markets : SUBSET Tickers]
UpdateCmd ==
  [verb : {"add_markets", "delete_markets"}, sid : Nat \ {0},
   markets : SUBSET Tickers]

\* A command on its way, under its id.
Sent == [id : Nat \ {0}, cmd : SubscribeCmd \cup UpdateCmd]

Reply == [typ : {"subscribed", "error"}, id : Nat, sub : Subs \cup {"none"},
          sid : Nat]

VARIABLES
  open,        \* Kalshi: the open markets of the series
  rolls,       \* how often they have changed
  kalshiSubs,  \* Kalshi: this connection's subscriptions; the index is the sid
  cmds,        \* commands sent and not yet acted on
  replies,     \* answers not yet read
  refused,     \* history: subscriptions a command of this session was refused for
  link,        \* "down" or "up"
  cmdId,       \* the last command id used
  pending,     \* Session::pending
  sids,        \* Session::orderbook_sid and ticker_sid, 0 for None
  strikes,     \* the markets Session::strikes has an entry for
  subscribed,  \* run_session's `subscribed`
  openTickers, \* FeedStatus::open_tickers
  backoff,     \* what run_feed sleeps next
  slept,       \* what it slept last
  tries        \* history: sleeps since the backoff was last reset

kalshiVars == <<open, rolls>>
wireVars == <<kalshiSubs, cmds, replies, refused>>
sessionVars == <<link, cmdId, pending, sids, strikes, subscribed, openTickers>>
backoffVars == <<backoff, slept, tries>>
vars == <<kalshiVars, wireVars, sessionVars, backoffVars>>

-----------------------------------------------------------------------------
(* Kalshi (external).                                                      *)

RollMarkets ==
  /\ rolls < MaxRolls
  /\ rolls' = rolls + 1
  /\ open' \in SUBSET Tickers \ {open}
  /\ UNCHANGED <<wireVars, sessionVars, backoffVars>>

Answer(typ, id, sub, sid) ==
  replies' = Append(replies, [typ |-> typ, id |-> id, sub |-> sub, sid |-> sid])

AcceptSubscribe(id, c) ==
  /\ c.verb = "subscribe"
  /\ kalshiSubs' = Append(kalshiSubs, [sub |-> c.sub, markets |-> c.markets])
  /\ Answer("subscribed", id, c.sub, Len(kalshiSubs) + 1)
  /\ UNCHANGED refused

AcceptUpdate(c) ==
  /\ c.verb # "subscribe"
  /\ kalshiSubs' =
       [kalshiSubs EXCEPT ![c.sid].markets =
          IF c.verb = "add_markets" THEN @ \cup c.markets ELSE @ \ c.markets]
  /\ UNCHANGED <<replies, refused>>

Refuse(id, c) ==
  /\ Refusals
  /\ refused' = refused \cup
       {IF c.verb = "subscribe" THEN c.sub ELSE kalshiSubs[c.sid].sub}
  /\ Answer("error", id, "none", 0)
  /\ UNCHANGED kalshiSubs

KalshiActs ==
  /\ cmds # <<>>
  /\ LET id == Head(cmds).id
         c == Head(cmds).cmd
     IN AcceptSubscribe(id, c) \/ AcceptUpdate(c) \/ Refuse(id, c)
  /\ cmds' = Tail(cmds)
  /\ UNCHANGED <<kalshiVars, sessionVars, backoffVars>>

-----------------------------------------------------------------------------
(* Sending commands.                                                       *)

Subscribe(sub, markets) ==
  [verb |-> "subscribe", sub |-> sub, markets |-> markets]
Update(sid, verb, markets) == [verb |-> verb, sid |-> sid, markets |-> markets]

\* subscribe_markets: one command per market channel, the orderbook first.
SubscribeMarkets(markets) ==
  IF markets = {} THEN <<>>
    ELSE <<Subscribe("orderbook", markets), Subscribe("ticker", markets)>>

\* Slip: both commands of a pair go out under one id.
SendFromOnce(last, entries, before, list) ==
  /\ cmdId' = last + 1
  /\ cmds' = before \o [i \in DOMAIN list |-> [id |-> last + 1, cmd |-> list[i]]]
  /\ pending' = IF list # <<>> /\ list[1].verb = "subscribe"
                  THEN [id \in DOMAIN entries \cup {last + 1} |->
                          IF id = last + 1 THEN list[1].sub ELSE entries[id]]
                  ELSE entries

\* send_cmd for each: the next id, and an entry in `pending` for a subscribe.
\* `last` is the id before, `before` the entries and commands already there.
SendFrom(last, entries, before, list) ==
  LET awaiting == {last + i : i \in {i \in DOMAIN list : list[i].verb = "subscribe"}}
  IN /\ cmdId' = last + Len(list)
     /\ cmds' = before \o [i \in DOMAIN list |-> [id |-> last + i, cmd |-> list[i]]]
     /\ pending' = [id \in DOMAIN entries \cup awaiting |->
                      IF id \in awaiting THEN list[id - last].sub ELSE entries[id]]

\* market_sids has nothing to update.
NoSids == \A s \in MarketSubs : sids[s] = 0

\* The updates one subscription needs; none if its sid is not known.
UpdatesOf(sid, add, del) ==
  IF sid = 0 THEN <<>>
    ELSE (IF add = {} THEN <<>> ELSE <<Update(sid, "add_markets", add)>>)
           \o (IF del = {} THEN <<>> ELSE <<Update(sid, "delete_markets", del)>>)

UpdatesOfAll(add, del) ==
  UpdatesOf(sids["orderbook"], add, del) \o UpdatesOf(sids["ticker"], add, del)

-----------------------------------------------------------------------------
(* run_session.                                                            *)

\* Connect, subscribe the index, poll, subscribe the open markets, publish.
Connect ==
  /\ link = "down"
  /\ link' = "up"
  /\ SendFrom(0, <<>>, <<>>,
       <<Subscribe("index", {})>> \o SubscribeMarkets(open))
  /\ kalshiSubs' = <<>> /\ replies' = <<>> /\ refused' = {}
  /\ sids' = [s \in MarketSubs |-> 0]
  /\ strikes' = open /\ subscribed' = open /\ openTickers' = open
  /\ UNCHANGED <<kalshiVars, backoffVars>>

\* Slip: nothing is sent while no reply has been read.
RefreshNeedsSids ==
  /\ link = "up" /\ open # subscribed
  /\ SendFrom(cmdId, pending, cmds,
       UpdatesOfAll(open \ subscribed, subscribed \ open))
  /\ strikes' = open /\ subscribed' = open /\ openTickers' = open
  /\ UNCHANGED <<kalshiVars, kalshiSubs, replies, refused, link, sids, backoffVars>>

\* The MARKET_REFRESH tick, its poll answered.  An answer that changes nothing
\* but strikes, and a poll that fails, leave the session as it is.
Refresh ==
  /\ link = "up" /\ open # subscribed
  /\ SendFrom(cmdId, pending, cmds,
       IF NoSids THEN SubscribeMarkets(open)
         ELSE UpdatesOfAll(open \ subscribed, subscribed \ open))
  /\ strikes' = open /\ subscribed' = open /\ openTickers' = open
  /\ UNCHANGED <<kalshiVars, kalshiSubs, replies, refused, link, sids, backoffVars>>

\* Slip: the first ids to arrive are taken for the market channels'.
LearnedInOrder(r) ==
  IF r.typ # "subscribed" THEN sids
    ELSE IF sids["orderbook"] = 0 THEN [sids EXCEPT !["orderbook"] = r.sid]
    ELSE [sids EXCEPT !["ticker"] = r.sid]

\* The sids once a reply is read: filed by the command it answers, or by the
\* channel it names.
Learned(r) ==
  LET filed == {s \in MarketSubs :
                  s = r.sub \/ (r.id \in DOMAIN pending /\ pending[r.id] = s)}
  IN IF r.typ = "subscribed" /\ filed # {}
       THEN [sids EXCEPT ![IF "orderbook" \in filed THEN "orderbook"
                             ELSE "ticker"] = r.sid]
       ELSE sids

\* handle_text, the "subscribed" and "error" arms: an error is only logged.
ReadReply ==
  /\ link = "up" /\ replies # <<>>
  /\ LET r == Head(replies)
     IN /\ sids' = Learned(r)
        /\ pending' = IF r.typ = "subscribed"
                        THEN Restrict(pending, DOMAIN pending \ {r.id})
                        ELSE pending
  /\ replies' = Tail(replies)
  /\ UNCHANGED <<kalshiVars, kalshiSubs, cmds, refused, link, cmdId, strikes,
                 subscribed, openTickers, backoffVars>>

-----------------------------------------------------------------------------
(* run_feed.                                                               *)

\* Slip: the backoff has no ceiling.
DoubledUncapped(b) == 2 * b

Doubled(b) == IF 2 * b > BackoffMax THEN BackoffMax ELSE 2 * b

\* Slip: the reset comes after the sleep.
BackOffLate(long) ==
  /\ slept' = backoff
  /\ backoff' = IF long THEN 1 ELSE Doubled(backoff)
  /\ tries' = IF long THEN 1 ELSE tries + 1

\* A session of over a minute resets the backoff, then the sleep, then the
\* doubling.
BackOff(long) ==
  /\ slept' = IF long THEN 1 ELSE backoff
  /\ backoff' = Doubled(slept')
  /\ tries' = IF long THEN 1 ELSE tries + 1

\* run_session returned, whatever ended it, or never got to its loop: the
\* socket and the Session are dropped.
SessionEnds(long) ==
  /\ long \/ tries < MaxTries
  /\ BackOff(long)
  /\ link' = "down"
  /\ cmdId' = 0 /\ pending' = <<>> /\ cmds' = <<>> /\ replies' = <<>>
  /\ kalshiSubs' = <<>> /\ refused' = {}
  /\ sids' = [s \in MarketSubs |-> 0]
  /\ strikes' = {} /\ subscribed' = {}
  /\ UNCHANGED <<kalshiVars, openTickers>>

-----------------------------------------------------------------------------
Init ==
  /\ open \in SUBSET Tickers /\ rolls = 0
  /\ kalshiSubs = <<>> /\ cmds = <<>> /\ replies = <<>> /\ refused = {}
  /\ link = "down" /\ cmdId = 0 /\ pending = <<>>
  /\ sids = [s \in MarketSubs |-> 0]
  /\ strikes = {} /\ subscribed = {} /\ openTickers = {}
  /\ backoff = 1 /\ slept = 0 /\ tries = 0

Next ==
  \/ RollMarkets
  \/ KalshiActs
  \/ Connect
  \/ Refresh
  \/ ReadReply
  \/ \E long \in BOOLEAN : SessionEnds(long)

Spec == Init /\ [][Next]_vars

\* Kalshi answers, the refresh timer fires and not every poll fails, frames
\* are read, and a session that is down tries again after its sleep.
FairSpec ==
  /\ Spec
  /\ WF_vars(KalshiActs) /\ WF_vars(ReadReply) /\ WF_vars(Refresh)
  /\ WF_vars(Connect)

-----------------------------------------------------------------------------
(* Properties.                                                             *)

\* Every variable has its type.
TypeOK ==
  /\ open \subseteq Tickers /\ rolls \in 0..MaxRolls
  /\ kalshiSubs \in Seq([sub : Subs, markets : SUBSET Tickers])
  /\ cmds \in Seq(Sent)
  /\ replies \in Seq(Reply)
  /\ refused \subseteq Subs
  /\ link \in {"down", "up"}
  /\ cmdId \in Nat
  /\ DOMAIN pending \subseteq 1..cmdId
  /\ \A id \in DOMAIN pending : pending[id] \in Subs
  /\ sids \in [MarketSubs -> Nat]
  /\ strikes \subseteq Tickers /\ subscribed \subseteq Tickers
  /\ openTickers \subseteq Tickers
  /\ backoff \in 1..BackoffMax /\ slept \in 0..BackoffMax /\ tries \in Nat

SidsOf(sub) == {s \in DOMAIN kalshiSubs : kalshiSubs[s].sub = sub}
Served(sub) == UNION {kalshiSubs[s].markets : s \in SidsOf(sub)}

\* Every command of the session has been acted on and every answer read.
Quiet == link = "up" /\ cmds = <<>> /\ replies = <<>>

(***************************************************************************)
(* A sid the session will send updates to is a subscription of this        *)
(* connection and of that channel, however replies and refreshes           *)
(* interleave: an update never lands on the index subscription, nor on an  *)
(* id of an earlier session (feeds/task.rs:138-140, 391-401).              *)
(***************************************************************************)
SidsGenuine ==
  \A s \in MarketSubs : sids[s] # 0 => sids[s] \in SidsOf(s)

(***************************************************************************)
(* Once quiet, and unless Kalshi refused an orderbook command, every       *)
(* market the session counts as subscribed is served on the orderbook      *)
(* channel, also when a refresh came before the replies and subscribed a   *)
(* second time (feeds/task.rs:205-220): no open market goes without a book.*)
(***************************************************************************)
OrderbookServed ==
  (Quiet /\ "orderbook" \notin refused) => subscribed \subseteq Served("orderbook")

(***************************************************************************)
(* The id of a command is used once per session, and what awaits a reply   *)
(* is what has a command or an answer under way, or was refused: a reply   *)
(* is never filed under another command (feeds/task.rs:108-126, 391-392).  *)
(***************************************************************************)
PendingAwaited ==
  /\ \A i, j \in DOMAIN cmds : i # j => cmds[i].id # cmds[j].id
  /\ \A id \in DOMAIN pending :
       \/ \E i \in DOMAIN cmds :
            /\ cmds[i].id = id
            /\ cmds[i].cmd.verb = "subscribe" /\ cmds[i].cmd.sub = pending[id]
       \/ \E i \in DOMAIN replies :
            /\ replies[i].id = id
            /\ replies[i].typ = "subscribed" => replies[i].sub = pending[id]
       \/ pending[id] \in refused

\* 2^n, and a wait of n seconds under the ceiling.
Pow2[n \in Nat] == IF n = 0 THEN 1 ELSE 2 * Pow2[n - 1]
Capped(n) == IF n > BackoffMax THEN BackoffMax ELSE n

(***************************************************************************)
(* The wait before the n-th attempt after a session of over a minute, or   *)
(* after the start, is 2^(n-1) seconds, BACKOFF_MAX at most: a session     *)
(* that lived never waits for the failures before it, and failures in a    *)
(* row never retry faster (feeds/task.rs:99-104).                          *)
(***************************************************************************)
BackoffBounded ==
  tries > 0 =>
    slept = Capped(Pow2[tries - 1]) /\ backoff = Capped(Pow2[tries])

(***************************************************************************)
(* A set of open markets that stays as it is ends up served on the         *)
(* orderbook channel, unless sessions keep ending or Kalshi refused a      *)
(* command of the last one: a missed or early refresh is never the last    *)
(* word (feeds/task.rs:186-228).                                           *)
(***************************************************************************)
OpenMarketsFollowed ==
  <>[](open \subseteq Served("orderbook")) \/ []<>(link = "down" \/ refused # {})

(***************************************************************************)
(* feeds/task.rs:11-12: "open markets are re-polled and both per-market    *)
(* subscriptions are updated in place."  So once quiet, with nothing       *)
(* refused, the ticker channel serves the markets subscribed too.          *)
(* The code does not keep this: see Divergences in the README.             *)
(***************************************************************************)
TickerServed ==
  (Quiet /\ refused = {}) => subscribed \subseteq Served("ticker")
=============================================================================
