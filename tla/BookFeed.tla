------------------------------- MODULE BookFeed -------------------------------
(***************************************************************************)
(* The orderbook side of one feed task (feeds/task.rs): the exchange that  *)
(* numbers frames, the websocket session that checks the numbers, the      *)
(* cached books, and the broadcast channel the proxies read.               *)
(*                                                                         *)
(* A session that refreshes before it has read the reply to its subscribe  *)
(* command subscribes again, so it may hold several orderbook              *)
(* subscriptions, each with its own numbers and all filling the same books.*)
(* How the commands and replies of a session meet is FeedSession's subject.*)
(***************************************************************************)
EXTENDS OrderBook, Sequences, FiniteSets, Functions

CONSTANTS
  Tickers,        \* markets of the series
  NoBook,         \* a ticker the cache has no entry for
  MaxSize,        \* bound: size the exchange lets rest at one level
  MaxSubs,        \* bound: orderbook subscribe commands of one session
  MaxSeq,         \* bound: frames the exchange numbers in one session
  MaxReconnects,  \* bound: sessions that may end
  Garbles         \* whether the exchange may send a frame that does not parse

ASSUME NoBookAssumption == NoBook \notin Book
ASSUME BoundsAssumption ==
  /\ MaxSize \in Nat /\ MaxSubs \in Nat \ {0} /\ MaxSeq \in Nat
  /\ MaxReconnects \in Nat /\ Garbles \in BOOLEAN

\* The subscriptions of a session, by the order of their subscribe commands.
Sids == 1..MaxSubs

VARIABLES
  exch,        \* the exchange's own book of each market
  made,        \* orderbook subscribe commands this session has sent
  asked,       \* by subscription: markets the session asked it for
  served,      \* by subscription: markets the exchange is sending on it
  deleting,    \* by subscription: markets whose delete_markets is not acted on
  upSeq,       \* by subscription: last number the exchange gave a frame of it
  wire,        \* by subscription: frames numbered and not yet read
  link,        \* "down", "up", or "stopped" once the registry drops the feed
  sid,         \* Session::orderbook_sid; 0 is None
  lastSeq,     \* Session::last_seq; 0 is no entry
  subscribed,  \* markets this session asked for
  books,       \* FeedShared::books
  reconnects,  \* FeedStatus::reconnects
  spoiled,     \* history: markets whose cached book missed a frame that did
               \* not parse, and has had no snapshot since
  sources      \* history: by market, the subscriptions that have served it
               \* in the session its cached book is of

subVars == <<asked, served, deleting, upSeq, wire>>
feedVars == <<exch, made, subVars, link, sid, lastSeq, subscribed, books,
              reconnects, spoiled, sources>>

Frame ==
  [typ : {"orderbook_snapshot"}, seq : Nat \ {0}, ticker : Tickers,
   parses : BOOLEAN, msg : SnapshotMsg]
    \cup
  [typ : {"orderbook_delta"}, seq : Nat \ {0}, ticker : Tickers,
   parses : BOOLEAN, msg : DeltaMsg]

Cached == Book \cup {NoBook}
Cache  == [Tickers -> Cached]
NoBooks == [t \in Tickers |-> NoBook]

\* Markets that more than one subscription has fed.
Mixed == {t \in Tickers : \E s, r \in sources[t] : s # r}

-----------------------------------------------------------------------------
(* The exchange (external).                                                *)

\* Every subscription in `subs` numbers a frame of its own.  One that is lost
\* takes its number with it: the next one shows a gap.
Emit(subs, typ, t, msg) ==
  /\ SumFunction(upSeq) + Cardinality(subs) <= MaxSeq
  /\ upSeq' = [s \in Sids |-> IF s \in subs THEN upSeq[s] + 1 ELSE upSeq[s]]
  /\ \E sent \in SUBSET subs : \E garbled \in SUBSET sent :
       /\ garbled = {} \/ Garbles
       /\ wire' = [s \in Sids |->
                     IF s \in sent
                       THEN Append(wire[s],
                                   [typ |-> typ, seq |-> upSeq[s] + 1,
                                    ticker |-> t, parses |-> s \notin garbled,
                                    msg |-> msg])
                       ELSE wire[s]]

Trade(t, l, change) ==
  /\ exch[t][l] + change \in 0..MaxSize
  /\ exch' = [exch EXCEPT ![t][l] = @ + change]
  /\ Emit({s \in Sids : t \in served[s]}, "orderbook_delta", t,
          [shape |-> "delta", level |-> l, change |-> change])
  /\ UNCHANGED <<made, asked, served, deleting, link, sid, lastSeq, subscribed,
                 books, reconnects, spoiled, sources>>

\* A market newly asked for is served from a snapshot on.
ServeMarket(s, t) ==
  /\ link = "up"
  /\ t \in asked[s] \ (served[s] \cup deleting[s])
  /\ served' = [served EXCEPT ![s] = @ \cup {t}]
  /\ Emit({s}, "orderbook_snapshot", t, [shape |-> "snapshot", rows |-> exch[t]])
  /\ sources' = [sources EXCEPT ![t] = @ \cup {s}]
  /\ UNCHANGED <<exch, made, asked, deleting, link, sid, lastSeq, subscribed,
                 books, reconnects, spoiled>>

DropMarket(s, t) ==
  /\ link = "up"
  /\ t \in deleting[s]
  /\ served' = [served EXCEPT ![s] = @ \ {t}]
  /\ deleting' = [deleting EXCEPT ![s] = @ \ {t}]
  /\ UNCHANGED <<exch, made, asked, upSeq, wire, link, sid, lastSeq, subscribed,
                 books, reconnects, spoiled, sources>>

-----------------------------------------------------------------------------
(* The session: connecting, ending, and the market refresh.                *)

\* What is left when run_session returns: the socket and the Session are
\* dropped, the cached books are not.
DropSession ==
  /\ made' = 0 /\ sid' = 0 /\ subscribed' = {}
  /\ asked' = [s \in Sids |-> {}]
  /\ served' = [s \in Sids |-> {}]
  /\ deleting' = [s \in Sids |-> {}]
  /\ upSeq' = [s \in Sids |-> 0]
  /\ wire' = [s \in Sids |-> <<>>]
  /\ lastSeq' = [s \in Sids |-> 0]

\* ... and what run_feed then records before it backs off.
CloseSession ==
  /\ link' = "down"
  /\ reconnects < MaxReconnects
  /\ reconnects' = reconnects + 1
  /\ DropSession

\* A subscribe command for the markets in `open`, when there are any.
SubscribeMarkets(open) ==
  IF open = {}
    THEN UNCHANGED <<made, asked>>
    ELSE /\ made < MaxSubs
         /\ made' = made + 1
         /\ asked' = [asked EXCEPT ![made + 1] = open]

\* Connect, clear the cache, poll the open markets, subscribe to them.
OpenSession(open) ==
  /\ link = "down"
  /\ link' = "up"
  /\ books' = NoBooks
  /\ sources' = [t \in Tickers |-> {}]
  /\ subscribed' = open
  /\ SubscribeMarkets(open)
  /\ UNCHANGED <<exch, served, deleting, upSeq, wire, sid, lastSeq, reconnects,
                 spoiled>>

\* The handshake fails, or the poll after it does, by when the cache is empty.
OpenSessionFails ==
  /\ link = "down"
  /\ reconnects < MaxReconnects
  /\ reconnects' = reconnects + 1
  /\ books' \in {books, NoBooks}
  /\ UNCHANGED <<exch, made, subVars, link, sid, lastSeq, subscribed, spoiled,
                 sources>>

\* The server closes, a read fails, or no frame comes for STALE_AFTER.
SessionEnds ==
  /\ link = "up"
  /\ CloseSession
  /\ UNCHANGED <<exch, books, spoiled, sources>>

\* The "subscribed" reply to the s-th command: replies come in the commands'
\* order, and one that is refused or does not parse tells nothing.
LearnSid(s) ==
  /\ link = "up"
  /\ s \in sid + 1..made
  /\ sid' = s
  /\ UNCHANGED <<exch, made, subVars, link, lastSeq, subscribed, books,
                 reconnects, spoiled, sources>>

\* update_subscription on the subscription that is known.
UpdateMarkets(add, del) ==
  /\ sid # 0
  /\ asked' = [asked EXCEPT ![sid] = (@ \cup add) \ del]
  /\ deleting' = [deleting EXCEPT ![sid] = @ \cup del]
  /\ UNCHANGED made

\* No subscription is known: another subscribe, for every open market ...
SubscribeAgain(open) ==
  /\ sid = 0
  /\ SubscribeMarkets(open)
  /\ UNCHANGED deleting

\* ... unless the ticker channel's is, which is then all that is updated.
UpdateTickerOnly ==
  /\ sid = 0 /\ made > 0
  /\ UNCHANGED <<made, asked, deleting>>

\* The MARKET_REFRESH tick: `open` is what the poll returned.
Refresh(open) ==
  /\ link = "up"
  /\ open # subscribed
  /\ \/ UpdateMarkets(open \ subscribed, subscribed \ open)
     \/ SubscribeAgain(open)
     \/ UpdateTickerOnly
  /\ subscribed' = open
  /\ books' = [t \in Tickers |->
                 IF t \in subscribed \ open THEN NoBook ELSE books[t]]
  /\ UNCHANGED <<exch, served, upSeq, wire, link, sid, lastSeq, reconnects,
                 spoiled, sources>>

\* FeedRegistry::stop drops the handle, which aborts the task.
Stop ==
  /\ link # "stopped"
  /\ link' = "stopped"
  /\ DropSession
  /\ UNCHANGED <<exch, books, reconnects, spoiled, sources>>

-----------------------------------------------------------------------------
(* handle_text, the "orderbook_snapshot" | "orderbook_delta" arm.          *)

\* The cache entry of t once f is applied to the entry `book`.
AfterFrame(book, f, t) ==
  IF f.parses /\ f.ticker = t /\ (book # NoBook \/ f.typ = "orderbook_snapshot")
    THEN ApplyMsg(IF book = NoBook THEN EmptyBook ELSE book, f.msg, f.seq)
    ELSE book

\* A readable snapshot of t: what any cached or replayed book restarts from.
Resets(f, t) == f.parses /\ f.ticker = t /\ f.typ = "orderbook_snapshot"

\* Slip: the numbers are kept but not compared.
IsGapNever(s, f) == FALSE

\* `last_seq.insert` returned a number other than the one before this frame's.
IsGap(s, f) == lastSeq[s] # 0 /\ f.seq # lastSeq[s] + 1

HandleGap(s) ==
  /\ wire[s] # <<>>
  /\ IsGap(s, Head(wire[s]))
  /\ CloseSession
  /\ UNCHANGED <<exch, books, spoiled, sources>>

\* Cache update and broadcast happen under one hold of the write lock.
HandleFrame(s) ==
  /\ wire[s] # <<>>
  /\ LET f == Head(wire[s])
     IN /\ ~IsGap(s, f)
        /\ lastSeq' = [lastSeq EXCEPT ![s] = f.seq]
        /\ books' = [t \in Tickers |-> AfterFrame(books[t], f, t)]
        /\ spoiled' = IF ~f.parses THEN spoiled \cup {f.ticker}
                       ELSE {t \in spoiled : ~Resets(f, t)}
  /\ wire' = [wire EXCEPT ![s] = Tail(@)]
  /\ UNCHANGED <<exch, made, asked, served, deleting, upSeq, link, sid,
                 subscribed, reconnects, sources>>

-----------------------------------------------------------------------------
FeedInit ==
  /\ exch \in [Tickers -> [Levels -> 0..MaxSize]]
  /\ made = 0 /\ sid = 0 /\ subscribed = {}
  /\ asked = [s \in Sids |-> {}]
  /\ served = [s \in Sids |-> {}]
  /\ deleting = [s \in Sids |-> {}]
  /\ upSeq = [s \in Sids |-> 0]
  /\ wire = [s \in Sids |-> <<>>]
  /\ lastSeq = [s \in Sids |-> 0]
  /\ link = "down"
  /\ books = NoBooks
  /\ reconnects = 0
  /\ spoiled = {}
  /\ sources = [t \in Tickers |-> {}]

\* Every step but a broadcast.
SilentStep ==
  \/ \E t \in Tickers, l \in Levels, change \in {-1, 1} : Trade(t, l, change)
  \/ \E s \in Sids, t \in Tickers : ServeMarket(s, t) \/ DropMarket(s, t)
  \/ \E open \in SUBSET Tickers : OpenSession(open) \/ Refresh(open)
  \/ OpenSessionFails
  \/ SessionEnds
  \/ \E s \in Sids : LearnSid(s) \/ HandleGap(s)
  \/ Stop

FeedNext == SilentStep \/ \E s \in Sids : HandleFrame(s)

FeedSpec == FeedInit /\ [][FeedNext]_feedVars

-----------------------------------------------------------------------------
(* Properties.                                                             *)

\* Every variable has its type.
FeedTypeOK ==
  /\ exch \in [Tickers -> Sizes]
  /\ made \in 0..MaxSubs /\ sid \in 0..made
  /\ asked \in [Sids -> SUBSET Tickers]
  /\ served \in [Sids -> SUBSET Tickers]
  /\ deleting \in [Sids -> SUBSET Tickers]
  /\ upSeq \in [Sids -> Nat]
  /\ wire \in [Sids -> Seq(Frame)]
  /\ link \in {"down", "up", "stopped"}
  /\ lastSeq \in [Sids -> Nat]
  /\ subscribed \subseteq Tickers
  /\ books \in Cache
  /\ reconnects \in Nat
  /\ spoiled \subseteq Tickers
  /\ sources \in [Tickers -> SUBSET Sids]

\* Every number the exchange has given out on subscription s has been read.
CaughtUp(s) == link = "up" /\ upSeq[s] > 0 /\ lastSeq[s] = upSeq[s]

\* Subscription s is sending t, no other has, and every frame so far parsed.
Follows(s, t) == t \in served[s] /\ sources[t] = {s} /\ t \notin spoiled

(***************************************************************************)
(* Once the session has read everything a subscription sent, each cached   *)
(* book that it alone feeds is the exchange's book: no lost frame,         *)
(* reconnect, market rotation, late frame or second subscription to other  *)
(* markets leaves a wrong book standing.  The gap check, the clearing of   *)
(* the cache on connect and the removal of closed markets                  *)
(* (feeds/task.rs:328-353, 136, 222-227) are all there for this.           *)
(***************************************************************************)
CacheTracksExchange ==
  \A s \in Sids : CaughtUp(s) =>
    \A t \in Tickers :
      (Follows(s, t) /\ books[t] # NoBook) => books[t].size = exch[t]

(***************************************************************************)
(* What feeds/mod.rs:68 says of the cache: the current book of each        *)
(* market, so, once everything on every subscription has been read, the    *)
(* exchange's.  A market served by two subscriptions, after a refresh that *)
(* found no sid (feeds/task.rs:205-209), has every change applied to its   *)
(* one book twice, and neither subscription's numbers show it.             *)
(***************************************************************************)
CacheIsCurrentBook ==
  (link = "up" /\ \A s \in Sids : lastSeq[s] = upSeq[s]) =>
    \A s \in Sids : \A t \in served[s] \ spoiled :
      books[t] # NoBook => books[t].size = exch[t]

(***************************************************************************)
(* While a session is up, a cached book is never ahead of the numbers that *)
(* session has read on the subscriptions that fed it: a book of an earlier *)
(* session, whose `seq` means nothing in this one, is never handed to a    *)
(* proxy client as this session's (feeds/task.rs:135-136,                  *)
(* kalshi/book.rs:226).                                                    *)
(***************************************************************************)
CacheWithinSession ==
  link = "up" => \A t \in Tickers : books[t] # NoBook =>
    \E s \in sources[t] : lastSeq[s] # 0 /\ books[t].seq <= lastSeq[s]
=============================================================================
