---------------------------- MODULE ContractIngest ----------------------------
(***************************************************************************)
(* contracts_loop of controllers/ingest.rs: one `contracts` job, which     *)
(* lists the markets of a series that were open in its range, in pages and *)
(* from two tiers, then fetches the one-minute candles of each market      *)
(* QuestDB does not already hold, and queues them for the writer.          *)
(*                                                                         *)
(* Time is in minutes (CANDLE_PERIOD_MINUTES).  A candle is numbered by    *)
(* the end of its minute; QuestDB keeps one row per market and end.  The   *)
(* rows of one market are queued in one step: the writer may flush any     *)
(* part of them before the others, and the job does nothing in between.    *)
(***************************************************************************)
EXTENDS Integers, FiniteSets, FiniteSetsExt

CONSTANTS
  Length,      \* minutes a market is open
  Count,       \* markets of the series, one after the other
  Settling,    \* minutes from a market's close to its settlement
  Start, End,  \* the job's range
  PageSize,    \* MARKETS_PAGE_LIMIT
  BadMarkets,  \* markets whose times do not parse
  MaxNow,      \* bound: the clock
  MaxJobs      \* bound: jobs for the range

Markets == 0..Count - 1
Open(m) == m * Length
Close(m) == (m + 1) * Length
Settled(m) == Close(m) + Settling

Tiers == {"Historical", "Live"}
Other(tier) == IF tier = "Live" THEN "Historical" ELSE "Live"

VARIABLES
  now,       \* the clock
  cutoff,    \* Kalshi's market_settled_ts
  archived,  \* markets whose candles sit in the historical tier
  stored,    \* contract_candles_hist: <<market, end>>
  queued,    \* rows queued and not yet flushed
  pc,        \* "cutoff", "list", "counts", "market", "retry", "over"
  cut,       \* the cutoff the job read
  tiers,     \* tiers still to list
  page,      \* the page cursor: markets older than this one are to come
  found,     \* markets in range so far, and the tier that listed each
  existing,  \* candle_counts' answer
  status,    \* JobStatus
  cursor,    \* IngestJob::cursor_ms
  began,     \* history: the clock when the job began
  lost,      \* history: rows a flush dropped since the job began
  jobs       \* jobs begun

vars == <<now, cutoff, archived, stored, queued, pc, cut, tiers, page, found,
          existing, status, cursor, began, lost, jobs>>
kalshi == <<cutoff, archived>>
table == <<stored, queued, lost>>
listing == <<cut, tiers, page, found>>

Lower(a, b) == IF a < b THEN a ELSE b
Higher(a, b) == IF a > b THEN a ELSE b

From(m) == Higher(Open(m), Start)

To(m) == Lower(Close(m), End)

\* Whether a market was open at any point of the range.
Overlaps(m) == Close(m) > Start /\ Open(m) < End

\* Slip: one candle may be missing.
CandlesCompleteButOne(candles, m, t) ==
  LET expected == To(m) - From(m)
  IN To(m) <= t /\ expected > 0 /\ candles >= expected - 1

CandlesComplete(candles, m, t) ==
  LET expected == To(m) - From(m)
  IN To(m) <= t /\ expected > 0 /\ candles >= expected

\* candle_counts: both ends of the range are included.
CandleCounts == [m \in Markets |->
  Cardinality({r \in stored : r[1] = m /\ Start <= r[2] /\ r[2] <= End})]

NoCounts == [m \in Markets |-> 0]

-----------------------------------------------------------------------------
(* Kalshi.  Which listing a market is in follows the cutoff at once, its   *)
(* candles move later.                                                     *)

ListedIn(m, c) == IF Settled(m) < c THEN "Historical" ELSE "Live"

\* The live listing drops what closed before the range.
Listing(tier) == {m \in Markets :
  ListedIn(m, cutoff) = tier /\ (tier = "Live" => Close(m) >= Start)}

HeldBy(m) == IF m \in archived THEN "Historical" ELSE "Live"

\* A candle for every minute of a market that is over, asked for by its end.
Candles(m) == {<<m, t>> : t \in {t \in Open(m) + 1..Close(m) :
  From(m) <= t /\ t <= To(m) /\ t <= now}}

CutoffMoves(c) ==
  /\ c > cutoff /\ c <= now
  /\ cutoff' = c
  /\ UNCHANGED <<now, archived, table, listing, pc, existing, status, cursor, began, jobs>>

Archive(m) ==
  /\ m \notin archived /\ Settled(m) < cutoff
  /\ archived' = archived \cup {m}
  /\ UNCHANGED <<now, cutoff, table, listing, pc, existing, status, cursor, began, jobs>>

-----------------------------------------------------------------------------
(* The job: the markets in range.                                          *)

TiersOf(c) == {tier \in Tiers :
  IF tier = "Historical" THEN Start < c ELSE End > c}

ReadCutoff ==
  /\ pc = "cutoff"
  /\ pc' = "list"
  /\ cut' = cutoff /\ tiers' = TiersOf(cutoff)
  /\ page' = Count
  /\ UNCHANGED <<now, kalshi, table, found, existing, status, cursor, began, jobs>>

\* The historical tier is listed first.
CurrentTier == IF "Historical" \in tiers THEN "Historical" ELSE "Live"

\* The newest PageSize markets of the listing that are older than the cursor.
PageOf(listed, older) ==
  LET left == {m \in listed : m < older}
  IN {m \in left : Cardinality({n \in left : n > m}) < PageSize}

\* Slip: a page that reaches into the range is taken for one past its start.
PastStartTooSoon(readable) == readable = {} \/ Close(Min(readable)) <= End

\* Whether a page reaches past the start; one with nothing on it does.
PastStart(readable) == readable = {} \/ Close(Min(readable)) <= Start

\* Slip: the cursor of the next page is not kept.
OlderAlwaysFirst(got) == Count

\* The cursor a page comes with.
Older(got) == IF got = {} THEN 0 ELSE Min(got)

\* A page of the tier at hand; the next tier once it is the last one to read.
ListPage ==
  /\ pc = "list" /\ tiers # {}
  /\ LET tier == CurrentTier
         got == PageOf(Listing(tier), page)
         readable == got \ BadMarkets
         last == {m \in Listing(tier) : m < Older(got)} = {}
     IN /\ found' = found \cup
             {<<m, tier>> : m \in {m \in readable :
                Overlaps(m) /\ \A f \in found : f[1] # m}}
        /\ IF last \/ PastStart(readable)
             THEN tiers' = tiers \ {tier} /\ page' = Count
             ELSE page' = Older(got) /\ UNCHANGED tiers
  /\ UNCHANGED <<now, kalshi, table, pc, cut, existing, status, cursor, began, jobs>>

Listed ==
  /\ pc = "list" /\ tiers = {}
  /\ pc' = "counts"
  /\ UNCHANGED <<now, kalshi, table, listing, existing, status, cursor, began, jobs>>

-----------------------------------------------------------------------------
(* The job: the candles of each market.                                    *)

\* With `force`, or when the query fails, nothing counts as there.
ReadCounts ==
  /\ pc = "counts"
  /\ pc' = "market"
  /\ existing' \in {CandleCounts, NoCounts}
  /\ UNCHANGED <<now, kalshi, table, listing, status, cursor, began, jobs>>

\* Oldest first: sorted by close, one entry a ticker.
Todo == {f[1] : f \in found}
Current == Min(Todo)
TierOf(m) == (CHOOSE f \in found : f[1] = m)[2]

MarketDone ==
  /\ found' = {f \in found : f[1] # Current}
  /\ cursor' = Higher(cursor, To(Current))

Skip ==
  /\ pc = "market" /\ Todo # {}
  /\ CandlesComplete(existing[Current], Current, now)
  /\ MarketDone
  /\ UNCHANGED <<now, kalshi, table, pc, cut, tiers, page, existing, status, began, jobs>>

\* The candles are asked of the tier that listed the market, then of the other
\* one if it is not there.
FetchFrom(tier, otherwise) ==
  IF HeldBy(Current) = tier
    THEN /\ queued' = queued \cup Candles(Current)
         /\ pc' = "market"
         /\ MarketDone
         /\ UNCHANGED status
    ELSE otherwise /\ UNCHANGED <<queued, found, cursor>>

Fetch ==
  /\ pc = "market" /\ Todo # {}
  /\ ~CandlesComplete(existing[Current], Current, now)
  /\ FetchFrom(TierOf(Current), pc' = "retry" /\ UNCHANGED status)
  /\ UNCHANGED <<now, kalshi, stored, lost, cut, tiers, page, existing, began, jobs>>

FetchOther ==
  /\ pc = "retry"
  /\ FetchFrom(Other(TierOf(Current)), pc' = "over" /\ status' = "failed")
  /\ UNCHANGED <<now, kalshi, stored, lost, cut, tiers, page, existing, began, jobs>>

\* A call is given up on, or fails for good.
CallFails ==
  /\ \/ pc \in {"cutoff", "retry"}
     \/ pc = "list" /\ tiers # {}
     \/ pc = "market" /\ Todo # {} /\ ~CandlesComplete(existing[Current], Current, now)
  /\ pc' = "over" /\ status' = "failed"
  /\ UNCHANGED <<now, kalshi, table, listing, existing, cursor, began, jobs>>

\* Slip: the cursor stays where the last market left it.
FinishAtLastMarket ==
  /\ pc = "market" /\ Todo = {}
  /\ pc' = "over" /\ status' = "done"
  /\ UNCHANGED <<now, kalshi, table, listing, existing, cursor, began, jobs>>

Finish ==
  /\ pc = "market" /\ Todo = {}
  /\ pc' = "over" /\ status' = "done" /\ cursor' = End
  /\ UNCHANGED <<now, kalshi, table, listing, existing, began, jobs>>

\* `start` takes the same range again.
Resubmit ==
  /\ pc = "over" /\ jobs < MaxJobs
  /\ jobs' = jobs + 1
  /\ pc' = "cutoff" /\ status' = "running" /\ cursor' = Start
  /\ cut' = 0 /\ tiers' = {} /\ page' = Count /\ found' = {}
  /\ existing' = NoCounts
  /\ began' = now /\ lost' = {}
  /\ UNCHANGED <<now, kalshi, stored, queued>>

-----------------------------------------------------------------------------
(* The writer and the clock.                                               *)

UpTo(r) == {q \in queued : q[1] < r[1] \/ (q[1] = r[1] /\ q[2] <= r[2])}

FlushOk(r) ==
  /\ stored' = stored \cup UpTo(r)
  /\ queued' = queued \ UpTo(r)
  /\ UNCHANGED <<now, kalshi, listing, pc, existing, status, cursor, began, lost, jobs>>

FlushFails(r) ==
  /\ lost' = lost \cup UpTo(r)
  /\ queued' = queued \ UpTo(r)
  /\ UNCHANGED <<now, kalshi, listing, pc, existing, status, cursor, began, stored, jobs>>

Tick ==
  /\ now < MaxNow
  /\ now' = now + 1
  /\ UNCHANGED <<kalshi, table, listing, pc, existing, status, cursor, began, jobs>>

-----------------------------------------------------------------------------
Init ==
  /\ now \in 0..MaxNow /\ cutoff \in 0..now
  /\ archived = {m \in Markets : Settled(m) < cutoff}
  /\ stored = {} /\ queued = {} /\ lost = {}
  /\ pc = "cutoff" /\ status = "running" /\ cursor = Start
  /\ cut = 0 /\ tiers = {} /\ page = Count /\ found = {}
  /\ existing = NoCounts /\ began = now /\ jobs = 1

Progress ==
  \/ ReadCutoff \/ ListPage \/ Listed \/ ReadCounts
  \/ Skip \/ Fetch \/ FetchOther \/ Finish

JobStep == Progress \/ CallFails

KalshiStep == (\E c \in 0..MaxNow : CutoffMoves(c)) \/ (\E m \in Markets : Archive(m))
WriterStep == \E r \in queued : FlushOk(r) \/ FlushFails(r)

Next == JobStep \/ Resubmit \/ KalshiStep \/ WriterStep \/ Tick

Spec == Init /\ [][Next]_vars

\* A task is never forgotten and its calls each end, one way or the other
\* (UpstreamCall).  Nothing is made to fail.
Fairness == WF_vars(Progress)

-----------------------------------------------------------------------------
(* Properties.                                                             *)

Rows == {<<m, t>> : m \in Markets, t \in Start..End}

TypeOK ==
  /\ now \in 0..MaxNow /\ cutoff \in 0..now /\ began \in 0..now
  /\ archived \subseteq Markets
  /\ stored \subseteq Rows /\ queued \subseteq Rows /\ lost \subseteq Rows
  /\ pc \in {"cutoff", "list", "counts", "market", "retry", "over"}
  /\ cut \in 0..now /\ tiers \subseteq Tiers /\ page \in 0..Count
  /\ found \subseteq Markets \X Tiers
  /\ \A f, g \in found : f[1] = g[1] => f = g
  /\ existing \in [Markets -> 0..End - Start + 1]
  /\ status \in {"running", "done", "failed"}
  /\ cursor \in Start..End
  /\ jobs \in 0..MaxJobs

(***************************************************************************)
(* Whatever the pages and wherever the cutoff moves meanwhile, a readable  *)
(* market that overlaps the range and stayed in one listing, which the job *)
(* reads, from when the cutoff was read to when the listings were, is      *)
(* found; in two listings or not, only once                                *)
(* (controllers/ingest.rs:469-503, kalshi/client.rs:284-318).              *)
(***************************************************************************)
ListedFound ==
  pc = "counts" =>
    \A m \in Markets \ BadMarkets :
      (Overlaps(m) /\ ListedIn(m, cut) = ListedIn(m, cutoff)
        /\ ListedIn(m, cut) \in TiersOf(cut)) => m \in Todo

\* The candles of a market in range that Kalshi had when the job began.
Due(m) == {<<m, t>> : t \in {t \in Open(m) + 1..Close(m) :
  From(m) <= t /\ t <= To(m) /\ t <= began}}

(***************************************************************************)
(* Whatever jobs before it fetched, skipped or lost, once a job is done    *)
(* and the writer has stored what it queued, of every market it went       *)
(* through at most one candle is missing, and none if the market opened in *)
(* the range (controllers/ingest.rs:460-463, 521-571).  `WentThrough` are  *)
(* the markets that no listing can have missed.                            *)
(***************************************************************************)
WentThrough == {m \in Markets \ BadMarkets :
  Overlaps(m) /\ ListedIn(m, cut) = ListedIn(m, cutoff) /\ ListedIn(m, cut) \in TiersOf(cut)}

AllButFirst(m) == Cardinality(Due(m) \ stored) <= IF Open(m) < Start THEN 1 ELSE 0

RerunCompletes ==
  (status = "done" /\ queued = {} /\ lost = {}) => \A m \in WentThrough : AllButFirst(m)

Job == INSTANCE JobProgress WITH First <- Start

(***************************************************************************)
(* A job moves its cursor only forward, whatever order the listings came   *)
(* in, and is done exactly at the end of its range                         *)
(* (controllers/ingest.rs:300-328, 528, 564, 569).                         *)
(***************************************************************************)
IsJob == Job!JobSpec

(***************************************************************************)
(* controllers/ingest.rs:465 of the markets a job goes through: "Every     *)
(* market of the job's series that was open during its range".             *)
(* The code does not keep this: see Divergences in the README.             *)
(***************************************************************************)
EveryMarketFound ==
  pc = "counts" => \A m \in Markets \ BadMarkets : Overlaps(m) => m \in Todo

(***************************************************************************)
(* controllers/ingest.rs:11: a job skips what is "complete there, so       *)
(* resubmitting a failed or overlapping request only fetches what is       *)
(* missing".  So a job that is done and stored leaves nothing missing of   *)
(* the markets it went through.                                            *)
(* The code does not keep this: see Divergences in the README.             *)
(***************************************************************************)
SkippedAreComplete ==
  (status = "done" /\ queued = {} /\ lost = {}) =>
    \A m \in WentThrough : Due(m) \subseteq stored
=============================================================================
