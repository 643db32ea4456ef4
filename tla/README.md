# chud-money in TLA+

chud-money follows prediction-market series on Kalshi, and the spot product
behind them on Coinbase. For every market it is told of it runs a *feed*:
websocket sessions that keep the order books of the series' open contracts, pass
frames on to the server's own websocket clients, and queue every frame as rows
for QuestDB. It backfills history over REST, keeps summaries of its tables, and
exports the tables.

This directory holds TLA+ models of the parts of it whose correctness depends
on the order of things, the TLC configurations that check them on small
instances, and proofs, checked by TLAPS, of what matters most for instances of
any size. Paths below are relative to `src/src/`. A `\* Slip:` definition is a
deliberately wrong version of the definition after it, kept to show that the
properties notice.

- [The system](#the-system), [the modules](#the-modules),
  [what the runs show](#what-the-runs-show) with their bounds and fairness,
  [findings](#findings), [divergences](#divergences),
  [what is proved](#what-is-proved), [what is assumed](#what-is-assumed-of-the-outside),
  [what is not modelled](#not-modelled).

## The system

| Component | State | Operations | Modelled in |
|---|---|---|---|
| order book (`kalshi/book.rs`) | resting size per side and price; `seq` it is current through | snapshot, delta, snapshot frame | `OrderBook` |
| orderbook feed (`feeds/task.rs`, `feeds/mod.rs`) | `last_seq`, subscribed markets, cached `books`, the broadcast channel | connect, refresh, handle a frame, gap, end, stop | `BookFeed` |
| websocket proxies (`controllers/ws.rs`) | per client a receiver, a preamble of snapshots | subscribe, read the cache, pump, lag, close | `BookProxy` |
| feed session control (`feeds/task.rs`, `kalshi/stream.rs`) | command ids, pending commands, subscription ids, backoff | subscribe, reply, refuse, update, poll, back off | `FeedSession` |
| questdb writer (`db/questdb.rs`, `feeds/task.rs:237-253`) | bounded queue, the batch, the ILP buffer | `try_queue`, `queue`, collect, push, flush | `RowSink`, `IlpWriter` |
| data export (`controllers/data.rs`, `db/questdb.rs`) | cursor, window size, batch, last id; stream permits | open, window, batch, error, resume | `DataExport` |
| market registry (`controllers/markets.rs`, `feeds/mod.rs`, `db/mongo.rs`, `model/`) | market documents, running feeds | add, remove, start-up, crash | `MarketRegistry` |
| ingest jobs (`controllers/ingest.rs`) | job map; per task a job, its cursor, what it found | start, publish, poll; windows; listing, candles | `IngestJobs`, `JobProgress`, `IndexIngest`, `ContractIngest` |
| kalshi rest client (`kalshi/client.rs`) | none across calls | a signed GET, its classification; the retries around it | `UpstreamCall` |
| coinbase feed (`feeds/coinbase.rs`, `coinbase/`) | one sequence number over all channels | connect, frame, gap, rows, end | `CoinbaseFeed` |
| summary cache (`feeds/summary.rs`) | one slot process-wide, the last tables of each market | tick, acquire, query, time out, stop | `SummaryTimes`, `SummaryCache` |
| index and ticker channels, authentication, routing, configuration, Coinbase JWTs | none across frames or requests, or read once | | see [Not modelled](#not-modelled) |

How they interact. `POST /add` stores a document and starts a feed; `DELETE`
drops the feed's handle, which aborts its tasks at whatever `await` they are in.
A feed's Kalshi task opens sessions and subscribes by numbered commands; it
applies each orderbook frame to the cached book and broadcasts it under one hold
of the `books` lock, so that a proxy that takes its receiver *before* it reads
the cache misses nothing. It then queues the frame's rows: `try_send`, which
drops, for live rows, `send().await`, which waits, for the levels of a snapshot.
The Coinbase task of a feed does the same with its own frames, the summary task
reads the tables back, one market at a time. All feeds and the ingest jobs share
one queue; an OS thread empties it in batches. An ingest job asks QuestDB what
is there, fetches what is not, and publishes copies of its own state for
`GET /ingest/{id}`. The export reads the tables while the writer fills them.

What is hard about it: numbers that restart with every session while clients
and caches outlive sessions; a copy of the cache and a channel read at different
moments; replies that arrive before or after the refresh that needs them; clients
that lag; frames lost or unreadable; tasks aborted between two steps; a queue at
its limit; batches that fail as a whole; a thread nothing waits for; two stores
changed by two requests in separate awaits; retries against a deadline; a job
that trusts a count to skip work; an export cut off in the middle and resumed by
timestamp where many rows share one. `PROJECT.json` lists these at their lines
with the properties that cover them.

What makes each component correct:

- order book, feed: a cached book that one subscription feeds is the exchange's,
  whatever is lost and however the session is rotated or restarted; no book
  outlives its session.
- session control: an update goes to the right subscription of the present
  session; no market counted as subscribed goes without a book; the open markets
  are followed; failures in a row back off.
- proxies: a client that has all it was sent has the cached books, unless it
  was told otherwise; it is let go when the market is deleted, if it reads.
- writer: rows are dealt with once, in order, and what failed does not come back
  later; whoever waits for room gets it.
- export: nothing missed over any number of resumes, nothing repeated within a
  response, and the response ends.
- registry: feeds and documents agree after every request, crash and restart,
  unless requests raced, and a remove then repairs.
- ingest: one task per market and kind; what is polled only moves forward; a job
  ends; submitting a range again mends what an earlier job lost; retries stop.
- coinbase: the stored log of a session replays to Coinbase's book, and a lost
  frame ends the session.
- summary: every market has its turn, and the tables served are as old as said.

## The modules

How they are composed. `BookProxy` extends `BookFeed`, which extends
`OrderBook`: exchange, feed and clients run together. `IlpWriter` is shown to
implement `RowSink`, and `IndexIngest` and `ContractIngest` to implement
`JobProgress`, by `INSTANCE ... WITH`. `MCIngest` puts the three modules an
ingest task is made of, and `MCFeedTasks` the two tasks a feed has besides its
Kalshi session, in one run each: a variable `part` says which of them a
behaviour is of. They do not share state; what one needs of another is stated as
an assumption where it is used (a call of `IndexIngest` succeeds or fails, which
is what `UpstreamCall` says of it). A `*Proofs` module extends the module it is
about, which for `IngestProofs` and `FeedTasksProofs` is the composed one: their
theorems are about the specification that TLC runs.

### `OrderBook`: `kalshi/book.rs`

Pure operators. The two maps of a book (price to size, for yes and no) are one
function from *levels* (a side and a price) to sizes, 0 for "not in the map".
`ApplyMsg` finds the shape of a message as `apply_msg` does: levels on a side, a
delta, or neither.

### `BookFeed`: the orderbook side of one feed

A session has one orderbook subscription, or several: a refresh that finds no
subscription id yet, because the reply to the first command has not been read,
subscribes again for the whole open set (`task.rs:205-209`). `Sids` are the
subscriptions of a session in the order of their commands. Each has its own
numbers, which `lastSeq` compares apart from the others' (`task.rs:63-64,
328-331`), its own markets and its own deletions, and all fill the one cached
book of a market.

The exchange is external and modelled by what the code relies on: it numbers the
frames of each subscription from 1, serves a newly asked-for market from a
snapshot on, acts on a `delete_markets` some time later, and trades go on
meanwhile, told on every subscription that serves the market. A frame may be
lost with its number, or (`Garbles`) fail to parse. Frames of two subscriptions
may be read in either order.

| Action | Code |
|---|---|
| `OpenSession`, `OpenSessionFails` | `run_session` to the subscribe commands: connect, **clear the cache**, poll the open markets |
| `LearnSid` | the `subscribed` arm of `handle_text`: `orderbook_sid` is that of the last reply read |
| `HandleFrame` | the orderbook arm of `handle_text`: number kept, frame applied to the cached book if it parses and the book exists or it is a snapshot, broadcast |
| `HandleGap` | the comparison with `last_seq`; the session ends before the frame is applied |
| `Refresh` | the `MARKET_REFRESH` tick: `UpdateMarkets` on the subscription known, `SubscribeAgain` if none is, `UpdateTickerOnly` if only the ticker's is; closed markets leave the cache at once |
| `SessionEnds`, `Stop` | the socket closes, fails or goes stale; the registry drops the handle |

`sources` is a history: by market, the subscriptions that have served it in the
session its book is of. `Mixed` are the markets more than one has. Of those the
model says what the code does to their books, and the properties exclude them,
because they do not hold there: see [Divergences](#divergences). Command ids,
refusals and the order of commands and replies are `FeedSession`'s.

### `BookProxy`, `BookProxyInv`: `GET /ws/{tag}/orderbook`

| Action | Code |
|---|---|
| `Subscribe`, `ReadCache` | `ws.rs:47` and `:48-51`; two actions, because other tasks run between them |
| `SendSnapshot` | a send of the preamble ends (`:64`) |
| `Receive`, `Forward` | a frame is taken off the channel; its send ends (`:71-72`) |
| `Lag`, `SendNotice` | `Lagged`, and the receiver goes on from the oldest frame kept; the send of the notice ends (`:76-79`) |
| `ServerClose`, `SendClose` | `Closed`; the send of the close ends (`:83-85`) |
| `ClientGone` | the client closes, or a send fails |

Between the two of a pair the connection is inside `socket.send(..).await`
(`Sending`), which has no timeout and is not raced with anything: it takes no
frame, sees no close, and ends when the client takes what it is sent, if it ever
does. The channel is its log; the last `Capacity` frames can be read. The client
is external and follows the rule of `ws.rs:44-46`: restart a book from a
snapshot, skip deltas numbered at or below it. `before` and `mixed`, in a log
entry, are histories no action reads. The ticker route is the same pump with no
preamble.

### `FeedSession`: commands, replies and subscriptions

| Action | Code |
|---|---|
| `Connect` | a session up to its select loop: subscribe to the index, poll the open markets, subscribe to both market channels, or back off |
| `Refresh` | the poll of the open markets: `add_markets` and `delete_markets` for each sid known, or a second subscription while none is |
| `ReadReply` | the `subscribed` and `error` arms of `handle_text`: `pending` gives the reply its channel |
| `SessionEnds`, `BackOff` | the end of `run_session` and the sleep of `run_feed`, reset after a session of a minute |
| `KalshiActs`, `RollMarkets` | external: commands are taken and answered in order, or refused; markets open and close |

Commands and replies are two queues, so that a refresh can fall anywhere in the
handshake. `Refusals` lets Kalshi answer with an error.

### `RowSink`, `IlpWriter`: the queue and its thread

`RowSink` is the promise: an accepted row is dealt with once, in order, with at
most `BatchCap - 1` others, and is then stored or lost for good. In `IlpWriter`,
`TrySend` and `Send` are `try_queue` and `queue`; `Resume` is a waiting `send`
given room, in tokio's order of arrival; `Cancel` is a feed stopped while it
waits. `Receive`, `Collect`, `Push`, `FlushOk` and `FlushFails` are the loop of
`start_ilp_writer`: a rejected row clears the buffer, so of a batch only what
follows the last rejected row is flushed, and a failed flush may have stored any
part of it before the rest is dropped. `Close` is `main` returning, `Exit` the
end of the process, which nothing holds back for the thread. `accepted` is a
history. The refinement maps `accepted` and `stored` to themselves and `settled`
to what was accepted and is neither queued nor in the batch.

### `DataExport`: one client's export

The client asks for a range, follows the events, keeps the last `id`, and asks
again if the stream fails or is cut. `Open` is the handler `stream` up to the
first query, with the clipping to the table's bounds, which other markets' rows
may widen. `QueryWindow`, `ReadRow` and `EndWindow` are `stream_data` and the
loop of `events` that pulls on it: since the stream is only polled from that
loop, the read of a row and its push to the batch are one step. An event is read
from the connection (`ReadEvent`) before the next is put there; what was on its
way when it is cut is gone (`Disconnect`). A batch may leave at any length, which
stands for `BATCH_BYTES`. Rows are written meanwhile (`Write`).

### `MarketRegistry`: documents and feeds

| Action | Code |
|---|---|
| `BeginAdd`, `AddFind`, `AddUpsert`, `AddSpawn` | `add` up to each of its awaits: look the tag up, store the document (validated by the schema), start the feed unless one runs, with a Coinbase feed beside it if the product is well formed |
| `BeginRemove`, `RemoveStop`, `RemoveDelete` | `remove`: stop the feed, then delete the document, 404 if neither was there |
| `Abandon` | the client goes away, or a call to MongoDB fails; a document may be stored or deleted all the same |
| `Start`, `Crash` | `main`: a feed for every document; the end of the process at any point |

`raced`, `wins` and `gone` are histories: which tags had requests overlap or
dropped half done, how many adds of a tag were accepted, which were removed for
good by a request that ran alone.

### `IngestJobs`, `JobProgress`, `IndexIngest`, `ContractIngest`, `UpstreamCall`

`IngestJobs` is `POST /ingest` and the life of a job's task against the map:
`Insert` is the check for a clash and the insertion under one lock, `Advance`
the end of a window or market in the task's own copy, `Publish` that copy put in
the map, `LoopDone`, `LoopFails` and `Finish` the end, `Panic` a task that
panics, `Crash` a process that ends with all its jobs. What a task does with its
range is the other modules:

- `IndexIngest`: `ReadCounts` (`index_counts`), `Skip`, `Fetch`, `QueueRow`,
  `WindowDone`, `Finish`, and `Resubmit`, the same range asked for again, forced
  or not. The table is the set of seconds it holds.
- `ContractIngest`: `ReadCutoff`, `ListPage` (the pages of a tier until one lies
  before the range), `Listed`, `ReadCounts`, and per market `Skip`, `Fetch` or
  `FetchOther`, the other tier for a market that was archived meanwhile. Kalshi's
  cutoff and its archive move at any time.
- `UpstreamCall`: `throttled` around one signed GET, in seconds: `GetsThrough`,
  `FailsForNow`, `WakeUp`, and `ErrorOf`, which maps every answer (a status, a
  network failure, a body cut short) to the error the code makes of it.

Both loops end in the writer (`FlushOk`, `FlushFails`), which may drop any
queued rows. `JobProgress` is what a poller may rely on: the cursor moves only
forward, a job is done only at the end of its range, and a job that is over
stays so.

### `CoinbaseFeed`

Coinbase sends numbered frames of all channels, leaves some out, damages others,
closes the connection. `SkipFrame`, `Gap` and `TakeFrame` are the ways through
`handle_text` before rows are made; `QueueSnapshotRow` and `QueueUpdateRow` the
two ways of queueing them; `Stop` cuts a frame off half way and `Spawn` starts
the feed again. `reader` is the book that somebody who replays the stored rows
holds, `asOf` Coinbase's book as of the frame just handled, both histories.

### `SummaryTimes`, `SummaryCache`

Each feed's summary task: `Wake` is the tick, `Acquire` the slot (in tokio's
order of arrival), `Answer` one query, `Refreshed`, `QueryFails` and `TimesOut`
the ends of an attempt, `Stop`, `DropAborted` and `Spawn` the feed stopped, its
task dropped (with the permit, or its place in the queue) and started anew. Time
is discrete and kept as ages, each capped at `MaxAge`; no tick passes while a
task could act at once.

## What the runs show

| Run | Checks | Instance |
|---|---|---|
| `book_feed` | `CacheTracksExchange` | one market, two subscriptions and four frames a session, one reconnect, frames lost and unreadable |
| `book_proxy` | `TypeOK`, `ReplayMatchesCache`, `StopReleasesClients` | one market, one client, a channel of two, two frames a session, four broadcast, one reconnect |
| `feed_session` | `TypeOK`, `SidsGenuine`, `OrderbookServed`, `PendingAwaited`, `BackoffBounded`, `OpenMarketsFollowed` | two markets, two changes of the open set, two sessions between resets, refusals |
| `ilp_writer` | `TypeOK`, `WriterIsSink`, `WaitersServed`, `EveryRowSettles` | two senders, queue and batch of two, four rows |
| `data_export` | `TypeOK`, `NothingMissed`, `NothingRepeated`, `ResponseEnds` | three instants, two rows each, every range, two requests, one row written meanwhile |
| `market_registry` | `TypeOK`, `AgreeUnlessRaced`, `RemoveRepairs` | two requests in flight, a free and a reserved tag, two series |
| `ingest_jobs` | `TypeOK`, `OneTaskEach`, `PolledForward`, `AcceptedEnds` | two requests in flight, one tag, both kinds, two job ids |
| `ingest` | `PartTypeOK`, `CallWithinWindow`, `CallAttemptsBounded`, `IndexRerunFills`, `ContractsRerunCompletes`, `ContractsListedFound`, `IndexIsJob`, `ContractsIsJob`, `JobEnds` | the code's own delays and deadline; two index windows with a gap and a bad value; three markets over two pages, one of them unreadable, two jobs |
| `feed_tasks` | `PartTypeOK`, `LogTracksCoinbase`, `GapEndsSession`, `SummaryPeriodBounded`, `SummaryServedAsStamped` | Coinbase: two levels, two faults, one frame on its way; summaries: two markets of two tables |
| `market_registry_orphan` | `FeedsHaveDocs` (violated) | as `market_registry` |
| `ingest_jobs_panic` | `RunningJobsRun` (violated) | as `ingest_jobs` |
| `upstream_call_body` | `NetworkFailuresRetried` (violated) | as `ingest` |

What they show, each on its instance:

- **The books.** Once all that a subscription sent has been read, the cached
  books it alone feeds are the exchange's. A client that has drained its receiver
  holds them too, or has been told it missed frames. A connection that outlives
  its feed for good is one whose client does not read. The session behind the books sends updates only to its own
  subscriptions and leaves no open market unserved.
- **The tables.** The writer implements `RowSink`; nobody waits for room for
  ever, and no row stays in between. The Coinbase log of a session replays to
  Coinbase's book on every level whose last row got through. An export misses no
  owed row over a resume, repeats none within a response, and ends.
- **The markets.** Documents and feeds agree after failures, crashes and
  restarts, unless requests raced; `DELETE` on its own repairs what a race left.
- **Ingest.** One task per tag and kind; a poller sees jobs only move forward;
  an accepted job is over in the end. No attempt of a call starts after the
  window. Submitting a range again leaves every window that was over with its
  agreed share of values, and every market it went through with all candles due
  but possibly the first.
- **Summaries.** A running market's task begins a round in time whatever hangs
  or is stopped, and what is served is as old as it says.

Deadlock is not checked: in every model the bounds stop the world (no frame,
row, fault or request left), and a stopped feed, a finished call and an ended
process do nothing more.

### The bounds, and why they are enough

- `MaxSeq`, `MaxFrames`, `MaxReconnects`: an error in the numbering needs a
  snapshot, a delta, a lost frame and a second session that reuses the first
  one's numbers. `MaxSeq` bounds the frames of all subscriptions of a session
  together: `book_feed` has four in each of two sessions, so a snapshot and a
  delta on both subscriptions; `book_proxy` two in each of two sessions, four
  broadcast in all.
- `MaxSubs` 2 in `book_feed`: of two subscriptions either may be refused, be late
  or serve what the other was asked for. `book_proxy` has one, as with
  one market a second leads mostly to what `ReplayMatchesCache` excludes; its
  inductive invariant was checked with two, and `ProxyCorrect` has any number of
  subscriptions and markets.
- `Capacity` 2: a receiver may hold frames of two sessions, whose numbers are
  unrelated, and over a log of four it may still lag.
- `MaxSize` 1 and one level: books differ in whether the level rests, and a
  delta applied twice or not at all already makes a wrong book. One market may
  open, close and open again, on the subscription it was on or another; markets
  do not touch each other's books, and the theorems have any number of them.
  `book_proxy` has one client, as clients share nothing they write.
- `MaxRolls` 2: a market opens and another closes while a handshake is under
  way. `MaxTries` 2 with `BackoffMax` 2 reaches the ceiling of the backoff.
- `QueueCap`, `BatchCap` 2 and four rows: a full queue with a sender waiting, a
  batch with a good and a rejected row either way round, and a further batch
  after a failed one.
- `data_export`: three instants of up to two rows, windows of two instants that
  are halved to the floor of one (where the size is clamped) as they aim for one
  row, so that a cut falls within a window, between windows and between two rows
  of one instant. Two requests are one resume; a second resume starts from the
  same state but for a later id. Windows that grow are covered by the theorems.
- Two requests in flight (`Slots`) are the least that race; the theorems have any
  number. Two job ids are two jobs in the life of the process, of which a third
  would differ in name only.
- `ingest`: the times of `UpstreamCall` are the code's, and an attempt takes
  none of its timeout or all of it. The index range begins and ends within a
  window and is crossed by the clock; the markets of `ContractIngest` are such
  that one is open before the range and one page ends within it.
- `MaxFaults` 2: a lost frame before a session's first, and one within it.
  `Modulus` must exceed the frames that can be missing in a row, else the
  comparison of numbers would be the bound's doing (`ModulusAssumption`).
- `Keys` 2, `Interval` 1, `Timeout` 2: attempts are longer than the interval, so
  that tasks queue up for the slot; the theorems have any.

### Fairness

- `book_proxy`: weak fairness of what a connection does of its own
  (`ProxyStep`): tokio polls a task that can go on. Nothing is asked of the
  exchange, of the feed, or of the client, on whom the end of every send depends:
  one that does not read may keep its connection inside a send for ever, after
  its market is deleted too. That a client slower than the feed ever has
  everything is therefore not promised, and not stated.
- `ilp_writer`: weak fairness of the writer thread, which the OS runs and whose
  `flush` has the sender's timeouts, and of the first waiting sender once it has
  been given room. Flushes may fail for ever.
- `data_export`: weak fairness of the stream, polled by hyper when there is room
  in the connection, and of the client's reading. A client that stops reading
  holds its stream, and its permit, as long as it likes: that is a hazard listed,
  not a case the property covers.
- `feed_session`: weak fairness of Kalshi's answers, of reading them, of the
  refresh (its timer fires, and not every poll fails) and of connecting after the
  sleep. Sessions may end for ever, which the property allows for.
- `ingest_jobs`: the runtime runs each task (weak fairness of publishing and
  finishing, and of an advance that moves the cursor), and a loop at the end of
  its range ends (strong fairness of `LoopDone`, as a publication may come
  between). Nothing is asked of requests.
- `ingest`: weak fairness of a job's own steps (`Progress`), calls answered and
  refused alike. That an upstream call is answered is what `UpstreamCall` bounds;
  the count of the rows already stored (`db/questdb.rs:747-796`) has no timeout
  of the program's own, and that QuestDB answers it, or fails to, is taken for
  granted.
- `feed_tasks`: Coinbase sends a heartbeat every second, and the task is run
  (`SendHeartbeat`, `HandleText`).

### Findings

Each is a run that TLC ends with a counterexample.

1. **An add between the two steps of a remove leaves a feed with no document**
   (`controllers/markets.rs:82`, run `market_registry_orphan`). `remove` stops
   the feed and then deletes the document, with nothing held in between. An add
   that stores and spawns there loses its document to the delete; its feed goes
   on streaming and writing rows, listed nowhere, until a `DELETE` of the tag or
   a restart. `model/market.rs:1`: "one document per tracked Kalshi series".
2. **A task that panics leaves its job running for ever**
   (`controllers/ingest.rs:425`, run `ingest_jobs_panic`). The sample of the
   first payload is cut at byte 600, which panics inside a character; the job
   stays `running` in the map, and `controllers/ingest.rs:268` refuses every
   later job of the tag and kind because one "is already running". The first
   payload may come after any number of windows that were skipped.
3. **A body that is cut short fails the job instead of being retried**
   (`kalshi/client.rs:246`, run `upstream_call_body`). `:17` has slow requests
   "abandoned (and retried by the ingest jobs)" and `:49` network failures
   "worth retrying"; but the body is read with `unwrap_or_default()`, so a
   timeout or reset within it becomes an empty text, a `Parse` error, and final.

### Divergences

Places where a comment promises more than the code does, of lesser weight. Each
is a definition of its module and no run checks it; adding it to the named
configuration as INVARIANT (PROPERTY for the first) in place of its properties
gives the counterexample in seconds. The last four are of one part of a composed
run: add them guarded, as `part = "index" => Index!CursorTrue`. One more, which a
proof brought to light, is under [The listing](#what-is-proved).

| Definition, configuration | What is promised | What happens |
|---|---|---|
| `OverlapHarmless`, `MCBookProxy` | `ws.rs:45`: the overlap of preamble and channel does no harm | a client that subscribes before a reconnect and reads the cache after the new session's snapshot has old deltas with *higher* numbers in its receiver and applies one to the new book; the new session's own snapshot, behind them, puts it right (so `ReplayMatchesCache` holds) |
| `CacheIsCurrentBook`, `MCBookFeed` | `feeds/mod.rs:68`: the cache is each market's current book | a refresh before the first `subscribed` reply is read subscribes to the same markets again (`task.rs:205-209`); if Kalshi serves both, every change reaches the market's one book twice, or comes on one subscription after the snapshot of the other that has it already. Each subscription's numbers are complete, so nothing ends the session. That Kalshi accepts the second command is assumed; the code neither prevents it nor would notice |
| `MustRowsStored`, `MCIlpWriter` | `feeds/task.rs:250`: "a row that must not be lost" | waiting for room is the only protection; a failed flush (`db/questdb.rs:1075`), or a row rejected later in its batch, drops it |
| `ExitsBetweenFlushes`, `MCIlpWriter` | `main.rs:114-116`: signals are handled lest the process be killed "mid-flush" | nothing joins the writer thread (`db/questdb.rs:1025`): the process may end within a flush, and with rows queued |
| `TickerServed`, `MCFeedSession` | `feeds/task.rs:11-12`: both per-market subscriptions are updated in place | a refresh between the two replies updates the orderbook subscription alone and counts its markets as subscribed (`task.rs:205`): the ticker channel misses them until the next session |
| `DocsHaveFeeds`, `MCMarketRegistry` | `markets.rs:34`: an add validates, stores and starts streaming | a request dropped after the upsert (`markets.rs:52`) leaves a document that streams only after a restart |
| `OneAddAccepted`, `MCMarketRegistry` | `markets.rs:50`: a stored tag "already exists" | two adds that look the tag up before either stores are both accepted (`markets.rs:49`) |
| `UpdatesFollowSnapshot`, `MCFeedTasks` | `feeds/coinbase.rs:4`: the snapshot, then updates | the first frame of a session has none to be compared with: if the snapshot was lost before it, the updates are stored on top of an older log |
| `CursorTrue`, `MCIngest` | `controllers/ingest.rs:190`: all before the cursor "has been ingested" | it has been queued; a failed flush drops it, and the cursor stays |
| `EveryMarketFound`, `MCIngest` | `controllers/ingest.rs:465`: every market open during the range | the live tier is listed only if the range ends after the cutoff (`:478`); a market open at the end of the range may close and settle after the cutoff and be live all the same. And the historical tier is listed first: a market that crosses the cutoff between the two listings is in neither of the pages read |
| `SkippedAreComplete`, `MCIngest` | `controllers/ingest.rs:10-12`: a job only skips what is complete | the count of candles includes both ends (`:461`): a market open before the range may lack one and still be skipped |

## What is proved

All proofs are for arbitrary markets, levels, clients, senders, requests, jobs,
ranges, windows, page sizes, capacities, delays and bounds. They use the named
assumptions of the modules only: that bounds are naturals, that capacities,
caps, page sizes, lengths and delays are positive, that null values are none of
the values they stand beside, that a range begins before it ends, that
`1 <= WindowMin <= WindowStart <= WindowMax`, that `BackoffMin <= BackoffMax`,
that reserved tags are tags, that a server has finitely many markets
(`SummaryTimes`), and that fewer Coinbase frames go missing in a row than there
are numbers (`ModulusAssumption`). Every assumption is evaluated by a run. Two
theorems have a hypothesis besides, `FewUnreadable`, which is about Kalshi's data
and not about a constant of the code; see *The listing* below.

Every invariant and every safety property of an action that a run checks is
stated by one of these.

| Theorem | Statement |
|---|---|
| `BookProxyProofs!TypeCorrect` | `[]TypeOK`, by which no book ever holds a negative size |
| `BookProxyProofs!ProxyCorrect` | `[]ReplayMatchesCache` |
| `BookProxyProofs!CacheSessionCorrect` | `[]CacheWithinSession` |
| `BookProxyProofs!CacheCorrect` | `FeedSpec => []CacheTracksExchange` |
| `IlpWriterProofs!WriterTypes` | `[]TypeOK`: queue and batch stay within their caps |
| `IlpWriterProofs!WriterInvariant` | `[]WriterInv` |
| `IlpWriterProofs!WriterRefinesSink` | `WriterIsSink`: every step is a step of `RowSink` or none |
| `DataExportProofs!ExportTypes` | `[]TypeOK` |
| `DataExportProofs!ExportInvariant` | `[]ExportInv` |
| `DataExportProofs!ExportMissesNothing` | `[]NothingMissed` |
| `DataExportProofs!ExportRepeatsNothing` | `[]NothingRepeated` |
| `FeedSessionProofs!SessionInvariant` | `[]SessionInv` |
| `FeedSessionProofs!SessionSids` | `[]SidsGenuine` |
| `FeedSessionProofs!SessionPending` | `[]PendingAwaited` |
| `FeedSessionProofs!SessionServes` | `[]OrderbookServed` |
| `FeedSessionProofs!SessionTypes` | `[]TypeOK` |
| `FeedSessionProofs!SessionBackoff` | `[]BackoffBounded` |
| `MarketRegistryProofs!TypeCorrect` | `[]TypeOK` |
| `MarketRegistryProofs!InvariantHolds` | `[]RegistryInv` |
| `MarketRegistryProofs!RegistryAgrees` | `[]AgreeUnlessRaced` |
| `MarketRegistryProofs!RemoveRepairsAll` | `[]RemoveRepairs` |
| `IngestJobsProofs!JobTypes` | `[]TypeOK` |
| `IngestJobsProofs!JobsInvariant` | `[]JobsInv` |
| `IngestJobsProofs!JobsSingle` | `[]OneTaskEach` |
| `IngestJobsProofs!JobsForward` | `PolledForward`, an action property |
| `IngestJobsProofs!JobsAttended` | a job that runs has a task at work or one that panicked |
| `IngestProofs!CallWithin`, `CallAttempts` | `UpstreamCall`: `[]WithinWindow`, `[]AttemptsBounded` |
| `IngestProofs!TransientRetried` | a transient failure fails the call only with the window used up |
| `IngestProofs!CallsWithinWindow`, `CallsBounded` | the same within a task: `[]CallWithinWindow`, `[]CallAttemptsBounded` |
| `IngestProofs!TaskTypes` | `[]PartTypeOK` |
| `IngestProofs!IndexRangeFills` | `[]IndexRerunFills` |
| `IngestProofs!IndexImplementsJob` | `IndexIsJob`: every step is a step of `JobProgress` or none |
| `IngestProofs!ContractsImplementJob` | `ContractsIsJob`, likewise |
| `IngestProofs!ListingMissesNone` | `FewUnreadable => []ContractsListedFound` |
| `IngestProofs!CandleRangeFills` | `FewUnreadable => []ContractsRerunCompletes` |
| `FeedTasksProofs!TasksInvariant` | `[](FeedInv /\ PeriodInv /\ ServedInv)` |
| `FeedTasksProofs!TasksTypes` | `[]PartTypeOK` |
| `FeedTasksProofs!LogTracks` | `[]LogTracksCoinbase` |
| `FeedTasksProofs!LossShows` | once a frame was left out the numbers are out of turn until the session ends |
| `FeedTasksProofs!PeriodIsBounded` | `[]SummaryPeriodBounded` |
| `FeedTasksProofs!ServedIsAsStamped` | `[]SummaryServedAsStamped` |

Each is `Spec => ...` of the module it extends (`IngestSpec` and `TasksSpec` for
the composed runs, where not said otherwise), by an inductive invariant that the
initial states satisfy and every action keeps. TLC checked each of these
invariants on a small instance before it was proved.

**The proxy.** `ReplayMatchesCache` speaks of drained clients only and says
nothing of how one gets there. The cache and a client are two replicas fed from
one log at different places, and the log may span sessions whose numbers are
unrelated. `ProxyInv` therefore says: each cached book in the log's history is
what the frame made of the one before (`ChainInv`); a book no snapshot has
restarted has been there all along, in one session, and if one subscription fed
it, the numbers since are above its own (`OrderInv`); a book's number has been
reached on a subscription that fed it (`SessionInv`); and for every client there is a place in the log at which its
book (or the snapshot it is about to be sent) is the cached one, unless a
snapshot on its way will restart it (`ClientInv`). This last escape is what
makes `OverlapHarmless` fail only for a while. Markets that two subscriptions
have fed are left out, now (`Mixed`) as at any place of the log (`MixedAt`): once
mixed, a market stays so until the session ends, so a book that is not mixed
now was not before in this session.

**The cache.** `CacheTracksExchange` compares two books that are some frames
apart, so it says nothing while there is a frame on the wire. `FeedInv` (of
`BookProxyProofs`) says, of each subscription and market, what will be the case
once they are read. `Tracks`: if the subscription alone has fed the market, there
is a sequence of books, from the cached one on (or from none, if that missed a
frame that did not parse: `Sound`), each what the next frame on the wire makes of
the one before (`Replay`); and if no number is missing between what was read and
what was sent (`Whole`), the last of them is the exchange's, as long as the
market is served (`Agrees`). Frames of other subscriptions do not name the
market, so it does not matter when they are read. `Slots` bounds the numbers on
the wire of each subscription, so that with a frame lost `Whole` cannot come
back: a gap stays a gap until the session ends for it.

**The writer.** `WriterInv` says that what is not settled is the batch and then
the queue, in order, and that outside a flush the buffer is empty. The latter is
what a step of `RowSink` needs: the rows a flush stores are among those of this
batch, and none of them is left over from an earlier one.

**The export.** `NothingMissed` speaks of the end. `ExportInv` carries it there:
every owed row before the front of the windows has been sent, is in the batch,
or is about to be read; and an id only leaves when every owed row *below* it has
(rows come in order of `ts`, and an id is that of its batch's last row), so a
client that resumes *at* its id lacks nothing below it. Rows at the id are
served again: at least once, as the documentation says.

**The session.** A sid is right because the reply it came with was looked up
under the right command. `SessionInv` says why: ids are given out in order, each
answer below the commands after it (`IdsInv`); `pending` holds, for each
subscribe command under way or answered, the channel it asked for (`PendingInv`),
and else only entries of channels Kalshi has refused a command of, which the code
never removes (`task.rs:406`: an error is logged), so they stay with the session;
and an answer names a subscription of this connection (`RepliesGenuine`).

**Who is served.** `OrderbookServed` speaks of a session with nothing under
way. `ServedInv` carries to that state, for every market counted as subscribed,
that a subscription has it and no command on its way takes it away, or that a
command that will add it is on its way and no later one takes it away
(`WillServe`). A refresh sends its deletions, additions and second subscriptions
in one batch, by the sids it knows; the case that could go wrong is the one where
it knows the ticker's and not the orderbook's, and `BookFirst` excludes it: the
orderbook is asked for first and Kalshi answers in order.

**The backoff.** `BackoffInv` is the property with its type; the rest is that
powers of 2 double, by an induction over the set of numbers for which there is a
table of powers.

**The registry.** For a tag nothing has raced on, `RacedInv` says what its one
request knows at each step (`Undisturbed`): between the look-up and the upsert
there is no document, between the upsert and the spawn there is its document and
no feed, and so on; with no request the two agree. `AloneInv` carries to the
delete that the feed is gone, and `GoneInv` keeps what it leaves.

**The jobs.** `CopyInv` ties each task's copy to the job it published: same tag
and kind, at or behind the copy, running as long as the task is at work.
`SingleInv` then follows from the check in `Insert`, made on published jobs
alone. `JobsForward` adds that a job over is at the end of its range (`DoneInv`).
`JobsAttended` says what is left of the violated `RunningJobsRun`: a panic is
the only thing that leaves a job running without a task.

**The call.** `SleptInv`: the delays slept, each no shorter than the shortest,
fit into the time that has gone by, so the window bounds their number.
`TransientRetried` says what is left of the violated `NetworkFailuresRetried`:
no call gives up on a failure that counts as transient unless the window, less
one longest delay, is used up; a body cut short does not count as one.

**The index job.** `IndexInv` says of every window behind the cursor that was
over when the job began that its values are stored, on their way, lost or in the
rows at hand, or that the agreed share of it was stored when the job went by
(`IndexCovered`), and that a count the job holds is of rows that are still there
(`IndexExisting`): rows are never taken out of the table, so a stale count errs
on the side of fetching again. Nothing is stored of a second that is not over,
so a window that was not over when it was counted is not complete by its count.

**The listing.** `ContractListed` says of each market that stays in one listing
the job reads: while that listing is still to be read, or its page is still to
come, it may be missing; once the page has gone by it is to do; and from the loop
on it is to do or was covered (`ContractCovered`, of which the candle that the
count has too many is the exception). It is inductive only if a page that ends
the listing has nothing behind it. The code is to stop "once a page reaches past
the start" (`controllers/ingest.rs:487-489`), which it takes an empty page for
as well, and a market that does not parse is left out of its page
(`kalshi/client.rs:307`): so a page of such markets alone ends the listing, and
what follows it is never asked for. The attempt to prove the property without a
hypothesis stopped there, and TLC shows it (`MCIngest` with `PageSize = 1`, where
the one unreadable market fills a page). With `FewUnreadable`, fewer unreadable
markets than a page holds, it holds;
a page of the code is 1000 markets (`kalshi/client.rs:34`), the instance's is 2
with one unreadable.

**The Coinbase log.** What is replayed is right because no frame is bridged, and
a frame is known to be missing by its number alone, which comes round again.
`FeedInv` (of `FeedTasksProofs`) speaks of positions: 0 is the frame handled last
or at hand, the others are those on the wire. If the next number to be compared
after position `i` is the successor of its own, then nothing the frame in between
could have said is missing: it carries every level on which its book differs from
that at `i` (`ChainInv`). The frame that Coinbase has yet to send is such a
position too: its number is ahead by `d` missed ones, `d` at most the faults so
far, and if `d` is 0 the book is still that at `i` (`TailInv`); as there are more
numbers than faults, an ahead of `d` is an ahead of 0 only if it is 0. A session
has one snapshot, before which nothing of it is replayed (`SnapshotInv`), and the
replayed book is the last frame's but for the rows still to be queued and the
levels in doubt (`ReplayInv`). That sessions are counted by faults (`SessionInv`)
is what the type needs: a session that saw no fault does not end.
`LossShows` is the safety half of `GapEndsSession`: the place where the numbers do
not follow one another (`OutOfTurn`) moves from the end of the wire to its head
as frames are sent and read, and cannot be taken up there (`LossInv`); further
losses lead away from it, not round to it (`StaysAhead`). That the head is read
at all is left to fairness.

**The summaries.** What a task has waited, what each task before it in the queue
can still take, and what is left of the attempt in the slot are together at most
one attempt of every *other* market (`WaitsInv`). A task that joins the queue
has waited nothing and finds at most `N - 1` before it, as the queue and the slot
hold each market once (`PlacesInv`, a pigeonhole). Time takes from the attempt
in the slot what it adds to the waiting; the end of an attempt gives up a place.
`ServedInv` dates the tables: every age in a snapshot advances with the clock,
and tables older than an interval and a round have seen an attempt fail.

Model-checked only:

- the liveness properties, which are out of the prover's reach: it knows neither
  `ENABLED` nor what fairness makes of it
  (`StopReleasesClients`, `WaitersServed`, `EveryRowSettles`,
  `ResponseEnds`, `OpenMarketsFollowed`, `AcceptedEnds`, `JobEnds`,
  `GapEndsSession`);
- the findings and divergences, which are counterexamples;
- what `Cardinality` of a window's values or `Pow2` *evaluate to*: the proofs use
  the library's facts about finite sets and well-founded orders (its induction
  rules take an operator as parameter, which no installed prover can instantiate;
  an induction over a set of numbers, as in `FeedSessionProofs!SetInduction`,
  does without).

## What is assumed of the outside

Kalshi's frames carry their `sid` and number, a market's snapshot has at least
one side (`book.rs:203` takes one with neither for an unknown message), frames of
one subscription arrive in order or not at all; commands are taken and answered
in order. Kalshi lists a market in one tier at a time, by its settlement against
the cutoff, which only moves forward, and serves the candles of a market from
one tier. Coinbase numbers the frames of all channels in one sequence, and sends
a heartbeat every second. tokio's channels and semaphore behave as documented:
broadcast receivers see the last messages in order, mpsc senders and waiters for
a permit are served in arrival order, and an aborted waiter leaves its place.
QuestDB answers a window's query with the rows it holds when it starts, in order
of `ts`, and keeps one row per deduplication key. MongoDB's calls are atomic, the
tag is unique, and an abandoned call has taken effect or has not; one that takes
effect later still is left out. `ts` has whole microseconds.

## Not modelled

- **Index and ticker channels** (`feeds/task.rs`): each frame is parsed,
  broadcast or queued on its own; no state crosses frames but counters.
- **Authentication** (`middleware/`, `controllers/auth.rs`): a stateless check of
  a bearer token; signatures are a library's. **Coinbase JWTs**: a pure function
  around one.
- **Routing, errors, configuration**: a static table, a map from errors to status
  codes, variables read once.
- **Decimal text** of prices and sizes, and the JSON, SQL and DDL texts: data no
  property here tells apart.
- **The stream permits** of the export (`data.rs:126`): two counters, released by
  a drop. That a client which never reads keeps its permit is the hazard listed;
  it is outside the fairness `DataExport` assumes, and no time limit in the code
  bounds it.
- **Creating the tables, the summary queries, deduplication keys**: QuestDB's
  work, of which the models keep only what is stored.
- **A panic of the writer thread**: nothing in it is meant to panic.
- **Calendar months and years** as time spans (`controllers/ingest.rs:127-159`):
  written, and asked for by no job.

Rows of an orderbook frame are not composed with the writer in one model: the
writer's promise does not depend on what a row holds, and that a snapshot's rows
are queued one by one, between which a feed may be stopped, is checked where it
has consequences a reader can see, in `CoinbaseFeed`.
