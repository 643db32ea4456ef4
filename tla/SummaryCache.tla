----------------------------- MODULE SummaryCache -----------------------------
(***************************************************************************)
(* feeds/summary.rs: each feed has a task that recomputes its market's     *)
(* QuestDB summaries every REFRESH_INTERVAL into FeedShared::summary, one  *)
(* market at a time process-wide; GET /{tag} serves what is cached.        *)
(* Time is counted in ages: what waits, or was read, grows a tick older,   *)
(* and no tick passes while a task has something to do at once.            *)
(***************************************************************************)
EXTENDS SummaryTimes, Sequences

None == -1
NoMarket == "none"
Aborted == "aborted"  \* holds the slot: the task of a feed that was stopped

Older(age) == IF age = None THEN None ELSE AtMost(age + 1, MaxAge)

\* SummarySnapshot: the ages of `refreshed_at` and of the first query behind
\* `tables`, None for none, and whether the last attempt failed.
Snapshot == [stamp : {None} \cup 0..MaxAge, read : {None} \cup 0..MaxAge, error : BOOLEAN]
NoSnapshot == [stamp |-> None, read |-> None, error |-> FALSE]

VARIABLES
  pc,        \* per market, its task: "stopped", "sleep", "wait" or "refresh"
  since,     \* per market: the age of the tick its task last woke at
  queue,     \* tasks waiting for REFRESH_SLOT
  slot,      \* who has it
  elapsed,   \* how long the attempt in the slot has taken
  answered,  \* its queries that have been answered
  firstRead, \* the age of the first of them
  snap       \* per market: FeedShared::summary

attempt == <<elapsed, answered, firstRead>>
vars == <<pc, since, queue, slot, attempt, snap>>

-----------------------------------------------------------------------------
(* The task of a market.                                                   *)

Due(m) == pc[m] = "sleep" /\ since[m] >= Interval

\* tick(): at once the first time, then an interval after the tick before, or
\* at once when that has passed.
Wake(m) ==
  /\ Due(m)
  /\ pc' = [pc EXCEPT ![m] = "wait"]
  /\ since' = [since EXCEPT ![m] = 0]
  /\ queue' = Append(queue, m)
  /\ UNCHANGED <<slot, attempt, snap>>

\* Slip: the one that came last goes first.
AcquireLast ==
  /\ slot = NoMarket /\ queue # <<>>
  /\ slot' = queue[Len(queue)]
  /\ queue' = SubSeq(queue, 1, Len(queue) - 1)
  /\ pc' = [pc EXCEPT ![queue[Len(queue)]] = "refresh"]
  /\ elapsed' = 0 /\ answered' = 0 /\ firstRead' = None
  /\ UNCHANGED <<since, snap>>

\* The semaphore serves those waiting in their order.
Acquire ==
  /\ slot = NoMarket /\ queue # <<>>
  /\ slot' = Head(queue)
  /\ queue' = Tail(queue)
  /\ pc' = [pc EXCEPT ![Head(queue)] = "refresh"]
  /\ elapsed' = 0 /\ answered' = 0 /\ firstRead' = None
  /\ UNCHANGED <<since, snap>>

\* The attempt is over: the slot is free and the task waits for its next tick.
Release(m, s) ==
  /\ slot' = NoMarket
  /\ pc' = [pc EXCEPT ![m] = "sleep"]
  /\ snap' = [snap EXCEPT ![m] = s]
  /\ elapsed' = 0 /\ answered' = 0 /\ firstRead' = None
  /\ UNCHANGED <<since, queue>>

FirstRead == IF answered = 0 THEN 0 ELSE firstRead

\* One query after the other on one connection.
Answer(m) ==
  /\ slot = m /\ answered + 1 < Keys
  /\ answered' = answered + 1
  /\ firstRead' = FirstRead
  /\ UNCHANGED <<pc, since, queue, slot, elapsed, snap>>

\* The last query is answered: the tables, their time and no error.
Refreshed(m) ==
  /\ slot = m /\ answered + 1 = Keys
  /\ Release(m, [stamp |-> 0, read |-> FirstRead, error |-> FALSE])

\* The connection or a query fails: the tables stay, with their time.
QueryFails(m) ==
  /\ slot = m
  /\ Release(m, [snap[m] EXCEPT !.error = TRUE])

\* Slip: a refresh that timed out is silent.
TimesOutSilently(m) ==
  /\ slot = m /\ elapsed >= Timeout
  /\ Release(m, snap[m])

TimesOut(m) ==
  /\ slot = m /\ elapsed >= Timeout
  /\ Release(m, [snap[m] EXCEPT !.error = TRUE])

-----------------------------------------------------------------------------
(* The registry, and time.                                                 *)

\* Slip: its place in the queue outlives the task.
StopKeepsPlace(m) ==
  /\ pc[m] # "stopped"
  /\ pc' = [pc EXCEPT ![m] = "stopped"]
  /\ since' = [since EXCEPT ![m] = Interval]
  /\ slot' = IF slot = m THEN Aborted ELSE slot
  /\ snap' = [snap EXCEPT ![m] = NoSnapshot]
  /\ UNCHANGED <<queue, attempt>>

\* The queue with m's place in it, if it has one, given up.
Without(m) ==
  IF \E i \in DOMAIN queue : queue[i] = m
    THEN LET i == CHOOSE i \in DOMAIN queue : queue[i] = m
         IN SubSeq(queue, 1, i - 1) \o SubSeq(queue, i + 1, Len(queue))
    ELSE queue

\* The task is aborted where it is; GET has no summary to serve.
Stop(m) ==
  /\ pc[m] # "stopped"
  /\ pc' = [pc EXCEPT ![m] = "stopped"]
  /\ since' = [since EXCEPT ![m] = Interval]
  /\ queue' = Without(m)
  /\ slot' = IF slot = m THEN Aborted ELSE slot
  /\ snap' = [snap EXCEPT ![m] = NoSnapshot]
  /\ UNCHANGED attempt

\* The runtime drops the aborted task, and its permit.
DropAborted ==
  /\ slot = Aborted
  /\ slot' = NoMarket
  /\ elapsed' = 0 /\ answered' = 0 /\ firstRead' = None
  /\ UNCHANGED <<pc, since, queue, snap>>

Spawn(m) ==
  /\ pc[m] = "stopped"
  /\ pc' = [pc EXCEPT ![m] = "sleep"]
  /\ UNCHANGED <<since, queue, slot, attempt, snap>>

\* Nobody has anything to do but wait for QuestDB or the next tick.
Waiting ==
  /\ \A m \in Markets : ~Due(m)
  /\ slot = NoMarket => queue = <<>>
  /\ slot # NoMarket => slot # Aborted /\ elapsed < Timeout

TimePasses ==
  /\ Waiting
  /\ since' = [m \in Markets |->
       IF pc[m] = "stopped" THEN since[m] ELSE AtMost(since[m] + 1, MaxAge)]
  /\ elapsed' = IF slot = NoMarket THEN 0 ELSE elapsed + 1
  /\ firstRead' = Older(firstRead)
  /\ snap' = [m \in Markets |->
       [snap[m] EXCEPT !.stamp = Older(@), !.read = Older(@)]]
  /\ UNCHANGED <<pc, queue, slot, answered>>

-----------------------------------------------------------------------------
Init ==
  /\ pc = [m \in Markets |-> "stopped"]
  /\ since = [m \in Markets |-> Interval]
  /\ queue = <<>> /\ slot = NoMarket
  /\ elapsed = 0 /\ answered = 0 /\ firstRead = None
  /\ snap = [m \in Markets |-> NoSnapshot]

Next ==
  \/ Acquire \/ DropAborted \/ TimePasses
  \/ \E m \in Markets :
       \/ Wake(m) \/ Answer(m) \/ Refreshed(m) \/ QueryFails(m) \/ TimesOut(m)
       \/ Stop(m) \/ Spawn(m)

Spec == Init /\ [][Next]_vars

-----------------------------------------------------------------------------
(* Properties.                                                             *)

TypeOK ==
  /\ pc \in [Markets -> {"stopped", "sleep", "wait", "refresh"}]
  /\ since \in [Markets -> 0..MaxAge]
  /\ queue \in Seq(Markets) /\ Len(queue) <= Cardinality(Markets)
  /\ slot \in Markets \cup {NoMarket, Aborted}
  /\ elapsed \in 0..Timeout /\ answered \in Nat
  /\ firstRead \in {None} \cup 0..Timeout
  /\ snap \in [Markets -> Snapshot]

(***************************************************************************)
(* A running market's task begins a round within the longer of the         *)
(* interval and what the queries of all markets can take, however          *)
(* refreshes hang, fail or are cut off and feeds come and go: "with N      *)
(* markets the effective period is max(REFRESH_INTERVAL, N x refresh       *)
(* duration)" (feeds/summary.rs:9-10, 97-104).                             *)
(***************************************************************************)
PeriodBounded ==
  \A m \in Markets : pc[m] # "stopped" => since[m] <= AtLeast(Interval, Round)

(***************************************************************************)
(* What GET serves is as old as it says: refreshed_at is the end of the    *)
(* attempt that read all its tables, none of them read more than a timeout *)
(* before, and tables older than an interval and a round of all markets    *)
(* come with the error that kept them (feeds/summary.rs:50-54, 106-122).   *)
(***************************************************************************)
ServedAsStamped ==
  \A m \in Markets :
    LET s == snap[m]
    IN s.stamp # None =>
         /\ s.read >= s.stamp /\ s.read <= AtMost(s.stamp + Timeout, MaxAge)
         /\ s.error \/ s.stamp <= Interval + Round
=============================================================================
