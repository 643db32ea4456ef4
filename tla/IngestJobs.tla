------------------------------ MODULE IngestJobs ------------------------------
(***************************************************************************)
(* The ingest jobs of controllers/ingest.rs: POST /ingest starts one, its  *)
(* task works through the range and publishes a copy of its job under one  *)
(* lock, GET /ingest/{job_id} reads the published copy.  Requests, tasks   *)
(* and readers interleave at every await; jobs live in memory only.        *)
(* What a task does with its range is IndexIngest and ContractIngest.      *)
(***************************************************************************)
EXTENDS Integers, FiniteSets

CONSTANTS
  Slots,   \* requests in flight at once (bound)
  Tags,    \* tags asked for
  Kinds,   \* IngestKind
  JobIds,  \* job ids drawn (bound)
  Range    \* bound: steps of the cursor from the start of a range to its end

ASSUME RangeAssumption == Range \in Nat

Statuses == {"running", "done", "failed"}

\* IngestJob, of a job that there is.
Job == [tag : Tags, kind : Kinds, status : Statuses, cursor : 0..Range]
NoJob == [tag |-> "none", kind |-> "none", status |-> "none", cursor |-> 0]

Request == [pc : {"find", "insert"}, tag : Tags, kind : Kinds]
Idle == [pc |-> "idle", tag |-> "none", kind |-> "none"]

VARIABLES
  markets,  \* tags that have a document
  req,      \* the requests in flight
  jobs,     \* AppState::ingest_jobs
  task,     \* per job: "none", "work", "publish", "finish", "gone" or "panicked"
  local,    \* per job: the job as its task has it
  sampled   \* per job: ingest_loop's `logged_sample`

vars == <<markets, req, jobs, task, local, sampled>>

-----------------------------------------------------------------------------
(* POST /ingest.                                                           *)

\* A request whose end is not after its start is refused at once.
Submit(s, t, k) ==
  /\ req[s] = Idle
  /\ req' = [req EXCEPT ![s] = [pc |-> "find", tag |-> t, kind |-> k]]
  /\ UNCHANGED <<markets, jobs, task, local, sampled>>

\* Market::find: 404 for a tag that has no document.
FindMarket(s) ==
  /\ req[s].pc = "find"
  /\ req' = [req EXCEPT ![s] =
       IF req[s].tag \in markets THEN [req[s] EXCEPT !.pc = "insert"] ELSE Idle]
  /\ UNCHANGED <<markets, jobs, task, local, sampled>>

\* Slip: a job that has not got anywhere yet is no clash.
ClashesPastStart(t, k) == {j \in JobIds :
  jobs[j].tag = t /\ jobs[j].kind = k /\ jobs[j].status = "running" /\ jobs[j].cursor > 0}

\* Jobs that stand in the way of one for the tag and kind.
Clashes(t, k) == {j \in JobIds :
  jobs[j].tag = t /\ jobs[j].kind = k /\ jobs[j].status = "running"}

NewJob(t, k) == [tag |-> t, kind |-> k, status |-> "running", cursor |-> 0]

\* Under one lock: 409, or the job is inserted under an id of its own; nothing
\* awaits from there to the spawn.
Insert(s) ==
  /\ req[s].pc = "insert"
  /\ LET t == req[s].tag
         k == req[s].kind
     IN \/ /\ Clashes(t, k) = {}
           /\ \E j \in JobIds :
                /\ jobs[j] = NoJob /\ task[j] = "none"
                /\ jobs' = [jobs EXCEPT ![j] = NewJob(t, k)]
                /\ local' = [local EXCEPT ![j] = NewJob(t, k)]
                /\ task' = [task EXCEPT ![j] = "work"]
        \/ Clashes(t, k) # {} /\ UNCHANGED <<jobs, task, local>>
  /\ req' = [req EXCEPT ![s] = Idle]
  /\ UNCHANGED <<markets, sampled>>

\* The client goes away, or the look-up fails.
Abandon(s) ==
  /\ req[s] # Idle
  /\ req' = [req EXCEPT ![s] = Idle]
  /\ UNCHANGED <<markets, jobs, task, local, sampled>>

-----------------------------------------------------------------------------
(* A job's task.                                                           *)

\* Slip: one window more than the range has.
AdvancePastEnd(j) ==
  /\ task[j] = "work" /\ local[j].cursor <= Range
  /\ local' = [local EXCEPT ![j].cursor = @ + 1]
  /\ task' = [task EXCEPT ![j] = "publish"]
  /\ UNCHANGED <<markets, req, jobs, sampled>>

\* A window is done, skipped or with a payload, the first of which is sampled;
\* or a market, whose close may be where the cursor is.  The copy is still to
\* be published.
Advance(j) ==
  /\ task[j] = "work"
  /\ \E c \in local[j].cursor..Range :
       /\ local[j].kind = "index" => c > local[j].cursor
       /\ local' = [local EXCEPT ![j].cursor = c]
  /\ task' = [task EXCEPT ![j] = "publish"]
  /\ \/ UNCHANGED sampled
     \/ local[j].kind = "index" /\ sampled' = [sampled EXCEPT ![j] = TRUE]
  /\ UNCHANGED <<markets, req, jobs>>

\* publish, also between the attempts of a call: the map gets a copy.
Publish(j) ==
  /\ task[j] \in {"work", "publish"}
  /\ jobs' = [jobs EXCEPT ![j] = local[j]]
  /\ task' = [task EXCEPT ![j] = "work"]
  /\ UNCHANGED <<markets, req, local, sampled>>

\* The loop over the windows is through, or the one over the markets, however
\* far the last of them reached.
LoopDone(j) ==
  /\ task[j] = "work"
  /\ local[j].kind = "index" => local[j].cursor = Range
  /\ local' = [local EXCEPT ![j].cursor = Range, ![j].status = "done"]
  /\ task' = [task EXCEPT ![j] = "finish"]
  /\ UNCHANGED <<markets, req, jobs, sampled>>

\* A call failed for good.
LoopFails(j) ==
  /\ task[j] = "work"
  /\ local' = [local EXCEPT ![j].status = "failed"]
  /\ task' = [task EXCEPT ![j] = "finish"]
  /\ UNCHANGED <<markets, req, jobs, sampled>>

\* Slip: only the status is published at the end.
FinishStatusOnly(j) ==
  /\ task[j] = "finish"
  /\ jobs' = [jobs EXCEPT ![j].status = local[j].status]
  /\ task' = [task EXCEPT ![j] = "gone"]
  /\ UNCHANGED <<markets, req, local, sampled>>

\* Slip: the end of a job that failed is not published.
FinishIfDone(j) ==
  /\ task[j] = "finish"
  /\ jobs' = IF local[j].status = "done" THEN [jobs EXCEPT ![j] = local[j]] ELSE jobs
  /\ task' = [task EXCEPT ![j] = "gone"]
  /\ UNCHANGED <<markets, req, local, sampled>>

\* run_job publishes how it ended.
Finish(j) ==
  /\ task[j] = "finish"
  /\ jobs' = [jobs EXCEPT ![j] = local[j]]
  /\ task' = [task EXCEPT ![j] = "gone"]
  /\ UNCHANGED <<markets, req, local, sampled>>

\* The task panics: the sample of its first payload, which may come after
\* windows that were skipped, is cut at byte 600, which may be inside a
\* character.  Nobody waits for the task.
Panic(j) ==
  /\ task[j] = "work" /\ local[j].kind = "index"
  /\ local[j].cursor < Range /\ ~sampled[j]
  /\ task' = [task EXCEPT ![j] = "panicked"]
  /\ UNCHANGED <<markets, req, jobs, local, sampled>>

-----------------------------------------------------------------------------
\* A market is added or removed; running jobs are left alone.
MarketChanges(t) ==
  /\ markets' = IF t \in markets THEN markets \ {t} ELSE markets \cup {t}
  /\ UNCHANGED <<req, jobs, task, local, sampled>>

\* The process ends: jobs, tasks and requests go with it.
Crash ==
  /\ jobs' = [j \in JobIds |-> NoJob]
  /\ local' = [j \in JobIds |-> NoJob]
  /\ task' = [j \in JobIds |-> IF task[j] = "none" THEN "none" ELSE "gone"]
  /\ req' = [s \in Slots |-> Idle]
  /\ sampled' = [j \in JobIds |-> FALSE]
  /\ UNCHANGED markets

Init ==
  /\ markets \in SUBSET Tags
  /\ req = [s \in Slots |-> Idle]
  /\ jobs = [j \in JobIds |-> NoJob]
  /\ local = [j \in JobIds |-> NoJob]
  /\ task = [j \in JobIds |-> "none"]
  /\ sampled = [j \in JobIds |-> FALSE]

TaskStep(j) == Advance(j) \/ Publish(j) \/ LoopDone(j) \/ LoopFails(j) \/ Finish(j)

RequestStep(s) ==
  \/ \E t \in Tags, k \in Kinds : Submit(s, t, k)
  \/ FindMarket(s) \/ Insert(s) \/ Abandon(s)

Next ==
  \/ \E s \in Slots : RequestStep(s)
  \/ \E j \in JobIds : TaskStep(j) \/ Panic(j)
  \/ \E t \in Tags : MarketChanges(t)
  \/ Crash

Spec == Init /\ [][Next]_vars

\* The runtime runs every task that can run, a task does not go on retrying one
\* call for ever (UpstreamCall), and its windows or markets are finitely many.
Fairness ==
  \A j \in JobIds :
    /\ WF_vars(Finish(j) \/ (task[j] = "publish" /\ Publish(j)))
    /\ WF_vars(Advance(j) /\ local'[j].cursor > local[j].cursor)
    /\ SF_vars(LoopDone(j))

FairSpec == Spec /\ Fairness

-----------------------------------------------------------------------------
(* Properties.                                                             *)

TypeOK ==
  /\ markets \subseteq Tags
  /\ req \in [Slots -> Request \cup {Idle}]
  /\ jobs \in [JobIds -> Job \cup {NoJob}]
  /\ task \in [JobIds -> {"none", "work", "publish", "finish", "gone", "panicked"}]
  /\ local \in [JobIds -> Job \cup {NoJob}]
  /\ sampled \in [JobIds -> BOOLEAN]

AtWork(j) == task[j] \in {"work", "publish", "finish"}

(***************************************************************************)
(* Two tasks never work on one tag and kind at a time, and while a task is *)
(* at work its published job is running and for the same tag and kind,     *)
(* however requests, publications and the ends of tasks interleave         *)
(* (controllers/ingest.rs:264-272, 300-332).                               *)
(***************************************************************************)
OneTaskEach ==
  /\ \A i, j \in JobIds :
       (AtWork(i) /\ AtWork(j) /\ local[i].tag = local[j].tag
         /\ local[i].kind = local[j].kind) => i = j
  /\ \A j \in JobIds : AtWork(j) =>
       /\ jobs[j].status = "running"
       /\ jobs[j].tag = local[j].tag /\ jobs[j].kind = local[j].kind

(***************************************************************************)
(* What a poller sees of a job only moves forward: its cursor never goes   *)
(* back, done means at the end of the range, and a job that is over stays  *)
(* as it was, until the process ends                                       *)
(* (controllers/ingest.rs:289-298, 300-332).                               *)
(***************************************************************************)
PolledForward ==
  [][\A j \in JobIds : (jobs[j] # NoJob /\ jobs'[j] # NoJob) =>
       /\ jobs'[j].cursor >= jobs[j].cursor
       /\ jobs'[j].status = "done" => jobs'[j].cursor = Range
       /\ jobs[j].status # "running" => jobs'[j] = jobs[j]]_vars

(***************************************************************************)
(* An accepted job is over in the end, done or failed, and its tag and     *)
(* kind free for another, unless its task panics or the process ends       *)
(* (controllers/ingest.rs:18-19, 264-272, 300-328).                        *)
(***************************************************************************)
AcceptedEnds ==
  \A j \in JobIds :
    jobs[j].status = "running" ~> (jobs[j].status # "running" \/ task[j] = "panicked")

(***************************************************************************)
(* controllers/ingest.rs:268 refuses a job because another "is already     *)
(* running".  So a job that stands in the way of others has a task.        *)
(***************************************************************************)
RunningJobsRun == \A j \in JobIds : jobs[j].status = "running" => AtWork(j)
=============================================================================
