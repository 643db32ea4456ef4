--------------------------- MODULE IngestJobsProofs ---------------------------
(***************************************************************************)
(* Machine-checked proofs about IngestJobs, for any tags, kinds, job ids,  *)
(* requests in flight and lengths of a range.                              *)
(***************************************************************************)
EXTENDS IngestJobs, TLAPS

-----------------------------------------------------------------------------
(* The inductive invariant.                                                *)

\* The task's copy of a job and the published one, while the task is at work:
\* the same job, the copy at or ahead of it, and over only in "finish".
CopyInv(j) ==
  AtWork(j) =>
    /\ jobs[j] \in Job /\ local[j] \in Job
    /\ jobs[j].status = "running"
    /\ jobs[j].tag = local[j].tag /\ jobs[j].kind = local[j].kind
    /\ jobs[j].cursor <= local[j].cursor
    /\ task[j] # "finish" => local[j].status = "running"
    /\ (task[j] = "finish" /\ local[j].status = "done") => local[j].cursor = Range

\* No two tasks at work share a tag and kind.
SingleInv ==
  \A i, j \in JobIds :
    (AtWork(i) /\ AtWork(j) /\ local[i].tag = local[j].tag
      /\ local[i].kind = local[j].kind) => i = j

\* The inductive invariant.
JobsInv == TypeOK /\ SingleInv /\ \A j \in JobIds : CopyInv(j)

-----------------------------------------------------------------------------
(* Requests.                                                               *)

\* There being no job is not a job.
LEMMA NoJobIsNone == NoJob \notin Job /\ NoJob.status = "none"
  BY DEF NoJob, Job, Statuses

\* A job just begun is one.
LEMMA NewJobIsJob ==
  ASSUME NEW t \in Tags, NEW k \in Kinds
  PROVE  /\ NewJob(t, k) \in Job /\ NewJob(t, k).tag = t /\ NewJob(t, k).kind = k
         /\ NewJob(t, k).status = "running" /\ NewJob(t, k).cursor = 0
  BY RangeAssumption DEF NewJob, Job, Statuses

\* A request that is looking for its market or its clashes names a tag and kind.
LEMMA RequestType ==
  ASSUME TypeOK, NEW s \in Slots, req[s].pc \in {"find", "insert"}
  PROVE  req[s] \in Request /\ req[s].tag \in Tags /\ req[s].kind \in Kinds
<1>1. req[s] # Idle
  BY DEF Idle
<1> QED BY <1>1 DEF TypeOK, Request

\* What touches neither jobs nor tasks keeps the invariant.
LEMMA RequestsKeep ==
  ASSUME JobsInv, UNCHANGED <<jobs, task, local, sampled>>, markets' \subseteq Tags,
         req' \in [Slots -> Request \cup {Idle}]
  PROVE  JobsInv'
<1>1. TypeOK'
  BY DEF JobsInv, TypeOK
<1>2. SingleInv'
  BY DEF JobsInv, SingleInv, AtWork
<1>3. \A j \in JobIds : CopyInv(j)'
  BY DEF JobsInv, CopyInv, AtWork
<1> QED BY <1>1, <1>2, <1>3 DEF JobsInv

\* The check for clashes and the insertion are one step: a new task meets none.
LEMMA InsertKeeps ==
  ASSUME JobsInv, NEW s \in Slots, Insert(s)
  PROVE  JobsInv'
<1> DEFINE t == req[s].tag
<1> DEFINE k == req[s].kind
<1>1. t \in Tags /\ k \in Kinds
  BY RequestType DEF Insert, JobsInv
<1>2. markets' \subseteq Tags /\ req' \in [Slots -> Request \cup {Idle}]
  BY DEF JobsInv, TypeOK, Insert
<1>. sampled' = sampled
  BY DEF Insert
<1>3. CASE UNCHANGED <<jobs, task, local>>
  BY <1>2, <1>3, RequestsKeep
<1>4. CASE /\ Clashes(t, k) = {}
           /\ \E j \in JobIds :
                /\ jobs[j] = NoJob /\ task[j] = "none"
                /\ jobs' = [jobs EXCEPT ![j] = NewJob(t, k)]
                /\ local' = [local EXCEPT ![j] = NewJob(t, k)]
                /\ task' = [task EXCEPT ![j] = "work"]
  <2>1. PICK j \in JobIds :
          /\ jobs[j] = NoJob /\ task[j] = "none"
          /\ jobs' = [jobs EXCEPT ![j] = NewJob(t, k)]
          /\ local' = [local EXCEPT ![j] = NewJob(t, k)]
          /\ task' = [task EXCEPT ![j] = "work"]
    BY <1>4
  <2> HIDE DEF t, k
  <2>2. TypeOK'
    BY <1>1, <1>2, <2>1, NewJobIsJob DEF JobsInv, TypeOK
  <2>3. /\ jobs'[j] = NewJob(t, k) /\ local'[j] = NewJob(t, k) /\ task'[j] = "work"
        /\ \A i \in JobIds : i # j =>
             jobs'[i] = jobs[i] /\ local'[i] = local[i] /\ task'[i] = task[i]
    BY <2>1 DEF JobsInv, TypeOK
  <2>4. ASSUME NEW i \in JobIds PROVE CopyInv(i)'
    <3>1. CASE i = j
      BY <1>1, <2>3, <3>1, NewJobIsJob DEF CopyInv, AtWork
    <3>2. CASE i # j
      BY <2>3, <3>2 DEF JobsInv, CopyInv, AtWork
    <3> QED BY <3>1, <3>2
  <2>5. ASSUME NEW i \in JobIds, AtWork(i) PROVE ~(local[i].tag = t /\ local[i].kind = k)
    <3>1. i \notin Clashes(t, k)
      BY <1>4
    <3> QED BY <2>5, <3>1 DEF Clashes, JobsInv, CopyInv
  <2>6. SingleInv'
    <3> SUFFICES ASSUME NEW a \in JobIds, NEW b \in JobIds, AtWork(a)', AtWork(b)',
                        local'[a].tag = local'[b].tag, local'[a].kind = local'[b].kind
                 PROVE  a = b
      BY DEF SingleInv
    <3>1. CASE a # j /\ b # j
      BY <2>3, <3>1 DEF JobsInv, SingleInv, AtWork
    <3>2. CASE a = j /\ b # j
      <4>1. AtWork(b) /\ local[b].tag = t /\ local[b].kind = k
        BY <1>1, <2>3, <3>2, NewJobIsJob DEF AtWork
      <4> QED BY <2>5, <4>1
    <3>3. CASE a # j /\ b = j
      <4>1. AtWork(a) /\ local[a].tag = t /\ local[a].kind = k
        BY <1>1, <2>3, <3>3, NewJobIsJob DEF AtWork
      <4> QED BY <2>5, <4>1
    <3> QED BY <3>1, <3>2, <3>3
  <2> QED BY <2>2, <2>4, <2>6 DEF JobsInv
<1> QED BY <1>3, <1>4 DEF Insert

-----------------------------------------------------------------------------
(* Tasks.                                                                  *)

\* A step of j's task that leaves its tag and kind alone and keeps j's own
\* part of the invariant keeps all of it.
LEMMA TaskLocal ==
  ASSUME JobsInv, NEW j \in JobIds, TypeOK', CopyInv(j)',
         \A i \in JobIds : i # j =>
           jobs'[i] = jobs[i] /\ local'[i] = local[i] /\ task'[i] = task[i],
         AtWork(j)' => AtWork(j) /\ local'[j].tag = local[j].tag
                                 /\ local'[j].kind = local[j].kind
  PROVE  JobsInv'
<1>1. ASSUME NEW i \in JobIds PROVE CopyInv(i)'
  <2>1. CASE i = j
    BY <2>1
  <2>2. CASE i # j
    BY <2>2 DEF JobsInv, CopyInv, AtWork
  <2> QED BY <2>1, <2>2
<1>2. \A i \in JobIds : AtWork(i)' => AtWork(i) /\ local'[i].tag = local[i].tag
                                   /\ local'[i].kind = local[i].kind
  BY DEF AtWork
<1>3. SingleInv'
  BY <1>2 DEF JobsInv, SingleInv
<1> QED BY <1>1, <1>3 DEF JobsInv

\* A job's own task keeps the invariant, also when it panics (ingest.rs:300-328).
LEMMA TaskKeeps ==
  ASSUME JobsInv, NEW j \in JobIds, TaskStep(j) \/ Panic(j)
  PROVE  JobsInv'
<1>1. /\ jobs \in [JobIds -> Job \cup {NoJob}] /\ local \in [JobIds -> Job \cup {NoJob}]
      /\ task \in [JobIds -> {"none", "work", "publish", "finish", "gone", "panicked"}]
      /\ CopyInv(j)
  BY DEF JobsInv, TypeOK
<1>2. AtWork(j) /\ UNCHANGED <<markets, req>>
  BY DEF TaskStep, Panic, Advance, Publish, LoopDone, LoopFails, Finish, AtWork
<1>3. jobs[j] \in Job /\ local[j] \in Job /\ jobs[j].status = "running"
        /\ jobs[j].tag = local[j].tag /\ jobs[j].kind = local[j].kind
        /\ jobs[j].cursor <= local[j].cursor
        /\ (task[j] # "finish" => local[j].status = "running")
        /\ ((task[j] = "finish" /\ local[j].status = "done") => local[j].cursor = Range)
  BY <1>1, <1>2 DEF CopyInv
<1>4. ASSUME NEW n \in 0..Range PROVE [local[j] EXCEPT !.cursor = n] \in Job
  BY <1>3 DEF Job
<1>5. ASSUME NEW n \in 0..Range, NEW st \in Statuses
      PROVE  [local[j] EXCEPT !.cursor = n, !.status = st] \in Job
  BY <1>3 DEF Job
<1>6. ASSUME NEW st \in Statuses PROVE [local[j] EXCEPT !.status = st] \in Job
  BY <1>3 DEF Job
<1>7. jobs[j].cursor \in 0..Range /\ local[j].cursor \in 0..Range /\ Range \in Nat
  BY <1>3, RangeAssumption DEF Job
<1>8. CASE Advance(j)
  <2>1. PICK c \in local[j].cursor..Range : local' = [local EXCEPT ![j].cursor = c]
    BY <1>8 DEF Advance
  <2>2. c \in 0..Range /\ jobs[j].cursor <= c
    BY <1>3, <1>7, <2>1
  <2>3. local' = [local EXCEPT ![j] = [local[j] EXCEPT !.cursor = c]]
    BY <2>1
  <2>4. local'[j] = [local[j] EXCEPT !.cursor = c] /\ task'[j] = "publish" /\ jobs' = jobs
          /\ task[j] = "work"
    BY <1>1, <1>8, <2>3 DEF Advance
  <2>5. local'[j] \in Job
    BY <1>4, <2>2, <2>4
  <2>6. local'[j].cursor = c /\ local'[j].status = "running"
          /\ local'[j].tag = local[j].tag /\ local'[j].kind = local[j].kind
    BY <1>3, <2>4 DEF Job
  <2>7. CopyInv(j)'
    BY <1>3, <2>2, <2>4, <2>5, <2>6 DEF CopyInv
  <2>8. TypeOK'
    BY <1>1, <1>2, <1>8, <2>3, <2>4, <2>5 DEF JobsInv, TypeOK, Advance
  <2> QED BY <1>1, <1>2, <1>8, <2>3, <2>4, <2>6, <2>7, <2>8, TaskLocal DEF Advance
<1>9. CASE Publish(j)
  <2>1. jobs'[j] = local[j] /\ local' = local /\ task'[j] = "work" /\ task[j] # "finish"
    BY <1>1, <1>9 DEF Publish
  <2>2. CopyInv(j)'
    BY <1>3, <1>7, <2>1 DEF CopyInv
  <2>3. TypeOK'
    BY <1>1, <1>2, <1>9 DEF JobsInv, TypeOK, Publish
  <2> QED BY <1>1, <1>2, <1>9, <2>1, <2>2, <2>3, TaskLocal DEF Publish
<1>10. CASE LoopDone(j)
  <2>1. local' = [local EXCEPT ![j] = [local[j] EXCEPT !.cursor = Range, !.status = "done"]]
    BY <1>1, <1>10 DEF LoopDone
  <2>2. local'[j] = [local[j] EXCEPT !.cursor = Range, !.status = "done"]
          /\ task'[j] = "finish" /\ jobs' = jobs
    BY <1>1, <1>10, <2>1 DEF LoopDone
  <2>3. local'[j] \in Job
    <3>1. Range \in 0..Range /\ "done" \in Statuses
      BY <1>7 DEF Statuses
    <3> QED BY <1>5, <2>2, <3>1
  <2>4. local'[j].cursor = Range /\ local'[j].tag = local[j].tag
          /\ local'[j].kind = local[j].kind
    BY <1>3, <2>2 DEF Job
  <2>5. CopyInv(j)'
    BY <1>3, <1>7, <2>2, <2>3, <2>4 DEF CopyInv
  <2>6. TypeOK'
    BY <1>1, <1>2, <1>10, <2>1, <2>2, <2>3 DEF JobsInv, TypeOK, LoopDone
  <2> QED BY <1>1, <1>2, <1>10, <2>1, <2>2, <2>4, <2>5, <2>6, TaskLocal DEF LoopDone
<1>11. CASE LoopFails(j)
  <2>1. local' = [local EXCEPT ![j] = [local[j] EXCEPT !.status = "failed"]]
    BY <1>1, <1>11 DEF LoopFails
  <2>2. local'[j] = [local[j] EXCEPT !.status = "failed"]
          /\ task'[j] = "finish" /\ jobs' = jobs
    BY <1>1, <1>11, <2>1 DEF LoopFails
  <2>3. local'[j] \in Job
    BY <1>6, <2>2 DEF Statuses
  <2>4. local'[j].cursor = local[j].cursor /\ local'[j].tag = local[j].tag
          /\ local'[j].kind = local[j].kind /\ local'[j].status = "failed"
    BY <1>3, <2>2 DEF Job
  <2>5. CopyInv(j)'
    BY <1>3, <1>7, <2>2, <2>3, <2>4 DEF CopyInv
  <2>6. TypeOK'
    BY <1>1, <1>2, <1>11, <2>1, <2>2, <2>3 DEF JobsInv, TypeOK, LoopFails
  <2> QED BY <1>1, <1>2, <1>11, <2>1, <2>2, <2>4, <2>5, <2>6, TaskLocal DEF LoopFails
<1>12. CASE Finish(j)
  <2>1. task'[j] = "gone" /\ local' = local
    BY <1>1, <1>12 DEF Finish
  <2>2. TypeOK'
    BY <1>1, <1>2, <1>12 DEF JobsInv, TypeOK, Finish
  <2>3. CopyInv(j)'
    BY <2>1 DEF CopyInv, AtWork
  <2> QED BY <1>1, <1>12, <2>1, <2>2, <2>3, TaskLocal DEF Finish, AtWork
<1>13. CASE Panic(j)
  <2>1. task'[j] = "panicked" /\ local' = local
    BY <1>1, <1>13 DEF Panic
  <2>2. TypeOK'
    BY <1>1, <1>2, <1>13 DEF JobsInv, TypeOK, Panic
  <2>3. CopyInv(j)'
    BY <2>1 DEF CopyInv, AtWork
  <2> QED BY <1>1, <1>13, <2>1, <2>2, <2>3, TaskLocal DEF Panic, AtWork
<1> QED BY <1>8, <1>9, <1>10, <1>11, <1>12, <1>13 DEF TaskStep

\* What a step may do to the published copy of one job, unless the process ends.
Forward(j) ==
  (jobs[j] # NoJob /\ jobs'[j] # NoJob) =>
    /\ jobs'[j].cursor >= jobs[j].cursor
    /\ jobs'[j].status = "done" => jobs'[j].cursor = Range
    /\ jobs[j].status # "running" => jobs'[j] = jobs[j]

\* A job whose published copy stays as it is goes forward, done or not.
DoneInv == \A j \in JobIds : jobs[j].status = "done" => jobs[j].cursor = Range

\* A job that is as it was has not gone back.
LEMMA Unmoved ==
  ASSUME JobsInv, DoneInv, NEW j \in JobIds, jobs'[j] = jobs[j]
  PROVE  Forward(j)
<1>1. jobs[j] # NoJob => jobs[j].cursor \in 0..Range
  BY DEF JobsInv, TypeOK, Job
<1> QED BY <1>1, RangeAssumption DEF DoneInv, Forward

\* A task moves the copy of its own job, while that is running, forward.
LEMMA TaskForward ==
  ASSUME JobsInv, DoneInv, NEW i \in JobIds, TaskStep(i) \/ Panic(i), NEW j \in JobIds
  PROVE  Forward(j)
<1>1. jobs \in [JobIds -> Job \cup {NoJob}] /\ CopyInv(i)
  BY DEF JobsInv, TypeOK
<1>2. CASE jobs' = jobs
  BY <1>2, Unmoved
<1>3. CASE Publish(i) \/ Finish(i)
  <2>1. jobs' = [jobs EXCEPT ![i] = local[i]] /\ AtWork(i)
          /\ ((Publish(i) /\ task[i] # "finish") \/ task[i] = "finish")
    BY <1>3 DEF Publish, Finish, AtWork
  <2>2. CASE j # i
    BY <1>1, <2>1, <2>2, Unmoved
  <2>3. CASE j = i
    <3>1. jobs'[j] = local[j]
      BY <1>1, <2>1, <2>3
    <3>2. /\ jobs[j] \in Job /\ local[j] \in Job /\ jobs[j].status = "running"
          /\ jobs[j].cursor <= local[j].cursor
          /\ local[j].status = "done" => local[j].cursor = Range
      BY <1>1, <2>1, <2>3 DEF CopyInv
    <3>3. jobs[j].cursor \in 0..Range /\ local[j].cursor \in 0..Range
      BY <3>2 DEF Job
    <3> QED BY <3>1, <3>2, <3>3, RangeAssumption DEF Forward
  <2> QED BY <2>2, <2>3
<1> QED BY <1>2, <1>3 DEF TaskStep, Panic, Advance, LoopDone, LoopFails

\* So does every other step.
LEMMA StepForward ==
  ASSUME JobsInv, DoneInv, [Next]_vars, NEW j \in JobIds
  PROVE  Forward(j)
<1>1. ASSUME NEW s \in Slots, Insert(s) PROVE Forward(j)
  <2>1. CASE jobs' = jobs
    BY <2>1, Unmoved
  <2>2. CASE jobs' # jobs
    <3>1. PICK i \in JobIds :
            jobs[i] = NoJob /\ jobs' = [jobs EXCEPT ![i] = NewJob(req[s].tag, req[s].kind)]
      BY <1>1, <2>2 DEF Insert
    <3>2. CASE j = i
      BY <3>1, <3>2 DEF Forward
    <3>3. CASE j # i
      BY <3>1, <3>3, Unmoved DEF JobsInv, TypeOK
    <3> QED BY <3>2, <3>3
  <2> QED BY <2>1, <2>2
<1>2. ASSUME NEW i \in JobIds, TaskStep(i) \/ Panic(i) PROVE Forward(j)
  BY <1>2, TaskForward
<1>3. CASE Crash
  BY <1>3 DEF Crash, Forward
<1>4. CASE jobs' = jobs
  BY <1>4, Unmoved
<1> QED BY <1>1, <1>2, <1>3, <1>4
      DEF Next, vars, RequestStep, Submit, FindMarket, Abandon, MarketChanges

\* A job published as done is at the end of its range.
LEMMA DoneStays == JobsInv /\ DoneInv /\ [Next]_vars => DoneInv'
<1> SUFFICES ASSUME JobsInv, DoneInv, [Next]_vars, NEW j \in JobIds,
                    jobs'[j].status = "done"
             PROVE  jobs'[j].cursor = Range
  BY DEF DoneInv
<1>1. jobs'[j] # NoJob
  BY NoJobIsNone
<1>2. CASE jobs[j] # NoJob
  BY <1>1, <1>2, StepForward DEF Forward
<1>3. CASE jobs[j] = NoJob
  <2>1. jobs'[j] \in {NoJob} \cup {NewJob(t, k) : t \in Tags, k \in Kinds}
    <3>1. jobs[j] \notin Job
      BY <1>3, NoJobIsNone
    <3>2. ~AtWork(j)
      BY <3>1 DEF JobsInv, CopyInv
    <3>3. ASSUME NEW i \in JobIds, TaskStep(i) \/ Panic(i) PROVE jobs'[j] = NoJob
      <4>1. AtWork(i)
        BY <3>3 DEF TaskStep, Panic, Advance, Publish, LoopDone, LoopFails, Finish, AtWork
      <4> QED BY <1>3, <3>2, <3>3, <4>1
            DEF TaskStep, Panic, Advance, Publish, LoopDone, LoopFails, Finish, JobsInv, TypeOK
    <3>4. ASSUME NEW s \in Slots, Insert(s)
          PROVE  jobs'[j] \in {NoJob} \cup {NewJob(t, k) : t \in Tags, k \in Kinds}
      <4>1. req[s].tag \in Tags /\ req[s].kind \in Kinds
        BY <3>4, RequestType DEF Insert, JobsInv
      <4> QED BY <1>3, <3>4, <4>1 DEF Insert, JobsInv, TypeOK
    <3>5. CASE Crash
      BY <3>5 DEF Crash
    <3>6. CASE jobs' = jobs
      BY <1>3, <3>6
    <3> QED BY <3>3, <3>4, <3>5, <3>6
          DEF Next, vars, RequestStep, Submit, FindMarket, Abandon, MarketChanges
  <2> QED BY <1>1, <2>1, NewJobIsJob
<1> QED BY <1>2, <1>3

-----------------------------------------------------------------------------
(* The theorems.                                                           *)

\* The process starts without jobs.
LEMMA InitJobs == Init => JobsInv
<1> SUFFICES ASSUME Init PROVE JobsInv
  OBVIOUS
<1>1. TypeOK
  BY DEF Init, TypeOK
<1>2. SingleInv /\ \A j \in JobIds : CopyInv(j)
  BY DEF Init, SingleInv, CopyInv, AtWork
<1> QED BY <1>1, <1>2 DEF JobsInv

\* Every request, task and restart keeps the invariant.
LEMMA NextJobs == JobsInv /\ [Next]_vars => JobsInv'
<1> SUFFICES ASSUME JobsInv, [Next]_vars PROVE JobsInv'
  OBVIOUS
<1>1. ASSUME NEW s \in Slots, RequestStep(s) PROVE JobsInv'
  <2>1. CASE \E t \in Tags, k \in Kinds : Submit(s, t, k)
    <3>1. PICK t \in Tags, k \in Kinds : Submit(s, t, k)
      BY <2>1
    <3>2. [pc |-> "find", tag |-> t, kind |-> k] \in Request
      BY DEF Request
    <3> QED BY <3>1, <3>2, RequestsKeep DEF Submit, JobsInv, TypeOK
  <2>2. CASE FindMarket(s)
    <3>1. [req[s] EXCEPT !.pc = "insert"] \in Request
      BY <2>2, RequestType DEF FindMarket, JobsInv, Request
    <3> QED BY <2>2, <3>1, RequestsKeep DEF FindMarket, JobsInv, TypeOK
  <2>3. CASE Insert(s)
    BY <2>3, InsertKeeps
  <2>4. CASE Abandon(s)
    BY <2>4, RequestsKeep DEF Abandon, JobsInv, TypeOK
  <2> QED BY <1>1, <2>1, <2>2, <2>3, <2>4 DEF RequestStep
<1>2. ASSUME NEW j \in JobIds, TaskStep(j) \/ Panic(j) PROVE JobsInv'
  BY <1>2, TaskKeeps
<1>3. ASSUME NEW t \in Tags, MarketChanges(t) PROVE JobsInv'
  BY <1>3, RequestsKeep DEF MarketChanges, JobsInv, TypeOK
<1>4. CASE Crash
  <2>1. TypeOK'
    BY <1>4 DEF Crash, JobsInv, TypeOK
  <2>2. \A j \in JobIds : ~AtWork(j)'
    BY <1>4 DEF Crash, AtWork
  <2> QED BY <2>1, <2>2 DEF JobsInv, SingleInv, CopyInv
<1>5. CASE UNCHANGED vars
  BY <1>5, RequestsKeep DEF vars, JobsInv, TypeOK
<1> QED BY <1>1, <1>2, <1>3, <1>4, <1>5 DEF Next

\* The invariant of the jobs holds throughout.
THEOREM JobsInvariant == Spec => []JobsInv
  BY InitJobs, NextJobs, PTL DEF Spec

\* Every variable has its type; no cursor leaves its range.
THEOREM JobTypes == Spec => []TypeOK
<1>1. JobsInv => TypeOK
  BY DEF JobsInv
<1> QED BY <1>1, JobsInvariant, PTL

\* Two tasks never work on one tag and kind, and a task at work is published
\* as running (controllers/ingest.rs:264-272, 300-332).
THEOREM JobsSingle == Spec => []OneTaskEach
<1>1. JobsInv => OneTaskEach
  BY DEF JobsInv, SingleInv, CopyInv, OneTaskEach
<1> QED BY <1>1, JobsInvariant, PTL

\* What is published of a job moves forward only
\* (controllers/ingest.rs:289-298, 300-332).
THEOREM JobsForward == Spec => PolledForward
<1>1. Init => DoneInv
  BY NoJobIsNone DEF Init, DoneInv
<1>2. JobsInv /\ DoneInv /\ [Next]_vars => [\A j \in JobIds : Forward(j)]_vars
  BY StepForward
<1>3. [\A j \in JobIds : Forward(j)]_vars <=>
        [\A j \in JobIds : (jobs[j] # NoJob /\ jobs'[j] # NoJob) =>
           /\ jobs'[j].cursor >= jobs[j].cursor
           /\ jobs'[j].status = "done" => jobs'[j].cursor = Range
           /\ jobs[j].status # "running" => jobs'[j] = jobs[j]]_vars
  BY DEF Forward
<1> QED BY <1>1, <1>2, <1>3, DoneStays, JobsInvariant, PTL DEF Spec, PolledForward

-----------------------------------------------------------------------------
(* What is left of RunningJobsRun, which a panic breaks.                   *)

\* A job that is running has a task at work, or one that panicked, and what a
\* task is about to publish last is not running.
Attended ==
  \A j \in JobIds :
    /\ jobs[j].status = "running" => AtWork(j) \/ task[j] = "panicked"
    /\ task[j] = "finish" => local[j].status # "running"

LEMMA AttendedStays == JobsInv /\ Attended /\ [Next]_vars => Attended'
<1> SUFFICES ASSUME JobsInv, Attended, [Next]_vars, NEW j \in JobIds
             PROVE  /\ jobs'[j].status = "running" => AtWork(j)' \/ task'[j] = "panicked"
                    /\ task'[j] = "finish" => local'[j].status # "running"
  BY DEF Attended
<1>1. /\ jobs[j].status = "running" => AtWork(j) \/ task[j] = "panicked"
      /\ task[j] = "finish" => local[j].status # "running"
  BY DEF Attended
<1>2. /\ jobs \in [JobIds -> Job \cup {NoJob}] /\ local \in [JobIds -> Job \cup {NoJob}]
      /\ task \in [JobIds -> {"none", "work", "publish", "finish", "gone", "panicked"}]
  BY DEF JobsInv, TypeOK
<1>3. CASE UNCHANGED <<jobs, task, local>>
  BY <1>1, <1>3 DEF AtWork
<1>4. ASSUME NEW s \in Slots, Insert(s), ~UNCHANGED <<jobs, task, local>>
      PROVE  /\ jobs'[j].status = "running" => AtWork(j)' \/ task'[j] = "panicked"
             /\ task'[j] = "finish" => local'[j].status # "running"
  <2>1. PICK i \in JobIds :
          /\ jobs' = [jobs EXCEPT ![i] = NewJob(req[s].tag, req[s].kind)]
          /\ local' = [local EXCEPT ![i] = NewJob(req[s].tag, req[s].kind)]
          /\ task' = [task EXCEPT ![i] = "work"]
    BY <1>4 DEF Insert
  <2>2. CASE i = j
    BY <1>2, <2>1, <2>2 DEF AtWork
  <2>3. CASE i # j
    BY <1>1, <1>2, <2>1, <2>3 DEF AtWork
  <2> QED BY <2>2, <2>3
<1>5. ASSUME NEW i \in JobIds, TaskStep(i) \/ Panic(i)
      PROVE  /\ jobs'[j].status = "running" => AtWork(j)' \/ task'[j] = "panicked"
             /\ task'[j] = "finish" => local'[j].status # "running"
  <2>1. CASE i # j
    <3>1. jobs'[j] = jobs[j] /\ task'[j] = task[j] /\ local'[j] = local[j]
      BY <1>2, <1>5, <2>1
         DEF TaskStep, Advance, Publish, LoopDone, LoopFails, Finish, Panic
    <3> QED BY <1>1, <3>1 DEF AtWork
  <2>2. CASE i = j /\ (Advance(i) \/ Publish(i) \/ Panic(i))
    <3>1. task'[j] \in {"work", "publish", "panicked"}
      BY <1>2, <2>2 DEF Advance, Publish, Panic
    <3> QED BY <3>1 DEF AtWork
  <2>3. CASE i = j /\ (LoopDone(i) \/ LoopFails(i))
    <3>1. local[j] \in Job
      BY <2>3 DEF JobsInv, CopyInv, AtWork, LoopDone, LoopFails
    <3>2. task'[j] = "finish" /\ local'[j].status \in {"done", "failed"}
      BY <1>2, <2>3, <3>1 DEF LoopDone, LoopFails, Job
    <3> QED BY <3>2 DEF AtWork
  <2>4. CASE i = j /\ Finish(i)
    <3>1. task'[j] = "gone" /\ jobs'[j] = local[j] /\ local[j].status # "running"
      BY <1>1, <1>2, <2>4 DEF Finish
    <3> QED BY <3>1
  <2> QED BY <1>5, <2>1, <2>2, <2>3, <2>4 DEF TaskStep
<1>6. CASE Crash
  BY <1>6, NoJobIsNone DEF Crash
<1>7. ASSUME NEW s \in Slots, RequestStep(s) PROVE Insert(s) \/ UNCHANGED <<jobs, task, local>>
  BY <1>7 DEF RequestStep, Submit, FindMarket, Abandon
<1>8. ASSUME NEW t \in Tags, MarketChanges(t) PROVE UNCHANGED <<jobs, task, local>>
  BY <1>8 DEF MarketChanges
<1> QED BY <1>3, <1>4, <1>5, <1>6, <1>7, <1>8 DEF Next, vars

\* A job that stands in the way of others has a task at work, or one that
\* panicked: a panic is the only way for RunningJobsRun to be broken
\* (controllers/ingest.rs:264-272, 300-328, 425).
THEOREM JobsAttended ==
  Spec => [](\A j \in JobIds :
               jobs[j].status = "running" => AtWork(j) \/ task[j] = "panicked")
<1>1. Init => Attended
  BY NoJobIsNone DEF Init, Attended
<1>2. Attended => \A j \in JobIds :
                    jobs[j].status = "running" => AtWork(j) \/ task[j] = "panicked"
  BY DEF Attended
<1> QED BY <1>1, <1>2, AttendedStays, JobsInvariant, PTL DEF Spec
=============================================================================
