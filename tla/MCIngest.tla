------------------------------- MODULE MCIngest -------------------------------
(***************************************************************************)
(* Checks the three modules an ingest task is made of in one run: `part`   *)
(* says which of them a behaviour is of, and the variables of the others   *)
(* do not move.  UpstreamCall has the code's own times, in seconds.        *)
(***************************************************************************)
EXTENDS UpstreamCall, FiniteSets

CONSTANTS
  WindowLen, Percent, Gaps, BadValues, IndexStart, IndexEnd, IndexNow,
  Length, Count, Settling, PageSize, BadMarkets, Start, End, MaxNow, MaxJobs

VARIABLES
  part,
  now, stored, queued, status, existing, cursor, began, lost,  \* both kinds of job
  force, rows,                                                 \* `index` jobs
  cutoff, archived, cut, tiers, page, found, jobs              \* `contracts` jobs

callVars == <<elapsed, backoff, delay, attempts, requests, retries, retryError, last>>
jobVars == <<now, stored, queued, status, existing, cursor, began, lost>>
indexVars == <<force, rows>>
contractVars == <<cutoff, archived, cut, tiers, page, found, jobs>>
allVars == <<part, pc, callVars, jobVars, indexVars, contractVars>>

Index == INSTANCE IndexIngest WITH Start <- IndexStart, End <- IndexEnd, MaxNow <- IndexNow
Contracts == INSTANCE ContractIngest

ASSUME RangeAssumption ==
  /\ WindowLen \in Nat \ {0} /\ Percent \in 1..100
  /\ {IndexStart, IndexEnd, IndexNow, Start, End, MaxNow, Count, Settling} \subseteq Nat
  /\ MaxJobs \in Nat \ {0}
  /\ IndexStart < IndexEnd /\ Start < End
  /\ Length \in Nat \ {0} /\ PageSize \in Nat \ {0}

NoCall ==
  /\ elapsed = 0 /\ backoff = 0 /\ delay = 0 /\ attempts = 0
  /\ requests = 0 /\ retries = 0 /\ retryError = FALSE /\ last = "none"
NoJob ==
  /\ now = 0 /\ stored = {} /\ queued = {} /\ lost = {}
  /\ status = "none" /\ existing = <<>> /\ cursor = 0 /\ began = 0
NoIndex == force = FALSE /\ rows = {}
NoContracts ==
  /\ cutoff = 0 /\ archived = {} /\ cut = 0 /\ tiers = {} /\ page = 0
  /\ found = {} /\ jobs = 0

IngestInit ==
  \/ part = "call" /\ Init /\ NoJob /\ NoIndex /\ NoContracts
  \/ part = "index" /\ Index!Init /\ NoCall /\ NoContracts
  \/ part = "contracts" /\ Contracts!Init /\ NoCall /\ NoIndex

CallPart ==
  part = "call" /\ CallStep /\ UNCHANGED <<part, jobVars, indexVars, contractVars>>
IndexPart ==
  part = "index" /\ Index!Next /\ UNCHANGED <<part, callVars, contractVars>>
ContractsPart ==
  part = "contracts" /\ Contracts!Next /\ UNCHANGED <<part, callVars, indexVars>>

IngestSpec ==
  /\ IngestInit /\ [][CallPart \/ IndexPart \/ ContractsPart]_allVars
  /\ WF_allVars(IndexPart /\ Index!Progress)
  /\ WF_allVars(ContractsPart /\ Contracts!Progress)

-----------------------------------------------------------------------------
(* Properties, of the part they speak of.                                  *)

\* Every variable of a part has its type.
PartTypeOK ==
  CASE part = "call" -> TypeOK
    [] part = "index" -> Index!TypeOK
    [] part = "contracts" -> Contracts!TypeOK

\* UpstreamCall: no attempt starts after the window, and attempts are few.
CallWithinWindow == part = "call" => WithinWindow
CallAttemptsBounded == part = "call" => AttemptsBounded

\* IndexIngest: submitting a range again mends what a failed flush cost.
IndexRerunFills == part = "index" => Index!RerunFills

\* ContractIngest: so it does of the candles, and the listing misses nothing.
ContractsRerunCompletes == part = "contracts" => Contracts!RerunCompletes
ContractsListedFound == part = "contracts" => Contracts!ListedFound

\* Both kinds of job implement JobProgress.
IndexJob == INSTANCE JobProgress WITH
  First <- Index!Floor(IndexStart), End <- IndexEnd,
  cursor <- IF part = "index" THEN cursor ELSE Index!Floor(IndexStart),
  status <- IF part = "index" THEN status ELSE "running"
IndexIsJob == IndexJob!JobSpec

ContractsJob == INSTANCE JobProgress WITH
  First <- Start,
  cursor <- IF part = "contracts" THEN cursor ELSE Start,
  status <- IF part = "contracts" THEN status ELSE "running"
ContractsIsJob == ContractsJob!JobSpec

(***************************************************************************)
(* Every job that runs ends, done or failed: it does not go round one      *)
(* window for ever, and paging stops however Kalshi moves its cutoff and   *)
(* the candles meanwhile (controllers/ingest.rs:407-416, 485-498).         *)
(***************************************************************************)
JobEnds == status = "running" ~> status \in {"done", "failed"}
=============================================================================
