----------------------------- MODULE MCFeedTasks -----------------------------
(***************************************************************************)
(* Checks the two tasks a feed has besides its Kalshi session in one run:  *)
(* `part` says which of them a behaviour is of, and the variables of the   *)
(* other do not move.                                                      *)
(***************************************************************************)
EXTENDS CoinbaseFeed, SummaryTimes

VARIABLES part, pc, since, queue, slot, elapsed, answered, firstRead, snap

Summary == INSTANCE SummaryCache

summaryVars == <<pc, since, queue, slot, elapsed, answered, firstRead, snap>>
tasksVars == <<part, vars, summaryVars>>

TasksInit == part \in {"coinbase", "summary"} /\ Init /\ Summary!Init

TasksNext ==
  /\ UNCHANGED part
  /\ \/ part = "coinbase" /\ Next /\ UNCHANGED summaryVars
     \/ part = "summary" /\ Summary!Next /\ UNCHANGED vars

TasksSpec ==
  /\ TasksInit /\ [][TasksNext]_tasksVars
  /\ WF_tasksVars(part = "coinbase" /\ SendHeartbeat /\ UNCHANGED <<part, summaryVars>>)
  /\ WF_tasksVars(part = "coinbase" /\ HandleText /\ UNCHANGED <<part, summaryVars>>)

-----------------------------------------------------------------------------
(* The properties of the parts.                                            *)

\* Every variable of both parts has its type.
PartTypeOK == TypeOK /\ Summary!TypeOK

\* SummaryCache: a running market's task begins a round in time.
SummaryPeriodBounded == Summary!PeriodBounded

\* SummaryCache: what is served is as old as it says.
SummaryServedAsStamped == Summary!ServedAsStamped
=============================================================================
