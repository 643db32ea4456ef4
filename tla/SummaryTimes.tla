----------------------------- MODULE SummaryTimes -----------------------------
(***************************************************************************)
(* The constants of SummaryCache and what is assumed of them.              *)
(***************************************************************************)
EXTENDS Integers, FiniteSets

CONSTANTS
  Markets,   \* tags
  Keys,      \* tables per market
  Interval,  \* REFRESH_INTERVAL
  Timeout    \* REFRESH_TIMEOUT

ASSUME MarketsAssumption ==
  IsFiniteSet(Markets) /\ "none" \notin Markets /\ "aborted" \notin Markets

ASSUME TimesAssumption ==
  Keys \in Nat \ {0} /\ Interval \in Nat \ {0} /\ Timeout \in Nat \ {0}

AtMost(a, b) == IF a < b THEN a ELSE b
AtLeast(a, b) == IF a > b THEN a ELSE b

\* What the queries of all markets can take together.
Round == Cardinality(Markets) * Timeout

\* Bound: ages are told apart up to here.
MaxAge == Interval + Round + 1
=============================================================================
