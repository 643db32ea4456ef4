------------------------------ MODULE IngestProofs ------------------------------
(***************************************************************************)
(* Machine-checked proofs about what an ingest task is made of: a call     *)
(* (UpstreamCall), an `index` job (IndexIngest) and a `contracts` job      *)
(* (ContractIngest), for any times, ranges, windows, pages and gaps.       *)
(***************************************************************************)
EXTENDS MCIngest, FiniteSetTheorems, TLAPS

-----------------------------------------------------------------------------
(* A call (UpstreamCall): the inductive invariant.                         *)

\* The shortest delay there is.
Least == IF BackoffMin < RateLimitBackoff THEN BackoffMin ELSE RateLimitBackoff

\* A delay being slept is one of the two kinds.
DelayInv == pc = "sleep" => delay >= Least

\* The delays slept, of Least each at least, are within the time that has gone
\* by; the one being slept is still to be added to it.
SleptInv == retries * Least <= IF pc = "sleep" THEN elapsed + delay ELSE elapsed

\* The inductive invariant.
CallInv == TypeOK /\ WithinWindow /\ DelayInv /\ SleptInv

-----------------------------------------------------------------------------
\* One delay more.
LEMMA OneMore == \A n, k \in Nat : (n + 1) * k = n * k + k /\ n * k \in Nat
  OBVIOUS

\* The times are numbers of seconds.
LEMMA Times ==
  /\ Least \in Nat /\ Least <= BackoffMin /\ Least <= RateLimitBackoff
  /\ BackoffMin \in Nat /\ BackoffMax \in Nat /\ BackoffMin <= BackoffMax
  /\ RateLimitBackoff \in Nat /\ RetryWindow \in Nat /\ RequestTimeout \in Nat
  /\ \A took \in Takes : took \in Nat /\ took <= RequestTimeout
  BY TimesAssumption DEF Least

\* A call begins at its window's first moment with no attempt made.
LEMMA InitCall == Init => CallInv
<1> SUFFICES ASSUME Init PROVE CallInv
  OBVIOUS
<1>1. retryError \in BOOLEAN
  BY DEF Init
<1>2. /\ pc = "call" /\ elapsed = 0 /\ backoff = BackoffMin /\ delay = 0
      /\ attempts = 0 /\ requests = 0 /\ retries = 0 /\ last = "200"
  BY DEF Init
<1>3. TypeOK
  BY <1>1, <1>2, Times DEF TypeOK, Responses
<1>4. WithinWindow /\ DelayInv /\ SleptInv
  BY <1>2, Times DEF WithinWindow, DelayInv, SleptInv
<1> QED BY <1>3, <1>4 DEF CallInv

\* Every step of a call keeps the invariant.
LEMMA NextCall == CallInv /\ [CallStep]_vars => CallInv'
<1> SUFFICES ASSUME CallInv, [CallStep]_vars PROVE CallInv'
  OBVIOUS
<1>1. /\ elapsed \in Nat /\ delay \in Nat /\ retries \in Nat /\ requests \in Nat
      /\ attempts \in Nat /\ backoff \in BackoffMin..BackoffMax /\ backoff \in Nat
      /\ backoff >= Least /\ last \in Responses
      /\ pc \in {"call", "sleep", "ok", "err"}
  BY Times DEF CallInv, TypeOK
<1> DEFINE RestOK ==
      /\ pc' \in {"call", "sleep", "ok", "err"}
      /\ elapsed' \in Nat /\ backoff' \in BackoffMin..BackoffMax
      /\ delay' \in Nat /\ attempts' \in Nat /\ requests' \in Nat /\ retries' \in Nat
      /\ last' \in Responses
<1>3. retryError' \in BOOLEAN
  BY DEF CallInv, TypeOK, CallStep, GetsThrough, FailsForNow, WakeUp, vars
<1>4. RestOK => TypeOK'
  BY <1>3 DEF TypeOK
<1>2. (retries + 1) * Least = retries * Least + Least /\ retries * Least \in Nat
  BY <1>1, Times, OneMore
<1>5. ASSUME NEW r \in Responses, NEW took \in Takes, GetsThrough(r, took) PROVE CallInv'
  <2>1. /\ pc = "call" /\ elapsed' = elapsed + took /\ pc' \in {"ok", "err"}
        /\ retries' = retries
    BY <1>5 DEF GetsThrough
  <2>2. TypeOK'
    <3>1. /\ backoff' = backoff /\ delay' = delay /\ attempts' = attempts
          /\ requests' = requests + 1 /\ last' = r
      BY <1>5 DEF GetsThrough
    <3> QED BY <1>1, <1>4, <2>1, <3>1, Times
  <2>3. WithinWindow' /\ DelayInv'
    BY <1>1, <2>1, Times DEF CallInv, WithinWindow, DelayInv
  <2>4. SleptInv'
    BY <1>1, <1>2, <2>1, Times DEF CallInv, SleptInv
  <2> QED BY <2>2, <2>3, <2>4 DEF CallInv
<1>6. ASSUME NEW r \in Responses, NEW took \in Takes, FailsForNow(r, took) PROVE CallInv'
  <2> DEFINE d == IF IsRateLimited(r) THEN RateLimitBackoff ELSE backoff
  <2> DEFINE after == elapsed + took
  <2>1. d \in Nat /\ d >= Least /\ after \in Nat
    BY <1>1, Times
  <2>2. /\ pc = "call" /\ elapsed' = after
        /\ \/ pc' = "err" /\ delay' = delay /\ retries' = retries
           \/ pc' = "sleep" /\ delay' = d /\ retries' = retries + 1
                /\ ~PastWindow(d, after)
    BY <1>6 DEF FailsForNow
  <2> HIDE DEF d
  <2>3. TypeOK'
    <3>1. /\ backoff' = backoff /\ attempts' = attempts + 1 /\ requests' = requests
          /\ last' = r
      BY <1>6 DEF FailsForNow
    <3> QED BY <1>1, <1>4, <2>1, <2>2, <3>1
  <2>4. WithinWindow' /\ DelayInv'
    BY <1>1, <2>1, <2>2, Times DEF CallInv, WithinWindow, DelayInv, PastWindow
  <2>5. SleptInv'
    BY <1>1, <1>2, <2>1, <2>2, Times DEF CallInv, SleptInv
  <2> QED BY <2>3, <2>4, <2>5 DEF CallInv
<1>7. CASE WakeUp
  <2>1. pc = "sleep" /\ pc' = "call" /\ elapsed' = elapsed + delay /\ retries' = retries
    BY <1>7 DEF WakeUp
  <2>2. Doubled(backoff) \in BackoffMin..BackoffMax
    BY <1>1, Times DEF Doubled
  <2>3. TypeOK'
    <3>1. /\ backoff' = Doubled(backoff) /\ delay' = delay /\ attempts' = attempts
          /\ requests' = requests /\ last' = last
      BY <1>7 DEF WakeUp
    <3> QED BY <1>1, <1>4, <2>1, <2>2, <3>1
  <2>4. WithinWindow' /\ DelayInv' /\ SleptInv'
    BY <1>1, <2>1, Times DEF CallInv, WithinWindow, DelayInv, SleptInv
  <2> QED BY <2>3, <2>4 DEF CallInv
<1>8. CASE UNCHANGED vars
  BY <1>8 DEF vars, CallInv, TypeOK, WithinWindow, DelayInv, SleptInv
<1> QED BY <1>5, <1>6, <1>7, <1>8 DEF CallStep

\* The retries of a call, of Least each at least, fit into the time that has
\* gone by.
LEMMA CallIsBounded == CallInv => AttemptsBounded
<1> SUFFICES ASSUME CallInv PROVE retries * Least <= elapsed + delay
  BY DEF AttemptsBounded, Least
<1>1. retries * Least \in Nat
  BY Times, OneMore DEF CallInv, TypeOK
<1> QED BY <1>1 DEF CallInv, SleptInv, TypeOK

\* The invariant of a call on its own holds throughout.
LEMMA CallInvariant == Spec => []CallInv
  BY InitCall, NextCall, PTL DEF Spec

\* No attempt starts after the retry window, and a call is over within the
\* window and one request time-out (controllers/ingest.rs:48-49, 369-375).
THEOREM CallWithin == Spec => []WithinWindow
<1>1. CallInv => WithinWindow
  BY DEF CallInv
<1> QED BY <1>1, CallInvariant, PTL

\* The retries of a call are bounded by the time that has gone by, and so by
\* the window (controllers/ingest.rs:368, 382).
THEOREM CallAttempts == Spec => []AttemptsBounded
  BY CallIsBounded, CallInvariant, PTL

\* What a failure that may pass is answered with is a delay, or the end of the
\* call if that delay would lead out of the window.
RetriedInv ==
  (pc = "err" /\ IsTransient(last)) =>
    elapsed + (IF IsRateLimited(last) THEN RateLimitBackoff ELSE BackoffMax) > RetryWindow

LEMMA RetriedStays == CallInv /\ RetriedInv /\ [CallStep]_vars => RetriedInv'
<1> SUFFICES ASSUME CallInv, RetriedInv, [CallStep]_vars PROVE RetriedInv'
  OBVIOUS
<1>1. elapsed \in Nat /\ backoff \in Nat /\ backoff <= BackoffMax
  BY Times DEF CallInv, TypeOK
<1>2. ASSUME NEW r \in Responses, NEW took \in Takes, GetsThrough(r, took) PROVE RetriedInv'
  BY <1>2 DEF GetsThrough, RetriedInv
<1>3. ASSUME NEW r \in Responses, NEW took \in Takes, FailsForNow(r, took) PROVE RetriedInv'
  <2> DEFINE d == IF IsRateLimited(r) THEN RateLimitBackoff ELSE backoff
  <2>1. /\ elapsed' = elapsed + took /\ last' = r
        /\ pc' = "sleep" \/ elapsed + took + d > RetryWindow
    BY <1>3 DEF FailsForNow, PastWindow
  <2>2. d <= (IF IsRateLimited(r) THEN RateLimitBackoff ELSE BackoffMax) /\ d \in Nat
    BY <1>1, Times
  <2>3. elapsed + took \in Nat
    BY <1>1, Times
  <2> HIDE DEF d
  <2> QED BY <2>1, <2>2, <2>3, Times DEF RetriedInv
<1>4. CASE WakeUp
  BY <1>4 DEF WakeUp, RetriedInv
<1>5. CASE UNCHANGED vars
  BY <1>5 DEF vars, RetriedInv
<1> QED BY <1>2, <1>3, <1>4, <1>5 DEF CallStep

\* A call fails on a failure that may pass only with its window used up: what
\* is wrong with NetworkFailuresRetried is the one kind of network failure
\* that is taken for another (controllers/ingest.rs:352-385).
THEOREM TransientRetried ==
  Spec => []((pc = "err" /\ IsTransient(last)) =>
    elapsed + (IF IsRateLimited(last) THEN RateLimitBackoff ELSE BackoffMax) > RetryWindow)
<1>1. Init => RetriedInv
  BY DEF Init, RetriedInv
<1> QED BY <1>1, RetriedStays, CallInvariant, PTL DEF Spec, RetriedInv

-----------------------------------------------------------------------------
(* Windows and ranges.                                                     *)

\* The constants are numbers, and the ranges are not empty.
LEMMA Ranges ==
  /\ WindowLen \in Nat \ {0} /\ Percent \in 1..100
  /\ IndexStart \in Nat /\ IndexEnd \in Nat /\ IndexNow \in Nat
  /\ IndexStart < IndexEnd /\ Start < End
  /\ Start \in Nat /\ End \in Nat /\ MaxNow \in Nat /\ MaxJobs \in Nat \ {0}
  /\ Count \in Nat /\ Settling \in Nat
  /\ Length \in Nat \ {0} /\ PageSize \in Nat \ {0}
BY RangeAssumption

\* A set of numbers that is not empty has a least one.
LEMMA LeastOf ==
  ASSUME NEW S \in SUBSET Nat, S # {}
  PROVE  \E x \in S : \A y \in S : x <= y
<1> DEFINE Below == {p \in Nat \X Nat : p[1] < p[2]}
<1>1. IsWellFoundedOn(Below, Nat)
  BY NatLessThanWellFounded DEF OpToRel
<1>2. \A a, b \in Nat : a < b => <<a, b>> \in Below
  OBVIOUS
<1> HIDE DEF Below
<1>3. PICK x \in S : \A y \in S : ~(<<y, x>> \in Below)
  BY <1>1, WFMin
<1>4. ASSUME NEW y \in S PROVE x <= y
  <2>1. x \in Nat /\ y \in Nat
    OBVIOUS
  <2>2. ~(y < x)
    BY <1>2, <1>3, <2>1
  <2> QED BY <2>1, <2>2
<1> QED BY <1>4

\* The instances count as this module does.
LEMMA SameCounting ==
  \A S : /\ Index!Cardinality(S) = Cardinality(S)
         /\ Contracts!Cardinality(S) = Cardinality(S)
BY DEF Cardinality, IsFiniteSet, Index!Cardinality, Index!IsFiniteSet,
       Contracts!Cardinality, Contracts!IsFiniteSet

\* What is left of a time is less than a window.
LEMMA Remainder ==
  ASSUME NEW t \in Int
  PROVE  /\ t % WindowLen \in 0..WindowLen - 1
         /\ t = WindowLen * (t \div WindowLen) + (t % WindowLen)
         /\ t \div WindowLen \in Int
BY Ranges

LEMMA Multiple ==
  ASSUME NEW k \in Int
  PROVE  (WindowLen * k) % WindowLen = 0
<1>1. WindowLen \in Nat \ {0} /\ 0 \in 0..WindowLen - 1 /\ WindowLen * k = WindowLen * k + 0
  BY Ranges
<1>2. \A t \in Int : \A r \in 0..WindowLen - 1 : t = WindowLen * k + r => t % WindowLen = r
  BY Ranges
<1> QED BY <1>1, <1>2

LEMMA WholeWindows ==
  ASSUME NEW t \in Int, t % WindowLen = 0
  PROVE  \E k \in Int : t = WindowLen * k
<1>1. t = WindowLen * (t \div WindowLen) + 0 /\ t \div WindowLen \in Int
  BY Remainder
<1>2. WindowLen * (t \div WindowLen) + 0 = WindowLen * (t \div WindowLen)
  BY <1>1, Ranges
<1> QED BY <1>1, <1>2

\* A window begins where one may, no more than a window before.
LEMMA Floors ==
  ASSUME NEW t \in Nat
  PROVE  /\ Index!Floor(t) \in Nat /\ Index!Floor(t) % WindowLen = 0
         /\ Index!Floor(t) <= t /\ t < Index!NextWindow(Index!Floor(t))
<1>1. t % WindowLen \in 0..WindowLen - 1 /\ t % WindowLen <= t
  BY Ranges
<1>2. (t - (t % WindowLen)) % WindowLen = 0
  <2>1. /\ t \div WindowLen \in Int /\ WindowLen \in Int /\ t % WindowLen \in Int
        /\ t = WindowLen * (t \div WindowLen) + (t % WindowLen)
    BY <1>1, Remainder, Ranges
  <2>2. t - (t % WindowLen) = WindowLen * (t \div WindowLen)
    <3> PICK k \in Int : k = t \div WindowLen
      BY <2>1
    <3> PICK r \in Int : r = t % WindowLen
      BY <2>1
    <3>1. WindowLen * k \in Int /\ t = WindowLen * k + r
      BY <2>1
    <3> QED BY <3>1
  <2> QED BY <2>1, <2>2, Multiple
<1> QED BY <1>1, <1>2, Ranges DEF Index!Floor, Index!NextWindow

\* The next window begins where one may.
LEMMA NextFloor ==
  ASSUME NEW w \in Int, w % WindowLen = 0
  PROVE  /\ Index!NextWindow(w) \in Int /\ Index!NextWindow(w) % WindowLen = 0
         /\ w < Index!NextWindow(w)
<1> PICK k \in Int : w = WindowLen * k
  BY WholeWindows
<1>1. k + 1 \in Int /\ w + WindowLen = WindowLen * (k + 1)
  BY Ranges
<1>2. (w + WindowLen) % WindowLen = 0
  BY <1>1, Multiple
<1> QED BY <1>2, Ranges DEF Index!NextWindow

\* Windows do not overlap: one that begins before another ends begins no later.
LEMMA Apart ==
  ASSUME NEW v \in Int, NEW w \in Int, v % WindowLen = 0, w % WindowLen = 0,
         v < Index!NextWindow(w)
  PROVE  v <= w
<1> PICK k \in Int : v = WindowLen * k
  BY WholeWindows
<1> PICK l \in Int : w = WindowLen * l
  BY WholeWindows
<1>1. WindowLen * k < WindowLen * l + WindowLen
  BY DEF Index!NextWindow
<1>2. CASE k <= l
  <2>1. l - k \in Nat /\ \A a, b \in Nat : a * b \in Nat
    BY <1>2
  <2>2. WindowLen * (l - k) \in Nat
    BY <2>1, Ranges
  <2>3. WindowLen * (l - k) = WindowLen * l - WindowLen * k
    BY Ranges
  <2> QED BY <2>2, <2>3, Ranges
<1>3. CASE ~(k <= l)
  <2>1. k - l - 1 \in Nat /\ \A a, b \in Nat : a * b \in Nat
    BY <1>3
  <2>2. WindowLen * (k - l - 1) \in Nat
    BY <2>1, Ranges
  <2>3. WindowLen * (k - l - 1) = WindowLen * k - WindowLen * l - WindowLen
    BY Ranges
  <2> QED BY <1>1, <2>2, <2>3, Ranges
<1> QED BY <1>2, <1>3

-----------------------------------------------------------------------------
(***************************************************************************)
(* An `index` job (IndexIngest): the inductive invariant.                  *)
(***************************************************************************)

IndexTimes == now \in 0..IndexNow /\ began \in 0..now

\* Nothing is fetched before its second is over, nor outside the range.
IndexSeconds ==
  /\ stored \subseteq 0..now - 1
  /\ rows \cup queued \cup lost \subseteq IndexStart..IndexEnd - 1
  /\ \A s \in rows \cup queued \cup lost : s < now

\* The job runs until it is over, is done only at the end of its range, and
\* holds rows of the window at its cursor only.
IndexControl ==
  /\ pc \in {"counts", "loop", "rows", "over"}
  /\ status \in {"running", "done", "failed"}
  /\ force \in BOOLEAN
  /\ status = "running" <=> pc # "over"
  /\ pc = "rows" => cursor < IndexEnd
  /\ pc # "rows" => rows = {}
  /\ status = "done" => cursor >= IndexEnd

\* The cursor is where a window of the range begins, or behind the last one.
IndexCursor ==
  /\ cursor \in Index!Floor(IndexStart)..Index!NextWindow(Index!Floor(IndexEnd - 1))
  /\ cursor % WindowLen = 0

\* A count is of rows that are still there.
IndexExisting ==
  /\ existing \in [Index!Windows -> Nat]
  /\ \A w \in Index!Windows :
       existing[w] <= Cardinality(stored \cap Index!SecondsOf(w))

\* The window's values are stored or on their way there, or were lost, or the
\* agreed share of the window was stored when the job went by.
IndexCovered(w) ==
  \/ Index!SecondsOf(w) \cap Index!Values \subseteq stored \cup queued \cup lost \cup rows
  \/ Cardinality(stored \cap Index!SecondsOf(w)) * 100
       >= Cardinality(Index!SecondsOf(w)) * Percent

\* So it is of every window behind the cursor that was over when the job began.
IndexBehind ==
  \A w \in Index!Windows :
    /\ Index!NextWindow(w) <= began
    /\ w < cursor \/ (w = cursor /\ pc = "rows")
    => IndexCovered(w)

\* The inductive invariant.
IndexInv ==
  /\ IndexTimes /\ IndexSeconds /\ IndexControl /\ IndexCursor
  /\ IndexExisting /\ IndexBehind

\* The seconds of a window are few, and those of the range.
LEMMA SecondsAre ==
  ASSUME NEW w \in Index!Windows
  PROVE  /\ w \in Nat /\ w % WindowLen = 0 /\ w < IndexEnd
         /\ IndexStart < Index!NextWindow(w)
         /\ IsFiniteSet(Index!SecondsOf(w))
         /\ Cardinality(Index!SecondsOf(w)) \in Nat
         /\ Cardinality(Index!SecondsOf(w)) <= WindowLen
         /\ Cardinality(Index!SecondsOf(w))
              = Index!Lower(Index!NextWindow(w), IndexEnd) - Index!Higher(w, IndexStart)
         /\ Index!SecondsOf(w) \subseteq IndexStart..IndexEnd - 1
<1>1. /\ w \in Nat /\ w % WindowLen = 0 /\ w < IndexEnd
      /\ IndexStart < Index!NextWindow(w)
  BY Ranges DEF Index!Windows
<1> DEFINE a == Index!Higher(w, IndexStart)
           b == Index!Lower(Index!NextWindow(w), IndexEnd)
<1>2. /\ a \in Int /\ b - 1 \in Int /\ b \in Int /\ a < b /\ b <= a + WindowLen
      /\ \A s \in Int : (IndexStart <= s /\ s <= IndexEnd - 1
                          /\ w <= s /\ s < Index!NextWindow(w))
                        <=> (a <= s /\ s <= b - 1)
  BY <1>1, Ranges DEF Index!Higher, Index!Lower, Index!NextWindow
<1>3. Index!SecondsOf(w) = a..(b - 1)
  <2> HIDE DEF a, b
  <2>1. IndexStart..IndexEnd - 1 \subseteq Int /\ a..(b - 1) \subseteq Int
    BY <1>2, Ranges
  <2>2. ASSUME NEW s \in Int
        PROVE  s \in Index!SecondsOf(w) <=> s \in a..(b - 1)
    BY <1>2, Ranges DEF Index!SecondsOf
  <2>3. Index!SecondsOf(w) \subseteq Int
    BY <2>1 DEF Index!SecondsOf
  <2> QED BY <2>1, <2>2, <2>3
<1> HIDE DEF a, b
<1>4. IsFiniteSet(a..(b - 1)) /\ Cardinality(a..(b - 1)) = b - a
  <2>1. Cardinality(a..(b - 1)) = IF a > b - 1 THEN 0 ELSE (b - 1) - a + 1
    BY <1>2, FS_Interval
  <2>2. ~(a > b - 1) /\ (b - 1) - a + 1 = b - a
    BY <1>2
  <2> QED BY <1>2, <2>1, <2>2, FS_Interval
<1>5. Index!SecondsOf(w) \subseteq IndexStart..IndexEnd - 1
  BY DEF Index!SecondsOf
<1>6. b - a \in Nat /\ b - a <= WindowLen
  BY <1>2, Ranges
<1> QED BY <1>1, <1>3, <1>4, <1>5, <1>6 DEF a, b

\* More stored, no fewer counted.
LEMMA CountsGrow ==
  ASSUME NEW w \in Index!Windows, NEW S, NEW T, S \subseteq T
  PROVE  /\ Cardinality(S \cap Index!SecondsOf(w)) \in Nat
         /\ Cardinality(T \cap Index!SecondsOf(w)) \in Nat
         /\ Cardinality(S \cap Index!SecondsOf(w))
              <= Cardinality(T \cap Index!SecondsOf(w))
         /\ Cardinality(T \cap Index!SecondsOf(w)) <= WindowLen
<1> DEFINE X == Index!SecondsOf(w)
<1>1. IsFiniteSet(X) /\ Cardinality(X) \in Nat /\ Cardinality(X) <= WindowLen
  BY SecondsAre
<1> HIDE DEF X
<1>2. T \cap X \in SUBSET X /\ S \cap X \in SUBSET (T \cap X)
  OBVIOUS
<1>3. IsFiniteSet(T \cap X) /\ Cardinality(T \cap X) <= Cardinality(X)
  BY <1>1, <1>2, FS_Subset
<1>4. IsFiniteSet(S \cap X) /\ Cardinality(S \cap X) <= Cardinality(T \cap X)
  BY <1>2, <1>3, FS_Subset
<1>5. Cardinality(T \cap X) \in Nat /\ Cardinality(S \cap X) \in Nat
  BY <1>3, <1>4, FS_CardinalityType
<1>6. Cardinality(T \cap X) <= WindowLen
  BY <1>1, <1>3, <1>5, Ranges
<1> QED BY <1>3, <1>4, <1>5, <1>6 DEF X

\* What is covered stays so while nothing is unmade.
LEMMA CoveredStays ==
  ASSUME NEW w \in Index!Windows, IndexCovered(w), stored \subseteq stored',
         stored \cup queued \cup lost \cup rows
           \subseteq stored' \cup queued' \cup lost' \cup rows'
  PROVE  IndexCovered(w)'
<1> PICK a, b, c : /\ a = Cardinality(stored \cap Index!SecondsOf(w))
                   /\ b = Cardinality(stored' \cap Index!SecondsOf(w))
                   /\ c = Cardinality(Index!SecondsOf(w)) * Percent
  OBVIOUS
<1>1. a \in Nat /\ b \in Nat /\ a <= b /\ c \in Int
  <2>1. Cardinality(Index!SecondsOf(w)) \in Nat
    BY SecondsAre
  <2>2. c \in Int
    BY <2>1, Ranges
  <2> QED BY <2>2, CountsGrow
<1>2. a * 100 >= c => b * 100 >= c
  BY <1>1
<1> QED BY <1>2 DEF IndexCovered

\* A cursor inside the range is at a window.
LEMMA CursorWindow ==
  ASSUME IndexCursor, cursor < IndexEnd
  PROVE  /\ cursor \in Index!Windows /\ cursor \in Nat
         /\ Index!NextWindow(cursor) \in
              Index!Floor(IndexStart)..Index!NextWindow(Index!Floor(IndexEnd - 1))
         /\ Index!NextWindow(cursor) % WindowLen = 0
         /\ cursor < Index!NextWindow(cursor)
         /\ \A w \in Index!Windows : w < Index!NextWindow(cursor) => w <= cursor
<1> PICK f, g : f = Index!Floor(IndexStart) /\ g = Index!Floor(IndexEnd - 1)
  OBVIOUS
<1>1. /\ f \in Nat /\ f <= IndexStart /\ IndexStart < f + WindowLen
      /\ g \in Nat /\ g % WindowLen = 0 /\ IndexEnd - 1 < g + WindowLen
      /\ IndexEnd - 1 \in Nat
  BY Floors, Ranges DEF Index!NextWindow
<1>2. cursor \in Nat /\ f <= cursor /\ cursor % WindowLen = 0
  BY <1>1, Ranges DEF IndexCursor, Index!NextWindow
<1>3. /\ Index!NextWindow(cursor) % WindowLen = 0
      /\ cursor < Index!NextWindow(cursor)
  BY <1>2, NextFloor
<1>4. cursor <= g
  BY <1>1, <1>2, Apart, Ranges DEF Index!NextWindow
<1>5. cursor \in Index!Windows
  BY <1>1, <1>2, Ranges DEF Index!Windows, Index!NextWindow
<1>6. Index!NextWindow(cursor) \in f..Index!NextWindow(g)
  BY <1>1, <1>2, <1>4, Ranges DEF Index!NextWindow
<1>7. ASSUME NEW w \in Index!Windows, w < Index!NextWindow(cursor)
      PROVE  w <= cursor
  <2>1. w \in Int /\ w % WindowLen = 0
    BY SecondsAre
  <2> QED BY <1>2, <1>7, <2>1, Apart
<1> QED BY <1>2, <1>3, <1>5, <1>6, <1>7

-----------------------------------------------------------------------------
(* An `index` job: what its steps keep.                                    *)

\* A job that has not begun any window has none behind it.
LEMMA NothingBehind ==
  ASSUME IndexTimes, cursor = Index!Floor(IndexStart), pc # "rows"
  PROVE  IndexBehind
<1> SUFFICES ASSUME NEW w \in Index!Windows, w < cursor PROVE FALSE
  BY DEF IndexBehind
<1>1. /\ cursor \in Nat /\ cursor % WindowLen = 0 /\ cursor <= IndexStart
      /\ w \in Nat /\ w % WindowLen = 0 /\ IndexStart < Index!NextWindow(w)
  BY SecondsAre, Floors, Ranges
<1>2. cursor < Index!NextWindow(w)
  BY <1>1, Ranges DEF Index!NextWindow
<1>3. cursor <= w
  BY <1>1, <1>2, Apart
<1> QED BY <1>1, <1>3

\* A job starts at the window its range starts in.
LEMMA StartsInRange ==
  ASSUME cursor = Index!Floor(IndexStart)
  PROVE  IndexCursor
<1> PICK f, g : f = Index!Floor(IndexStart) /\ g = Index!Floor(IndexEnd - 1)
  OBVIOUS
<1>1. /\ f \in Nat /\ f <= IndexStart /\ f % WindowLen = 0
      /\ g \in Nat /\ IndexEnd - 1 < g + WindowLen /\ IndexEnd - 1 \in Nat
  BY Floors, Ranges DEF Index!NextWindow
<1>2. f \in f..Index!NextWindow(g)
  BY <1>1, Ranges DEF Index!NextWindow
<1> QED BY <1>1, <1>2 DEF IndexCursor

\* Counting nothing never counts too much.
LEMMA NothingCounted ==
  ASSUME existing = Index!NoCounts
  PROVE  IndexExisting
<1>1. \A w \in Index!Windows : Cardinality(stored \cap Index!SecondsOf(w)) \in Nat
  BY CountsGrow
<1>2. Index!NoCounts \in [Index!Windows -> Nat] /\ \A w \in Index!Windows : Index!NoCounts[w] = 0
  BY DEF Index!NoCounts
<1> QED BY <1>1, <1>2 DEF IndexExisting

LEMMA InitIndex == Index!Init => IndexInv
<1> SUFFICES ASSUME Index!Init PROVE IndexInv
  OBVIOUS
<1>1. IndexTimes
  BY Ranges DEF Index!Init, IndexTimes
<1>2. IndexSeconds
  BY DEF Index!Init, IndexSeconds
<1>3. IndexControl
  BY DEF Index!Init, IndexControl
<1>4. IndexCursor
  BY StartsInRange DEF Index!Init
<1>5. IndexExisting
  BY NothingCounted DEF Index!Init
<1>6. IndexBehind
  BY <1>1, NothingBehind DEF Index!Init
<1> QED BY <1>1, <1>2, <1>3, <1>4, <1>5, <1>6 DEF IndexInv

\* Windows behind the cursor stay covered while the cursor and the rows at
\* hand stay, and nothing is unmade.
LEMMA BehindStays ==
  ASSUME IndexBehind, UNCHANGED <<cursor, began>>, stored \subseteq stored',
         pc' = "rows" => pc = "rows",
         stored \cup queued \cup lost \cup rows
           \subseteq stored' \cup queued' \cup lost' \cup rows'
  PROVE  IndexBehind'
<1> SUFFICES ASSUME NEW w \in Index!Windows, Index!NextWindow(w) <= began,
                    w < cursor \/ (w = cursor /\ pc = "rows")
             PROVE  IndexCovered(w)'
  BY DEF IndexBehind
<1>1. IndexCovered(w)
  BY DEF IndexBehind
<1> QED BY <1>1, CoveredStays

\* So do the counts.
LEMMA ExistingStays ==
  ASSUME IndexExisting, existing' = existing, stored \subseteq stored'
  PROVE  IndexExisting'
<1> SUFFICES ASSUME NEW w \in Index!Windows
             PROVE  existing[w] <= Cardinality(stored' \cap Index!SecondsOf(w))
  BY DEF IndexExisting
<1> PICK a, b : /\ a = Cardinality(stored \cap Index!SecondsOf(w))
                /\ b = Cardinality(stored' \cap Index!SecondsOf(w))
  OBVIOUS
<1>1. a \in Nat /\ b \in Nat /\ a <= b
  BY CountsGrow
<1>2. existing[w] \in Nat /\ existing[w] <= a
  BY DEF IndexExisting
<1> QED BY <1>1, <1>2

LEMMA ReadCountsKeeps == IndexInv /\ Index!ReadCounts => IndexInv'
<1> SUFFICES ASSUME IndexInv, Index!ReadCounts PROVE IndexInv'
  OBVIOUS
<1>1. /\ IndexTimes' /\ IndexSeconds' /\ IndexControl' /\ IndexCursor'
  BY DEF IndexInv, IndexTimes, IndexSeconds, IndexControl, IndexCursor, Index!ReadCounts
<1>2. IndexExisting'
  <2>1. \A w \in Index!Windows : Cardinality(stored \cap Index!SecondsOf(w)) \in Nat
    BY CountsGrow
  <2>2. CASE existing' = Index!NoCounts
    <3>1. \A w \in Index!Windows : Index!NoCounts[w] = 0
      BY DEF Index!NoCounts
    <3> QED BY <2>1, <2>2, <3>1 DEF Index!ReadCounts, IndexExisting, Index!NoCounts
  <2>3. CASE existing' = Index!IndexCounts
    <3>1. \A w \in Index!Windows :
            Index!IndexCounts[w] = Cardinality(stored \cap Index!SecondsOf(w))
      BY SameCounting DEF Index!IndexCounts
    <3>2. Index!IndexCounts \in [Index!Windows -> Nat]
      BY <2>1, SameCounting DEF Index!IndexCounts
    <3> QED BY <2>1, <2>3, <3>1, <3>2 DEF Index!ReadCounts, IndexExisting
  <2> QED BY <2>2, <2>3 DEF Index!ReadCounts
<1>3. IndexBehind'
  BY BehindStays DEF IndexInv, Index!ReadCounts
<1> QED BY <1>1, <1>2, <1>3 DEF IndexInv

\* A window that is skipped is covered.
LEMMA SkipKeeps == IndexInv /\ Index!Skip => IndexInv'
<1> SUFFICES ASSUME IndexInv, Index!Skip PROVE IndexInv'
  OBVIOUS
<1>1. /\ pc = "loop" /\ cursor < IndexEnd /\ cursor' = Index!NextWindow(cursor)
      /\ UNCHANGED <<now, stored, queued, pc, status, force, existing, rows, began, lost>>
      /\ Index!IndexWindowComplete(existing[cursor], cursor, now)
  BY DEF Index!Skip
<1>2. /\ cursor \in Index!Windows /\ cursor' % WindowLen = 0
      /\ cursor' \in Index!Floor(IndexStart)..Index!NextWindow(Index!Floor(IndexEnd - 1))
      /\ \A w \in Index!Windows : w < cursor' => w <= cursor
  BY <1>1, CursorWindow DEF IndexInv
<1>3. IndexTimes' /\ IndexSeconds' /\ IndexExisting'
  BY <1>1 DEF IndexInv, IndexTimes, IndexSeconds, IndexExisting
<1>4. IndexControl' /\ IndexCursor'
  BY <1>1, <1>2 DEF IndexInv, IndexControl, IndexCursor
<1>5. IndexCovered(cursor)
  <2> PICK a, e, n : /\ a = Cardinality(stored \cap Index!SecondsOf(cursor))
                     /\ e = existing[cursor]
                     /\ n = Cardinality(Index!SecondsOf(cursor))
    OBVIOUS
  <2>1. e * 100 >= n * Percent
    BY <1>1, <1>2, SecondsAre DEF Index!IndexWindowComplete
  <2>2. a \in Nat /\ e \in Nat /\ e <= a
    BY <1>2, CountsGrow DEF IndexInv, IndexExisting
  <2>3. n * Percent \in Int
    <3>1. n \in Nat
      BY <1>2, SecondsAre
    <3> QED BY <3>1, Ranges
  <2> PICK p : p = n * Percent
    OBVIOUS
  <2>4. a * 100 >= p
    BY <2>1, <2>2, <2>3
  <2> QED BY <2>4 DEF IndexCovered
<1>6. IndexBehind'
  <2> SUFFICES ASSUME NEW w \in Index!Windows, Index!NextWindow(w) <= began, w < cursor'
               PROVE  IndexCovered(w)'
    BY <1>1 DEF IndexBehind
  <2>1. w < cursor \/ w = cursor
    <3>1. w \in Nat /\ cursor \in Nat /\ w <= cursor
      BY <1>2, SecondsAre
    <3> QED BY <3>1
  <2>2. IndexCovered(w)
    BY <1>5, <2>1 DEF IndexInv, IndexBehind
  <2> QED BY <1>1, <2>2, CoveredStays
<1> QED BY <1>3, <1>4, <1>6 DEF IndexInv

\* A window that is fetched has at hand all the upstream has of it.
LEMMA FetchKeeps == IndexInv /\ Index!Fetch => IndexInv'
<1> SUFFICES ASSUME IndexInv, Index!Fetch PROVE IndexInv'
  OBVIOUS
<1>1. /\ pc = "loop" /\ cursor < IndexEnd /\ pc' = "rows"
      /\ UNCHANGED <<now, stored, queued, status, force, existing, cursor, began, lost>>
      /\ rows' = {s \in Index!HistoryValues(cursor, now) : IndexStart <= s /\ s < IndexEnd}
  BY DEF Index!Fetch
<1>2. cursor \in Index!Windows /\ cursor \in Nat /\ now \in Nat /\ began \in Nat /\ began <= now
  BY <1>1, CursorWindow DEF IndexInv, IndexTimes
<1>3. IndexTimes' /\ IndexExisting' /\ IndexCursor'
  BY <1>1 DEF IndexInv, IndexTimes, IndexExisting, IndexCursor
<1>4. IndexControl'
  BY <1>1 DEF IndexInv, IndexControl
<1>5. rows' \subseteq IndexStart..IndexEnd - 1 /\ \A s \in rows' : s < now
  <2>1. Index!HistoryValues(cursor, now) \subseteq Int
    BY <1>2, Ranges DEF Index!HistoryValues, Index!Upstream, Index!NextWindow
  <2>2. \A s \in Index!HistoryValues(cursor, now) : s < now
    BY DEF Index!HistoryValues, Index!Upstream
  <2> QED BY <1>1, <2>1, <2>2, Ranges
<1>6. IndexSeconds'
  BY <1>1, <1>5 DEF IndexInv, IndexSeconds
<1>7. rows = {}
  BY <1>1 DEF IndexInv, IndexControl
<1>8. IndexBehind'
  <2> SUFFICES ASSUME NEW w \in Index!Windows, Index!NextWindow(w) <= began,
                      w < cursor \/ w = cursor
               PROVE  IndexCovered(w)'
    BY <1>1 DEF IndexBehind
  <2>1. CASE w < cursor
    <3>1. IndexCovered(w)
      BY <2>1 DEF IndexInv, IndexBehind
    <3> QED BY <1>1, <1>7, <3>1, CoveredStays
  <2>2. CASE w = cursor
    <3>1. ASSUME NEW s \in Index!SecondsOf(w) \cap Index!Values
          PROVE  s \in rows'
      <4>1. /\ s \in Int /\ IndexStart <= s /\ s < IndexEnd /\ w <= s
            /\ s < Index!NextWindow(w) /\ s \notin Gaps /\ Index!Parsed(s)
        BY Ranges DEF Index!SecondsOf, Index!Values
      <4>2. Index!NextWindow(w) \in Int /\ Index!NextWindow(w) <= now
        BY <1>2, <2>2, Ranges DEF Index!NextWindow
      <4>3. s \in w..Index!NextWindow(w) - 1 /\ s < now
        BY <1>2, <2>2, <4>1, <4>2
      <4>4. s \in Index!HistoryValues(cursor, now)
        BY <2>2, <4>1, <4>3 DEF Index!HistoryValues, Index!Upstream
      <4> QED BY <1>1, <4>1, <4>4
    <3> QED BY <3>1 DEF IndexCovered
  <2> QED BY <2>1, <2>2
<1> QED BY <1>3, <1>4, <1>6, <1>8 DEF IndexInv

LEMMA FetchFailsKeeps == IndexInv /\ Index!FetchFails => IndexInv'
<1> SUFFICES ASSUME IndexInv, Index!FetchFails PROVE IndexInv'
  OBVIOUS
<1>1. /\ pc = "loop" /\ pc' = "over" /\ status' = "failed"
      /\ UNCHANGED <<now, stored, queued, force, existing, cursor, rows, began, lost>>
  BY DEF Index!FetchFails
<1>2. IndexTimes' /\ IndexSeconds' /\ IndexExisting' /\ IndexCursor' /\ IndexControl'
  BY <1>1
     DEF IndexInv, IndexTimes, IndexSeconds, IndexExisting, IndexCursor, IndexControl
<1>3. IndexBehind'
  BY <1>1, BehindStays DEF IndexInv
<1> QED BY <1>2, <1>3 DEF IndexInv

LEMMA QueueRowKeeps == IndexInv /\ Index!QueueRow => IndexInv'
<1> SUFFICES ASSUME IndexInv, Index!QueueRow PROVE IndexInv'
  OBVIOUS
<1> PICK t : t = CHOOSE x \in rows : \A y \in rows : x <= y
  OBVIOUS
<1>1. /\ pc = "rows" /\ rows # {}
      /\ queued' = queued \cup {t} /\ rows' = rows \ {t}
      /\ UNCHANGED <<now, stored, pc, status, force, existing, cursor, began, lost>>
  BY DEF Index!QueueRow
<1>2. t \in rows
  <2>1. \E x \in rows : \A y \in rows : x <= y
    <3>1. rows \subseteq Nat /\ rows # {}
      BY <1>1, Ranges DEF IndexInv, IndexSeconds
    <3> QED BY <3>1, LeastOf
  <2> QED BY <2>1
<1>3. IndexTimes' /\ IndexExisting' /\ IndexCursor' /\ IndexControl'
  BY <1>1 DEF IndexInv, IndexTimes, IndexExisting, IndexCursor, IndexControl
<1>4. IndexSeconds'
  BY <1>1, <1>2 DEF IndexInv, IndexSeconds
<1>5. IndexBehind'
  BY <1>1, <1>2, BehindStays DEF IndexInv
<1> QED BY <1>3, <1>4, <1>5 DEF IndexInv

\* The window whose rows are all queued is behind the cursor.
LEMMA WindowDoneKeeps == IndexInv /\ Index!WindowDone => IndexInv'
<1> SUFFICES ASSUME IndexInv, Index!WindowDone PROVE IndexInv'
  OBVIOUS
<1>1. /\ pc = "rows" /\ rows = {} /\ pc' = "loop" /\ cursor' = Index!NextWindow(cursor)
      /\ UNCHANGED <<now, stored, queued, status, force, existing, rows, began, lost>>
      /\ cursor < IndexEnd
  BY DEF Index!WindowDone, IndexInv, IndexControl
<1>2. /\ cursor \in Index!Windows /\ cursor' % WindowLen = 0
      /\ cursor' \in Index!Floor(IndexStart)..Index!NextWindow(Index!Floor(IndexEnd - 1))
      /\ \A w \in Index!Windows : w < cursor' => w <= cursor
  BY <1>1, CursorWindow DEF IndexInv
<1>3. IndexTimes' /\ IndexSeconds' /\ IndexExisting'
  BY <1>1 DEF IndexInv, IndexTimes, IndexSeconds, IndexExisting
<1>4. IndexControl' /\ IndexCursor'
  BY <1>1, <1>2 DEF IndexInv, IndexControl, IndexCursor
<1>5. IndexBehind'
  <2> SUFFICES ASSUME NEW w \in Index!Windows, Index!NextWindow(w) <= began, w < cursor'
               PROVE  IndexCovered(w)'
    BY <1>1 DEF IndexBehind
  <2>1. w < cursor \/ w = cursor
    <3>1. w \in Nat /\ cursor \in Nat /\ w <= cursor
      BY <1>2, SecondsAre
    <3> QED BY <3>1
  <2>2. IndexCovered(w)
    BY <1>1, <2>1 DEF IndexInv, IndexBehind
  <2> QED BY <1>1, <2>2, CoveredStays
<1> QED BY <1>3, <1>4, <1>5 DEF IndexInv

LEMMA IndexFinishKeeps == IndexInv /\ Index!Finish => IndexInv'
<1> SUFFICES ASSUME IndexInv, Index!Finish PROVE IndexInv'
  OBVIOUS
<1>1. /\ pc = "loop" /\ pc' = "over" /\ status' = "done" /\ cursor >= IndexEnd
      /\ UNCHANGED <<now, stored, queued, force, existing, cursor, rows, began, lost>>
  BY DEF Index!Finish
<1>2. IndexTimes' /\ IndexSeconds' /\ IndexExisting' /\ IndexCursor' /\ IndexControl'
  BY <1>1
     DEF IndexInv, IndexTimes, IndexSeconds, IndexExisting, IndexCursor, IndexControl
<1>3. IndexBehind'
  BY <1>1, BehindStays DEF IndexInv
<1> QED BY <1>2, <1>3 DEF IndexInv

LEMMA IndexResubmitKeeps ==
  ASSUME IndexInv, NEW f \in BOOLEAN, Index!Resubmit(f)
  PROVE  IndexInv'
<1>1. /\ pc' = "counts" /\ status' = "running" /\ force' = f
      /\ existing' = Index!NoCounts /\ cursor' = Index!Floor(IndexStart) /\ rows' = {}
      /\ began' = now /\ lost' = {} /\ UNCHANGED <<now, stored, queued>>
  BY DEF Index!Resubmit
<1>2. IndexTimes' /\ IndexSeconds' /\ IndexControl'
  BY <1>1 DEF IndexInv, IndexTimes, IndexSeconds, IndexControl
<1>3. (cursor = Index!Floor(IndexStart) => IndexCursor)'
  BY StartsInRange, PTL
<1>4. (existing = Index!NoCounts => IndexExisting)'
  BY NothingCounted, PTL
<1>5. (IndexTimes /\ cursor = Index!Floor(IndexStart) /\ pc # "rows" => IndexBehind)'
  BY NothingBehind, PTL
<1> QED BY <1>1, <1>2, <1>3, <1>4, <1>5 DEF IndexInv

\* The writer and the clock touch nothing of the job.
LEMMA FlushKeeps ==
  ASSUME IndexInv, NEW s \in queued, Index!FlushOk(s) \/ Index!FlushFails(s)
  PROVE  IndexInv'
<1>1. UNCHANGED <<now, pc, status, force, existing, cursor, rows, began>>
  BY DEF Index!FlushOk, Index!FlushFails, Index!jobVars
<1>2. /\ stored \subseteq stored' /\ stored' \subseteq stored \cup queued
      /\ lost' \subseteq lost \cup queued /\ queued' \subseteq queued
      /\ stored \cup queued \cup lost \subseteq stored' \cup queued' \cup lost'
  BY DEF Index!FlushOk, Index!FlushFails, Index!UpTo
<1>3. IndexTimes' /\ IndexCursor' /\ IndexControl'
  BY <1>1 DEF IndexInv, IndexTimes, IndexCursor, IndexControl
<1>4. IndexSeconds'
  <2>1. \A x \in queued : x \in 0..now - 1
    BY Ranges DEF IndexInv, IndexSeconds, IndexTimes
  <2> QED BY <1>1, <1>2, <2>1 DEF IndexInv, IndexSeconds
<1>5. IndexExisting'
  BY <1>1, <1>2, ExistingStays DEF IndexInv
<1>6. IndexBehind'
  BY <1>1, <1>2, BehindStays DEF IndexInv
<1> QED BY <1>3, <1>4, <1>5, <1>6 DEF IndexInv

LEMMA TickKeeps == IndexInv /\ Index!Tick => IndexInv'
<1> SUFFICES ASSUME IndexInv, Index!Tick PROVE IndexInv'
  OBVIOUS
<1>1. /\ now < IndexNow /\ now' = now + 1
      /\ UNCHANGED <<pc, status, force, existing, cursor, rows, began, stored, queued, lost>>
  BY DEF Index!Tick, Index!jobVars
<1>2. IndexTimes' /\ IndexSeconds'
  BY <1>1, Ranges DEF IndexInv, IndexTimes, IndexSeconds
<1>3. IndexCursor' /\ IndexControl' /\ IndexExisting'
  BY <1>1 DEF IndexInv, IndexCursor, IndexControl, IndexExisting
<1>4. IndexBehind'
  BY <1>1, BehindStays DEF IndexInv
<1> QED BY <1>2, <1>3, <1>4 DEF IndexInv

\* Every step of an `index` job, the writer and the clock keeps the invariant.
LEMMA NextIndex == IndexInv /\ Index!Next => IndexInv'
BY ReadCountsKeeps, SkipKeeps, FetchKeeps, FetchFailsKeeps, QueueRowKeeps,
   WindowDoneKeeps, IndexFinishKeeps, IndexResubmitKeeps, FlushKeeps, TickKeeps
   DEF Index!Next, Index!JobStep, Index!Progress

-----------------------------------------------------------------------------
(* An `index` job: what its invariant says, and the theorems.              *)

LEMMA IndexTypes == IndexInv => Index!TypeOK
<1> SUFFICES ASSUME IndexInv PROVE Index!TypeOK
  OBVIOUS
<1>1. /\ now \in 0..IndexNow /\ began \in 0..now
      /\ stored \subseteq 0..IndexNow
      /\ queued \subseteq IndexStart..IndexEnd - 1
      /\ rows \subseteq IndexStart..IndexEnd - 1
      /\ lost \subseteq IndexStart..IndexEnd - 1
  <2>1. now \in 0..IndexNow /\ stored \subseteq 0..now - 1
    BY DEF IndexInv, IndexTimes, IndexSeconds
  <2>2. 0..now - 1 \subseteq 0..IndexNow
    BY <2>1, Ranges
  <2> QED BY <2>1, <2>2 DEF IndexInv, IndexTimes, IndexSeconds
<1>2. existing \in [Index!Windows -> 0..WindowLen]
  <2>1. existing \in [Index!Windows -> Nat]
    BY DEF IndexInv, IndexExisting
  <2>2. ASSUME NEW w \in Index!Windows PROVE existing[w] \in 0..WindowLen
    <3> PICK n : n = Cardinality(stored \cap Index!SecondsOf(w))
      OBVIOUS
    <3>1. existing[w] \in Nat /\ existing[w] <= n
      BY <2>1 DEF IndexInv, IndexExisting
    <3>2. n \in Nat /\ n <= WindowLen
      BY CountsGrow
    <3> QED BY <3>1, <3>2, Ranges
  <2> QED BY <2>1, <2>2
<1> QED BY <1>1, <1>2 DEF IndexInv, IndexControl, IndexCursor, Index!TypeOK

LEMMA IndexFills == IndexInv => Index!RerunFills
<1> SUFFICES ASSUME IndexInv, status = "done", queued = {}, lost = {},
                    NEW w \in Index!Windows, Index!NextWindow(w) <= began
             PROVE  Index!Cardinality(stored \cap Index!SecondsOf(w)) * 100
                      >= Index!Cardinality(Index!SecondsOf(w) \cap Index!Values) * Percent
  BY DEF Index!RerunFills
<1>1. cursor >= IndexEnd /\ rows = {} /\ cursor \in Int
  <2>1. pc # "rows" /\ cursor >= IndexEnd
    BY DEF IndexInv, IndexControl
  <2>2. /\ Index!Floor(IndexStart) \in Int
        /\ Index!NextWindow(Index!Floor(IndexEnd - 1)) \in Int
    <3>1. IndexEnd - 1 \in Nat
      BY Ranges
    <3>2. Index!Floor(IndexStart) \in Nat
      BY Floors, Ranges
    <3>3. Index!Floor(IndexEnd - 1) \in Nat
      BY <3>1, Floors
    <3> QED BY <3>2, <3>3, Ranges DEF Index!NextWindow
  <2> QED BY <2>1, <2>2 DEF IndexInv, IndexControl, IndexCursor
<1>2. w < cursor
  BY <1>1, SecondsAre, Ranges
<1>3. IndexCovered(w)
  BY <1>2 DEF IndexInv, IndexBehind
<1> DEFINE X == Index!SecondsOf(w)
<1>4. /\ IsFiniteSet(X) /\ Cardinality(X) \in Nat
      /\ Cardinality(stored \cap X) \in Nat
  BY SecondsAre, CountsGrow
<1>5. Cardinality(X \cap Index!Values) \in Nat /\ Cardinality(X \cap Index!Values) <= Cardinality(X)
  <2>1. X \cap Index!Values \in SUBSET X
    OBVIOUS
  <2> HIDE DEF X
  <2> QED BY <1>4, <2>1, FS_Subset, FS_CardinalityType
<1> PICK a, b, c : /\ a = Cardinality(stored \cap X) /\ b = Cardinality(X \cap Index!Values)
                   /\ c = Cardinality(X)
  OBVIOUS
<1>6. a \in Nat /\ b \in Nat /\ c \in Nat /\ b <= c
  BY <1>4, <1>5
<1>7. \A i, j \in Nat : i <= j => i * Percent <= j * Percent /\ i * Percent <= i * 100
  <2> SUFFICES ASSUME NEW i \in Nat, NEW j \in Nat, i <= j
               PROVE  i * Percent <= j * Percent /\ i * Percent <= i * 100
    OBVIOUS
  <2>1. \A m, n \in Nat : m * n \in Nat
    OBVIOUS
  <2>2. (j - i) * Percent \in Nat /\ i * (100 - Percent) \in Nat
    BY <2>1, Ranges
  <2>3. /\ (j - i) * Percent = j * Percent - i * Percent
        /\ i * (100 - Percent) = i * 100 - i * Percent
        /\ i * Percent \in Int /\ j * Percent \in Int
    BY Ranges
  <2> QED BY <2>2, <2>3
<1>8. a * 100 >= b * Percent
  <2>1. CASE X \cap Index!Values \subseteq stored \cup queued \cup lost \cup rows
    <3>1. X \cap Index!Values \subseteq stored \cap X
      BY <1>1, <2>1
    <3>2. IsFiniteSet(stored \cap X)
      BY <1>4, FS_Intersection
    <3>3. b <= a
      BY <3>1, <3>2, FS_Subset
    <3>4. b * Percent <= a * Percent /\ a * Percent <= a * 100
      BY <1>6, <1>7, <3>3
    <3>5. b * Percent \in Int /\ a * Percent \in Int /\ a * 100 \in Int
      BY <1>6, Ranges
    <3> QED BY <3>4, <3>5
  <2>2. CASE a * 100 >= c * Percent
    <3>1. b * Percent <= c * Percent
      BY <1>6, <1>7
    <3>2. b * Percent \in Int /\ c * Percent \in Int /\ a * 100 \in Int
      BY <1>6, Ranges
    <3> QED BY <2>2, <3>1, <3>2
  <2> QED BY <1>3, <2>1, <2>2 DEF IndexCovered
<1> QED BY <1>8, SameCounting

\* A behaviour of the run that is an `index` job keeps the invariant.
IndexHolds == part = "index" => IndexInv

LEMMA IndexHoldsAlways == IngestSpec => []IndexHolds
<1>1. IngestInit => IndexHolds
  BY InitIndex DEF IngestInit, IndexHolds
<1>2. IndexHolds /\ [CallPart \/ IndexPart \/ ContractsPart]_allVars => IndexHolds'
  <2> SUFFICES ASSUME IndexHolds, [CallPart \/ IndexPart \/ ContractsPart]_allVars,
                      part' = "index"
               PROVE  IndexInv'
    BY DEF IndexHolds
  <2>1. CASE CallPart \/ ContractsPart
    BY <2>1 DEF CallPart, ContractsPart
  <2>2. CASE IndexPart
    BY <2>2, NextIndex DEF IndexPart, IndexHolds
  <2>3. CASE UNCHANGED allVars
    <3>1. /\ IndexInv
          /\ UNCHANGED <<pc, now, stored, queued, status, existing, cursor, began, lost,
                         force, rows>>
      BY <2>3 DEF allVars, jobVars, indexVars, IndexHolds
    <3> QED BY <3>1
            DEF IndexInv, IndexTimes, IndexSeconds, IndexControl, IndexCursor,
                IndexExisting, IndexBehind, IndexCovered
  <2> QED BY <2>1, <2>2, <2>3
<1> QED BY <1>1, <1>2, PTL DEF IngestSpec

(***************************************************************************)
(* Submitting a range again mends what a failed flush cost: once a job is  *)
(* done and stored, every window that was over when it began holds the     *)
(* agreed share of the upstream's values, whatever earlier jobs fetched,   *)
(* skipped or lost (controllers/ingest.rs:390-393, 395-450).               *)
(***************************************************************************)
THEOREM IndexRangeFills == IngestSpec => []IndexRerunFills
<1>1. IndexHolds => IndexRerunFills
  BY IndexFills DEF IndexHolds, IndexRerunFills
<1> QED BY <1>1, IndexHoldsAlways, PTL

\* What each step of an `index` job is to whoever polls it.
LEMMA IndexStepIsJob ==
  ASSUME IndexInv, Index!Next, part = "index", part' = "index"
  PROVE  [\/ IndexJob!Advance \/ IndexJob!Finish
          \/ IndexJob!Fail \/ IndexJob!Again]_<<cursor, status>>
<1>1. /\ cursor \in Int
      /\ status = "running" <=> pc # "over"
      /\ pc = "rows" => cursor < IndexEnd
  <2>1. Index!Floor(IndexStart) \in Nat /\ IndexEnd - 1 \in Nat
    BY Floors, Ranges
  <2>2. Index!NextWindow(Index!Floor(IndexEnd - 1)) \in Int
    BY <2>1, Floors, Ranges DEF Index!NextWindow
  <2> QED BY <2>1, <2>2 DEF IndexInv, IndexControl, IndexCursor
<1>2. CASE UNCHANGED <<cursor, status>>
  BY <1>2
<1>3. ASSUME cursor < IndexEnd, cursor' = Index!NextWindow(cursor), pc # "over",
             status' = status
      PROVE  IndexJob!Advance
  <2>1. cursor' >= cursor
    BY <1>1, <1>3, Ranges DEF Index!NextWindow
  <2> QED BY <1>1, <1>3, <2>1 DEF IndexJob!Advance
<1>4. CASE Index!FetchFails
  BY <1>1, <1>4 DEF Index!FetchFails, IndexJob!Fail
<1>5. CASE Index!Finish
  BY <1>1, <1>5 DEF Index!Finish, IndexJob!Finish
<1>6. ASSUME NEW f \in BOOLEAN, Index!Resubmit(f)
      PROVE  IndexJob!Again
  BY <1>1, <1>6 DEF Index!Resubmit, IndexJob!Again
<1>7. CASE Index!Skip
  BY <1>3, <1>7 DEF Index!Skip
<1>8. CASE Index!WindowDone
  BY <1>1, <1>3, <1>8 DEF Index!WindowDone
<1>9. CASE \/ Index!ReadCounts \/ Index!Fetch \/ Index!QueueRow \/ Index!Tick
           \/ \E s \in queued : Index!FlushOk(s) \/ Index!FlushFails(s)
  BY <1>2, <1>9
     DEF Index!ReadCounts, Index!Fetch, Index!QueueRow, Index!Tick, Index!FlushOk,
         Index!FlushFails, Index!jobVars
<1> QED
  BY <1>4, <1>5, <1>6, <1>7, <1>8, <1>9 DEF Index!Next, Index!JobStep, Index!Progress

(***************************************************************************)
(* An `index` job moves its cursor only forward and is done exactly at the *)
(* end of its range, for any window, range and gaps                        *)
(* (controllers/ingest.rs:300-328, 408-447).                               *)
(***************************************************************************)
THEOREM IndexImplementsJob == IngestSpec => IndexIsJob
<1> DEFINE c == IF part = "index" THEN cursor ELSE Index!Floor(IndexStart)
           s == IF part = "index" THEN status ELSE "running"
<1>1. IngestInit => IndexJob!JobInit
  BY DEF IngestInit, IndexJob!JobInit, Index!Init
<1>2. IndexHolds /\ [CallPart \/ IndexPart \/ ContractsPart]_allVars
        => [\/ IndexJob!Advance \/ IndexJob!Finish
            \/ IndexJob!Fail \/ IndexJob!Again]_<<c, s>>
  <2> SUFFICES ASSUME IndexHolds, [CallPart \/ IndexPart \/ ContractsPart]_allVars
               PROVE  [\/ IndexJob!Advance \/ IndexJob!Finish
                       \/ IndexJob!Fail \/ IndexJob!Again]_<<c, s>>
    OBVIOUS
  <2>1. CASE CallPart \/ ContractsPart
    BY <2>1 DEF CallPart, ContractsPart
  <2>2. CASE UNCHANGED allVars
    BY <2>2 DEF allVars, jobVars
  <2>3. CASE IndexPart
    <3>1. /\ part = "index" /\ part' = "index" /\ Index!Next /\ IndexInv
      BY <2>3 DEF IndexPart, IndexHolds
    <3>2. [\/ IndexJob!Advance \/ IndexJob!Finish
           \/ IndexJob!Fail \/ IndexJob!Again]_<<cursor, status>>
      BY <3>1, IndexStepIsJob
    <3> QED BY <3>1, <3>2
  <2> QED BY <2>1, <2>2, <2>3
<1> QED BY <1>1, <1>2, IndexHoldsAlways, PTL DEF IngestSpec, IndexIsJob, IndexJob!JobSpec

-----------------------------------------------------------------------------
(* A call, in the run of all three.                                        *)

CallHolds == part = "call" => CallInv

LEMMA CallHoldsAlways == IngestSpec => []CallHolds
<1>1. IngestInit => CallHolds
  BY InitCall DEF IngestInit, CallHolds, Index!Init, Contracts!Init
<1>2. CallHolds /\ [CallPart \/ IndexPart \/ ContractsPart]_allVars => CallHolds'
  <2> SUFFICES ASSUME CallHolds, [CallPart \/ IndexPart \/ ContractsPart]_allVars,
                      part' = "call"
               PROVE  CallInv'
    BY DEF CallHolds
  <2>1. CASE IndexPart \/ ContractsPart
    BY <2>1 DEF IndexPart, ContractsPart
  <2>2. CASE CallPart
    BY <2>2, NextCall DEF CallPart, CallHolds
  <2>3. CASE UNCHANGED allVars
    <3>1. CallInv /\ UNCHANGED vars
      BY <2>3 DEF allVars, callVars, vars, CallHolds
    <3> QED BY <3>1, NextCall
  <2> QED BY <2>1, <2>2, <2>3
<1> QED BY <1>1, <1>2, PTL DEF IngestSpec

\* No attempt of a call starts after its retry window, and it is over within
\* the window and one request time-out (controllers/ingest.rs:48-49, 369-375).
THEOREM CallsWithinWindow == IngestSpec => []CallWithinWindow
<1>1. CallHolds => CallWithinWindow
  BY DEF CallHolds, CallWithinWindow, CallInv
<1> QED BY <1>1, CallHoldsAlways, PTL

\* The retries of a call are bounded by the time that has gone by
\* (controllers/ingest.rs:368, 382).
THEOREM CallsBounded == IngestSpec => []CallAttemptsBounded
<1>1. CallHolds => CallAttemptsBounded
  BY CallIsBounded DEF CallHolds, CallAttemptsBounded
<1> QED BY <1>1, CallHoldsAlways, PTL

-----------------------------------------------------------------------------
(***************************************************************************)
(* A `contracts` job (ContractIngest): the inductive invariant.            *)
(***************************************************************************)

ContractTimes ==
  /\ now \in 0..MaxNow /\ began \in 0..now
  /\ cutoff \in 0..now /\ cut \in 0..cutoff

\* The minutes of a market inside the range.
Minutes(m) == {t \in Contracts!Open(m) + 1..Contracts!Close(m) :
  Contracts!From(m) <= t /\ t <= Contracts!To(m)}

CandleRows(m) == {<<m, t>> : t \in Minutes(m)}

\* Nothing is queued but candles of the range.
ContractRows ==
  stored \cup queued \cup lost \subseteq UNION {CandleRows(m) : m \in Contracts!Markets}

ContractControl ==
  /\ pc \in {"cutoff", "list", "counts", "market", "retry", "over"}
  /\ status \in {"running", "done", "failed"}
  /\ archived \subseteq Contracts!Markets
  /\ tiers \subseteq Contracts!Tiers /\ page \in 0..Count /\ jobs \in 0..MaxJobs
  /\ status = "running" <=> pc # "over"
  /\ cursor \in Start..End
  /\ status = "done" => cursor = End /\ found = {}
  /\ pc = "retry" => found # {}

\* A market is found once.
ContractFound ==
  /\ found \subseteq Contracts!Markets \X Contracts!Tiers
  /\ \A f, g \in found : f[1] = g[1] => f = g

\* A count is of candles that are still there.
StoredOf(m) == {r \in stored : r[1] = m /\ Start <= r[2] /\ r[2] <= End}

ContractExisting ==
  /\ existing \in [Contracts!Markets -> Nat]
  /\ \A m \in Contracts!Markets : existing[m] <= Cardinality(StoredOf(m))

\* Of a market gone by, what was due is stored or on its way, or was lost, or
\* all but a candle was there.
ContractCovered(m) ==
  \/ Contracts!Due(m) \subseteq stored \cup queued \cup lost
  \/ Cardinality(Contracts!Due(m) \ stored)
       <= IF Contracts!Open(m) < Start THEN 1 ELSE 0

\* A listing that was read, as far as it was read, had every market that
\* stayed in it; a market found is still to do or was gone by.
ContractListed ==
  \A m \in Contracts!WentThrough :
    /\ /\ pc = "list"
       /\ \/ Contracts!ListedIn(m, cut) \notin tiers
          \/ Contracts!ListedIn(m, cut) = Contracts!CurrentTier /\ m >= page
       => m \in Contracts!Todo
    /\ pc = "counts" => m \in Contracts!Todo
    /\ pc \in {"market", "retry"} \/ status = "done" =>
         m \in Contracts!Todo \/ ContractCovered(m)

\* No page of a listing is all unreadable.
FewUnreadable ==
  IsFiniteSet(BadMarkets) /\ Cardinality(BadMarkets) < PageSize

\* The inductive invariant, and what it adds if every page can be read.
ContractInv ==
  /\ ContractTimes /\ ContractRows /\ ContractControl /\ ContractFound
  /\ ContractExisting

\* A set and its elements tagged alike are as many.
LEMMA TaggedCount ==
  ASSUME NEW m, NEW S, IsFiniteSet(S)
  PROVE  /\ IsFiniteSet({<<m, t>> : t \in S})
         /\ Cardinality({<<m, t>> : t \in S}) = Cardinality(S)
<1> DEFINE T == {<<m, t>> : t \in S}
           f == [t \in S |-> <<m, t>>]
<1>1. f \in Bijection(S, T)
  BY DEF Bijection, Injection, IsInjective, Surjection
<1> QED BY <1>1, FS_Bijection DEF ExistsBijection

\* Markets open one after the other, and each that is in range has minutes
\* there, one more than what is expected of it if it opened before the range.
LEMMA MarketTimes ==
  ASSUME NEW m \in Contracts!Markets
  PROVE  /\ m \in Nat /\ m < Count
         /\ Contracts!Open(m) \in Nat /\ Contracts!Close(m) \in Nat
         /\ Contracts!Open(m) < Contracts!Close(m)
         /\ Contracts!Settled(m) \in Nat
         /\ Contracts!From(m) \in Nat /\ Contracts!To(m) \in Nat
         /\ Contracts!To(m) <= End /\ Start <= Contracts!From(m)
         /\ Contracts!To(m) <= Contracts!Close(m)
         /\ Contracts!From(m) =
              IF Contracts!Open(m) > Start THEN Contracts!Open(m) ELSE Start
<1>1. m \in Nat /\ m < Count
  BY Ranges DEF Contracts!Markets
<1>2. \A a, b \in Nat : a * b \in Nat
  OBVIOUS
<1>3. m * Length \in Nat /\ (m + 1) * Length = m * Length + Length
  BY <1>1, <1>2, Ranges
<1>4. /\ Contracts!Open(m) = m * Length /\ Contracts!Close(m) = m * Length + Length
  BY <1>3 DEF Contracts!Open, Contracts!Close
<1> QED BY <1>1, <1>3, <1>4, Ranges
        DEF Contracts!Settled, Contracts!From, Contracts!To, Contracts!Higher, Contracts!Lower

\* A market that closes later is a later one.
LEMMA LaterCloses ==
  ASSUME NEW m \in Contracts!Markets, NEW n \in Contracts!Markets,
         Contracts!Close(m) < Contracts!Close(n)
  PROVE  m < n
<1>1. m \in Nat /\ n \in Nat
  BY MarketTimes
<1> SUFFICES ASSUME n <= m PROVE FALSE
  BY <1>1
<1>2. \A a, b \in Nat : a * b \in Nat
  OBVIOUS
<1>3. (m - n) * Length \in Nat
  BY <1>1, <1>2, Ranges
<1>4. (m - n) * Length = (m + 1) * Length - (n + 1) * Length
  BY <1>1, Ranges
<1>5. (m + 1) * Length \in Int /\ (n + 1) * Length \in Int
  BY <1>1, Ranges
<1> QED BY <1>3, <1>4, <1>5 DEF Contracts!Close

\* The rows of a market, how many they are, and when they are due.
LEMMA RowsOfMarket ==
  ASSUME NEW m \in Contracts!Markets
  PROVE  /\ Minutes(m) \subseteq Start..End
         /\ IsFiniteSet(CandleRows(m)) /\ Cardinality(CandleRows(m)) \in Nat
         /\ Contracts!To(m) - Contracts!From(m) > 0 =>
              Cardinality(CandleRows(m)) = Contracts!To(m) - Contracts!From(m)
                + (IF Contracts!Open(m) < Start THEN 1 ELSE 0)
         /\ Contracts!Due(m) \subseteq CandleRows(m)
         /\ Contracts!Candles(m) \subseteq CandleRows(m)
         /\ began \in 0..now /\ now \in Nat =>
              Contracts!Due(m) \subseteq Contracts!Candles(m)
<1> DEFINE o == Contracts!Open(m)
           f == Contracts!From(m)
           t == Contracts!To(m)
           low == IF o < Start THEN Start ELSE o + 1
<1>1. /\ o \in Nat /\ f \in Nat /\ t \in Nat /\ t <= End /\ Start <= f
      /\ t <= Contracts!Close(m) /\ Contracts!Close(m) \in Nat
      /\ f = IF o > Start THEN o ELSE Start
      /\ low \in Nat /\ Start <= low /\ f <= low
  BY MarketTimes, Ranges
<1>2. Minutes(m) = low..t
  <2>1. \A i \in Int : (o + 1 <= i /\ i <= Contracts!Close(m) /\ f <= i /\ i <= t)
                         <=> (low <= i /\ i <= t)
    BY <1>1, Ranges
  <2>2. ASSUME NEW i \in Int
        PROVE  i \in Minutes(m) <=> i \in low..t
    <3> HIDE DEF low
    <3> QED BY <1>1, <2>1 DEF Minutes
  <2>3. Minutes(m) \subseteq Int /\ low..t \subseteq Int
    BY <1>1 DEF Minutes
  <2> HIDE DEF low, t
  <2> QED BY <2>2, <2>3
<1>3. IsFiniteSet(low..t) /\ Cardinality(low..t) = IF low > t THEN 0 ELSE t - low + 1
  <2> HIDE DEF low, t
  <2>1. low \in Int /\ t \in Int
    BY <1>1
  <2> QED BY <2>1, FS_Interval
<1>4. /\ IsFiniteSet(CandleRows(m))
      /\ Cardinality(CandleRows(m)) = Cardinality(low..t)
  BY <1>2, <1>3, TaggedCount DEF CandleRows
<1>5. Cardinality(CandleRows(m)) \in Nat
  BY <1>4, FS_CardinalityType
<1>6. t - f > 0 => Cardinality(CandleRows(m)) = t - f + (IF o < Start THEN 1 ELSE 0)
  BY <1>1, <1>3, <1>4
<1>7. Minutes(m) \subseteq Start..End
  <2>1. low..t \subseteq Start..End
    BY <1>1, Ranges
  <2> QED BY <1>2, <2>1
<1>8. Contracts!Due(m) \subseteq CandleRows(m)
  BY DEF Contracts!Due, CandleRows, Minutes
<1>9. Contracts!Candles(m) \subseteq CandleRows(m)
  BY DEF Contracts!Candles, CandleRows, Minutes
<1>10. ASSUME began \in 0..now, now \in Nat
       PROVE  Contracts!Due(m) \subseteq Contracts!Candles(m)
  <2>1. \A i \in Contracts!Open(m) + 1..Contracts!Close(m) : i <= began => i <= now
    BY <1>1, <1>10
  <2> QED BY <2>1 DEF Contracts!Due, Contracts!Candles
<1> QED BY <1>4, <1>5, <1>6, <1>7, <1>8, <1>9, <1>10

\* The stored rows a count is of are the market's in range.
LEMMA StoredAre ==
  ASSUME ContractRows, NEW m \in Contracts!Markets
  PROVE  /\ StoredOf(m) = stored \cap CandleRows(m)
         /\ IsFiniteSet(StoredOf(m)) /\ Cardinality(StoredOf(m)) \in Nat
         /\ Contracts!CandleCounts[m] = Cardinality(StoredOf(m))
<1>1. ASSUME NEW r \in StoredOf(m)
      PROVE  r \in CandleRows(m)
  <2>1. PICK n \in Contracts!Markets : r \in CandleRows(n)
    BY DEF ContractRows, StoredOf
  <2> QED BY <2>1 DEF CandleRows, StoredOf
<1>2. ASSUME NEW r \in CandleRows(m), r \in stored
      PROVE  r \in StoredOf(m)
  <2>1. PICK t \in Minutes(m) : r = <<m, t>>
    BY DEF CandleRows
  <2>2. t \in Start..End
    BY RowsOfMarket
  <2> QED BY <1>2, <2>1, <2>2, Ranges DEF StoredOf
<1>3. StoredOf(m) = stored \cap CandleRows(m)
  <2>1. StoredOf(m) \subseteq stored
    BY DEF StoredOf
  <2> QED BY <1>1, <1>2, <2>1
<1>4. StoredOf(m) \in SUBSET CandleRows(m)
  BY <1>3
<1>5. IsFiniteSet(StoredOf(m)) /\ Cardinality(StoredOf(m)) \in Nat
  BY <1>4, RowsOfMarket, FS_Subset, FS_CardinalityType
<1>6. Contracts!CandleCounts[m] = Cardinality(StoredOf(m))
  BY SameCounting DEF Contracts!CandleCounts, StoredOf
<1> QED BY <1>3, <1>5, <1>6

\* What is covered stays so while nothing is unmade.
LEMMA CandlesStay ==
  ASSUME NEW m \in Contracts!Markets, ContractCovered(m), began' = began,
         stored \subseteq stored',
         stored \cup queued \cup lost \subseteq stored' \cup queued' \cup lost'
  PROVE  ContractCovered(m)'
<1>1. Contracts!Due(m)' = Contracts!Due(m)
  BY DEF Contracts!Due
<1> PICK D : D = Contracts!Due(m)
  OBVIOUS
<1>2. IsFiniteSet(D)
  BY RowsOfMarket, FS_Subset
<1>3. /\ IsFiniteSet(D \ stored) /\ Cardinality(D \ stored') <= Cardinality(D \ stored)
      /\ Cardinality(D \ stored) \in Nat /\ Cardinality(D \ stored') \in Nat
  <2>1. IsFiniteSet(D \ stored) /\ D \ stored' \in SUBSET (D \ stored)
    BY <1>2, FS_Difference
  <2> QED BY <2>1, FS_Subset, FS_CardinalityType
<1> PICK a, b : a = Cardinality(D \ stored) /\ b = Cardinality(D \ stored')
  OBVIOUS
<1>4. a \in Nat /\ b \in Nat /\ b <= a
  BY <1>3
<1>5. a <= (IF Contracts!Open(m) < Start THEN 1 ELSE 0)
        => b <= (IF Contracts!Open(m) < Start THEN 1 ELSE 0)
  BY <1>4
<1> QED BY <1>1, <1>5 DEF ContractCovered

\* A market is complete only if all that is due but one candle is stored, and
\* that one only if it opened before the range.
LEMMA CompleteCovers ==
  ASSUME ContractInv, NEW m \in Contracts!Markets,
         Contracts!CandlesComplete(existing[m], m, now)
  PROVE  ContractCovered(m)
<1> DEFINE R == CandleRows(m)
           D == Contracts!Due(m)
           S == stored \cap R
           one == IF Contracts!Open(m) < Start THEN 1 ELSE 0
           expected == Contracts!To(m) - Contracts!From(m)
<1>1. /\ IsFiniteSet(R) /\ Cardinality(R) \in Nat /\ D \subseteq R
      /\ expected > 0 => Cardinality(R) = expected + one
  BY RowsOfMarket
<1>2. /\ expected > 0 /\ existing[m] >= expected
      /\ expected \in Int
  BY MarketTimes DEF Contracts!CandlesComplete
<1>3. /\ IsFiniteSet(S) /\ Cardinality(S) \in Nat
      /\ existing[m] \in Nat /\ existing[m] <= Cardinality(S)
  BY StoredAre DEF ContractInv, ContractExisting
<1>4. one \in {0, 1}
  OBVIOUS
<1> HIDE DEF R, D, one, expected
<1>5. D \ stored \in SUBSET (R \ S) /\ R \cap S = S
  BY <1>1
<1> HIDE DEF S
<1>6. IsFiniteSet(R \ S) /\ Cardinality(R \ S) = Cardinality(R) - Cardinality(S)
  BY <1>1, <1>5, FS_Difference
<1>7. /\ IsFiniteSet(D \ stored) /\ Cardinality(D \ stored) <= Cardinality(R \ S)
      /\ Cardinality(D \ stored) \in Nat
  BY <1>5, <1>6, FS_Subset, FS_CardinalityType
<1>8. Cardinality(D \ stored) <= one
  BY <1>1, <1>2, <1>3, <1>4, <1>6, <1>7
<1> QED BY <1>8 DEF ContractCovered, D, one

\* The market at hand is one of those found, and done with it is no longer.
LEMMA CurrentIs ==
  ASSUME ContractFound, found # {}
  PROVE  /\ Contracts!Current \in Contracts!Todo
         /\ Contracts!Current \in Contracts!Markets
         /\ Contracts!MarketDone =>
              /\ found' \subseteq found
              /\ Contracts!Todo' = Contracts!Todo \ {Contracts!Current}
<1>1. Contracts!Todo \in SUBSET Contracts!Markets /\ Contracts!Todo # {}
  BY DEF ContractFound, Contracts!Todo
<1>2. Contracts!Todo \in SUBSET Nat
  BY <1>1, MarketTimes
<1>3. \E x \in Contracts!Todo : \A y \in Contracts!Todo : x <= y
  BY <1>1, <1>2, LeastOf
<1>4. Contracts!Current \in Contracts!Todo
  <2> HIDE DEF Contracts!Todo
  <2> QED BY <1>3 DEF Contracts!Current, Contracts!Min
<1>5. ASSUME Contracts!MarketDone
      PROVE  /\ found' \subseteq found
             /\ Contracts!Todo' = Contracts!Todo \ {Contracts!Current}
  <2> PICK c : c = Contracts!Current
    OBVIOUS
  <2>1. found' = {f \in found : f[1] # c}
    BY <1>5 DEF Contracts!MarketDone
  <2> QED BY <2>1 DEF Contracts!Todo
<1> QED BY <1>1, <1>4, <1>5

-----------------------------------------------------------------------------
(* A `contracts` job: what its steps keep.                                 *)

LEMMA NoCandlesCounted ==
  ASSUME ContractRows, existing = Contracts!NoCounts
  PROVE  ContractExisting
<1>1. \A m \in Contracts!Markets : Cardinality(StoredOf(m)) \in Nat
  BY StoredAre
<1> QED BY <1>1 DEF ContractExisting, Contracts!NoCounts

LEMMA InitContracts == Contracts!Init => ContractInv /\ ContractListed
<1> SUFFICES ASSUME Contracts!Init PROVE ContractInv /\ ContractListed
  OBVIOUS
<1>1. ContractTimes
  BY Ranges DEF Contracts!Init, ContractTimes
<1>2. ContractRows /\ ContractFound
  BY DEF Contracts!Init, ContractRows, ContractFound
<1>3. ContractControl
  <2>1. archived \subseteq Contracts!Markets
    BY DEF Contracts!Init
  <2> QED BY <2>1, Ranges DEF Contracts!Init, ContractControl, Contracts!Tiers
<1>4. ContractExisting
  BY <1>2, NoCandlesCounted DEF Contracts!Init
<1>5. ContractListed
  BY DEF Contracts!Init, ContractListed
<1> QED BY <1>1, <1>2, <1>3, <1>4, <1>5 DEF ContractInv

\* The counts stay right while nothing stored is unmade.
LEMMA CandleCountsStay ==
  ASSUME ContractRows, ContractRows', ContractExisting, existing' = existing,
         stored \subseteq stored'
  PROVE  ContractExisting'
<1> SUFFICES ASSUME NEW m \in Contracts!Markets
             PROVE  existing[m] <= Cardinality(StoredOf(m)')
  BY DEF ContractExisting
<1> PICK A, B : A = StoredOf(m) /\ B = StoredOf(m)'
  OBVIOUS
<1>1. IsFiniteSet(A) /\ Cardinality(A) \in Nat
  BY StoredAre
<1>2. IsFiniteSet(B) /\ Cardinality(B) \in Nat
  <2>1. B = stored' \cap CandleRows(m)
    <3>1. ASSUME NEW r \in B PROVE r \in CandleRows(m)
      <4>1. PICK n \in Contracts!Markets : r \in CandleRows(n)
        BY DEF ContractRows, StoredOf
      <4> QED BY <4>1 DEF CandleRows, StoredOf
    <3>2. ASSUME NEW r \in CandleRows(m), r \in stored' PROVE r \in B
      <4>1. PICK t \in Minutes(m) : r = <<m, t>>
        BY DEF CandleRows
      <4>2. t \in Start..End
        BY RowsOfMarket
      <4> QED BY <3>2, <4>1, <4>2, Ranges DEF StoredOf
    <3> QED BY <3>1, <3>2 DEF StoredOf
  <2> QED BY <2>1, RowsOfMarket, FS_Intersection, FS_CardinalityType
<1>3. A \in SUBSET B
  BY DEF StoredOf
<1>4. Cardinality(A) <= Cardinality(B)
  BY <1>2, <1>3, FS_Subset
<1>5. existing[m] \in Nat /\ existing[m] <= Cardinality(A)
  BY DEF ContractExisting
<1> QED BY <1>1, <1>2, <1>4, <1>5

\* Kalshi, the writer and the clock.
LEMMA OutsideKeeps ==
  ASSUME ContractInv,
         Contracts!KalshiStep \/ Contracts!WriterStep \/ Contracts!Tick
  PROVE  /\ ContractInv'
         /\ UNCHANGED <<cut, tiers, page, found, pc, existing, status, cursor, began>>
         /\ stored \subseteq stored' /\ cutoff \in Nat /\ cutoff' \in Nat /\ cutoff <= cutoff'
         /\ stored \cup queued \cup lost \subseteq stored' \cup queued' \cup lost'
<1>1. /\ UNCHANGED <<cut, tiers, page, found, pc, existing, status, cursor, began, jobs>>
      /\ stored \subseteq stored'
      /\ stored \cup queued \cup lost \subseteq stored' \cup queued' \cup lost'
      /\ stored' \cup queued' \cup lost' \subseteq stored \cup queued \cup lost
  <2>1. CASE Contracts!KalshiStep \/ Contracts!Tick
    BY <2>1 DEF Contracts!KalshiStep, Contracts!CutoffMoves, Contracts!Archive,
                Contracts!Tick, Contracts!table, Contracts!listing
  <2>2. CASE Contracts!WriterStep
    BY <2>2 DEF Contracts!WriterStep, Contracts!FlushOk, Contracts!FlushFails,
                Contracts!UpTo, Contracts!listing
  <2> QED BY <2>1, <2>2
<1>2. ContractTimes' /\ cutoff \in Nat /\ cutoff' \in Nat /\ cutoff <= cutoff'
  <2>1. /\ now \in 0..MaxNow /\ began \in 0..now /\ cutoff \in 0..now /\ cut \in 0..cutoff
    BY DEF ContractInv, ContractTimes
  <2>2. CASE UNCHANGED <<now, cutoff>>
    BY <1>1, <2>1, <2>2 DEF ContractTimes
  <2>3. CASE Contracts!Tick
    BY <1>1, <2>1, <2>3, Ranges DEF Contracts!Tick, Contracts!kalshi, ContractTimes
  <2>4. ASSUME NEW c \in 0..MaxNow, Contracts!CutoffMoves(c)
        PROVE  ContractTimes' /\ cutoff \in Nat /\ cutoff' \in Nat /\ cutoff <= cutoff'
    BY <1>1, <2>1, <2>4, Ranges DEF Contracts!CutoffMoves, ContractTimes
  <2> QED BY <2>1, <2>2, <2>3, <2>4
          DEF Contracts!KalshiStep, Contracts!Archive, Contracts!WriterStep,
              Contracts!FlushOk, Contracts!FlushFails, Contracts!kalshi
<1>3. archived' \subseteq Contracts!Markets
  BY DEF ContractInv, ContractControl, Contracts!KalshiStep, Contracts!CutoffMoves,
         Contracts!Archive, Contracts!WriterStep, Contracts!FlushOk,
         Contracts!FlushFails, Contracts!Tick, Contracts!kalshi
<1>4. ContractControl'
  BY <1>1, <1>3 DEF ContractInv, ContractControl
<1>5. ContractRows' /\ ContractFound'
  BY <1>1 DEF ContractInv, ContractRows, ContractFound
<1>6. ContractExisting'
  BY <1>1, <1>5, CandleCountsStay DEF ContractInv
<1> QED BY <1>1, <1>2, <1>4, <1>5, <1>6 DEF ContractInv

\* The steps of a job that touch no market found.
LEMMA ControlKeeps ==
  ASSUME ContractInv,
         \/ Contracts!ReadCutoff \/ Contracts!Listed \/ Contracts!ReadCounts
         \/ Contracts!Finish \/ Contracts!CallFails \/ Contracts!Resubmit
  PROVE  ContractInv'
<1>1. /\ ContractTimes /\ ContractRows /\ ContractControl /\ ContractFound
      /\ ContractExisting
  BY DEF ContractInv
<1>2. /\ UNCHANGED <<now, cutoff, archived, stored, queued>>
      /\ lost' = lost \/ lost' = {}
      /\ found' = found \/ found' = {}
      /\ began' = began \/ began' = now
      /\ cut' \in {cut, cutoff, 0}
      /\ existing' = existing \/ existing' = Contracts!NoCounts
           \/ existing' = Contracts!CandleCounts
  BY DEF Contracts!ReadCutoff, Contracts!Listed, Contracts!ReadCounts,
         Contracts!Finish, Contracts!CallFails, Contracts!Resubmit,
         Contracts!table, Contracts!kalshi, Contracts!listing
<1>3. ContractTimes'
  BY <1>1, <1>2 DEF ContractTimes
<1>4. ContractRows' /\ ContractFound'
  BY <1>1, <1>2 DEF ContractRows, ContractFound
<1>5. ContractExisting'
  <2>1. \A m \in Contracts!Markets : StoredOf(m)' = StoredOf(m)
    BY <1>2 DEF StoredOf
  <2>2. \A m \in Contracts!Markets : Cardinality(StoredOf(m)) \in Nat
    BY <1>1, StoredAre
  <2>3. CASE existing' = existing
    BY <1>1, <2>1, <2>3 DEF ContractExisting
  <2>4. CASE existing' = Contracts!NoCounts
    BY <2>1, <2>2, <2>4 DEF ContractExisting, Contracts!NoCounts
  <2>5. CASE existing' = Contracts!CandleCounts
    <3>1. \A m \in Contracts!Markets :
            Contracts!CandleCounts[m] = Cardinality(StoredOf(m))
      BY <1>1, StoredAre
    <3>2. Contracts!CandleCounts \in [Contracts!Markets -> Nat]
      <4>1. Contracts!CandleCounts
              = [m \in Contracts!Markets |-> Contracts!CandleCounts[m]]
        BY DEF Contracts!CandleCounts
      <4> HIDE DEF Contracts!CandleCounts
      <4> QED BY <2>2, <3>1, <4>1
    <3> QED BY <2>1, <2>2, <2>5, <3>1, <3>2 DEF ContractExisting
  <2> QED BY <1>2, <2>3, <2>4, <2>5
<1>6. ContractControl'
  <2>1. CASE Contracts!ReadCutoff
    <3>1. Contracts!TiersOf(cutoff) \subseteq Contracts!Tiers /\ Count \in 0..Count
      BY Ranges DEF Contracts!TiersOf
    <3> QED BY <1>1, <2>1, <3>1
            DEF Contracts!ReadCutoff, ContractControl, Contracts!table, Contracts!kalshi
  <2>2. CASE Contracts!Listed \/ Contracts!ReadCounts \/ Contracts!CallFails
    BY <1>1, <2>2
       DEF Contracts!Listed, Contracts!ReadCounts, Contracts!CallFails, ContractControl,
           Contracts!table, Contracts!kalshi, Contracts!listing
  <2>3. CASE Contracts!Finish
    <3>1. found = {} /\ End \in Start..End
      BY <2>3, Ranges DEF Contracts!Finish, Contracts!Todo
    <3> QED BY <1>1, <2>3, <3>1
            DEF Contracts!Finish, ContractControl, Contracts!table, Contracts!kalshi,
                Contracts!listing
  <2>4. CASE Contracts!Resubmit
    <3>1. /\ Start \in Start..End /\ Count \in 0..Count /\ jobs' \in 0..MaxJobs
      BY <1>1, <2>4, Ranges DEF Contracts!Resubmit, ContractControl
    <3> QED BY <1>1, <2>4, <3>1
            DEF Contracts!Resubmit, ContractControl, Contracts!kalshi
  <2> QED BY <2>1, <2>2, <2>3, <2>4
<1> QED BY <1>3, <1>4, <1>5, <1>6 DEF ContractInv

\* The cursor of the next page is one of a market listed, or the last.
LEMMA OlderIs ==
  ASSUME NEW got \in SUBSET Contracts!Markets
  PROVE  /\ Contracts!Older(got) \in 0..Count
         /\ \A m \in got : Contracts!Older(got) <= m
         /\ got # {} => Contracts!Older(got) \in got
<1>1. CASE got = {}
  BY <1>1, Ranges DEF Contracts!Older
<1>2. CASE got # {}
  <2>1. got \in SUBSET Nat /\ \A m \in got : m \in 0..Count
    BY MarketTimes, Ranges
  <2>2. \E x \in got : \A y \in got : x <= y
    BY <1>2, <2>1, LeastOf
  <2>3. Contracts!Older(got) \in got /\ \A y \in got : Contracts!Older(got) <= y
    BY <1>2, <2>2 DEF Contracts!Older, Contracts!Min
  <2> QED BY <2>1, <2>3
<1> QED BY <1>1, <1>2

\* A page of a listing.
LEMMA ListPageKeeps ==
  ASSUME ContractInv, Contracts!ListPage
  PROVE  ContractInv'
<1> DEFINE tier == Contracts!CurrentTier
           got == Contracts!PageOf(Contracts!Listing(tier), page)
<1>1. /\ ContractTimes /\ ContractRows /\ ContractControl /\ ContractFound
      /\ ContractExisting
  BY DEF ContractInv
<1>2. /\ pc = "list"
      /\ UNCHANGED <<now, cutoff, archived, stored, queued, lost, pc, cut, existing,
                     status, cursor, began, jobs>>
      /\ found' = found \cup
           {<<m, tier>> : m \in {m \in got \ BadMarkets :
              Contracts!Overlaps(m) /\ \A f \in found : f[1] # m}}
      /\ page' \in {Count, Contracts!Older(got)}
      /\ tiers' \subseteq tiers
  BY DEF Contracts!ListPage, Contracts!table, Contracts!kalshi
<1>3. got \in SUBSET Contracts!Markets /\ tier \in Contracts!Tiers
  BY DEF Contracts!PageOf, Contracts!Listing, Contracts!CurrentTier, Contracts!Tiers
<1>4. page' \in 0..Count
  BY <1>2, <1>3, OlderIs, Ranges
<1> HIDE DEF got, tier
<1>5. ContractFound'
  BY <1>1, <1>2, <1>3 DEF ContractFound
<1>6. ContractTimes' /\ ContractRows'
  BY <1>1, <1>2 DEF ContractTimes, ContractRows
<1>7. ContractControl'
  BY <1>1, <1>2, <1>4 DEF ContractControl
<1>8. ContractExisting'
  BY <1>1, <1>2, <1>6, CandleCountsStay
<1> QED BY <1>5, <1>6, <1>7, <1>8 DEF ContractInv

\* Done with a market, the cursor is where it ended, or where it was.
LEMMA DoneKeeps ==
  ASSUME ContractInv, Contracts!MarketDone, found # {}, status = "running",
         UNCHANGED <<now, cutoff, archived, stored, lost, cut, tiers, page,
                     existing, status, began, jobs>>,
         pc' = "market",
         queued' = queued \/ queued' = queued \cup Contracts!Candles(Contracts!Current)
  PROVE  /\ ContractInv'
         /\ cursor \in Nat /\ cursor' \in Nat /\ cursor <= cursor'
<1>1. /\ ContractTimes /\ ContractRows /\ ContractControl /\ ContractFound
      /\ ContractExisting
  BY DEF ContractInv
<1>2. PICK m \in Contracts!Markets : m = Contracts!Current
  BY <1>1, CurrentIs
<1>3. cursor \in Start..End /\ cursor' = Contracts!Higher(cursor, Contracts!To(m))
  BY <1>1, <1>2 DEF ContractControl, Contracts!MarketDone
<1>4. cursor' \in Start..End /\ cursor <= cursor'
  BY <1>3, MarketTimes, Ranges DEF Contracts!Higher
<1>5. ContractRows'
  BY <1>1, <1>2, RowsOfMarket DEF ContractRows
<1>6. ContractFound'
  BY <1>1, CurrentIs DEF ContractFound
<1>7. ContractTimes'
  BY <1>1 DEF ContractTimes
<1>8. ContractControl'
  BY <1>1, <1>4 DEF ContractControl
<1>9. ContractExisting'
  BY <1>1, <1>5, CandleCountsStay
<1> QED BY <1>3, <1>4, <1>5, <1>6, <1>7, <1>8, <1>9, Ranges DEF ContractInv

\* A step over a market, skipped or fetched: it is done, or was not there.
GoesBy ==
  /\ found # {} /\ status = "running" /\ pc \in {"market", "retry"} /\ pc' = "market"
  /\ Contracts!MarketDone
  /\ UNCHANGED <<now, cutoff, archived, stored, lost, cut, tiers, page,
                 existing, status, began, jobs>>
  /\ \/ queued' = queued \cup Contracts!Candles(Contracts!Current)
     \/ /\ queued' = queued
        /\ Contracts!CandlesComplete(existing[Contracts!Current], Contracts!Current, now)

NotThere ==
  /\ found # {}
  /\ UNCHANGED <<now, cutoff, archived, stored, queued, lost, cut, tiers, page, found,
                 existing, cursor, began, jobs>>
  /\ \/ pc = "market" /\ pc' = "retry" /\ UNCHANGED status
     \/ pc = "retry" /\ pc' = "over" /\ status' = "failed"

LEMMA MarketStep ==
  ASSUME ContractInv, Contracts!Skip \/ Contracts!Fetch \/ Contracts!FetchOther
  PROVE  GoesBy \/ NotThere
<1>1. ContractControl
  BY DEF ContractInv
<1>2. Contracts!Todo # {} => found # {}
  BY DEF Contracts!Todo
<1>3. CASE Contracts!Skip
  BY <1>1, <1>2, <1>3
     DEF Contracts!Skip, GoesBy, ContractControl, Contracts!table, Contracts!kalshi
<1>4. CASE Contracts!Fetch
  BY <1>1, <1>2, <1>4
     DEF Contracts!Fetch, Contracts!FetchFrom, GoesBy, NotThere, ContractControl,
         Contracts!kalshi
<1>5. CASE Contracts!FetchOther
  BY <1>1, <1>2, <1>5
     DEF Contracts!FetchOther, Contracts!FetchFrom, GoesBy, NotThere, ContractControl,
         Contracts!kalshi
<1> QED BY <1>3, <1>4, <1>5

LEMMA MarketStepKeeps ==
  ASSUME ContractInv, GoesBy \/ NotThere
  PROVE  ContractInv'
<1>1. CASE GoesBy
  BY <1>1, DoneKeeps DEF GoesBy
<1>2. CASE NotThere
  <2>1. /\ ContractTimes /\ ContractRows /\ ContractControl /\ ContractFound
        /\ ContractExisting
    BY DEF ContractInv
  <2>2. ContractTimes' /\ ContractRows' /\ ContractFound'
    BY <1>2, <2>1 DEF NotThere, ContractTimes, ContractRows, ContractFound
  <2>3. ContractControl'
    BY <1>2, <2>1 DEF NotThere, ContractControl
  <2>4. ContractExisting'
    BY <1>2, <2>1, <2>2, CandleCountsStay DEF NotThere
  <2> QED BY <2>2, <2>3, <2>4 DEF ContractInv
<1> QED BY <1>1, <1>2

LEMMA NextContracts == ContractInv /\ Contracts!Next => ContractInv'
<1> SUFFICES ASSUME ContractInv, Contracts!Next PROVE ContractInv'
  OBVIOUS
<1>1. \/ Contracts!KalshiStep \/ Contracts!WriterStep \/ Contracts!Tick
      \/ Contracts!ReadCutoff \/ Contracts!Listed \/ Contracts!ReadCounts
      \/ Contracts!Finish \/ Contracts!CallFails \/ Contracts!Resubmit
      \/ Contracts!ListPage
      \/ Contracts!Skip \/ Contracts!Fetch \/ Contracts!FetchOther
  BY DEF Contracts!Next, Contracts!JobStep, Contracts!Progress
<1> QED BY <1>1, OutsideKeeps, ControlKeeps, ListPageKeeps, MarketStep, MarketStepKeeps

\* The invariant gives every variable its type.
LEMMA ContractTypes == ContractInv => Contracts!TypeOK
<1> SUFFICES ASSUME ContractInv PROVE Contracts!TypeOK
  OBVIOUS
<1>1. /\ ContractTimes /\ ContractRows /\ ContractControl /\ ContractFound
      /\ ContractExisting
  BY DEF ContractInv
<1>2. cut \in 0..now
  BY <1>1, Ranges DEF ContractTimes
<1>3. ASSUME NEW m \in Contracts!Markets, NEW r \in CandleRows(m)
      PROVE  r \in Contracts!Rows
  <2>1. PICK t \in Minutes(m) : r = <<m, t>>
    BY DEF CandleRows
  <2>2. t \in Start..End
    BY RowsOfMarket
  <2> QED BY <2>1, <2>2 DEF Contracts!Rows
<1>4. stored \subseteq Contracts!Rows /\ queued \subseteq Contracts!Rows
      /\ lost \subseteq Contracts!Rows
  BY <1>1, <1>3 DEF ContractRows
<1>5. ASSUME NEW m \in Contracts!Markets
      PROVE  existing[m] \in 0..End - Start + 1
  <2>1. StoredOf(m) \in SUBSET {<<m, t>> : t \in Start..End}
    <3>1. StoredOf(m) = stored \cap CandleRows(m)
      BY <1>1, StoredAre
    <3>2. CandleRows(m) \subseteq {<<m, t>> : t \in Start..End}
      BY RowsOfMarket DEF CandleRows
    <3> QED BY <3>1, <3>2
  <2>2. /\ IsFiniteSet(Start..End)
        /\ Cardinality(Start..End) = End - Start + 1
    <3>1. Start \in Int /\ End \in Int /\ ~(Start > End)
      BY Ranges
    <3> QED BY <3>1, FS_Interval
  <2>3. /\ IsFiniteSet({<<m, t>> : t \in Start..End})
        /\ Cardinality({<<m, t>> : t \in Start..End}) = End - Start + 1
    <3> PICK S : S = Start..End
      OBVIOUS
    <3>1. IsFiniteSet(S)
      BY <2>2
    <3>2. /\ IsFiniteSet({<<m, t>> : t \in S})
          /\ Cardinality({<<m, t>> : t \in S}) = Cardinality(S)
      BY <3>1, TaggedCount
    <3> QED BY <2>2, <3>2
  <2>4. /\ Cardinality(StoredOf(m)) \in Nat
        /\ Cardinality(StoredOf(m)) <= End - Start + 1
    <3> PICK T : T = {<<m, t>> : t \in Start..End}
      OBVIOUS
    <3>1. IsFiniteSet(T) /\ StoredOf(m) \in SUBSET T /\ Cardinality(T) = End - Start + 1
      BY <2>1, <2>3
    <3> QED BY <3>1, FS_Subset, FS_CardinalityType
  <2> QED BY <1>1, <2>4, Ranges DEF ContractExisting
<1>6. existing \in [Contracts!Markets -> 0..End - Start + 1]
  BY <1>1, <1>5 DEF ContractExisting
<1> QED BY <1>1, <1>2, <1>4, <1>6
        DEF ContractTimes, ContractControl, ContractFound, Contracts!TypeOK

ContractsHold == part = "contracts" => ContractInv

LEMMA ContractsHoldAlways == IngestSpec => []ContractsHold
<1>1. IngestInit => ContractsHold
  BY InitContracts DEF IngestInit, ContractsHold
<1>2. ContractsHold /\ [CallPart \/ IndexPart \/ ContractsPart]_allVars => ContractsHold'
  <2> SUFFICES ASSUME ContractsHold, part' = "contracts",
                      [CallPart \/ IndexPart \/ ContractsPart]_allVars
               PROVE  ContractInv'
    BY DEF ContractsHold
  <2>1. CASE ContractsPart
    BY <2>1, NextContracts DEF ContractsHold, ContractsPart
  <2>2. CASE UNCHANGED allVars
    <3>1. ContractInv
      BY <2>2 DEF ContractsHold, allVars
    <3> QED BY <2>2, <3>1
            DEF ContractInv, ContractTimes, ContractRows, ContractControl, ContractFound,
                ContractExisting, StoredOf, allVars, jobVars, contractVars
  <2> QED BY <2>1, <2>2 DEF CallPart, IndexPart
<1> QED BY <1>1, <1>2, PTL DEF IngestSpec

(***************************************************************************)
(* An ingest task never leaves its types, whichever of its parts it is: a  *)
(* call's counters and delays are those of the code's times, a job's       *)
(* cursor stays in its range, and nothing is stored but rows of it.        *)
(***************************************************************************)
THEOREM TaskTypes == IngestSpec => []PartTypeOK
<1> DEFINE PartOK == part \in {"call", "index", "contracts"}
<1>1. IngestInit => PartOK
  BY DEF IngestInit
<1>2. PartOK /\ [CallPart \/ IndexPart \/ ContractsPart]_allVars => PartOK'
  BY DEF CallPart, IndexPart, ContractsPart, allVars
<1>3. PartOK /\ CallHolds /\ IndexHolds /\ ContractsHold => PartTypeOK
  <2> SUFFICES ASSUME PartOK, CallHolds, IndexHolds, ContractsHold
               PROVE  PartTypeOK
    OBVIOUS
  <2>1. CASE part = "call"
    BY <2>1 DEF CallHolds, CallInv, PartTypeOK
  <2>2. CASE part = "index"
    BY <2>2, IndexTypes DEF IndexHolds, PartTypeOK
  <2>3. CASE part = "contracts"
    BY <2>3, ContractTypes DEF ContractsHold, PartTypeOK
  <2> QED BY <2>1, <2>2, <2>3
<1> HIDE DEF PartOK
<1> QED BY <1>1, <1>2, <1>3, CallHoldsAlways, IndexHoldsAlways, ContractsHoldAlways, PTL
        DEF IngestSpec

\* What each step of a `contracts` job is to whoever polls it.
LEMMA ContractStepIsJob ==
  ASSUME ContractInv, Contracts!Next, part = "contracts", part' = "contracts"
  PROVE  [\/ ContractsJob!Advance \/ ContractsJob!Finish
          \/ ContractsJob!Fail \/ ContractsJob!Again]_<<cursor, status>>
<1>1. /\ cursor \in Nat /\ cursor <= End /\ End \in Nat
      /\ status = "running" <=> pc # "over"
  BY Ranges DEF ContractInv, ContractControl
<1>2. CASE UNCHANGED <<cursor, status>>
  BY <1>2
<1>3. CASE GoesBy
  <2>1. cursor <= cursor' /\ cursor' \in Nat
    BY <1>3, DoneKeeps DEF GoesBy
  <2> QED BY <1>1, <1>3, <2>1 DEF GoesBy, ContractsJob!Advance
<1>4. CASE NotThere
  BY <1>1, <1>4 DEF NotThere, ContractsJob!Fail
<1>5. CASE Contracts!Finish
  BY <1>1, <1>5 DEF Contracts!Finish, ContractsJob!Finish
<1>6. CASE Contracts!CallFails
  BY <1>1, <1>6 DEF Contracts!CallFails, ContractsJob!Fail
<1>7. CASE Contracts!Resubmit
  BY <1>1, <1>7 DEF Contracts!Resubmit, ContractsJob!Again
<1>8. CASE Contracts!KalshiStep \/ Contracts!WriterStep \/ Contracts!Tick
  BY <1>2, <1>8, OutsideKeeps
<1>9. CASE \/ Contracts!ReadCutoff \/ Contracts!ListPage \/ Contracts!Listed
           \/ Contracts!ReadCounts
  BY <1>2, <1>9
     DEF Contracts!ReadCutoff, Contracts!ListPage, Contracts!Listed, Contracts!ReadCounts
<1> QED BY <1>3, <1>4, <1>5, <1>6, <1>7, <1>8, <1>9, MarketStep
        DEF Contracts!Next, Contracts!JobStep, Contracts!Progress

(***************************************************************************)
(* A `contracts` job moves its cursor only forward and is done exactly at  *)
(* the end of its range, for any markets, cutoff and pages, however many   *)
(* of them cannot be read (controllers/ingest.rs:300-328, 528, 564, 569).  *)
(***************************************************************************)
THEOREM ContractsImplementJob == IngestSpec => ContractsIsJob
<1> DEFINE c == IF part = "contracts" THEN cursor ELSE Start
           s == IF part = "contracts" THEN status ELSE "running"
<1>1. IngestInit => ContractsJob!JobInit
  BY DEF IngestInit, ContractsJob!JobInit, Contracts!Init
<1>2. ContractsHold /\ [CallPart \/ IndexPart \/ ContractsPart]_allVars
        => [\/ ContractsJob!Advance \/ ContractsJob!Finish
            \/ ContractsJob!Fail \/ ContractsJob!Again]_<<c, s>>
  <2> SUFFICES ASSUME ContractsHold, [CallPart \/ IndexPart \/ ContractsPart]_allVars
               PROVE  [\/ ContractsJob!Advance \/ ContractsJob!Finish
                       \/ ContractsJob!Fail \/ ContractsJob!Again]_<<c, s>>
    OBVIOUS
  <2>1. CASE CallPart \/ IndexPart
    BY <2>1 DEF CallPart, IndexPart
  <2>2. CASE UNCHANGED allVars
    BY <2>2 DEF allVars, jobVars
  <2>3. CASE ContractsPart
    <3>1. part = "contracts" /\ part' = "contracts" /\ Contracts!Next /\ ContractInv
      BY <2>3 DEF ContractsPart, ContractsHold
    <3>2. [\/ ContractsJob!Advance \/ ContractsJob!Finish
           \/ ContractsJob!Fail \/ ContractsJob!Again]_<<cursor, status>>
      BY <3>1, ContractStepIsJob
    <3> QED BY <3>1, <3>2
  <2> QED BY <2>1, <2>2, <2>3
<1> QED BY <1>1, <1>2, ContractsHoldAlways, PTL
        DEF IngestSpec, ContractsIsJob, ContractsJob!JobSpec

-----------------------------------------------------------------------------
(* A `contracts` job: what its listings find.                              *)

\* A market that stays in its listing so far did before.
LEMMA StaysListed ==
  ASSUME ContractInv, cut' = cut, cutoff' \in Nat, cutoff <= cutoff',
         NEW m \in Contracts!WentThrough'
  PROVE  m \in Contracts!WentThrough
<1>1. /\ m \in Contracts!Markets /\ m \notin BadMarkets /\ Contracts!Overlaps(m)
      /\ Contracts!ListedIn(m, cut) = Contracts!ListedIn(m, cutoff')
      /\ Contracts!ListedIn(m, cut) \in Contracts!TiersOf(cut)
  BY DEF Contracts!WentThrough
<1>2. Contracts!Settled(m) \in Nat
  BY <1>1, MarketTimes
<1>3. cut \in Nat /\ cutoff \in Nat /\ cut <= cutoff
  BY Ranges DEF ContractInv, ContractTimes
<1>4. Contracts!ListedIn(m, cut) = Contracts!ListedIn(m, cutoff)
  BY <1>1, <1>2, <1>3 DEF Contracts!ListedIn
<1> QED BY <1>1, <1>4 DEF Contracts!WentThrough

\* Nothing the listings were to find is lost while the job stays where it is.
LEMMA ListedStays ==
  ASSUME ContractInv, ContractListed,
         UNCHANGED <<cut, tiers, page, found, pc, status, began>>,
         stored \subseteq stored', cutoff' \in Nat, cutoff <= cutoff',
         stored \cup queued \cup lost \subseteq stored' \cup queued' \cup lost'
  PROVE  ContractListed'
<1> SUFFICES ASSUME NEW m \in Contracts!WentThrough'
             PROVE  /\ /\ pc = "list"
                       /\ \/ Contracts!ListedIn(m, cut) \notin tiers
                          \/ Contracts!ListedIn(m, cut) = Contracts!CurrentTier /\ m >= page
                       => m \in Contracts!Todo
                    /\ pc = "counts" => m \in Contracts!Todo
                    /\ pc \in {"market", "retry"} \/ status = "done" =>
                         m \in Contracts!Todo \/ ContractCovered(m)'
  BY DEF ContractListed, Contracts!CurrentTier, Contracts!Todo
<1>1. m \in Contracts!WentThrough
  BY StaysListed
<1>2. m \in Contracts!Markets
  BY <1>1 DEF Contracts!WentThrough
<1>3. ContractCovered(m) => ContractCovered(m)'
  BY <1>2, CandlesStay
<1> QED BY <1>1, <1>3 DEF ContractListed

\* A page holds every market of the listing that is as new as one on it.
LEMMA PageReaches ==
  ASSUME NEW L \in SUBSET Contracts!Markets, NEW p \in 0..Count,
         NEW g \in Contracts!PageOf(L, p), NEW m \in L, m < p, g <= m
  PROVE  m \in Contracts!PageOf(L, p)
<1> DEFINE left == {n \in L : n < p}
           Newer(x) == {n \in left : n > x}
<1>1. g \in left /\ Cardinality(Newer(g)) < PageSize
  BY SameCounting DEF Contracts!PageOf
<1>2. IsFiniteSet(Newer(g))
  <2>1. IsFiniteSet(0..Count)
    BY Ranges, FS_Interval
  <2>2. Newer(g) \in SUBSET (0..Count)
    BY MarketTimes, Ranges
  <2> QED BY <2>1, <2>2, FS_Subset
<1>3. Newer(m) \in SUBSET Newer(g)
  <2>1. \A n \in left : n \in Nat
    BY MarketTimes
  <2>2. g \in Nat /\ m \in Nat
    BY <1>1, <2>1, MarketTimes
  <2> HIDE DEF left
  <2>3. \A n \in left : n > m => n > g
    BY <2>1, <2>2
  <2> QED BY <2>3
<1> HIDE DEF Newer
<1>4. Cardinality(Newer(m)) <= Cardinality(Newer(g)) /\ Cardinality(Newer(g)) \in Nat
      /\ Cardinality(Newer(m)) \in Nat
  BY <1>2, <1>3, FS_Subset, FS_CardinalityType
<1>5. Cardinality(Newer(m)) < PageSize
  BY <1>1, <1>4, Ranges
<1> QED BY <1>5, SameCounting DEF Newer, Contracts!PageOf

\* A page has a market that can be read while one is left.
LEMMA PageReads ==
  ASSUME FewUnreadable, NEW L \in SUBSET Contracts!Markets, NEW p \in 0..Count,
         NEW m \in L, m < p, m \notin BadMarkets
  PROVE  Contracts!PageOf(L, p) \ BadMarkets # {}
<1> DEFINE good == {n \in L : n < p /\ n \notin BadMarkets}
           Newer(x) == {n \in {n \in L : n < p} : n > x}
<1>1. \A n \in good : n \in Nat /\ n < Count
  BY MarketTimes
<1>2. PICK g \in good : \A n \in good : n <= g
  <2> DEFINE Down == {Count - n : n \in good}
  <2>1. Down \in SUBSET Nat /\ Down # {}
    <3>1. m \in good
      OBVIOUS
    <3> HIDE DEF good
    <3> QED BY <1>1, <3>1, Ranges
  <2> HIDE DEF Down
  <2>2. PICK d \in Down : \A e \in Down : d <= e
    BY <2>1, LeastOf
  <2>3. PICK g \in good : d = Count - g
    BY DEF Down
  <2>4. ASSUME NEW n \in good PROVE n <= g
    <3>1. Count - n \in Down
      BY DEF Down
    <3>2. Count - g <= Count - n
      BY <2>2, <2>3, <3>1
    <3> QED BY <1>1, <2>3, <3>2, Ranges
  <2> QED BY <2>3, <2>4
<1>3. Newer(g) \in SUBSET BadMarkets
  <2>1. ASSUME NEW n \in Newer(g), n \notin BadMarkets PROVE FALSE
    <3>1. n \in good /\ n > g
      BY <2>1
    <3>2. n <= g /\ n \in Nat /\ g \in Nat
      BY <1>1, <1>2, <3>1
    <3> QED BY <3>1, <3>2
  <2> QED BY <2>1
<1>4. Cardinality(Newer(g)) < PageSize
  <2> HIDE DEF Newer
  <2>1. /\ Cardinality(Newer(g)) <= Cardinality(BadMarkets)
        /\ IsFiniteSet(Newer(g))
    BY <1>3, FS_Subset DEF FewUnreadable
  <2>2. Cardinality(Newer(g)) \in Nat /\ Cardinality(BadMarkets) \in Nat
    BY <2>1, FS_CardinalityType DEF FewUnreadable
  <2> QED BY <2>1, <2>2, Ranges DEF FewUnreadable
<1>5. g \in Contracts!PageOf(L, p)
  BY <1>4, SameCounting DEF Contracts!PageOf
<1> QED BY <1>5

\* A page misses no market that is in the listing and as new as the next cursor.
LEMMA PageFinds ==
  ASSUME FewUnreadable, ContractInv, ContractListed, Contracts!ListPage
  PROVE  ContractListed'
<1> DEFINE tier == Contracts!CurrentTier
           L == Contracts!Listing(tier)
           got == Contracts!PageOf(L, page)
           readable == got \ BadMarkets
           atEnd == {n \in L : n < Contracts!Older(got)} = {}
<1>1. /\ pc = "list" /\ status = "running" /\ page \in 0..Count
  BY DEF ContractInv, ContractControl, Contracts!ListPage
<1>2. /\ UNCHANGED <<cutoff, pc, cut, status, began>>
      /\ found' = found \cup
           {<<m, tier>> : m \in {m \in readable :
              Contracts!Overlaps(m) /\ \A f \in found : f[1] # m}}
      /\ IF atEnd \/ Contracts!PastStart(readable)
           THEN tiers' = tiers \ {tier} /\ page' = Count
           ELSE page' = Contracts!Older(got) /\ tiers' = tiers
  BY DEF Contracts!ListPage, Contracts!kalshi
<1>3. L \in SUBSET Contracts!Markets /\ got \in SUBSET L /\ got \in SUBSET Contracts!Markets
  BY DEF Contracts!PageOf, Contracts!Listing
<1>4. cutoff \in Nat
  BY Ranges DEF ContractInv, ContractTimes
<1>5. /\ Contracts!Todo \subseteq Contracts!Todo'
      /\ \A m \in readable : Contracts!Overlaps(m) => m \in Contracts!Todo'
  <2> HIDE DEF readable, tier
  <2>1. Contracts!Todo \subseteq Contracts!Todo'
    BY <1>2 DEF Contracts!Todo
  <2>2. ASSUME NEW m \in readable, Contracts!Overlaps(m), m \notin Contracts!Todo
        PROVE  m \in Contracts!Todo'
    <3>1. \A f \in found : f[1] # m
      BY <2>2 DEF Contracts!Todo
    <3>2. <<m, tier>> \in found'
      BY <1>2, <2>2, <3>1
    <3>3. <<m, tier>>[1] = m
      OBVIOUS
    <3> QED BY <3>2, <3>3 DEF Contracts!Todo
  <2> QED BY <2>1, <2>2
<1>6. ASSUME NEW m \in Contracts!WentThrough', NEW t, t = Contracts!ListedIn(m, cut),
             \/ t \notin tiers'
             \/ t = Contracts!CurrentTier' /\ m >= page',
             m \notin Contracts!Todo
      PROVE  m \in readable
  <2>1. m \in Contracts!WentThrough
    BY <1>2, <1>4, StaysListed
  <2>2. /\ m \in Contracts!Markets /\ m \notin BadMarkets /\ Contracts!Overlaps(m)
        /\ t = Contracts!ListedIn(m, cutoff)
    BY <1>6, <2>1 DEF Contracts!WentThrough
  <2>3. t \in tiers /\ ~(t = tier /\ m >= page)
    BY <1>1, <1>6, <2>1 DEF ContractListed
  <2>4. m \in Nat /\ m < Count /\ Contracts!Close(m) \in Nat
    BY <2>2, MarketTimes
  <2>5. t = tier
    <3>1. ASSUME t # tier PROVE FALSE
      <4>1. t \in tiers'
        BY <1>2, <2>3, <3>1
      <4>2. t = Contracts!CurrentTier' /\ m >= page'
        BY <1>6, <4>1
      <4>3. CASE tiers' = tiers
        BY <3>1, <4>2, <4>3 DEF Contracts!CurrentTier
      <4>4. CASE page' = Count
        BY <2>4, <4>2, <4>4, Ranges
      <4> QED BY <1>2, <4>3, <4>4
    <3> QED BY <3>1
  <2>6. m < page
    BY <1>1, <2>3, <2>4, <2>5
  <2>7. m \in L
    <3>1. Contracts!Close(m) >= Start
      BY <2>2, <2>4, Ranges DEF Contracts!Overlaps
    <3> QED BY <2>2, <2>5, <3>1 DEF Contracts!Listing
  <2> HIDE DEF tier, L
  <2>8. readable # {}
    BY <1>1, <1>3, <2>2, <2>6, <2>7, PageReads
  <2>9. ASSUME m \notin got PROVE FALSE
    <3>1. ASSUME NEW g \in got PROVE m < g
      <4>1. ~(g <= m)
        BY <1>1, <1>3, <2>6, <2>7, <2>9, PageReaches
      <4>2. g \in Nat
        BY <1>3, MarketTimes
      <4> QED BY <2>4, <4>1, <4>2
    <3>2. ~atEnd
      <4>1. Contracts!Older(got) \in got
        BY <1>3, <2>8, OlderIs
      <4> QED BY <2>7, <3>1, <4>1
    <3>3. ~Contracts!PastStart(readable)
      <4> SUFFICES ASSUME Contracts!PastStart(readable) PROVE FALSE
        OBVIOUS
      <4>1. /\ readable \in SUBSET Nat /\ readable \in SUBSET got
        BY <1>3, MarketTimes
      <4>2. \E x \in readable : \A y \in readable : x <= y
        BY <2>8, <4>1, LeastOf
      <4> HIDE DEF readable, got
      <4>3. PICK x \in readable : x = Contracts!Min(readable)
        BY <4>2 DEF Contracts!Min
      <4>4. Contracts!Close(x) <= Start /\ x \in Contracts!Markets
        BY <1>3, <2>8, <4>1, <4>3 DEF Contracts!PastStart
      <4>5. Contracts!Close(x) \in Nat
        BY <4>4, MarketTimes
      <4>6. Contracts!Close(x) < Contracts!Close(m)
        BY <2>2, <2>4, <4>4, <4>5, Ranges DEF Contracts!Overlaps
      <4>7. x < m /\ m < x /\ x \in Nat
        BY <2>2, <3>1, <4>1, <4>3, <4>4, <4>6, LaterCloses
      <4> QED BY <2>4, <4>7
    <3>4. page' = Contracts!Older(got) /\ tiers' = tiers
      BY <1>2, <3>2, <3>3
    <3>5. m >= Contracts!Older(got) /\ Contracts!Older(got) \in got
      BY <1>3, <1>6, <2>3, <2>8, <3>4, OlderIs
    <3>6. m < Contracts!Older(got) /\ Contracts!Older(got) \in Nat
      BY <1>3, <3>1, <3>5, MarketTimes
    <3> QED BY <2>4, <3>5, <3>6
  <2> QED BY <2>2, <2>9
<1>7. \A m \in Contracts!WentThrough' : Contracts!Overlaps(m)
  BY DEF Contracts!WentThrough
<1> HIDE DEF readable, tier, got, atEnd
<1> QED BY <1>1, <1>2, <1>5, <1>6, <1>7 DEF ContractListed

\* Neither reading a cutoff or the counts nor ending a job passes one over.
LEMMA ControlFinds ==
  ASSUME ContractInv, ContractListed,
         \/ Contracts!ReadCutoff \/ Contracts!Listed \/ Contracts!ReadCounts
         \/ Contracts!Finish \/ Contracts!CallFails \/ Contracts!Resubmit
  PROVE  ContractListed'
<1>1. status = "running" <=> pc # "over"
  BY DEF ContractInv, ContractControl
<1>2. CASE Contracts!ReadCutoff
  <2>1. \A m \in Contracts!WentThrough' :
          /\ Contracts!ListedIn(m, cut') \in tiers'
          /\ m < page' /\ m \in Nat /\ page' \in Nat
    BY <1>2, MarketTimes, Ranges DEF Contracts!ReadCutoff, Contracts!WentThrough
  <2>2. pc' = "list" /\ status' = "running"
    BY <1>1, <1>2 DEF Contracts!ReadCutoff
  <2>3. \A a, b \in Nat : a < b => ~(a >= b)
    OBVIOUS
  <2>4. ASSUME NEW m \in Contracts!WentThrough'
        PROVE  /\ Contracts!ListedIn(m, cut') \in tiers'
               /\ ~(m >= page')
    BY <2>1, <2>3
  <2> QED BY <2>2, <2>4 DEF ContractListed
<1>3. CASE Contracts!CallFails \/ Contracts!Resubmit
  BY <1>3 DEF Contracts!CallFails, Contracts!Resubmit, ContractListed
<1>4. CASE Contracts!Listed \/ Contracts!ReadCounts \/ Contracts!Finish
  <2>1. /\ UNCHANGED <<cut, cutoff, tiers, found, began, stored, queued, lost>>
        /\ \/ pc = "list" /\ tiers = {} /\ pc' = "counts" /\ UNCHANGED status
           \/ pc = "counts" /\ pc' = "market" /\ UNCHANGED status
           \/ pc = "market" /\ pc' = "over"
    BY <1>4 DEF Contracts!Listed, Contracts!ReadCounts, Contracts!Finish, Contracts!table,
                Contracts!kalshi, Contracts!listing
  <2>2. ASSUME NEW m \in Contracts!WentThrough'
        PROVE  /\ m \in Contracts!WentThrough
               /\ ContractCovered(m) => ContractCovered(m)'
               /\ Contracts!Todo' = Contracts!Todo
    <3>1. m \in Contracts!WentThrough /\ m \in Contracts!Markets
      BY <2>1 DEF Contracts!WentThrough
    <3>2. ContractCovered(m) => ContractCovered(m)'
      BY <2>1, <3>1, CandlesStay
    <3> QED BY <2>1, <3>1, <3>2 DEF Contracts!Todo
  <2> QED BY <1>1, <2>1, <2>2 DEF ContractListed
<1> QED BY <1>2, <1>3, <1>4

\* A market gone by is covered: its candles are queued, or were there.
LEMMA MarketCovers ==
  ASSUME ContractInv, ContractListed, GoesBy \/ NotThere
  PROVE  ContractListed'
<1>1. /\ UNCHANGED <<cutoff, cut, began, stored, lost>> /\ queued \subseteq queued'
      /\ found # {} /\ pc \in {"market", "retry"} /\ status' # "done"
      /\ pc' \in {"market", "retry", "over"}
  BY DEF GoesBy, NotThere, ContractInv, ContractControl
<1>2. ContractFound
  BY DEF ContractInv
<1> SUFFICES ASSUME NEW m \in Contracts!WentThrough'
             PROVE  m \in Contracts!Todo' \/ ContractCovered(m)'
  BY <1>1 DEF ContractListed
<1>3. m \in Contracts!WentThrough /\ m \in Contracts!Markets
  BY <1>1 DEF Contracts!WentThrough
<1>4. m \in Contracts!Todo \/ ContractCovered(m)
  BY <1>1, <1>3 DEF ContractListed
<1>5. ContractCovered(m) => ContractCovered(m)'
  BY <1>1, <1>3, CandlesStay
<1>6. CASE NotThere
  BY <1>4, <1>5, <1>6 DEF NotThere, Contracts!Todo
<1>7. CASE GoesBy /\ m # Contracts!Current
  BY <1>1, <1>2, <1>4, <1>5, <1>7, CurrentIs DEF GoesBy
<1>8. CASE GoesBy /\ m = Contracts!Current
  <2>1. CASE Contracts!CandlesComplete(existing[m], m, now)
    BY <1>3, <1>5, <2>1, CompleteCovers
  <2>2. CASE queued' = queued \cup Contracts!Candles(m)
    <3>1. Contracts!Due(m) \subseteq Contracts!Candles(m)
      BY <1>3, RowsOfMarket, Ranges DEF ContractInv, ContractTimes
    <3>2. Contracts!Due(m)' = Contracts!Due(m)
      BY <1>1 DEF Contracts!Due
    <3> QED BY <2>2, <3>1, <3>2 DEF ContractCovered
  <2> QED BY <1>8, <2>1, <2>2 DEF GoesBy
<1> QED BY <1>6, <1>7, <1>8

LEMMA NextFinds == FewUnreadable /\ ContractInv /\ ContractListed /\ Contracts!Next => ContractListed'
<1> SUFFICES ASSUME FewUnreadable, ContractInv, ContractListed, Contracts!Next
             PROVE  ContractListed'
  OBVIOUS
<1>1. CASE Contracts!KalshiStep \/ Contracts!WriterStep \/ Contracts!Tick
  BY <1>1, OutsideKeeps, ListedStays
<1>2. CASE \/ Contracts!ReadCutoff \/ Contracts!Listed \/ Contracts!ReadCounts
           \/ Contracts!Finish \/ Contracts!CallFails \/ Contracts!Resubmit
  BY <1>2, ControlFinds
<1>3. CASE Contracts!ListPage
  BY <1>3, PageFinds
<1>4. CASE Contracts!Skip \/ Contracts!Fetch \/ Contracts!FetchOther
  BY <1>4, MarketStep, MarketCovers
<1> QED BY <1>1, <1>2, <1>3, <1>4 DEF Contracts!Next, Contracts!JobStep, Contracts!Progress

ContractsFind == part = "contracts" => ContractListed

LEMMA ContractsFindAlways == FewUnreadable => (IngestSpec => []ContractsFind)
<1> SUFFICES ASSUME FewUnreadable PROVE IngestSpec => []ContractsFind
  OBVIOUS
<1>1. IngestInit => ContractsFind
  BY InitContracts DEF IngestInit, ContractsFind
<1>2. ContractsHold /\ ContractsFind /\ [CallPart \/ IndexPart \/ ContractsPart]_allVars
        => ContractsFind'
  <2> SUFFICES ASSUME ContractsHold, ContractsFind, part' = "contracts",
                      [CallPart \/ IndexPart \/ ContractsPart]_allVars
               PROVE  ContractListed'
    BY DEF ContractsFind
  <2>1. CASE ContractsPart
    BY <2>1, NextFinds DEF ContractsHold, ContractsFind, ContractsPart
  <2>2. CASE UNCHANGED allVars
    <3>1. ContractInv /\ ContractListed
      BY <2>2 DEF ContractsHold, ContractsFind, allVars
    <3>2. cutoff \in Nat
      BY <3>1, Ranges DEF ContractInv, ContractTimes
    <3>3. /\ UNCHANGED <<cut, tiers, page, found, pc, status, began, stored, queued, lost,
                         cutoff>>
      BY <2>2 DEF allVars, jobVars, contractVars
    <3> QED BY <3>1, <3>2, <3>3, ListedStays
  <2> QED BY <2>1, <2>2 DEF CallPart, IndexPart
<1> QED BY <1>1, <1>2, ContractsHoldAlways, PTL DEF IngestSpec

(***************************************************************************)
(* However the cutoff moves and whatever the size of a page, a listing     *)
(* misses no readable market that overlaps the range and stays in it, as   *)
(* long as fewer markets than a page holds cannot be read: a page of none  *)
(* but such would end the listing (controllers/ingest.rs:469-503, of the   *)
(* end of a listing 489-498).                                              *)
(***************************************************************************)
THEOREM ListingMissesNone == FewUnreadable => (IngestSpec => []ContractsListedFound)
<1> SUFFICES ASSUME FewUnreadable PROVE IngestSpec => []ContractsListedFound
  OBVIOUS
<1>1. ContractsFind => ContractsListedFound
  <2> SUFFICES ASSUME ContractListed, pc = "counts",
                      NEW m \in Contracts!WentThrough
               PROVE  m \in Contracts!Todo
    BY DEF ContractsFind, ContractsListedFound, Contracts!ListedFound, Contracts!WentThrough
  <2> QED BY DEF ContractListed
<1> QED BY <1>1, ContractsFindAlways, PTL

(***************************************************************************)
(* Submitting a range again mends the candles a failed flush cost: once a  *)
(* job is done and stored, a market it went through misses at most one     *)
(* candle, and none if it opened in the range, whatever earlier jobs       *)
(* fetched, skipped or lost (controllers/ingest.rs:460-463, 521-571).      *)
(***************************************************************************)
THEOREM CandleRangeFills ==
  FewUnreadable => (IngestSpec => []ContractsRerunCompletes)
<1> SUFFICES ASSUME FewUnreadable PROVE IngestSpec => []ContractsRerunCompletes
  OBVIOUS
<1>1. ContractsHold /\ ContractsFind => ContractsRerunCompletes
  <2> SUFFICES ASSUME ContractInv, ContractListed, status = "done", queued = {}, lost = {},
                      NEW m \in Contracts!WentThrough
               PROVE  Contracts!AllButFirst(m)
    BY DEF ContractsHold, ContractsFind, ContractsRerunCompletes, Contracts!RerunCompletes
  <2>1. m \in Contracts!Markets
    BY DEF Contracts!WentThrough
  <2>2. found = {}
    BY DEF ContractInv, ContractControl
  <2>3. ContractCovered(m)
    BY <2>2 DEF ContractListed, Contracts!Todo
  <2>4. CASE Contracts!Due(m) \subseteq stored
    <3>1. Contracts!Due(m) \ stored = {}
      BY <2>4
    <3>2. Cardinality(Contracts!Due(m) \ stored) = 0
      BY <3>1, FS_EmptySet
    <3> QED BY <3>2, SameCounting DEF Contracts!AllButFirst
  <2> QED BY <2>3, <2>4, SameCounting DEF ContractCovered, Contracts!AllButFirst
<1> QED BY <1>1, ContractsHoldAlways, ContractsFindAlways, PTL
=============================================================================
