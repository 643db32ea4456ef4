----------------------------- MODULE UpstreamCall -----------------------------
(***************************************************************************)
(* One upstream call of an ingest job: `throttled` (controllers/ingest.rs) *)
(* around a signed GET of kalshi/client.rs.  A call that fails in a way    *)
(* that may pass is made again after a delay, until the next attempt would *)
(* start more than RetryWindow after the first one did.                    *)
(*                                                                         *)
(* Time is in seconds.  An attempt takes any time up to REQUEST_TIMEOUT.   *)
(***************************************************************************)
EXTENDS Integers

CONSTANTS
  RequestTimeout,    \* REQUEST_TIMEOUT
  RateLimitBackoff,  \* RATE_LIMIT_BACKOFF
  BackoffMin,        \* RETRY_BACKOFF_MIN
  BackoffMax,        \* RETRY_BACKOFF_MAX
  RetryWindow,       \* RETRY_WINDOW
  Takes              \* bound: the times an attempt may take

ASSUME TimesAssumption ==
  /\ RequestTimeout \in Nat /\ RetryWindow \in Nat
  /\ BackoffMin \in Nat \ {0} /\ BackoffMax \in Nat
  /\ BackoffMin <= BackoffMax
  /\ RateLimitBackoff \in Nat \ {0}
  /\ Takes \subseteq 0..RequestTimeout

VARIABLES
  pc,        \* "call", "sleep", "ok" or "err"
  elapsed,   \* since the first attempt
  backoff,   \* the delay of the next failure that is no throttling
  delay,     \* the delay being slept
  attempts,  \* failed attempts
  requests,  \* calls that got through (IngestJob::requests)
  retries,   \* IngestJob::retries
  retryError, \* whether IngestJob::retry_error is set
  last       \* history: how the last attempt ended

vars == <<pc, elapsed, backoff, delay, attempts, requests, retries, retryError, last>>

\* How an attempt ends: an HTTP status, a request that fails or times out
\* before the headers of its answer or after them, while the body is read, or
\* a body that is not what it should be.
Responses == {"200", "429", "404", "5xx", "transport", "cutShort", "unparseable"}

\* signed_get and the methods on it: the error, or none.  A body that cannot be
\* read is taken for an empty one, which does not parse.
ErrorOf(r) ==
  CASE r = "200" -> "none"
    [] r = "429" -> "RateLimited"
    [] r \in {"404", "5xx"} -> "Status"
    [] r = "transport" -> "Transport"
    [] r \in {"cutShort", "unparseable"} -> "Parse"

IsRateLimited(r) == ErrorOf(r) = "RateLimited"

\* KalshiError::is_transient.
IsTransient(r) ==
  ErrorOf(r) \in {"RateLimited", "Transport"} \/ (ErrorOf(r) = "Status" /\ r = "5xx")

Doubled(b) == IF 2 * b > BackoffMax THEN BackoffMax ELSE 2 * b

-----------------------------------------------------------------------------
\* The attempt gets through, or fails for good: either way it is counted.
GetsThrough(r, took) ==
  /\ pc = "call"
  /\ ~IsTransient(r)
  /\ elapsed' = elapsed + took
  /\ requests' = requests + 1
  /\ retryError' = FALSE
  /\ last' = r
  /\ pc' = IF r = "200" THEN "ok" ELSE "err"
  /\ UNCHANGED <<backoff, delay, attempts, retries>>

\* Slip: the delay to come is not counted against the window.
PastWindowNow(d, after) == after > RetryWindow

\* Whether the next attempt would start outside the window.
PastWindow(d, after) == after + d > RetryWindow

FailsForNow(r, took) ==
  /\ pc = "call"
  /\ IsTransient(r)
  /\ LET after == elapsed + took
         d == IF IsRateLimited(r) THEN RateLimitBackoff ELSE backoff
     IN /\ elapsed' = after
        /\ IF PastWindow(d, after)
             THEN pc' = "err" /\ UNCHANGED <<delay, retries, retryError>>
             ELSE /\ pc' = "sleep" /\ delay' = d
                  /\ retries' = retries + 1 /\ retryError' = TRUE
  /\ attempts' = attempts + 1
  /\ last' = r
  /\ UNCHANGED <<backoff, requests>>

\* Slip: the delay is worked out and not slept.
WakeUpAtOnce ==
  /\ pc = "sleep"
  /\ pc' = "call"
  /\ backoff' = Doubled(backoff)
  /\ UNCHANGED <<elapsed, delay, attempts, requests, retries, retryError, last>>

\* The sleep is over; the backoff doubles after a throttled attempt as well.
WakeUp ==
  /\ pc = "sleep"
  /\ pc' = "call"
  /\ elapsed' = elapsed + delay
  /\ backoff' = Doubled(backoff)
  /\ UNCHANGED <<delay, attempts, requests, retries, retryError, last>>

Init ==
  /\ pc = "call" /\ elapsed = 0 /\ backoff = BackoffMin /\ delay = 0
  /\ attempts = 0 /\ requests = 0 /\ retries = 0 /\ retryError = FALSE
  /\ last = "200"

CallStep ==
  \/ \E r \in Responses, took \in Takes : GetsThrough(r, took) \/ FailsForNow(r, took)
  \/ WakeUp

Spec == Init /\ [][CallStep]_vars

-----------------------------------------------------------------------------
(* Properties.                                                             *)

\* Every variable has its type.
TypeOK ==
  /\ pc \in {"call", "sleep", "ok", "err"}
  /\ elapsed \in Nat /\ backoff \in BackoffMin..BackoffMax
  /\ delay \in Nat /\ attempts \in Nat /\ requests \in Nat /\ retries \in Nat
  /\ retryError \in BOOLEAN
  /\ last \in Responses

(***************************************************************************)
(* No attempt starts after the retry window, whatever the mix of throttled *)
(* and failed attempts and however long each takes; so a call is over      *)
(* within the window and one request timeout                               *)
(* (controllers/ingest.rs:48-49, 369-375).                                 *)
(***************************************************************************)
WithinWindow ==
  /\ pc = "call" => elapsed <= RetryWindow
  /\ pc = "sleep" => elapsed + delay <= RetryWindow
  /\ elapsed <= RetryWindow + RequestTimeout

(***************************************************************************)
(* Every attempt but the first waits at least BackoffMin or the rate limit *)
(* backoff, so the attempts of a call are bounded by the window            *)
(* (controllers/ingest.rs:368, 382).                                       *)
(***************************************************************************)
AttemptsBounded ==
  LET least == IF BackoffMin < RateLimitBackoff THEN BackoffMin ELSE RateLimitBackoff
  IN retries * least <= elapsed + delay

(***************************************************************************)
(* kalshi/client.rs:17 of a request that takes longer than REQUEST_TIMEOUT:*)
(* it is "abandoned (and retried by the ingest jobs)", and :49 of network  *)
(* failures: "Worth retrying".  So a call whose last attempt was one or    *)
(* the other fails only with its retry window used up.                     *)
(***************************************************************************)
NetworkFailuresRetried ==
  (pc = "err" /\ last \in {"transport", "cutShort"}) => elapsed + BackoffMax > RetryWindow
=============================================================================
