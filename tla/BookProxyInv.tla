----------------------------- MODULE BookProxyInv -----------------------------
(***************************************************************************)
(* The inductive invariant behind BookProxy's ReplayMatchesCache.          *)
(*                                                                         *)
(* Both the cache and a client are replicas fed from one log, but from     *)
(* different places in it: a client starts from a copy of the cache taken  *)
(* at r, later than the frame its receiver starts at, and the log may span *)
(* sessions, whose numbers are unrelated.  The invariant says which of the *)
(* books the cache has held a client's book may be.                        *)
(***************************************************************************)
EXTENDS BookProxy

\* The cache between the i-th broadcast and the one after it (or now).
CacheAt(i) == IF i = Len(log) THEN books ELSE log[i + 1].before

\* The markets more than one subscription had fed then.
MixedAt(i) == IF i = Len(log) THEN Mixed ELSE log[i + 1].mixed

\* A frame can change an entry only if it parses and names the entry's market.
Touches(f, t) == f.parses /\ f.ticker = t

\* No readable snapshot of t among the frames after the i-th, up to the k-th.
NoReset(i, k, t) == \A j \in i + 1..k : ~Resets(log[j].frame, t)

\* Only an open session has subscriptions and anything on the wire; what is on
\* the wire or served is on record in `sources`; and no book is ahead of the
\* numbers read on the subscriptions that fed it.
SessionInv ==
  /\ link # "up" => /\ made = 0
                    /\ \A s \in Sids : wire[s] = <<>> /\ served[s] = {}
  /\ \A s \in Sids :
       /\ \A t \in served[s] : s \in sources[t]
       /\ \A i \in 1..Len(wire[s]) : s \in sources[wire[s][i].ticker]
  /\ CacheWithinSession

\* A cached book is what its last frame made of the book before it.
ChainInv ==
  /\ \A t \in Tickers : CacheAt(0)[t] = NoBook
  /\ \A i \in 1..Len(log), t \in Tickers :
       CacheAt(i)[t] # NoBook =>
         CacheAt(i)[t] = AfterFrame(CacheAt(i - 1)[t], log[i].frame, t)

\* A book that no snapshot restarted has been there all along, in one session;
\* if one subscription fed it, the numbers of its frames since are above its
\* own.
OrderInv ==
  \A k \in 0..Len(log) : \A i \in 0..k - 1, t \in Tickers :
    (CacheAt(k)[t] # NoBook /\ NoReset(i, k, t)) =>
      /\ CacheAt(i)[t] # NoBook
      /\ t \notin MixedAt(k) =>
           /\ t \notin MixedAt(i)
           /\ Touches(log[k].frame, t) => CacheAt(i)[t].seq < log[k].frame.seq
           /\ CacheAt(i)[t].seq <= CacheAt(k)[t].seq

(***************************************************************************)
(* With r the place in the log the client's preamble was current at, or    *)
(* any later place the client has got to: unless a snapshot before r will  *)
(* restart it, the client's book of t is the cached one at r, which the    *)
(* frames before r leave alone, or the cached one at its own place.        *)
(***************************************************************************)
ReplicaAt(c, t, r) ==
  (CacheAt(r)[t] # NoBook /\ t \notin MixedAt(r) /\ NoReset(pos[c] - 1, r, t)) =>
    \/ preamble[c][t] = CacheAt(r)[t]
    \/ /\ preamble[c][t] = NoBook
       /\ view[c][t] \in {CacheAt(r)[t], CacheAt(pos[c] - 1)[t]}

ClientOK(c) ==
  /\ pos[c] <= Len(log) + 1
  /\ sending[c] # "nothing" => pc[c] = "pumping" /\ preamble[c] = NoBooks
  /\ sending[c] = "frame" => pos[c] <= Len(log)
  /\ (pc[c] = "pumping" /\ sending[c] # "notice") =>
       \A t \in Tickers \ dirty[c] :
         \E r \in pos[c] - 1..Len(log) : ReplicaAt(c, t, r)

ClientInv == \A c \in Clients : ClientOK(c)

(***************************************************************************)
(* The inductive invariant of the proxy: the session's, the log's and      *)
(* every client's (feeds/task.rs:325-379 with controllers/ws.rs:36-95).    *)
(***************************************************************************)
ProxyInv ==
  /\ TypeOK
  /\ SessionInv
  /\ ChainInv
  /\ OrderInv
  /\ ClientInv
=============================================================================
