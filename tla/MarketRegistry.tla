---------------------------- MODULE MarketRegistry ----------------------------
(***************************************************************************)
(* The markets the server tracks, kept twice: as documents in MongoDB      *)
(* (model/*.rs, db/mongo.rs) and as running feeds in memory                *)
(* (feeds/mod.rs).  POST /add and DELETE /{tag} (controllers/markets.rs)   *)
(* change the two in separate steps, each a call that awaits; start-up     *)
(* (main.rs) makes the feeds from the documents.                           *)
(*                                                                         *)
(* Requests interleave at every await.  One is abandoned when its client   *)
(* goes away or a call to MongoDB fails; the process may end at any time.  *)
(* An abandoned MongoDB call has taken effect or it has not; one that      *)
(* takes effect later still is left out.                                   *)
(***************************************************************************)
EXTENDS Integers, FiniteSets

CONSTANTS
  Slots,      \* requests in flight at once (bound)
  Tags,       \* tags asked for
  Reserved,   \* RESERVED_TAGS
  Series,     \* series tickers
  NoTag, NoDoc, NoFeed

ASSUME ReservedAssumption == Reserved \subseteq Tags /\ NoTag \notin Tags

\* A market, but for what nothing here depends on.  `product` is the Coinbase
\* product: absent, well formed or not.
Doc == [series : Series, product : {"absent", "wellFormed", "malformed"}]

\* A FeedHandle: the market it was started for, and whether a Coinbase feed
\* runs beside the Kalshi feed.
Feed == [market : Doc, coinbase : BOOLEAN]

ASSUME NullAssumption == NoDoc \notin Doc /\ NoFeed \notin Feed

VARIABLES
  docs,    \* the markets collection, by tag (its unique index)
  feeds,   \* FeedRegistry::inner
  req,     \* the requests in flight
  proc,    \* the process: "down" or "serving"
  raced,   \* history: tags for which two requests were in flight together, or
           \* one was abandoned half done, since the process started
  wins,    \* history: adds of a tag answered 201 since a remove of it began
           \* or the process started; 2 stands for more
  gone     \* history: tags whose last request was a remove that ran with no
           \* other for the tag, and was answered

vars == <<docs, feeds, req, proc, raced, wins, gone>>

AddPcs == {"find", "upsert", "spawn"}
RemovePcs == {"stop", "delete"}

\* `alone`: no other request for the tag has been in flight with this one.
Request == [pc : AddPcs \cup RemovePcs, tag : Tags, doc : Doc \cup {NoDoc},
            alone : BOOLEAN]
Idle == [pc |-> "idle", tag |-> NoTag, doc |-> NoDoc, alone |-> FALSE]

AllIdle == [s \in Slots |-> Idle]

On(t) == {s \in Slots : req[s].tag = t}

-----------------------------------------------------------------------------
(* Models and feeds.                                                       *)

\* Slip: the schema forgets the reserved tags.
ValidAnyTag(t, d) == d.product # "malformed"

\* MARKET_SPEC's schema.
Valid(t, d) == t \notin Reserved /\ d.product # "malformed"

\* valid_coinbase_product, for documents that never passed the schema.
WellFormed(d) == d.product = "wellFormed"

FeedOf(d) == [market |-> d, coinbase |-> WellFormed(d)]

\* FeedRegistry::spawn: a feed that is running already stays.
Spawned(t, d) == IF feeds[t] = NoFeed THEN FeedOf(d) ELSE feeds[t]

\* FeedRegistry::stop: the handle is dropped and its tasks aborted.
Stopped(t) == [feeds EXCEPT ![t] = NoFeed]

\* The documents: Model::find, ::upsert of a valid market, ::delete, ::all.
Find(t) == docs[t]
Upserted(t, d) == IF Valid(t, d) THEN [docs EXCEPT ![t] = d] ELSE docs
Deleted(t) == [docs EXCEPT ![t] = NoDoc]
All == {t \in Tags : docs[t] # NoDoc}

-----------------------------------------------------------------------------
(* Requests.                                                               *)

Begin(s, t, pc, d) ==
  LET others == On(t)
  IN /\ proc = "serving" /\ req[s] = Idle
     /\ req' = [u \in Slots |->
                  CASE u = s -> [pc |-> pc, tag |-> t, doc |-> d,
                                 alone |-> others = {}]
                    [] u \in others -> [req[u] EXCEPT !.alone = FALSE]
                    [] OTHER -> req[u]]
     /\ raced' = IF others = {} THEN raced ELSE raced \cup {t}
     /\ gone' = gone \ {t}

\* An add for another Kalshi environment is refused at once and changes nothing.
BeginAdd(s, t, d) == Begin(s, t, "find", d) /\ UNCHANGED <<docs, feeds, proc, wins>>

BeginRemove(s, t) ==
  /\ Begin(s, t, "stop", NoDoc)
  /\ wins' = [wins EXCEPT ![t] = 0]
  /\ UNCHANGED <<docs, feeds, proc>>

Goto(s, pc) == req' = [req EXCEPT ![s].pc = pc]
End(s) == req' = [req EXCEPT ![s] = Idle]

\* Market::find: a tag that has a document is refused.
AddFind(s) ==
  /\ req[s].pc = "find"
  /\ IF Find(req[s].tag) = NoDoc THEN Goto(s, "upsert") ELSE End(s)
  /\ UNCHANGED <<docs, feeds, proc, raced, wins, gone>>

\* Slip: the feed is started before the document is validated and stored.
AddUpsertAfterSpawn(s) ==
  /\ req[s].pc = "upsert"
  /\ LET t == req[s].tag
         d == req[s].doc
     IN /\ feeds' = [feeds EXCEPT ![t] = Spawned(t, d)]
        /\ docs' = Upserted(t, d)
        /\ IF Valid(t, d) THEN Goto(s, "spawn") ELSE End(s)
  /\ UNCHANGED <<proc, raced, wins, gone>>

\* Model::upsert: validated, then inserted or put in place of another.
AddUpsert(s) ==
  /\ req[s].pc = "upsert"
  /\ LET t == req[s].tag
         d == req[s].doc
     IN /\ docs' = Upserted(t, d)
        /\ IF Valid(t, d) THEN Goto(s, "spawn") ELSE End(s)
  /\ UNCHANGED <<feeds, proc, raced, wins, gone>>

\* FeedRegistry::spawn, whose answer is not looked at; 201.
AddSpawn(s) ==
  /\ req[s].pc = "spawn"
  /\ LET t == req[s].tag
     IN /\ feeds' = [feeds EXCEPT ![t] = Spawned(t, req[s].doc)]
        /\ wins' = [wins EXCEPT ![t] = IF @ < 2 THEN @ + 1 ELSE 2]
  /\ End(s)
  /\ UNCHANGED <<docs, proc, raced, gone>>

\* A remove is answered, with 200 or, of what neither step found, 404.
Answered(s) ==
  /\ gone' = IF req[s].alone THEN gone \cup {req[s].tag} ELSE gone
  /\ End(s)

\* Slip: a tag with no feed is taken for one that is not there.
RemoveStopOrGiveUp(s) ==
  /\ req[s].pc = "stop"
  /\ LET t == req[s].tag
     IN /\ feeds' = Stopped(t)
        /\ IF feeds[t] = NoFeed THEN Answered(s) ELSE Goto(s, "delete") /\ UNCHANGED gone
  /\ UNCHANGED <<docs, proc, raced, wins>>

RemoveStop(s) ==
  /\ req[s].pc = "stop"
  /\ feeds' = Stopped(req[s].tag)
  /\ Goto(s, "delete")
  /\ UNCHANGED <<docs, proc, raced, wins, gone>>

RemoveDelete(s) ==
  /\ req[s].pc = "delete"
  /\ docs' = Deleted(req[s].tag)
  /\ Answered(s)
  /\ UNCHANGED <<feeds, proc, raced, wins>>

\* The client goes away, or a call fails; half done is between the two steps.
Abandon(s) ==
  /\ req[s] # Idle
  /\ raced' = IF req[s].pc \in {"spawn", "delete"}
                THEN raced \cup {req[s].tag} ELSE raced
  /\ End(s)
  /\ UNCHANGED <<docs, feeds, proc, wins, gone>>

RequestStep(s) ==
  AddFind(s) \/ AddUpsert(s) \/ AddSpawn(s) \/ RemoveStop(s) \/ RemoveDelete(s)

-----------------------------------------------------------------------------
(* The process.                                                            *)

NoFeeds == [t \in Tags |-> NoFeed]

\* main: one feed per document, then requests are served.
Start ==
  /\ proc = "down"
  /\ proc' = "serving"
  /\ feeds' = [t \in Tags |-> IF t \in All THEN FeedOf(docs[t]) ELSE NoFeed]
  /\ raced' = {}
  /\ wins' = [t \in Tags |-> 0]
  /\ UNCHANGED <<docs, req, gone>>

\* Tasks and requests go with the process, documents stay.
Crash ==
  /\ proc = "serving"
  /\ proc' = "down"
  /\ feeds' = NoFeeds
  /\ req' = AllIdle
  /\ UNCHANGED <<docs, raced, wins, gone>>

-----------------------------------------------------------------------------
\* A document put there by other means may name any product.
Init ==
  /\ docs \in [Tags -> Doc \cup {NoDoc}]
  /\ \A t \in Reserved : docs[t] = NoDoc
  /\ feeds = NoFeeds
  /\ req = AllIdle
  /\ proc = "down"
  /\ raced = {}
  /\ wins = [t \in Tags |-> 0]
  /\ gone = {}

Next ==
  \/ \E s \in Slots, t \in Tags :
       \/ BeginRemove(s, t)
       \/ \E d \in Doc : BeginAdd(s, t, d)
  \/ \E s \in Slots : RequestStep(s) \/ Abandon(s)
  \/ Start
  \/ Crash

Spec == Init /\ [][Next]_vars

-----------------------------------------------------------------------------
(* Properties.                                                             *)

\* Every variable has its type; a reserved tag, whose routes a document would
\* never be reached by, has none.
TypeOK ==
  /\ docs \in [Tags -> Doc \cup {NoDoc}]
  /\ feeds \in [Tags -> Feed \cup {NoFeed}]
  /\ req \in [Slots -> Request \cup {Idle}]
  /\ \A s \in Slots : req[s].pc \in AddPcs => req[s].doc \in Doc
  /\ proc \in {"down", "serving"}
  /\ raced \subseteq Tags
  /\ wins \in [Tags -> 0..2]
  /\ gone \subseteq Tags
  /\ \A t \in Reserved : docs[t] = NoDoc

\* What the feeds of a tag ought to be.
Agree(t) == feeds[t] = IF docs[t] = NoDoc THEN NoFeed ELSE FeedOf(docs[t])

(***************************************************************************)
(* While the server serves, a tag no request is at work on has a feed      *)
(* exactly if it has a document, and the feed streams that document's      *)
(* market, unless requests for the tag overlapped or one was abandoned     *)
(* half done since the start: refused, invalid and failed requests, the    *)
(* end of the process at any step and start-up leave the two in agreement  *)
(* (controllers/markets.rs:35-58, 80-88; main.rs:101-105).                 *)
(***************************************************************************)
AgreeUnlessRaced ==
  proc = "serving" => \A t \in Tags : (On(t) = {} /\ t \notin raced) => Agree(t)

(***************************************************************************)
(* A DELETE that ran with no other request for its tag leaves neither a    *)
(* document nor a feed, whatever state earlier races left the tag in: it   *)
(* is the remedy for each of them (controllers/markets.rs:80-88).          *)
(***************************************************************************)
RemoveRepairs == \A t \in gone : docs[t] = NoDoc /\ feeds[t] = NoFeed

\* No request is in flight.
Quiet == proc = "serving" /\ req = AllIdle

(***************************************************************************)
(* model/market.rs:1: "one document per tracked Kalshi series".  So with   *)
(* no request in flight, a series being tracked has its document.          *)
(***************************************************************************)
FeedsHaveDocs == Quiet => \A t \in Tags : feeds[t] # NoFeed => docs[t] # NoDoc

(***************************************************************************)
(* controllers/markets.rs:34: "validate, store, and start streaming a new  *)
(* market".  So with no request in flight, a stored market is streaming.   *)
(* The code does not keep this: see Divergences in the README.             *)
(***************************************************************************)
DocsHaveFeeds == Quiet => \A t \in Tags : docs[t] # NoDoc => feeds[t] # NoFeed

(***************************************************************************)
(* controllers/markets.rs:50 answers an add of a stored tag "market '{}'   *)
(* already exists".  So between two removes one add of a tag is accepted.  *)
(* The code does not keep this: see Divergences in the README.             *)
(***************************************************************************)
OneAddAccepted == \A t \in Tags : wins[t] < 2
=============================================================================
