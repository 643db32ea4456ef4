------------------------- MODULE MarketRegistryProofs -------------------------
(***************************************************************************)
(* Machine-checked proofs about MarketRegistry, for any tags, series,      *)
(* documents to start from and number of requests in flight.               *)
(***************************************************************************)
EXTENDS MarketRegistry, TLAPS

-----------------------------------------------------------------------------
(* The inductive invariant.                                                *)

\* A process that is down has neither requests nor feeds.
DownInv == proc = "down" => req = AllIdle /\ feeds = NoFeeds

\* A request marked alone shares its tag with no other, and has left the tag
\* without a feed by the time it deletes the document.
AloneInv ==
  \A s \in Slots : req[s].alone =>
    /\ \A u \in Slots : req[u].tag = req[s].tag => u = s
    /\ req[s].pc = "delete" => feeds[req[s].tag] = NoFeed

\* What a request that nothing has raced with finds at its next step.
Undisturbed(s) ==
  LET t == req[s].tag
  IN CASE req[s].pc \in {"find", "stop"} -> Agree(t)
       [] req[s].pc = "upsert" -> docs[t] = NoDoc /\ feeds[t] = NoFeed
       [] req[s].pc = "spawn" -> docs[t] = req[s].doc /\ feeds[t] = NoFeed
       [] req[s].pc = "delete" -> feeds[t] = NoFeed

\* A tag that nothing has raced on has one request at most, and is as that
\* request left it.
RacedInv ==
  proc = "serving" => \A t \in Tags \ raced :
    /\ \A s, u \in On(t) : s = u
    /\ \A s \in On(t) : Undisturbed(s)
    /\ On(t) = {} => Agree(t)

\* A tag removed for good has no request, document or feed.
GoneInv == \A t \in gone : On(t) = {} /\ docs[t] = NoDoc /\ feeds[t] = NoFeed

\* The inductive invariant.
RegistryInv == TypeOK /\ DownInv /\ AloneInv /\ RacedInv /\ GoneInv

-----------------------------------------------------------------------------
(* Requests.                                                               *)

\* What a slot holds: nothing, or a request for a tag.
LEMMA SlotType ==
  ASSUME TypeOK, NEW s \in Slots
  PROVE  /\ req[s] \in Request \cup {Idle}
         /\ req[s].alone \in BOOLEAN
         /\ req[s].pc \in AddPcs \cup RemovePcs => req[s] # Idle
         /\ req[s] # Idle => req[s] \in Request /\ req[s].tag \in Tags
                             /\ req[s].pc \in AddPcs \cup RemovePcs
<1>1. req[s] \in Request \cup {Idle}
  BY DEF TypeOK
<1>2. Idle.pc = "idle" /\ Idle.alone = FALSE
  BY DEF Idle
<1>3. CASE req[s] = Idle
  BY <1>1, <1>2, <1>3 DEF AddPcs, RemovePcs
<1>4. CASE req[s] # Idle
  <2>1. req[s] \in Request
    BY <1>1, <1>4
  <2> QED BY <1>1, <1>4, <2>1 DEF Request
<1> QED BY <1>3, <1>4

\* A step of the request in s, for tag t: it touches that tag only.
LocalTo(s, t) ==
  /\ \A u \in Slots : u # s => req'[u] = req[u]
  /\ \/ req'[s] = Idle
     \/ req'[s].tag = t /\ req'[s].alone = req[s].alone /\ req'[s] # Idle
  /\ \A v \in Tags : v # t => docs'[v] = docs[v] /\ feeds'[v] = feeds[v]
  /\ raced \subseteq raced' /\ gone' \subseteq gone \cup {t}
  /\ proc' = proc

\* What such a step has to establish on its tag.
Leaves(s, t) ==
  /\ t \notin raced' => IF req'[s] = Idle THEN Agree(t)' ELSE Undisturbed(s)'
  /\ (req'[s].alone /\ req'[s].pc = "delete") => feeds'[t] = NoFeed
  /\ (t \in gone' /\ t \notin gone) =>
       req'[s] = Idle /\ req[s].alone /\ docs'[t] = NoDoc /\ feeds'[t] = NoFeed

\* A step of one request keeps the invariant of every other tag.
LEMMA LocalStep ==
  ASSUME RegistryInv, NEW s \in Slots, req[s] # Idle,
         NEW t \in Tags, req[s].tag = t, LocalTo(s, t), Leaves(s, t)
  PROVE  DownInv' /\ AloneInv' /\ RacedInv' /\ GoneInv'
<1>1. NoTag \notin Tags
  BY ReservedAssumption
<1>2. proc = "serving" /\ proc' = "serving"
  BY DEF RegistryInv, DownInv, AllIdle, TypeOK, LocalTo
<1>3. DownInv'
  BY <1>2 DEF DownInv
<1>4. t \notin gone
  BY DEF RegistryInv, GoneInv, On
<1>5. \A v \in Tags : v # t => On(v)' = On(v)
  BY <1>1 DEF On, LocalTo, Idle
<1>6. AloneInv'
  <2> SUFFICES ASSUME NEW u \in Slots, req'[u].alone
               PROVE  /\ \A w \in Slots : req'[w].tag = req'[u].tag => w = u
                      /\ req'[u].pc = "delete" => feeds'[req'[u].tag] = NoFeed
    BY DEF AloneInv
  <2>1. CASE u = s
    BY <2>1, <1>1 DEF RegistryInv, AloneInv, LocalTo, Leaves, Idle
  <2>2. CASE u # s
    <3>1. req'[u] = req[u] /\ req[u].alone /\ req[u] # Idle
      BY <2>2 DEF LocalTo, Idle
    <3>2. req[u].tag \in Tags /\ req[u].tag # t
      BY <2>2, <3>1, SlotType DEF RegistryInv, AloneInv
    <3>3. feeds'[req[u].tag] = feeds[req[u].tag]
      BY <3>2 DEF LocalTo
    <3> QED BY <3>1, <3>2, <3>3, <1>1 DEF RegistryInv, AloneInv, LocalTo, Idle
  <2> QED BY <2>1, <2>2
<1>7. RacedInv'
  <2> SUFFICES ASSUME NEW v \in Tags \ raced'
               PROVE  /\ \A a, b \in On(v)' : a = b
                      /\ \A a \in On(v)' : Undisturbed(a)'
                      /\ On(v)' = {} => Agree(v)'
    BY DEF RacedInv
  <2>1. /\ v \notin raced
        /\ \A a, b \in On(v) : a = b
        /\ \A a \in On(v) : Undisturbed(a)
        /\ On(v) = {} => Agree(v)
    BY <1>2 DEF RegistryInv, RacedInv, LocalTo
  <2>2. CASE v = t
    <3>1. On(t) = {s}
      BY <2>1, <2>2 DEF On
    <3>2. On(t)' = IF req'[s] = Idle THEN {} ELSE {s}
      BY <3>1, <1>1 DEF On, LocalTo, Idle
    <3>3. t \notin raced' /\ On(v)' = On(t)' /\ (Agree(t)' => Agree(v)')
      BY <2>2 DEF On, Agree
    <3>4. IF req'[s] = Idle THEN Agree(t)' ELSE Undisturbed(s)'
      BY <3>3 DEF Leaves
    <3>5. CASE req'[s] = Idle
      BY <3>2, <3>3, <3>4, <3>5
    <3>6. CASE req'[s] # Idle
      <4>1. On(v)' = {s}
        BY <3>2, <3>3, <3>6
      <4>2. ASSUME NEW a \in On(v)' PROVE Undisturbed(a)'
        <5>1. a = s
          BY <4>1
        <5> QED BY <3>4, <3>6, <5>1
      <4> QED BY <4>1, <4>2
    <3> QED BY <3>5, <3>6
  <2>3. CASE v # t
    <3>1. docs'[v] = docs[v] /\ feeds'[v] = feeds[v] /\ On(v)' = On(v)
      BY <2>3, <1>5 DEF LocalTo
    <3>2. \A a \in On(v) : req'[a] = req[a] /\ req[a].tag = v
      BY <2>3 DEF On, LocalTo
    <3>3. \A a, b \in On(v)' : a = b
      BY <2>1, <3>1
    <3>4. ASSUME NEW a \in On(v)' PROVE Undisturbed(a)'
      <4>1. a \in On(v) /\ req'[a] = req[a] /\ req[a].tag = v
        BY <3>1, <3>2
      <4>2. Undisturbed(a)
        BY <2>1, <4>1
      <4> QED BY <3>1, <4>1, <4>2 DEF Undisturbed, Agree
    <3>5. On(v)' = {} => Agree(v)'
      BY <2>1, <3>1 DEF Agree
    <3> QED BY <3>3, <3>4, <3>5
  <2> QED BY <2>2, <2>3
<1>8. GoneInv'
  <2> SUFFICES ASSUME NEW v \in gone'
               PROVE  On(v)' = {} /\ docs'[v] = NoDoc /\ feeds'[v] = NoFeed
    BY DEF GoneInv
  <2>1. CASE v = t
    <3>1. \A u \in Slots : u # s => req[u].tag # t
      BY <2>1, <1>4 DEF Leaves, RegistryInv, AloneInv
    <3> QED BY <2>1, <3>1, <1>1, <1>4 DEF Leaves, LocalTo, On, Idle
  <2>2. CASE v # t
    <3>1. v \in gone /\ v \in Tags
      BY <2>2 DEF LocalTo, RegistryInv, TypeOK
    <3> QED BY <2>2, <3>1, <1>5 DEF RegistryInv, GoneInv, LocalTo
  <2> QED BY <2>1, <2>2
<1> QED BY <1>3, <1>6, <1>7, <1>8

\* Every step of a request, and dropping one at any step, keeps the invariant.
LEMMA RequestKeeps ==
  ASSUME RegistryInv, NEW s \in Slots, RequestStep(s) \/ Abandon(s)
  PROVE  DownInv' /\ AloneInv' /\ RacedInv' /\ GoneInv'
<1>1. req[s] # Idle /\ req[s] \in Request
  BY SlotType DEF RegistryInv, RequestStep, AddFind, AddUpsert, AddSpawn, RemoveStop,
       RemoveDelete, Abandon, AddPcs, RemovePcs
<1>2. PICK t \in Tags : req[s].tag = t
  BY <1>1 DEF Request
<1>3. /\ req \in [Slots -> Request \cup {Idle}] /\ docs \in [Tags -> Doc \cup {NoDoc}]
      /\ feeds \in [Tags -> Feed \cup {NoFeed}]
  BY DEF RegistryInv, TypeOK
<1>4. proc = "serving" /\ s \in On(t) /\ t \notin gone
  BY <1>1, <1>2 DEF RegistryInv, DownInv, AllIdle, TypeOK, On, GoneInv
<1>5. t \notin raced => Undisturbed(s)
  BY <1>4 DEF RegistryInv, RacedInv
<1>6. req[s].alone /\ req[s].pc = "delete" => feeds[t] = NoFeed
  BY <1>2 DEF RegistryInv, AloneInv
<1>7. ASSUME NEW pc \in AddPcs \cup RemovePcs, Goto(s, pc)
      PROVE  /\ \A u \in Slots : u # s => req'[u] = req[u]
             /\ req'[s] = [req[s] EXCEPT !.pc = pc] /\ req'[s].pc = pc
             /\ req'[s].tag = t /\ req'[s].alone = req[s].alone
             /\ req'[s].doc = req[s].doc /\ req'[s] # Idle
  <2>1. req' = [req EXCEPT ![s].pc = pc]
    BY <1>7 DEF Goto
  <2>2. req'[s] = [req[s] EXCEPT !.pc = pc]
    BY <2>1, <1>3
  <2>3. req'[s].pc = pc /\ req'[s].tag = t /\ req'[s].alone = req[s].alone
          /\ req'[s].doc = req[s].doc
    BY <2>2, <1>1, <1>2 DEF Request
  <2>4. req'[s] # Idle
    BY <2>3 DEF Idle, AddPcs, RemovePcs
  <2> QED BY <2>1, <2>2, <2>3, <2>4, <1>3
<1>8. ASSUME End(s)
      PROVE  (\A u \in Slots : u # s => req'[u] = req[u]) /\ req'[s] = Idle
  BY <1>8, <1>3 DEF End
<1>9. Idle.alone = FALSE /\ "find" \in AddPcs /\ "upsert" \in AddPcs /\ "spawn" \in AddPcs
        /\ "stop" \in RemovePcs /\ "delete" \in RemovePcs
  BY DEF Idle, AddPcs, RemovePcs
<1>10. SUFFICES LocalTo(s, t) /\ Leaves(s, t)
  BY <1>1, <1>2, LocalStep
<1>11. ASSUME NEW pc \in AddPcs \cup RemovePcs, Goto(s, pc), gone' = gone, raced' = raced,
              pc = "delete" => feeds'[t] = NoFeed,
              t \notin raced => Undisturbed(s)'
       PROVE  Leaves(s, t)
  BY <1>7, <1>11 DEF Leaves
<1>12. ASSUME End(s), t \notin raced' => Agree(t)',
              t \in gone' => req[s].alone /\ docs'[t] = NoDoc /\ feeds'[t] = NoFeed
       PROVE  Leaves(s, t)
  BY <1>8, <1>9, <1>12 DEF Leaves
<1>13. CASE AddFind(s)
  <2>1. (Goto(s, "upsert") /\ docs[t] = NoDoc) \/ End(s)
    BY <1>13, <1>2 DEF AddFind, Find
  <2>2. LocalTo(s, t)
    BY <1>13, <2>1, <1>7, <1>8, <1>9 DEF AddFind, LocalTo
  <2>3. req[s].pc = "find" /\ UNCHANGED <<docs, feeds, raced, gone>>
    BY <1>13 DEF AddFind
  <2>4. t \notin raced => Agree(t)
    BY <1>2, <1>5, <2>3 DEF Undisturbed
  <2>5. CASE Goto(s, "upsert") /\ docs[t] = NoDoc
    <3>1. req'[s].pc = "upsert" /\ req'[s].tag = t
      BY <2>5, <1>7, <1>9
    <3>2. t \notin raced => docs'[t] = NoDoc /\ feeds'[t] = NoFeed
      BY <2>3, <2>4, <2>5 DEF Agree
    <3>3. t \notin raced => Undisturbed(s)'
      BY <3>1, <3>2 DEF Undisturbed
    <3> QED BY <2>2, <2>3, <2>5, <3>3, <1>9, <1>11
  <2>6. CASE End(s)
    <3>1. t \notin raced' => Agree(t)'
      BY <2>3, <2>4 DEF Agree
    <3> QED BY <2>2, <2>3, <2>6, <3>1, <1>4, <1>12
  <2> QED BY <2>1, <2>5, <2>6
<1>14. CASE AddUpsert(s)
  <2>1. req[s].pc = "upsert" /\ UNCHANGED <<feeds, proc, raced, gone>>
    BY <1>14 DEF AddUpsert
  <2>2. t \notin raced => docs[t] = NoDoc /\ feeds[t] = NoFeed
    BY <1>2, <1>5, <2>1 DEF Undisturbed
  <2>3. CASE Valid(t, req[s].doc)
    <3>1. docs' = [docs EXCEPT ![t] = req[s].doc] /\ Goto(s, "spawn")
      BY <1>14, <1>2, <2>3 DEF AddUpsert, Upserted
    <3>2. LocalTo(s, t)
      BY <2>1, <3>1, <1>3, <1>7, <1>9 DEF LocalTo
    <3>3. req'[s].pc = "spawn" /\ req'[s].tag = t /\ req'[s].doc = req[s].doc
      BY <3>1, <1>7, <1>9
    <3>4. t \notin raced => docs'[t] = req[s].doc /\ feeds'[t] = NoFeed
      BY <2>1, <2>2, <3>1, <1>3
    <3>5. t \notin raced => Undisturbed(s)'
      BY <3>3, <3>4 DEF Undisturbed
    <3> QED BY <3>1, <3>2, <3>5, <2>1, <1>9, <1>11
  <2>4. CASE ~Valid(t, req[s].doc)
    <3>1. docs' = docs /\ End(s)
      BY <1>14, <1>2, <2>4 DEF AddUpsert, Upserted
    <3>2. LocalTo(s, t)
      BY <2>1, <3>1, <1>8 DEF LocalTo
    <3>3. t \notin raced' => Agree(t)'
      BY <2>1, <2>2, <3>1 DEF Agree
    <3> QED BY <3>1, <3>2, <3>3, <2>1, <1>4, <1>12
  <2> QED BY <2>3, <2>4
<1>15. CASE AddSpawn(s)
  <2>1. /\ req[s].pc = "spawn" /\ UNCHANGED <<docs, proc, raced, gone>> /\ End(s)
        /\ feeds' = [feeds EXCEPT ![t] = Spawned(t, req[s].doc)]
    BY <1>15, <1>2 DEF AddSpawn
  <2>2. t \notin raced => docs[t] = req[s].doc /\ feeds[t] = NoFeed
    BY <1>2, <1>5, <2>1 DEF Undisturbed
  <2>3. LocalTo(s, t)
    BY <2>1, <1>3, <1>8 DEF LocalTo
  <2>4. req[s].doc \in Doc
    BY <2>1 DEF RegistryInv, TypeOK, AddPcs
  <2>5. t \notin raced => docs'[t] = req[s].doc /\ docs'[t] # NoDoc
                            /\ feeds'[t] = FeedOf(docs'[t])
    BY <2>1, <2>2, <2>4, <1>3, NullAssumption DEF Spawned
  <2>6. t \notin raced' => Agree(t)'
    BY <2>1, <2>5 DEF Agree
  <2> QED BY <2>1, <2>3, <2>6, <1>4, <1>12
<1>16. CASE RemoveStop(s)
  <2>1. /\ feeds' = [feeds EXCEPT ![t] = NoFeed] /\ Goto(s, "delete")
        /\ UNCHANGED <<docs, proc, raced, gone>>
    BY <1>16, <1>2 DEF RemoveStop, Stopped
  <2>2. feeds'[t] = NoFeed
    BY <2>1, <1>3
  <2>3. LocalTo(s, t)
    BY <2>1, <1>3, <1>7, <1>9 DEF LocalTo
  <2>4. req'[s].pc = "delete" /\ req'[s].tag = t
    BY <2>1, <1>7, <1>9
  <2>5. Undisturbed(s)'
    BY <2>2, <2>4 DEF Undisturbed
  <2> QED BY <2>1, <2>2, <2>3, <2>5, <1>9, <1>11
<1>17. CASE RemoveDelete(s)
  <2>1. /\ req[s].pc = "delete" /\ docs' = [docs EXCEPT ![t] = NoDoc] /\ End(s)
        /\ gone' = (IF req[s].alone THEN gone \cup {t} ELSE gone)
        /\ UNCHANGED <<feeds, proc, raced>>
    BY <1>17, <1>2 DEF RemoveDelete, Deleted, Answered
  <2>2. docs'[t] = NoDoc
    BY <2>1, <1>3
  <2>3. LocalTo(s, t)
    BY <2>1, <1>3, <1>8 DEF LocalTo
  <2>4. t \notin raced => feeds[t] = NoFeed
    BY <1>2, <1>5, <2>1 DEF Undisturbed
  <2>5. t \notin raced' => Agree(t)'
    BY <2>1, <2>2, <2>4 DEF Agree
  <2>6. t \in gone' => req[s].alone /\ docs'[t] = NoDoc /\ feeds'[t] = NoFeed
    BY <2>1, <2>2, <1>4, <1>6
  <2> QED BY <2>1, <2>3, <2>5, <2>6, <1>12
<1>18. CASE Abandon(s)
  <2>1. /\ raced' = (IF req[s].pc \in {"spawn", "delete"} THEN raced \cup {t} ELSE raced)
        /\ End(s) /\ UNCHANGED <<docs, feeds, proc, gone>>
    BY <1>18, <1>2 DEF Abandon
  <2>2. LocalTo(s, t)
    BY <2>1, <1>8 DEF LocalTo
  <2>3. req[s].pc \in {"find", "stop", "upsert", "spawn", "delete"}
    BY <1>1 DEF Request, AddPcs, RemovePcs
  <2>4. t \notin raced' => Agree(t)
    BY <2>1, <2>3, <1>2, <1>5 DEF Undisturbed, Agree
  <2>5. t \notin raced' => Agree(t)'
    BY <2>1, <2>4 DEF Agree
  <2> QED BY <2>1, <2>2, <2>5, <1>4, <1>12
<1> QED BY <1>13, <1>14, <1>15, <1>16, <1>17, <1>18 DEF RequestStep

\* A new request keeps it: one that meets another marks the tag and both.
LEMMA BeginKeeps ==
  ASSUME RegistryInv, NEW s \in Slots, NEW t \in Tags, NEW d, NEW pc \in {"find", "stop"},
         Begin(s, t, pc, d), UNCHANGED <<docs, feeds, proc>>
  PROVE  DownInv' /\ AloneInv' /\ RacedInv' /\ GoneInv'
<1>1. NoTag \notin Tags
  BY ReservedAssumption
<1>2. proc = "serving" /\ req[s] = Idle /\ s \notin On(t)
  BY <1>1 DEF Begin, On, Idle
<1>3. /\ req'[s] = [pc |-> pc, tag |-> t, doc |-> d, alone |-> On(t) = {}]
      /\ \A u \in On(t) : req'[u] = [req[u] EXCEPT !.alone = FALSE]
      /\ \A u \in Slots : u # s /\ u \notin On(t) => req'[u] = req[u]
      /\ raced' = (IF On(t) = {} THEN raced ELSE raced \cup {t})
      /\ gone' = gone \ {t}
  BY <1>2 DEF Begin, On
<1>4. \A u \in Slots : u # s =>
        req'[u].tag = req[u].tag /\ req'[u].pc = req[u].pc /\ req'[u].doc = req[u].doc
          /\ (req'[u].alone => req[u].alone /\ u \notin On(t))
  <2> SUFFICES ASSUME NEW u \in Slots, u # s
               PROVE  req'[u].tag = req[u].tag /\ req'[u].pc = req[u].pc
                        /\ req'[u].doc = req[u].doc
                        /\ (req'[u].alone => req[u].alone /\ u \notin On(t))
    OBVIOUS
  <2>1. CASE u \in On(t)
    <3>1. req[u] \in Request
      BY <2>1, <1>1, SlotType DEF RegistryInv, On, Idle
    <3> QED BY <2>1, <3>1, <1>3 DEF Request
  <2>2. CASE u \notin On(t)
    BY <2>2, <1>3
  <2> QED BY <2>1, <2>2
<1>5. On(t)' = On(t) \cup {s} /\ \A v \in Tags : v # t => On(v)' = On(v)
  BY <1>1, <1>2, <1>3, <1>4 DEF On, Idle
<1>6. DownInv'
  BY <1>2 DEF DownInv
<1>7. AloneInv'
  <2> SUFFICES ASSUME NEW u \in Slots, req'[u].alone
               PROVE  /\ \A w \in Slots : req'[w].tag = req'[u].tag => w = u
                      /\ req'[u].pc = "delete" => feeds'[req'[u].tag] = NoFeed
    BY DEF AloneInv
  <2>1. CASE u = s
    <3>1. req'[s].alone = (On(t) = {}) /\ req'[s].tag = t /\ req'[s].pc = pc
      BY <1>3
    <3>2. On(t) = {}
      BY <2>1, <3>1
    <3>3. \A w \in Slots : w # s => req'[w].tag # t
      BY <3>2, <1>4 DEF On
    <3> QED BY <2>1, <3>1, <3>3
  <2>2. CASE u # s
    <3>1. req[u].alone /\ req[u].tag # t /\ req'[u].tag = req[u].tag /\ req'[u].pc = req[u].pc
      BY <2>2, <1>4 DEF On
    <3> QED BY <2>2, <3>1, <1>3, <1>4 DEF RegistryInv, AloneInv
  <2> QED BY <2>1, <2>2
<1>8. RacedInv'
  <2> SUFFICES ASSUME NEW v \in Tags \ raced'
               PROVE  /\ \A a, b \in On(v)' : a = b
                      /\ \A a \in On(v)' : Undisturbed(a)'
                      /\ On(v)' = {} => Agree(v)'
    BY DEF RacedInv
  <2>1. /\ v \notin raced
        /\ \A a, b \in On(v) : a = b
        /\ \A a \in On(v) : Undisturbed(a)
        /\ On(v) = {} => Agree(v)
    BY <1>2, <1>3 DEF RegistryInv, RacedInv
  <2>2. CASE v = t
    <3>1. On(t) = {} /\ Agree(t)
      BY <2>1, <2>2, <1>3
    <3>2. On(v)' = {s}
      BY <2>2, <3>1, <1>5
    <3>3. Agree(t)'
      BY <3>1 DEF Agree
    <3>4. req'[s].tag = t /\ req'[s].pc \in {"find", "stop"}
      BY <1>3
    <3>5. Undisturbed(s)'
      BY <3>3, <3>4 DEF Undisturbed, Agree
    <3>6. \A a \in On(v)' : a = s
      BY <3>2
    <3>7. ASSUME NEW a \in On(v)' PROVE Undisturbed(a)'
      <4>1. a = s
        BY <3>6
      <4> QED BY <3>5, <4>1
    <3> QED BY <3>2, <3>6, <3>7
  <2>3. CASE v # t
    <3>1. On(v)' = On(v)
      BY <2>3, <1>5
    <3>2. \A a, b \in On(v)' : a = b
      BY <2>1, <3>1
    <3>3. ASSUME NEW a \in On(v)' PROVE Undisturbed(a)'
      <4>1. a \in On(v) /\ a \in Slots /\ a # s /\ Undisturbed(a)
        BY <2>1, <3>1, <1>1, <1>2 DEF On, Idle
      <4>2. req'[a].tag = req[a].tag /\ req'[a].pc = req[a].pc /\ req'[a].doc = req[a].doc
        BY <4>1, <1>4
      <4> QED BY <4>1, <4>2 DEF Undisturbed, Agree
    <3>4. On(v)' = {} => Agree(v)'
      BY <2>1, <3>1 DEF Agree
    <3> QED BY <3>2, <3>3, <3>4
  <2> QED BY <2>2, <2>3
<1>9. GoneInv'
  <2> SUFFICES ASSUME NEW v \in gone'
               PROVE  On(v)' = {} /\ docs'[v] = NoDoc /\ feeds'[v] = NoFeed
    BY DEF GoneInv
  <2>1. v \in gone /\ v # t /\ v \in Tags
    BY <1>3 DEF RegistryInv, TypeOK
  <2> QED BY <2>1, <1>5 DEF RegistryInv, GoneInv
<1> QED BY <1>6, <1>7, <1>8, <1>9

-----------------------------------------------------------------------------
(* The process.                                                            *)

\* Start-up makes the feeds agree with the documents; a crash leaves nothing
\* for them to agree on until it.
LEMMA ProcessKeeps ==
  ASSUME RegistryInv, Start \/ Crash
  PROVE  DownInv' /\ AloneInv' /\ RacedInv' /\ GoneInv'
<1>1. NoTag \notin Tags
  BY ReservedAssumption
<1>2. gone \subseteq Tags
  BY DEF RegistryInv, TypeOK
<1>3. CASE Start
  <2>1. req' = req /\ docs' = docs /\ gone' = gone /\ req = AllIdle /\ proc' = "serving"
    BY <1>3 DEF Start, RegistryInv, DownInv
  <2>2. \A s \in Slots : req[s] = Idle
    BY <2>1 DEF AllIdle
  <2>3. \A v \in Tags : On(v)' = {}
    BY <2>1, <2>2, <1>1 DEF On, Idle
  <2>4. feeds' = [t \in Tags |-> IF t \in All THEN FeedOf(docs[t]) ELSE NoFeed]
    BY <1>3 DEF Start
  <2>5. ASSUME NEW v \in Tags PROVE Agree(v)'
    BY <2>1, <2>4 DEF Agree, All
  <2>6. DownInv' /\ AloneInv'
    BY <2>1, <2>2 DEF DownInv, AloneInv, Idle
  <2>7. RacedInv'
    BY <2>3, <2>5 DEF RacedInv
  <2>8. GoneInv'
    BY <2>1, <2>3, <2>4, <1>2 DEF RegistryInv, GoneInv, All
  <2> QED BY <2>6, <2>7, <2>8
<1>4. CASE Crash
  <2>1. /\ req' = AllIdle /\ docs' = docs /\ gone' = gone /\ proc' = "down"
        /\ feeds' = NoFeeds
    BY <1>4 DEF Crash
  <2>2. \A s \in Slots : req'[s] = Idle
    BY <2>1 DEF AllIdle
  <2>3. \A v \in Tags : On(v)' = {} /\ feeds'[v] = NoFeed
    BY <2>1, <2>2, <1>1 DEF On, Idle, NoFeeds
  <2>4. DownInv'
    BY <2>1 DEF DownInv, AllIdle, NoFeeds
  <2>5. AloneInv' /\ RacedInv'
    BY <2>1, <2>2 DEF AloneInv, RacedInv, Idle
  <2>6. GoneInv'
    BY <2>1, <2>3, <1>2 DEF RegistryInv, GoneInv
  <2> QED BY <2>4, <2>5, <2>6
<1> QED BY <1>3, <1>4

-----------------------------------------------------------------------------
(* Types.                                                                  *)

\* Every feed a document starts is a feed.
LEMMA FeedOfType == \A d \in Doc : FeedOf(d) \in Feed
  BY DEF FeedOf, Feed, WellFormed

\* Every step keeps the type invariant.
LEMMA TypeStep == TypeOK /\ [Next]_vars => TypeOK'
<1> SUFFICES ASSUME TypeOK, [Next]_vars PROVE TypeOK'
  OBVIOUS
<1> USE DEF TypeOK
<1>1. ASSUME NEW s \in Slots, NEW pc \in AddPcs \cup RemovePcs, Goto(s, pc),
             req[s] \in Request, pc \in AddPcs => req[s].doc \in Doc
      PROVE  req' \in [Slots -> Request \cup {Idle}]
               /\ \A u \in Slots : req'[u].pc \in AddPcs => req'[u].doc \in Doc
  <2>1. /\ req' = [req EXCEPT ![s] = [req[s] EXCEPT !.pc = pc]]
        /\ [req[s] EXCEPT !.pc = pc] \in Request
        /\ [req[s] EXCEPT !.pc = pc].pc = pc /\ [req[s] EXCEPT !.pc = pc].doc = req[s].doc
    BY <1>1 DEF Goto, Request
  <2> QED BY <1>1, <2>1
<1>2. ASSUME NEW s \in Slots, End(s)
      PROVE  req' \in [Slots -> Request \cup {Idle}]
               /\ \A u \in Slots : req'[u].pc \in AddPcs => req'[u].doc \in Doc
  BY <1>2 DEF End, Idle, AddPcs
<1>3. ASSUME NEW s \in Slots, NEW t \in Tags, NEW pc \in {"find", "stop"},
             NEW d \in Doc \cup {NoDoc}, pc = "find" => d \in Doc, Begin(s, t, pc, d)
      PROVE  /\ req' \in [Slots -> Request \cup {Idle}]
             /\ \A u \in Slots : req'[u].pc \in AddPcs => req'[u].doc \in Doc
             /\ raced' \subseteq Tags /\ gone' \subseteq Tags
  <2>1. /\ raced' \subseteq Tags /\ gone' \subseteq Tags
        /\ req' = [u \in Slots |->
                  CASE u = s -> [pc |-> pc, tag |-> t, doc |-> d,
                                 alone |-> On(t) = {}]
                    [] u \in On(t) -> [req[u] EXCEPT !.alone = FALSE]
                    [] OTHER -> req[u]]
        /\ s \notin On(t)
    BY <1>3, ReservedAssumption DEF Begin, On, Idle
  <2>2. ASSUME NEW u \in Slots
        PROVE  req'[u] \in Request \cup {Idle} /\ (req'[u].pc \in AddPcs => req'[u].doc \in Doc)
    <3>1. CASE u = s
      <4>1. req'[u] = [pc |-> pc, tag |-> t, doc |-> d, alone |-> On(t) = {}]
        BY <2>1, <3>1
      <4>2. (On(t) = {}) \in BOOLEAN
        OBVIOUS
      <4> QED BY <4>1, <4>2, <1>3 DEF Request, AddPcs, RemovePcs
    <3>2. CASE u \in On(t)
      <4>1. req'[u] = [req[u] EXCEPT !.alone = FALSE]
        BY <2>1, <3>2
      <4>2. req[u] \in Request
        BY <3>2, ReservedAssumption, SlotType DEF On, Idle
      <4> QED BY <4>1, <4>2 DEF Request
    <3>3. CASE u # s /\ u \notin On(t)
      BY <2>1, <3>3
    <3> QED BY <3>1, <3>2, <3>3
  <2> QED BY <2>1, <2>2
<1>4. ASSUME NEW s \in Slots, NEW t \in Tags, BeginRemove(s, t) PROVE TypeOK'
  BY <1>4, <1>3 DEF BeginRemove
<1>5. ASSUME NEW s \in Slots, NEW t \in Tags, NEW d \in Doc, BeginAdd(s, t, d) PROVE TypeOK'
  BY <1>5, <1>3 DEF BeginAdd
<1>6. ASSUME NEW s \in Slots, RequestStep(s) PROVE TypeOK'
  <2>1. req[s] \in Request /\ req[s].tag \in Tags
    BY <1>6, SlotType DEF RequestStep, AddFind, AddUpsert, AddSpawn, RemoveStop, RemoveDelete,
       AddPcs, RemovePcs
  <2>2. /\ "find" \in AddPcs /\ "upsert" \in AddPcs /\ "spawn" \in AddPcs
        /\ "stop" \in RemovePcs /\ "delete" \in RemovePcs /\ "delete" \notin AddPcs
    BY DEF AddPcs, RemovePcs
  <2>3. CASE AddFind(s)
    BY <2>1, <2>2, <2>3, <1>1, <1>2 DEF AddFind
  <2>4. CASE AddUpsert(s)
    <3>1. req[s].doc \in Doc
      BY <2>2, <2>4 DEF AddUpsert
    <3>2. docs' \in [Tags -> Doc \cup {NoDoc}] /\ \A t \in Reserved : docs'[t] = NoDoc
      BY <2>1, <2>4, <3>1, ReservedAssumption DEF AddUpsert, Upserted, Valid
    <3> QED BY <2>1, <2>2, <2>4, <3>1, <3>2, <1>1, <1>2 DEF AddUpsert
  <2>5. CASE AddSpawn(s)
    <3>1. req[s].doc \in Doc
      BY <2>2, <2>5 DEF AddSpawn
    <3>2. feeds' \in [Tags -> Feed \cup {NoFeed}]
      BY <2>1, <2>5, <3>1, FeedOfType DEF AddSpawn, Spawned
    <3>3. wins' \in [Tags -> 0..2]
      <4>1. (IF wins[req[s].tag] < 2 THEN wins[req[s].tag] + 1 ELSE 2) \in 0..2
        BY <2>1
      <4> QED BY <2>5, <4>1 DEF AddSpawn
    <3> QED BY <2>5, <3>2, <3>3, <1>2 DEF AddSpawn
  <2>6. CASE RemoveStop(s)
    BY <2>1, <2>2, <2>6, <1>1 DEF RemoveStop, Stopped
  <2>7. CASE RemoveDelete(s)
    <3>1. docs' \in [Tags -> Doc \cup {NoDoc}] /\ \A t \in Reserved : docs'[t] = NoDoc
      BY <2>1, <2>7, ReservedAssumption DEF RemoveDelete, Deleted
    <3> QED BY <2>1, <2>7, <3>1, <1>2 DEF RemoveDelete, Answered
  <2> QED BY <1>6, <2>3, <2>4, <2>5, <2>6, <2>7 DEF RequestStep
<1>7. ASSUME NEW s \in Slots, Abandon(s) PROVE TypeOK'
  <2>1. req[s].tag \in Tags
    BY <1>7, SlotType DEF Abandon
  <2> QED BY <1>7, <2>1, <1>2 DEF Abandon
<1>8. CASE Start
  <2>1. feeds' \in [Tags -> Feed \cup {NoFeed}]
    BY <1>8, FeedOfType DEF Start, All
  <2> QED BY <1>8, <2>1 DEF Start
<1>9. CASE Crash
  BY <1>9 DEF Crash, NoFeeds, AllIdle, Idle, AddPcs
<1>10. CASE UNCHANGED vars
  BY <1>10 DEF vars
<1> QED BY <1>4, <1>5, <1>6, <1>7, <1>8, <1>9, <1>10 DEF Next

-----------------------------------------------------------------------------
(* The theorems.                                                           *)

\* The invariant holds to begin with, when there is nothing but documents.
LEMMA InitInv == Init => RegistryInv
<1> SUFFICES ASSUME Init PROVE RegistryInv
  OBVIOUS
<1>1. TypeOK
  BY DEF Init, TypeOK, NoFeeds, AllIdle, Idle, AddPcs
<1>2. DownInv /\ AloneInv /\ RacedInv /\ GoneInv
  BY DEF Init, DownInv, AloneInv, RacedInv, GoneInv, AllIdle, Idle
<1> QED BY <1>1, <1>2 DEF RegistryInv

\* Every step keeps it.
LEMMA NextInv == RegistryInv /\ [Next]_vars => RegistryInv'
<1> SUFFICES ASSUME RegistryInv, [Next]_vars PROVE RegistryInv'
  OBVIOUS
<1>1. TypeOK'
  BY TypeStep DEF RegistryInv
<1> SUFFICES DownInv' /\ AloneInv' /\ RacedInv' /\ GoneInv'
  BY <1>1 DEF RegistryInv
<1>2. ASSUME NEW s \in Slots, NEW t \in Tags,
             BeginRemove(s, t) \/ \E d \in Doc : BeginAdd(s, t, d)
      PROVE  DownInv' /\ AloneInv' /\ RacedInv' /\ GoneInv'
  BY <1>2, BeginKeeps DEF BeginRemove, BeginAdd
<1>3. ASSUME NEW s \in Slots, RequestStep(s) \/ Abandon(s)
      PROVE  DownInv' /\ AloneInv' /\ RacedInv' /\ GoneInv'
  BY <1>3, RequestKeeps
<1>4. CASE Start \/ Crash
  BY <1>4, ProcessKeeps
<1>5. CASE UNCHANGED vars
  <2>1. UNCHANGED <<docs, feeds, req, proc, raced, gone>>
    BY <1>5 DEF vars
  <2>2. DownInv'
    BY <2>1 DEF RegistryInv, DownInv
  <2>3. AloneInv'
    BY <2>1 DEF RegistryInv, AloneInv
  <2>4. RacedInv'
    <3>1. \A t \in Tags : On(t)' = On(t) /\ (Agree(t)' <=> Agree(t))
      BY <2>1 DEF On, Agree
    <3>2. \A s \in Slots : Undisturbed(s)' <=> Undisturbed(s)
      BY <2>1 DEF Undisturbed, Agree
    <3>3. \A t \in Tags : On(t) \subseteq Slots
      BY DEF On
    <3>4. RacedInv
      BY DEF RegistryInv
    <3> QED BY <2>1, <3>1, <3>2, <3>3, <3>4 DEF RacedInv
  <2>5. GoneInv'
    BY <2>1 DEF RegistryInv, GoneInv, On
  <2> QED BY <2>2, <2>3, <2>4, <2>5
<1> QED BY <1>2, <1>3, <1>4, <1>5 DEF Next

\* The invariant of the registry holds throughout.
THEOREM InvariantHolds == Spec => []RegistryInv
  BY InitInv, NextInv, PTL DEF Spec

\* Every variable has its type, and a reserved tag never has a document
\* (model/market.rs:49-62), whoever asks for it and however.
THEOREM TypeCorrect == Spec => []TypeOK
<1>1. RegistryInv => TypeOK
  BY DEF RegistryInv
<1> QED BY <1>1, InvariantHolds, PTL

\* While the server serves, a tag that no request is at work on and no race
\* was run on has a feed exactly if it has a document, for the same market
\* (controllers/markets.rs:35-58, 80-88; main.rs:101-105).
THEOREM RegistryAgrees == Spec => []AgreeUnlessRaced
<1>1. RegistryInv => AgreeUnlessRaced
  BY DEF RegistryInv, RacedInv, AgreeUnlessRaced
<1> QED BY <1>1, InvariantHolds, PTL

\* A DELETE that had its tag to itself leaves neither a document nor a feed,
\* whatever earlier races left (controllers/markets.rs:80-88).
THEOREM RemoveRepairsAll == Spec => []RemoveRepairs
<1>1. RegistryInv => RemoveRepairs
  BY DEF RegistryInv, GoneInv, RemoveRepairs
<1> QED BY <1>1, InvariantHolds, PTL
=============================================================================
