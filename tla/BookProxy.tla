------------------------------ MODULE BookProxy ------------------------------
(***************************************************************************)
(* controllers/ws.rs: the orderbook websocket proxies of one feed.  A      *)
(* client takes a receiver on the broadcast channel, then a copy of the    *)
(* cached books, is sent the copy as snapshots and then the channel's      *)
(* frames verbatim.  The channel keeps the last Capacity frames: a client  *)
(* further behind is told so and resumes from the oldest one kept.         *)
(*                                                                         *)
(* A connection does one thing at a time: while it sends, it neither takes *)
(* the next frame nor notices that the channel is closed, and a send ends  *)
(* when the client takes what is sent, which it may never do.              *)
(*                                                                         *)
(* The client's side of the contract is external: it keeps a book per      *)
(* market, restarts it from every snapshot, and skips the deltas numbered  *)
(* at or below it (controllers/ws.rs:44-46).                               *)
(***************************************************************************)
EXTENDS BookFeed

CONSTANTS
  Clients,    \* websocket connections to GET /ws/{tag}/orderbook
  Capacity,   \* feeds/mod.rs ORDERBOOK_CAPACITY
  MaxFrames   \* bound: frames broadcast over the whole run

ASSUME CapacityAssumption == Capacity \in Nat \ {0}
ASSUME MaxFramesAssumption == MaxFrames \in Nat

VARIABLES
  log,       \* every frame sent on orderbook_tx, oldest first
  pc,        \* where each connection is in `orderbook` and `pump`
  pos,       \* index in log of the next frame to be sent
  sending,   \* what the select loop has taken off the channel and is sending
  preamble,  \* snapshots read from the cache and not yet sent to the client
  view,      \* the books the client holds (external)
  dirty      \* markets the client was told it may have missed frames of, and
             \* has had no snapshot of since (external)

clientVars == <<pc, pos, sending, preamble, view, dirty>>
vars == <<feedVars, log, clientVars>>

(***************************************************************************)
(* What a broadcast leaves behind: the frame itself, and, as a history     *)
(* that no action reads, the cache it was about to be applied to and the   *)
(* markets that more than one subscription had fed.                        *)
(***************************************************************************)
Broadcast == [frame : Frame, before : Cache, mixed : SUBSET Tickers]

-----------------------------------------------------------------------------
(* The feed's steps; only handle_text sends on the channel.                *)

BroadcastFrame(s) ==
  /\ Len(log) < MaxFrames
  /\ HandleFrame(s)
  /\ log' = Append(log, [frame |-> Head(wire[s]), before |-> books,
                         mixed |-> Mixed])
  /\ UNCHANGED clientVars

FeedStep == SilentStep /\ UNCHANGED <<log, clientVars>>

-----------------------------------------------------------------------------
(* One proxy connection.                                                   *)

\* `feed.orderbook_tx.subscribe()`: the receiver starts at the next frame.
Subscribe(c) ==
  /\ pc[c] = "idle"
  /\ link # "stopped"
  /\ pc' = [pc EXCEPT ![c] = "subscribed"]
  /\ pos' = [pos EXCEPT ![c] = Len(log) + 1]
  /\ UNCHANGED <<feedVars, log, sending, preamble, view, dirty>>

\* Slip: the cache is read first, as it was when the client connected, and the
\* receiver taken afterwards.
ReadCacheFirst(c) ==
  /\ pc[c] = "subscribed"
  /\ pc' = [pc EXCEPT ![c] = "pumping"]
  /\ preamble' = [preamble EXCEPT ![c] =
                    IF pos[c] > Len(log) THEN books ELSE log[pos[c]].before]
  /\ pos' = [pos EXCEPT ![c] = Len(log) + 1]
  /\ UNCHANGED <<feedVars, log, sending, view, dirty>>

\* `books.read()`: every cached book becomes a snapshot frame.
ReadCache(c) ==
  /\ pc[c] = "subscribed"
  /\ pc' = [pc EXCEPT ![c] = "pumping"]
  /\ preamble' = [preamble EXCEPT ![c] = books]
  /\ UNCHANGED <<feedVars, log, pos, sending, view, dirty>>

\* A send of the first loop of `pump` ends: one snapshot at a time, in no
\* fixed order.
SendSnapshot(c, t) ==
  /\ pc[c] = "pumping"
  /\ LET book == preamble[c][t]
     IN /\ book # NoBook
        /\ view' = [view EXCEPT ![c][t] =
                      ApplyMsg(EmptyBook, SnapshotFrame(book), book.seq)]
  /\ preamble' = [preamble EXCEPT ![c][t] = NoBook]
  /\ UNCHANGED <<feedVars, log, pc, pos, sending, dirty>>

\* The select loop, which starts when the preamble is out, awaits the channel.
Awaiting(c) ==
  pc[c] = "pumping" /\ preamble[c] = NoBooks /\ sending[c] = "nothing"

\* The connection is inside a `socket.send(..).await`.
Sending(c) ==
  pc[c] = "pumping" /\ (preamble[c] # NoBooks \/ sending[c] # "nothing")

Oldest == IF Len(log) > Capacity THEN Len(log) - Capacity + 1 ELSE 1

\* `Ok(text)`: a frame is taken off the channel.
Receive(c) ==
  /\ Awaiting(c)
  /\ pos[c] \in Oldest..Len(log)
  /\ sending' = [sending EXCEPT ![c] = "frame"]
  /\ UNCHANGED <<feedVars, log, pc, pos, preamble, view, dirty>>

\* What a client makes of a frame, given the book it holds for market t.
ClientAfter(book, f, t) ==
  IF book # NoBook /\ f.typ = "orderbook_delta" /\ f.seq <= book.seq
    THEN book
    ELSE AfterFrame(book, f, t)

\* The send of the frame ends: the client has it.
Forward(c) ==
  /\ sending[c] = "frame"
  /\ sending' = [sending EXCEPT ![c] = "nothing"]
  /\ LET f == log[pos[c]].frame
     IN /\ view' = [view EXCEPT ![c] =
                      [t \in Tickers |-> ClientAfter(view[c][t], f, t)]]
        /\ dirty' = [dirty EXCEPT ![c] = {t \in @ : ~Resets(f, t)}]
  /\ pos' = [pos EXCEPT ![c] = @ + 1]
  /\ UNCHANGED <<feedVars, log, pc, preamble>>

\* `Lagged(n)`: the receiver goes on from the oldest frame kept ...
Lag(c) ==
  /\ Awaiting(c)
  /\ pos[c] < Oldest
  /\ pos' = [pos EXCEPT ![c] = Oldest]
  /\ sending' = [sending EXCEPT ![c] = "notice"]
  /\ UNCHANGED <<feedVars, log, pc, preamble, view, dirty>>

\* ... and the client is told.
SendNotice(c) ==
  /\ sending[c] = "notice"
  /\ sending' = [sending EXCEPT ![c] = "nothing"]
  /\ dirty' = [dirty EXCEPT ![c] = Tickers]
  /\ UNCHANGED <<feedVars, log, pc, pos, preamble, view>>

\* Slip: a connection keeps a sender of its own alive, so only a feed that is
\* down closes it.
ServerCloseWhenDown(c) ==
  /\ Awaiting(c)
  /\ link = "down"
  /\ pos[c] > Len(log)
  /\ sending' = [sending EXCEPT ![c] = "close"]
  /\ UNCHANGED <<feedVars, log, pc, pos, preamble, view, dirty>>

\* `Closed`: the sender is gone and the receiver has yielded every frame kept.
ServerClose(c) ==
  /\ Awaiting(c)
  /\ link = "stopped"
  /\ pos[c] > Len(log)
  /\ sending' = [sending EXCEPT ![c] = "close"]
  /\ UNCHANGED <<feedVars, log, pc, pos, preamble, view, dirty>>

Disconnect(c) ==
  /\ pc' = [pc EXCEPT ![c] = "closed"]
  /\ pos' = [pos EXCEPT ![c] = 1]
  /\ sending' = [sending EXCEPT ![c] = "nothing"]
  /\ preamble' = [preamble EXCEPT ![c] = NoBooks]
  /\ view' = [view EXCEPT ![c] = NoBooks]
  /\ dirty' = [dirty EXCEPT ![c] = {}]
  /\ UNCHANGED <<feedVars, log>>

SendClose(c) == sending[c] = "close" /\ Disconnect(c)

\* The client closes, or a send to it fails.
ClientGone(c) == pc[c] = "pumping" /\ Disconnect(c)

\* What the connection does of its own, when it is not inside a send.
ProxyStep(c) ==
  \/ ReadCache(c)
  \/ Receive(c)
  \/ Lag(c)
  \/ ServerClose(c)

\* What takes the client: to connect, to let a send end, to go.
ClientStep(c) ==
  \/ Subscribe(c)
  \/ \E t \in Tickers : SendSnapshot(c, t)
  \/ Forward(c)
  \/ SendNotice(c)
  \/ SendClose(c)
  \/ ClientGone(c)

-----------------------------------------------------------------------------
Init ==
  /\ FeedInit
  /\ log = <<>>
  /\ pc = [c \in Clients |-> "idle"]
  /\ pos = [c \in Clients |-> 1]
  /\ sending = [c \in Clients |-> "nothing"]
  /\ preamble = [c \in Clients |-> NoBooks]
  /\ view = [c \in Clients |-> NoBooks]
  /\ dirty = [c \in Clients |-> {}]

Next ==
  \/ \E s \in Sids : BroadcastFrame(s)
  \/ FeedStep
  \/ \E c \in Clients : ProxyStep(c) \/ ClientStep(c)

Spec == Init /\ [][Next]_vars

\* The runtime polls a connection that has something to do.  Nothing obliges
\* the exchange or the feed to go on, nor a client to connect, to take what it
\* is sent or to leave: `socket.send` has no timeout.
FairSpec == Spec /\ \A c \in Clients : WF_vars(ProxyStep(c))

-----------------------------------------------------------------------------
(* Properties.                                                             *)

\* Every variable has its type.
TypeOK ==
  /\ FeedTypeOK
  /\ log \in Seq(Broadcast)
  /\ pc \in [Clients -> {"idle", "subscribed", "pumping", "closed"}]
  /\ pos \in [Clients -> Nat \ {0}]
  /\ sending \in [Clients -> {"nothing", "frame", "notice", "close"}]
  /\ preamble \in [Clients -> Cache]
  /\ view \in [Clients -> Cache]
  /\ dirty \in [Clients -> SUBSET Tickers]

\* Client c has been sent everything there is to send it.
Drained(c) == Awaiting(c) /\ pos[c] = Len(log) + 1

(***************************************************************************)
(* A client that has been sent everything holds the cached book of every   *)
(* cached market that one subscription fed, but for the markets a `lagged` *)
(* notice told it about: the overlap of the preamble with the channel, a   *)
(* reconnect of the feed under it, a market rotation or an unreadable      *)
(* frame never leaves it silently with another book                        *)
(* (controllers/ws.rs:44-51, feeds/task.rs:337-339).                       *)
(***************************************************************************)
ReplayMatchesCache ==
  \A c \in Clients : Drained(c) =>
    \A t \in Tickers \ (dirty[c] \cup Mixed) :
      books[t] # NoBook => view[c][t] = books[t]

(***************************************************************************)
(* Deleting a market ends its proxies, but for a client that does not read:*)
(* a connection that outlives its feed for ever is inside one send         *)
(* (controllers/ws.rs:63-86).                                              *)
(***************************************************************************)
StopReleasesClients ==
  \A c \in Clients :
    <>[](link = "stopped" /\ pc[c] = "pumping") => <>[]Sending(c)

(***************************************************************************)
(* What controllers/ws.rs:44-46 says of the overlap of the preamble with   *)
(* the channel: that it is harmless, the client skipping what its snapshot *)
(* already has.  So a frame that changes a client's book, of a market it   *)
(* was not told about, makes it the book the cache became with that frame. *)
(* The code does not keep this: see Divergences in the README.             *)
(***************************************************************************)
OverlapHarmless ==
  [][\A c \in Clients, t \in Tickers :
       (/\ pos'[c] = pos[c] + 1
        /\ t \notin dirty[c]
        /\ view'[c][t] # view[c][t]
        /\ log[pos[c]].before[t] # NoBook)
         => view'[c][t] = AfterFrame(log[pos[c]].before[t],
                                     log[pos[c]].frame, t)]_vars
=============================================================================
