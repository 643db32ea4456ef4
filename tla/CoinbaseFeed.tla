----------------------------- MODULE CoinbaseFeed -----------------------------
(***************************************************************************)
(* feeds/coinbase.rs: the Coinbase half of a market's feed.  A session     *)
(* takes numbered frames of all its channels, turns the level2 ones into   *)
(* rows, and ends on a gap in the numbers, so that the next session begins *)
(* with a fresh snapshot.  The rows are an event log; `reader` is the book *)
(* that somebody who replays it holds.                                     *)
(*                                                                         *)
(* Coinbase (external) may leave frames out, send some that do not parse,  *)
(* and close the connection.  The queue the rows go to is the one of       *)
(* IlpWriter: here a live row finds room or does not, and a snapshot row   *)
(* waits for it.  The backoff between sessions is the one of FeedSession.  *)
(***************************************************************************)
EXTENDS Integers, Sequences, FiniteSets

CONSTANTS
  Levels,     \* side and price of the product's book
  MaxSize,    \* bound: sizes
  MaxFaults,  \* bound: frames left out or damaged, rows without room, closed connections
  Modulus,    \* bound: sequence numbers are kept modulo this
  WireCap     \* bound: frames on their way

ASSUME BoundAssumption ==
  MaxSize \in Nat \ {0} /\ MaxFaults \in Nat /\ WireCap \in Nat \ {0}

\* More numbers than frames that can be missing in a row.
ASSUME ModulusAssumption == Modulus \in Nat /\ Modulus > MaxFaults + 1

None == -1
Nums == 0..Modulus - 1
Successor(n) == (n + 1) % Modulus

Book == [Levels -> 0..MaxSize]
EmptyBook == [l \in Levels |-> 0]

\* An Envelope with one event: its lines are sides and prices with their
\* absolute sizes, `bad` those of them that do not parse, `after` (history)
\* the book once Coinbase sent it.
Frame == [channel : {"l2_data", "heartbeats", "none", "unparsed"}, num : Nums,
          kind : {"snapshot", "update", "bad"}, lines : SUBSET (Levels \X (0..MaxSize)),
          bad : SUBSET Levels, after : Book]

VARIABLES
  book,     \* Coinbase: the product's book
  level2,   \* Coinbase: "none", "due" (subscribed, no snapshot yet) or "on"
  next,     \* Coinbase: the number of the next frame
  wire,     \* frames sent and not yet read
  link,     \* "down", "up", "ended" (status not yet written) or "stopped"
  session,  \* sessions begun
  lastSeq,  \* run_session's last_seq
  frame,    \* the frame handle_text is at: a sequence of at most one
  left,     \* its rows that are not yet queued
  connected,\* CoinbaseFeedStatus::connected
  reader,   \* the book replayed from the rows queued so far
  readerOf, \* the session and frame whose snapshot it began with
  asOf,     \* history: Coinbase's book after the last frame handled
  doubt,    \* history: levels with a row that was not queued, and none since
  missing,  \* history: a frame of this session was left out after its first
  faults    \* faults so far

coinbase == <<book, level2, next, wire>>
log == <<reader, readerOf, asOf, doubt>>
vars == <<coinbase, link, session, lastSeq, frame, left, connected, log, missing, faults>>

Fault == faults < MaxFaults /\ faults' = faults + 1

LevelsOf(f) == {line[1] : line \in f.lines}

-----------------------------------------------------------------------------
(* Coinbase (external).                                                    *)

Plain(channel) ==
  [channel |-> channel, num |-> next, kind |-> "bad", lines |-> {}, bad |-> {}, after |-> book]

\* The session has a frame to compare the next one with, or will.
HasFirst == lastSeq # None \/ \E i \in DOMAIN wire : wire[i].channel \in {"l2_data", "heartbeats"}

\* The frame goes out; or its number is used and it does not, or it comes
\* unreadable, whole or in part.
Send(f) ==
  /\ link = "up" /\ Len(wire) < WireCap
  /\ next' = Successor(next)
  /\ \/ wire' = Append(wire, f) /\ UNCHANGED <<missing, faults>>
     \/ /\ Fault
        /\ wire' \in {wire, Append(wire, [f EXCEPT !.channel = "unparsed"])}
        /\ missing' = (missing \/ HasFirst)
     \/ /\ Fault
        /\ f.channel = "l2_data"
        /\ \/ wire' = Append(wire, [f EXCEPT !.kind = "bad"])
           \/ \E l \in LevelsOf(f) : wire' = Append(wire, [f EXCEPT !.bad = {l}])
        /\ UNCHANGED missing

SendSnapshot ==
  /\ level2 = "due"
  /\ Send([channel |-> "l2_data", num |-> next, kind |-> "snapshot",
           lines |-> {<<l, book[l]>> : l \in {l \in Levels : book[l] > 0}},
           bad |-> {}, after |-> book])
  /\ level2' = "on"
  /\ UNCHANGED <<book, link, session, lastSeq, frame, left, connected, log>>

\* An update carries the new sizes of the levels that changed.
SendUpdate(b) ==
  /\ level2 = "on" /\ b # book
  /\ Send([channel |-> "l2_data", num |-> next, kind |-> "update",
           lines |-> {<<l, b[l]>> : l \in {l \in Levels : b[l] # book[l]}},
           bad |-> {}, after |-> b])
  /\ book' = b
  /\ UNCHANGED <<level2, link, session, lastSeq, frame, left, connected, log>>

\* A heartbeat; the frames of `ticker` and `subscriptions` count for the same
\* here.
SendHeartbeat ==
  /\ Send(Plain("heartbeats"))
  /\ UNCHANGED <<book, level2, link, session, lastSeq, frame, left, connected, log>>

\* An error reply has no channel; it may use a number or not.
SendError ==
  /\ link = "up" /\ Len(wire) < WireCap
  /\ Fault
  /\ wire' = Append(wire, Plain("none"))
  /\ next' \in {next, Successor(next)}
  /\ missing' = (missing \/ (next' # next /\ HasFirst))
  /\ UNCHANGED <<book, level2, link, session, lastSeq, frame, left, connected, log>>

-----------------------------------------------------------------------------
(* Sessions.                                                               *)

\* Connect and subscribe to the three channels.
Connect ==
  /\ link = "down"
  /\ link' = "up" /\ connected' = TRUE
  /\ session' = session + 1
  /\ lastSeq' = None /\ missing' = FALSE
  /\ level2' = "due" /\ next' = 0 /\ wire' = <<>>
  /\ UNCHANGED <<book, frame, left, log, faults>>

\* The handshake, the signature or a subscribe command fails.
ConnectFails ==
  /\ link = "down"
  /\ link' = "ended"
  /\ Fault
  /\ UNCHANGED <<coinbase, session, lastSeq, frame, left, connected, log, missing>>

HangUp ==
  /\ link' = "ended"
  /\ level2' = "none" /\ wire' = <<>>

\* The connection is closed or fails, or no frame came for STALE_AFTER.
Close ==
  /\ link = "up" /\ frame = <<>>
  /\ Fault
  /\ HangUp
  /\ UNCHANGED <<book, next, session, lastSeq, frame, left, connected, log, missing>>

\* run_coinbase_feed notes the end and sleeps.
NoteEnd ==
  /\ link = "ended"
  /\ link' = "down" /\ connected' = FALSE
  /\ UNCHANGED <<coinbase, session, lastSeq, frame, left, log, missing, faults>>

\* The market is deleted: the task is aborted at any await, in the middle of a
\* snapshot too; added again, it has a task of its own.
Stop ==
  /\ link # "stopped"
  /\ Fault
  /\ link' = "stopped" /\ level2' = "none" /\ wire' = <<>>
  /\ frame' = <<>> /\ left' = {} /\ missing' = FALSE
  /\ UNCHANGED <<book, next, session, lastSeq, connected, log>>

Spawn ==
  /\ link = "stopped"
  /\ link' = "down" /\ connected' = FALSE
  /\ UNCHANGED <<coinbase, session, lastSeq, frame, left, log, missing, faults>>

-----------------------------------------------------------------------------
(* handle_text.                                                            *)

ReadsOn == link = "up" /\ frame = <<>> /\ wire # <<>>

\* Slip: a heartbeat has nothing to be missed and is not compared.
InTurnHeartbeats(f) ==
  f.channel = "heartbeats" \/ lastSeq = None \/ f.num = Successor(lastSeq)

\* The number follows the last one, or is the first.
InTurn(f) == lastSeq = None \/ f.num = Successor(lastSeq)

\* A frame that does not parse, or has no channel: the number is not looked at.
SkipFrame ==
  /\ ReadsOn
  /\ Head(wire).channel \in {"none", "unparsed"}
  /\ wire' = Tail(wire)
  /\ UNCHANGED <<book, level2, next, link, session, lastSeq, frame, left, connected,
                 log, missing, faults>>

Gap ==
  /\ ReadsOn
  /\ LET f == Head(wire)
     IN f.channel \notin {"none", "unparsed"} /\ ~InTurn(f) /\ lastSeq' = f.num
  /\ HangUp
  /\ UNCHANGED <<book, next, session, frame, left, connected, log, missing, faults>>

\* The rows of an event: none if it does not parse, and those of its lines
\* that do.
RowsOf(f) ==
  IF f.channel = "l2_data" /\ f.kind # "bad"
    THEN {line \in f.lines : line[1] \notin f.bad} ELSE {}

\* The next frame in turn is taken up.
TakeFrame ==
  /\ ReadsOn
  /\ LET f == Head(wire)
     IN /\ f.channel \in {"l2_data", "heartbeats"} /\ InTurn(f)
        /\ lastSeq' = f.num
        /\ frame' = <<f>> /\ left' = RowsOf(f)
        /\ wire' = Tail(wire)
        \* History: what the frame says and no row will.
        /\ doubt' = IF f.kind = "snapshot" /\ RowsOf(f) # {} THEN f.bad
                    ELSE IF f.kind = "snapshot" THEN Levels
                    ELSE doubt \cup (LevelsOf(f) \ {line[1] : line \in RowsOf(f)})
  /\ UNCHANGED <<book, level2, next, link, session, connected, reader, readerOf, asOf,
                 missing, faults>>

\* A row joins the log: the first of a snapshot starts the book anew.
Queue(line) ==
  LET f == frame[1]
      from == IF f.kind = "snapshot" /\ readerOf # <<session, f.num>> THEN EmptyBook ELSE reader
  IN /\ reader' = [from EXCEPT ![line[1]] = line[2]]
     /\ readerOf' = IF f.kind = "snapshot" THEN <<session, f.num>> ELSE readerOf
     /\ left' = left \ {line}
     /\ UNCHANGED <<asOf, faults>>

\* Slip: a snapshot row that finds no room is dropped like any other.
QueueSnapshotRowIfRoom(line) ==
  /\ frame # <<>> /\ frame[1].kind = "snapshot"
  /\ \/ Queue(line)
     \/ left' = left \ {line} /\ Fault /\ UNCHANGED <<reader, readerOf, asOf>>
  /\ UNCHANGED <<coinbase, link, session, lastSeq, frame, connected, doubt, missing>>

\* A snapshot row waits for room.
QueueSnapshotRow(line) ==
  /\ frame # <<>> /\ frame[1].kind = "snapshot"
  /\ Queue(line)
  /\ UNCHANGED <<coinbase, link, session, lastSeq, frame, connected, doubt, missing>>

\* try_queue: a live row finds room or is dropped.
QueueUpdateRow(line) ==
  /\ frame # <<>> /\ frame[1].kind = "update"
  /\ \/ Queue(line) /\ doubt' = doubt \ {line[1]}
     \/ /\ Fault
        /\ left' = left \ {line}
        /\ doubt' = doubt \cup {line[1]}
        /\ UNCHANGED <<reader, readerOf, asOf>>
  /\ UNCHANGED <<coinbase, link, session, lastSeq, frame, connected, missing>>

FrameDone ==
  /\ frame # <<>> /\ left = {}
  /\ asOf' = frame[1].after
  /\ frame' = <<>>
  /\ UNCHANGED <<coinbase, link, session, lastSeq, left, connected, reader, readerOf, doubt,
                 missing, faults>>

-----------------------------------------------------------------------------
Init ==
  /\ book \in Book /\ level2 = "none" /\ next = 0 /\ wire = <<>>
  /\ link = "down" /\ session = 0 /\ lastSeq = None
  /\ frame = <<>> /\ left = {} /\ connected = FALSE
  /\ reader = EmptyBook /\ readerOf = <<0, 0>> /\ asOf = EmptyBook /\ doubt = Levels
  /\ missing = FALSE /\ faults = 0

CoinbaseSends ==
  SendSnapshot \/ SendHeartbeat \/ SendError \/ \E b \in Book : SendUpdate(b)

HandleText ==
  \/ SkipFrame \/ Gap \/ TakeFrame \/ FrameDone
  \/ \E line \in left : QueueSnapshotRow(line) \/ QueueUpdateRow(line)

Sessions == Connect \/ ConnectFails \/ Close \/ NoteEnd \/ Stop \/ Spawn

Next == CoinbaseSends \/ HandleText \/ Sessions

Spec == Init /\ [][Next]_vars

\* Coinbase sends a heartbeat every second, and the task is run.
FairSpec == Spec /\ WF_vars(SendHeartbeat) /\ WF_vars(HandleText)

-----------------------------------------------------------------------------
(* Properties.                                                             *)

TypeOK ==
  /\ book \in Book /\ reader \in Book /\ asOf \in Book
  /\ level2 \in {"none", "due", "on"} /\ next \in Nums
  /\ Len(wire) <= WireCap /\ \A i \in DOMAIN wire : wire[i] \in Frame
  /\ link \in {"down", "up", "ended", "stopped"}
  /\ session \in 0..MaxFaults + 1
  /\ lastSeq \in Nums \cup {None}
  /\ Len(frame) <= 1 /\ \A i \in DOMAIN frame : frame[i] \in Frame
  /\ left \subseteq Levels \X (0..MaxSize)
  /\ frame = <<>> => left = {}
  /\ readerOf \in (0..session) \X Nums
  /\ doubt \subseteq Levels
  /\ connected \in BOOLEAN /\ missing \in BOOLEAN /\ faults \in 0..MaxFaults

(***************************************************************************)
(* Between frames, the log of a session whose snapshot was queued replays  *)
(* to Coinbase's book as of the last frame handled, on every level but     *)
(* those whose last row was dropped or could not be read: no frame that is *)
(* left out is bridged, no snapshot is mixed with an older one, whole or   *)
(* half stored, and a dropped row is mended by the level's next one        *)
(* (feeds/coinbase.rs:157-161, 208-270).                                   *)
(***************************************************************************)
Synced == link = "up" /\ frame = <<>> /\ readerOf[1] = session

LogTracksCoinbase == Synced => \A l \in Levels \ doubt : reader[l] = asOf[l]

(***************************************************************************)
(* A frame left out, unreadable or numbered and without a channel, is      *)
(* found out, by the next heartbeat at the latest: the session does not go *)
(* on for ever (feeds/coinbase.rs:5-6, 145-161).                           *)
(***************************************************************************)
GapEndsSession == missing ~> link # "up"

(***************************************************************************)
(* feeds/coinbase.rs:4 of what is stored: "the snapshot Coinbase sends on  *)
(* subscribe (one row per level), then absolute per-level updates".  So an *)
(* update's rows follow a snapshot of their session.                       *)
(* The code does not keep this: see Divergences in the README.             *)
(***************************************************************************)
UpdatesFollowSnapshot ==
  (frame # <<>> /\ frame[1].kind = "update" /\ left # {}) => readerOf[1] = session
=============================================================================
