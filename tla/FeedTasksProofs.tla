---------------------------- MODULE FeedTasksProofs ----------------------------
(***************************************************************************)
(* Machine-checked proofs about the two tasks a feed has besides its       *)
(* Kalshi session: the Coinbase feed (CoinbaseFeed) and the task that      *)
(* caches a market's summaries (SummaryCache).                             *)
(***************************************************************************)
EXTENDS MCFeedTasks, FiniteSetTheorems, FunctionTheorems, SequenceTheorems, TLAPS

-----------------------------------------------------------------------------
(***************************************************************************)
(* A Coinbase feed (CoinbaseFeed): the inductive invariant.                *)
(***************************************************************************)

\* The channels whose frames are compared and handled.
Reads(f) == f.channel \in {"l2_data", "heartbeats"}

\* What is true of every frame that was sent, damaged on its way or not: its
\* lines are sizes of the book as of it, and a snapshot's are all of them.
FrameOK(f) ==
  /\ f \in Frame
  /\ \A line \in f.lines : line[2] = f.after[line[1]]
  /\ f.kind = "snapshot" => \A l \in Levels : f.after[l] = 0 \/ <<l, f.after[l]>> \in f.lines
  /\ f.channel = "heartbeats" => f.kind = "bad" /\ f.lines = {}

\* A frame carries what changed since book b.
Carries(b, f) == \A l \in Levels : f.after[l] # b[l] => l \in LevelsOf(f)

\* Position 0 is the frame handled last, or the one at hand.
NumAt(i) == IF i = 0 THEN lastSeq ELSE wire[i].num
Base == IF frame = <<>> THEN asOf ELSE frame[1].after
AfterAt(i) == IF i = 0 THEN Base ELSE wire[i].after

\* Frame i is compared with whatever comes after position j.
Compared(i, j) ==
  /\ IF i = 0 THEN lastSeq # None ELSE Reads(wire[i])
  /\ \A k \in i + 1..j : ~Reads(wire[k])

\* What is in turn carries on from what it follows.
ChainInv ==
  \A i \in 0..Len(wire) : \A j \in i + 1..Len(wire) :
    Compared(i, j - 1) /\ Reads(wire[j]) /\ wire[j].num = Successor(NumAt(i))
      => Carries(AfterAt(i), wire[j])

\* The next frame's number tells whether one was missed: fewer are than numbers.
TailInv ==
  \A i \in 0..Len(wire) : Compared(i, Len(wire)) =>
    \E d \in 0..faults :
      /\ next = (NumAt(i) + 1 + d) % Modulus
      /\ d = 0 => book = AfterAt(i)

\* A session has one snapshot at most, and begins with no number.
HasSnapshot == frame # <<>> /\ frame[1].kind = "snapshot"

SnapshotInv ==
  /\ level2 = "due" => readerOf[1] # session /\ ~HasSnapshot
  /\ \A i \in 1..Len(wire) : wire[i].kind = "snapshot" =>
       /\ level2 = "on" /\ readerOf[1] # session /\ ~HasSnapshot
       /\ \A j \in 1..Len(wire) : wire[j].kind = "snapshot" => i = j
  /\ lastSeq = None => readerOf[1] # session /\ frame = <<>>

\* What the rows of the frame at hand still have to say.
FrameInv ==
  frame # <<>> =>
    LET f == frame[1]
    IN /\ link = "up" /\ FrameOK(f) /\ Reads(f) /\ f.num = lastSeq
       /\ left \subseteq RowsOf(f)
       /\ f.kind = "snapshot" =>
            /\ left # {} => doubt = f.bad
            /\ readerOf[1] # session => left = RowsOf(f)
            /\ readerOf[1] = session => readerOf[2] = f.num

\* What is replayed is the book of the last frame, or will be with its rows.
ReplayInv ==
  readerOf[1] = session =>
    \A l \in Levels \ doubt : <<l, Base[l]>> \in left \/ reader[l] = Base[l]

UpInv == link = "up" => ChainInv /\ TailInv /\ SnapshotInv /\ ReplayInv

\* A session that saw no fault lost no frame, so that every session but the
\* first was ended by a fault.
SessionInv ==
  /\ link # "up" => session <= faults
  /\ link = "up" => session <= faults + 1
  /\ link = "up" /\ session = faults + 1 =>
       /\ \A j \in 1..Len(wire) :
            /\ Reads(wire[j])
            /\ (j = 1 /\ lastSeq = None) \/ wire[j].num = Successor(NumAt(j - 1))
       /\ (Len(wire) = 0 /\ lastSeq = None) \/ next = Successor(NumAt(Len(wire)))

WireInv ==
  /\ wire \in Seq(Frame) /\ frame \in Seq(Frame)
  /\ \A i \in 1..Len(wire) : FrameOK(wire[i])
  /\ link # "up" => wire = <<>> /\ frame = <<>> /\ left = {}

FeedInv == TypeOK /\ WireInv /\ FrameInv /\ UpInv /\ SessionInv

-----------------------------------------------------------------------------
(* Numbers.                                                                *)

LEMMA Bounds ==
  /\ MaxSize \in Nat /\ MaxSize > 0 /\ MaxFaults \in Nat /\ WireCap \in Nat
  /\ Modulus \in Nat /\ Modulus > MaxFaults + 1
BY BoundAssumption, ModulusAssumption

\* Counting goes round once at most.
LEMMA Wraps ==
  ASSUME NEW x \in Nat, x < 2 * Modulus
  PROVE  x % Modulus = IF x < Modulus THEN x ELSE x - Modulus
<1>1. Modulus \in Nat \ {0}
  BY Bounds
<1>2. \A k \in Int : \A r \in 0..Modulus - 1 : x = Modulus * k + r => x % Modulus = r
  BY <1>1
<1>3. CASE x < Modulus
  <2>1. x \in 0..Modulus - 1 /\ x = Modulus * 0 + x
    BY <1>1, <1>3
  <2> QED BY <1>2, <1>3, <2>1
<1>4. CASE x >= Modulus
  <2>1. x - Modulus \in 0..Modulus - 1 /\ x = Modulus * 1 + (x - Modulus)
    BY <1>1, <1>4
  <2> QED BY <1>1, <1>2, <1>4, <2>1
<1> QED BY <1>1, <1>3, <1>4

\* The number after d missed ones: it is the next in turn only if d is 0.
LEMMA Missed ==
  ASSUME NEW n \in Nums, NEW d \in Nat, d <= MaxFaults
  PROVE  /\ (n + 1 + d) % Modulus \in Nums
         /\ (n + 1 + d) % Modulus = Successor(n) => d = 0
         /\ d < MaxFaults => Successor((n + 1 + d) % Modulus) = (n + 1 + (d + 1)) % Modulus
<1>1. n \in Nat /\ n < Modulus
  BY Bounds DEF Nums
<1>2. (n + 1 + d) % Modulus = IF n + 1 + d < Modulus THEN n + 1 + d ELSE n + 1 + d - Modulus
  <2>1. n + 1 + d \in Nat /\ n + 1 + d < 2 * Modulus
    BY <1>1, Bounds
  <2> QED BY <1>1, <2>1, Wraps, Bounds
<1>3. (n + 1) % Modulus = IF n + 1 < Modulus THEN n + 1 ELSE n + 1 - Modulus
  <2>1. n + 1 \in Nat /\ n + 1 < 2 * Modulus
    BY <1>1, Bounds
  <2> QED BY <1>1, <2>1, Wraps, Bounds
<1>4. (n + 1 + d) % Modulus \in Nums
  BY <1>1, <1>2, Bounds DEF Nums
<1>5. (n + 1 + d) % Modulus = Successor(n) => d = 0
  BY <1>1, <1>2, <1>3, Bounds DEF Successor
<1>6. ASSUME d < MaxFaults
      PROVE  Successor((n + 1 + d) % Modulus) = (n + 1 + (d + 1)) % Modulus
  <2> PICK y : y = (n + 1 + d) % Modulus
    OBVIOUS
  <2>1. y \in Nat /\ y < Modulus
    BY <1>4, Bounds DEF Nums
  <2>2. (y + 1) % Modulus = IF y + 1 < Modulus THEN y + 1 ELSE y + 1 - Modulus
    <3>1. y + 1 \in Nat /\ y + 1 < 2 * Modulus
      BY <2>1, Bounds
    <3> QED BY <1>1, <2>1, <3>1, Wraps, Bounds
  <2>3. (n + 1 + (d + 1)) % Modulus
          = IF n + 1 + (d + 1) < Modulus THEN n + 1 + (d + 1) ELSE n + 1 + (d + 1) - Modulus
    <3>1. n + 1 + (d + 1) \in Nat /\ n + 1 + (d + 1) < 2 * Modulus
      BY <1>1, <1>6, Bounds
    <3> QED BY <1>1, <2>1, <3>1, Wraps, Bounds
  <2> QED BY <1>1, <1>2, <1>6, <2>1, <2>2, <2>3, Bounds DEF Successor
<1> QED BY <1>4, <1>5, <1>6

LEMMA SuccessorIs ==
  ASSUME NEW n \in Nums
  PROVE  Successor(n) \in Nums /\ Successor(n) = (n + 1 + 0) % Modulus
<1>1. n + 1 + 0 = n + 1
  BY Bounds DEF Nums
<1> QED BY <1>1, Missed, Bounds DEF Successor

-----------------------------------------------------------------------------
(* The frames on their way.                                                *)

\* What the parts of the invariant say of the wire's frames.
LEMMA WireIs ==
  ASSUME TypeOK, WireInv
  PROVE  /\ wire \in Seq(Frame) /\ Len(wire) \in Nat /\ DOMAIN wire = 1..Len(wire)
         /\ \A i \in 1..Len(wire) :
              wire[i] \in Frame /\ wire[i].num \in Nums /\ wire[i].after \in Book
         /\ faults \in Nat /\ faults <= MaxFaults /\ next \in Nums
         /\ \A i \in 0..Len(wire) : \A j \in Nat : Compared(i, j) => NumAt(i) \in Nums
<1>1. wire \in Seq(Frame) /\ Len(wire) \in Nat /\ DOMAIN wire = 1..Len(wire)
  BY DEF WireInv
<1>2. \A i \in 1..Len(wire) :
        wire[i] \in Frame /\ wire[i].num \in Nums /\ wire[i].after \in Book
  <2>1. \A i \in 1..Len(wire) : wire[i] \in Frame
    BY <1>1
  <2> QED BY <2>1 DEF Frame
<1>3. faults \in Nat /\ faults <= MaxFaults /\ next \in Nums
  BY Bounds DEF TypeOK
<1>4. ASSUME NEW i \in 0..Len(wire), NEW j \in Nat, Compared(i, j)
      PROVE  NumAt(i) \in Nums
  BY <1>1, <1>2, <1>4 DEF Compared, NumAt, TypeOK
<1> QED BY <1>1, <1>2, <1>3, <1>4

\* A frame, or none, follows those sent: what it must be to keep the chain.
Appends(g) ==
  /\ wire' = Append(wire, g) /\ g \in Frame
  /\ Reads(g) => /\ g.num = next /\ next' = Successor(next)
                 /\ book' = g.after /\ Carries(book, g)
  /\ ~Reads(g) => next' = Successor(next) \/ UNCHANGED <<next, book>>
  /\ faults' = faults + 1 \/ (UNCHANGED faults /\ Reads(g))

Loses == UNCHANGED wire /\ next' = Successor(next) /\ faults' = faults + 1

LEMMA AppendKeepsChain ==
  ASSUME TypeOK, WireInv, ChainInv, TailInv, NEW g, Appends(g),
         UNCHANGED <<lastSeq, frame, asOf>>, faults' \in 0..MaxFaults
  PROVE  ChainInv' /\ TailInv'
<1> PICK n : n = Len(wire)
  OBVIOUS
<1>1. /\ n \in Nat /\ n = Len(wire) /\ \A i \in 1..n : wire[i].num \in Nums
      /\ faults \in Nat /\ faults <= MaxFaults /\ next \in Nums
      /\ \A i \in 0..n : \A j \in Nat : Compared(i, j) => NumAt(i) \in Nums
  BY WireIs
<1>2. /\ Len(wire') = n + 1 /\ wire'[n + 1] = g
      /\ \A i \in 1..n : wire'[i] = wire[i]
  BY <1>1, AppendProperties DEF WireInv, Appends
<1>3. \A i \in 0..n : NumAt(i)' = NumAt(i) /\ AfterAt(i)' = AfterAt(i)
  BY <1>1, <1>2 DEF NumAt, AfterAt, Base
<1>4. ASSUME NEW i \in 0..n, NEW j \in 0..n, Compared(i, j)'
      PROVE  Compared(i, j)
  BY <1>1, <1>2, <1>4 DEF Compared
<1>5. ASSUME NEW i \in 0..n, Compared(i, n + 1)'
      PROVE  Compared(i, n) /\ ~Reads(g)
  <2>1. \A k \in i + 1..n + 1 : ~Reads(wire'[k])
    BY <1>5 DEF Compared, Reads
  <2>2. ~Reads(g)
    BY <1>1, <1>2, <2>1
  <2>3. Compared(i, n)'
    BY <1>1, <1>5 DEF Compared
  <2> QED BY <1>1, <1>4, <2>2, <2>3
<1>6. ChainInv'
  <2> SUFFICES ASSUME NEW i \in 0..n + 1, NEW j \in i + 1..n + 1,
                      Compared(i, j - 1)', Reads(wire'[j]),
                      wire'[j].num = Successor(NumAt(i)')
               PROVE  Carries(AfterAt(i)', wire'[j])
    BY <1>1, <1>2 DEF ChainInv, Carries, Reads
  <2>0. i \in 0..n /\ j - 1 \in 0..n
    BY <1>1
  <2>1. Compared(i, j - 1)
    BY <1>4, <2>0
  <2>2. CASE j <= n
    <3>1. wire'[j] = wire[j] /\ j \in i + 1..n
      BY <1>1, <1>2, <2>0, <2>2
    <3> QED BY <1>1, <1>3, <2>0, <2>1, <3>1 DEF ChainInv
  <2>3. CASE j = n + 1
    <3>1. Compared(i, n) /\ Reads(g) /\ g.num = Successor(NumAt(i)) /\ g.num = next
      BY <1>1, <1>2, <1>3, <2>0, <2>1, <2>3 DEF Appends
    <3>2. PICK d \in 0..faults : /\ next = (NumAt(i) + 1 + d) % Modulus
                                 /\ d = 0 => book = AfterAt(i)
      BY <1>1, <2>0, <3>1 DEF TailInv
    <3>3. d = 0
      <4> PICK m \in Nums : m = NumAt(i)
        BY <1>1, <2>0, <3>1
      <4>1. m \in Nat /\ d \in Nat /\ d <= MaxFaults
        BY <1>1, Bounds DEF Nums
      <4>2. (m + 1 + d) % Modulus = Successor(m)
        BY <3>1, <3>2
      <4> QED BY <4>1, <4>2, Missed, Bounds
    <3> QED BY <1>2, <1>3, <2>0, <2>3, <3>1, <3>2, <3>3 DEF Appends
  <2> QED BY <1>1, <2>2, <2>3
<1>7. TailInv'
  <2> SUFFICES ASSUME NEW i \in 0..n + 1, Compared(i, n + 1)'
               PROVE  \E d \in 0..faults' :
                        /\ next' = (NumAt(i)' + 1 + d) % Modulus
                        /\ d = 0 => book' = AfterAt(i)'
    BY <1>1, <1>2 DEF TailInv
  <2>1. CASE i = n + 1
    <3>1. Reads(g) /\ NumAt(i)' = next /\ AfterAt(i)' = book' /\ next' = Successor(next)
      BY <1>1, <1>2, <2>1 DEF Compared, NumAt, AfterAt, Appends
    <3>2. 0 \in 0..faults'
      OBVIOUS
    <3> QED BY <1>1, <3>1, <3>2, SuccessorIs
  <2>2. CASE i \in 0..n
    <3>1. Compared(i, n) /\ ~Reads(g) /\ faults' = faults + 1
      BY <1>5, <2>2 DEF Appends
    <3>2. PICK d \in 0..faults : /\ next = (NumAt(i) + 1 + d) % Modulus
                                 /\ d = 0 => book = AfterAt(i)
      BY <1>1, <2>2, <3>1 DEF TailInv
    <3>3. NumAt(i) \in Nums /\ d \in Nat /\ d < MaxFaults
      BY <1>1, <2>2, <3>1, Bounds
    <3>4. CASE next' = Successor(next)
      <4>1. next' = (NumAt(i) + 1 + (d + 1)) % Modulus
        <5> PICK m \in Nums : m = NumAt(i)
          BY <3>3
        <5>1. m \in Nat /\ next = (m + 1 + d) % Modulus
          BY <3>2, Bounds DEF Nums
        <5>2. Successor((m + 1 + d) % Modulus) = (m + 1 + (d + 1)) % Modulus
          BY <3>3, <5>1, Missed, Bounds
        <5> QED BY <3>4, <5>1, <5>2
      <4>2. d + 1 \in 0..faults' /\ d + 1 # 0
        BY <1>1, <3>1, <3>3
      <4> QED BY <1>3, <2>2, <4>1, <4>2
    <3>5. CASE UNCHANGED <<next, book>>
      <4>1. d \in 0..faults'
        BY <1>1, <3>1, <3>3
      <4> QED BY <1>3, <2>2, <3>2, <3>5, <4>1
    <3> QED BY <3>1, <3>4, <3>5 DEF Appends
  <2> QED BY <1>1, <2>1, <2>2
<1> QED BY <1>6, <1>7

LEMMA LossKeepsChain ==
  ASSUME TypeOK, WireInv, ChainInv, TailInv, Loses,
         UNCHANGED <<lastSeq, frame, asOf>>, faults' \in 0..MaxFaults
  PROVE  ChainInv' /\ TailInv'
<1>1. /\ Len(wire) \in Nat /\ faults \in Nat /\ faults <= MaxFaults /\ next \in Nums
      /\ \A i \in 0..Len(wire) : \A j \in Nat : Compared(i, j) => NumAt(i) \in Nums
  BY WireIs
<1>2. \A i : NumAt(i)' = NumAt(i) /\ AfterAt(i)' = AfterAt(i)
  BY DEF Loses, NumAt, AfterAt, Base
<1>3. \A i, j : Compared(i, j)' = Compared(i, j)
  BY DEF Loses, Compared
<1>4. ChainInv'
  BY <1>2, <1>3 DEF ChainInv, Loses, Reads, Carries
<1>5. TailInv'
  <2> SUFFICES ASSUME NEW i \in 0..Len(wire), Compared(i, Len(wire))
               PROVE  \E d \in 0..faults' :
                        /\ next' = (NumAt(i) + 1 + d) % Modulus
                        /\ d = 0 => book' = AfterAt(i)
    BY <1>1, <1>2, <1>3 DEF TailInv, Loses
  <2>1. PICK d \in 0..faults : next = (NumAt(i) + 1 + d) % Modulus
    BY DEF TailInv
  <2>2. NumAt(i) \in Nums /\ d \in Nat /\ d < MaxFaults /\ d + 1 \in 0..faults' /\ d + 1 # 0
    BY <1>1, Bounds DEF Loses
  <2>3. next' = (NumAt(i) + 1 + (d + 1)) % Modulus
    <3> PICK m \in Nums : m = NumAt(i)
      BY <2>2
    <3>1. m \in Nat /\ next = (m + 1 + d) % Modulus
      BY <2>1, Bounds DEF Nums
    <3>2. Successor((m + 1 + d) % Modulus) = (m + 1 + (d + 1)) % Modulus
      BY <2>2, <3>1, Missed, Bounds
    <3> QED BY <3>1, <3>2 DEF Loses
  <2> QED BY <2>2, <2>3
<1> QED BY <1>4, <1>5

\* The head of the wire is passed over (z = 0) or becomes the frame at hand.
LEMMA ShiftKeepsChain ==
  ASSUME TypeOK, WireInv, ChainInv, TailInv, wire # <<>>, wire' = Tail(wire),
         UNCHANGED <<next, book, faults>>,
         NEW z \in {0, 1},
         z = 0 => ~Reads(wire[1]) /\ UNCHANGED <<lastSeq, frame, asOf>>,
         z = 1 => Reads(wire[1]) /\ lastSeq' = wire[1].num /\ Base' = wire[1].after
  PROVE  ChainInv' /\ TailInv'
<1> PICK n : n = Len(wire)
  OBVIOUS
<1>1. /\ n \in Nat /\ n = Len(wire) /\ wire \in Seq(Frame)
      /\ \A i \in 1..n : wire[i].num \in Nums
  BY WireIs
<1>2. /\ n > 0 /\ n - 1 \in Nat /\ Len(wire') = n - 1
      /\ \A i \in 1..n - 1 : wire'[i] = wire[i + 1]
  BY <1>1, HeadTailProperties
<1> DEFINE s(i) == IF i = 0 THEN z ELSE i + 1
<1>3. ASSUME NEW i \in 0..n - 1
      PROVE  /\ s(i) \in 0..n /\ s(i) <= i + 1
             /\ NumAt(i)' = NumAt(s(i)) /\ AfterAt(i)' = AfterAt(s(i))
  <2>1. CASE i = 0 /\ z = 0
    BY <1>1, <1>2, <2>1 DEF NumAt, AfterAt, Base
  <2>2. CASE i = 0 /\ z = 1
    BY <1>1, <1>2, <2>2 DEF NumAt, AfterAt, Base
  <2>3. CASE i # 0
    BY <1>1, <1>2, <2>3 DEF NumAt, AfterAt
  <2> QED BY <2>1, <2>2, <2>3
<1>4. ASSUME NEW i \in 0..n - 1, NEW j \in 0..n - 1, Compared(i, j)'
      PROVE  Compared(s(i), j + 1)
  <2>1. /\ IF i = 0 THEN lastSeq' # None ELSE Reads(wire'[i])
        /\ \A k \in i + 1..j : ~Reads(wire'[k])
    BY <1>4 DEF Compared, Reads
  <2>2. \A k \in i + 2..j + 1 : ~Reads(wire[k])
    <3> SUFFICES ASSUME NEW k \in i + 2..j + 1 PROVE ~Reads(wire[k])
      OBVIOUS
    <3>1. k - 1 \in i + 1..j /\ k - 1 \in 1..n - 1 /\ (k - 1) + 1 = k
      BY <1>2
    <3> QED BY <1>2, <2>1, <3>1
  <2>3. IF s(i) = 0 THEN lastSeq # None ELSE Reads(wire[s(i)])
    <3>1. CASE i = 0
      BY <2>1, <3>1
    <3>2. CASE i # 0
      BY <1>2, <2>1, <3>2
    <3> QED BY <3>1, <3>2
  <2>4. ASSUME NEW k \in s(i) + 1..j + 1
        PROVE  ~Reads(wire[k])
    <3>1. CASE i = 0 /\ z = 0 /\ k = 1
      BY <3>1
    <3>2. CASE ~(i = 0 /\ z = 0 /\ k = 1)
      <4>1. k \in i + 2..j + 1
        BY <3>2
      <4> QED BY <2>2, <4>1
    <3> QED BY <3>1, <3>2
  <2> HIDE DEF s
  <2> QED BY <2>3, <2>4 DEF Compared
<1>5. ChainInv'
  <2> SUFFICES ASSUME NEW i \in 0..n - 1, NEW j \in i + 1..n - 1,
                      Compared(i, j - 1)', Reads(wire'[j]),
                      wire'[j].num = Successor(NumAt(i)')
               PROVE  Carries(AfterAt(i)', wire'[j])
    BY <1>2 DEF ChainInv, Carries, Reads
  <2>1. j - 1 \in 0..n - 1 /\ (j - 1) + 1 = j /\ wire'[j] = wire[j + 1]
    BY <1>2
  <2>2. Compared(s(i), j) /\ s(i) \in 0..n /\ s(i) <= i + 1
    BY <1>3, <1>4, <2>1
  <2>3. Reads(wire[j + 1]) /\ wire[j + 1].num = Successor(NumAt(s(i)))
    BY <1>3, <2>1
  <2> HIDE DEF s
  <2>4. j + 1 \in s(i) + 1..Len(wire) /\ (j + 1) - 1 = j
    BY <1>1, <1>2, <2>2
  <2>5. Carries(AfterAt(s(i)), wire[j + 1])
    BY <1>1, <2>2, <2>3, <2>4 DEF ChainInv
  <2> QED BY <1>3, <2>1, <2>5
<1>6. TailInv'
  <2> SUFFICES ASSUME NEW i \in 0..n - 1, Compared(i, n - 1)'
               PROVE  \E d \in 0..faults :
                        /\ next = (NumAt(i)' + 1 + d) % Modulus
                        /\ d = 0 => book = AfterAt(i)'
    BY <1>2 DEF TailInv
  <2>1. n - 1 \in 0..n - 1 /\ (n - 1) + 1 = n
    BY <1>2
  <2>2. Compared(s(i), n) /\ s(i) \in 0..n
    BY <1>3, <1>4, <2>1
  <2> HIDE DEF s
  <2>3. PICK d \in 0..faults : /\ next = (NumAt(s(i)) + 1 + d) % Modulus
                               /\ d = 0 => book = AfterAt(s(i))
    BY <1>1, <2>2 DEF TailInv
  <2> QED BY <1>3, <2>3
<1> QED BY <1>5, <1>6

\* Nothing comes or goes.
LEMMA WireStays ==
  ASSUME TypeOK, ChainInv, TailInv,
         UNCHANGED <<wire, lastSeq, next, book>>, Base' = Base,
         faults' \in Nat, faults <= faults'
  PROVE  ChainInv' /\ TailInv'
<1>1. \A i : NumAt(i)' = NumAt(i) /\ AfterAt(i)' = AfterAt(i)
  BY DEF NumAt, AfterAt
<1>2. \A i, j : Compared(i, j)' = Compared(i, j)
  BY DEF Compared
<1>3. \A d \in 0..faults : d \in 0..faults'
  BY Bounds DEF TypeOK
<1>4. ChainInv'
  BY <1>1, <1>2 DEF ChainInv, Reads, Carries
<1>5. TailInv'
  <2> SUFFICES ASSUME NEW i \in 0..Len(wire), Compared(i, Len(wire))
               PROVE  \E d \in 0..faults' :
                        /\ next = (NumAt(i) + 1 + d) % Modulus
                        /\ d = 0 => book = AfterAt(i)
    BY <1>1, <1>2 DEF TailInv
  <2>1. PICK d \in 0..faults : /\ next = (NumAt(i) + 1 + d) % Modulus
                               /\ d = 0 => book = AfterAt(i)
    BY DEF TailInv
  <2> QED BY <1>3, <2>1
<1> QED BY <1>4, <1>5

-----------------------------------------------------------------------------
(* What Coinbase sends.                                                    *)

\* A frame sent whole or damaged, or lost.
Sent(f) ==
  /\ FrameOK(f) /\ Reads(f) /\ f.num = next /\ f.after = book' /\ Carries(book, f)
  /\ f.kind = "snapshot" => level2 = "due" /\ level2' = "on"

Comes(g) == Appends(g) /\ FrameOK(g) /\ (g.kind = "snapshot" => level2 = "due" /\ level2' = "on")

LEMMA SendGives ==
  ASSUME TypeOK, NEW f, Sent(f), Send(f)
  PROVE  /\ link = "up" /\ Len(wire) < WireCap /\ next' = Successor(next)
         /\ faults' \in 0..MaxFaults /\ missing' \in BOOLEAN
         /\ Loses \/ \E g : Comes(g)
<1>1. /\ f \in Frame /\ Reads(f) /\ f.num = next /\ f.after = book' /\ Carries(book, f)
      /\ f.kind = "snapshot" => level2 = "due" /\ level2' = "on"
      /\ \A line \in f.lines : line[2] = f.after[line[1]]
      /\ f.kind = "snapshot" => \A l \in Levels : f.after[l] = 0 \/ <<l, f.after[l]>> \in f.lines
      /\ f.channel = "heartbeats" => f.kind = "bad" /\ f.lines = {}
  BY DEF Sent, FrameOK
<1>2. faults \in 0..MaxFaults /\ missing \in BOOLEAN /\ HasFirst \in BOOLEAN
  BY DEF TypeOK, HasFirst
<1>3. /\ link = "up" /\ Len(wire) < WireCap /\ next' = Successor(next)
      /\ missing' = missing \/ missing' = (missing \/ HasFirst)
      /\ (Fault \/ UNCHANGED faults)
  BY DEF Send
<1>4. Fault => faults' \in 0..MaxFaults /\ faults' = faults + 1
  BY <1>2, Bounds DEF Fault
<1>5. missing' \in BOOLEAN
  BY <1>2, <1>3
<1>6. ASSUME NEW g \in Frame, wire' = Append(wire, g),
             g.num = f.num, g.lines = f.lines, g.after = f.after,
             g.kind \in {f.kind, "bad"},
             g.channel = f.channel \/ g.channel = "unparsed",
             Fault \/ (UNCHANGED faults /\ g = f)
      PROVE  Comes(g)
  <2>1. FrameOK(g)
    BY <1>1, <1>6 DEF FrameOK
  <2>2. Appends(g)
    <3>1. Carries(book, g)
      BY <1>1, <1>6 DEF Carries, LevelsOf
    <3> QED BY <1>1, <1>3, <1>4, <1>6, <3>1 DEF Appends, Reads
  <2> QED BY <1>1, <1>6, <2>1, <2>2 DEF Comes
<1>7. CASE wire' = Append(wire, f) /\ UNCHANGED faults
  BY <1>1, <1>2, <1>3, <1>5, <1>6, <1>7
<1>8. CASE Fault /\ wire' \in {wire, Append(wire, [f EXCEPT !.channel = "unparsed"])}
  <2>1. CASE wire' = wire
    BY <1>3, <1>4, <1>5, <1>8, <2>1 DEF Loses
  <2>2. CASE wire' = Append(wire, [f EXCEPT !.channel = "unparsed"])
    <3> DEFINE g == [f EXCEPT !.channel = "unparsed"]
    <3>1. /\ g \in Frame /\ g.num = f.num /\ g.lines = f.lines /\ g.after = f.after
          /\ g.kind = f.kind /\ g.channel = "unparsed"
      BY <1>1 DEF Frame
    <3> HIDE DEF g
    <3>2. Comes(g)
      BY <1>6, <1>8, <2>2, <3>1 DEF g
    <3> QED BY <1>3, <1>4, <1>5, <1>8, <3>2
  <2> QED BY <1>8, <2>1, <2>2
<1>9. CASE /\ Fault /\ f.channel = "l2_data"
           /\ \/ wire' = Append(wire, [f EXCEPT !.kind = "bad"])
              \/ \E l \in LevelsOf(f) : wire' = Append(wire, [f EXCEPT !.bad = {l}])
  <2>1. CASE wire' = Append(wire, [f EXCEPT !.kind = "bad"])
    <3> DEFINE g == [f EXCEPT !.kind = "bad"]
    <3>1. /\ g \in Frame /\ g.num = f.num /\ g.lines = f.lines /\ g.after = f.after
          /\ g.kind = "bad" /\ g.channel = f.channel
      BY <1>1 DEF Frame
    <3> HIDE DEF g
    <3>2. Comes(g)
      BY <1>6, <1>9, <2>1, <3>1 DEF g
    <3> QED BY <1>3, <1>4, <1>5, <1>9, <3>2
  <2>2. ASSUME NEW l \in LevelsOf(f), wire' = Append(wire, [f EXCEPT !.bad = {l}])
        PROVE  \E g : Comes(g)
    <3> DEFINE g == [f EXCEPT !.bad = {l}]
    <3>1. l \in Levels
      BY <1>1 DEF Frame, LevelsOf
    <3>2. /\ g \in Frame /\ g.num = f.num /\ g.lines = f.lines /\ g.after = f.after
          /\ g.kind = f.kind /\ g.channel = f.channel
      BY <1>1, <3>1 DEF Frame
    <3> HIDE DEF g
    <3>3. Comes(g)
      BY <1>6, <1>9, <2>2, <3>2 DEF g
    <3> QED BY <3>3
  <2> QED BY <1>3, <1>4, <1>5, <1>9, <2>1, <2>2
<1> QED BY <1>7, <1>8, <1>9 DEF Send

\* Whatever Coinbase does, a frame comes, or is lost.
LEMMA CoinbaseGives ==
  ASSUME FeedInv, CoinbaseSends
  PROVE  /\ UNCHANGED <<link, session, lastSeq, frame, left, connected, log>>
         /\ link = "up" /\ Len(wire) < WireCap
         /\ book' \in Book /\ next' \in Nums
         /\ faults' \in 0..MaxFaults /\ missing' \in BOOLEAN
         /\ level2' = level2 \/ (level2 = "due" /\ level2' = "on")
         /\ Loses \/ \E g : Comes(g)
<1>1. /\ TypeOK /\ book \in Book /\ next \in Nums /\ level2 \in {"none", "due", "on"}
      /\ faults \in 0..MaxFaults /\ missing \in BOOLEAN
      /\ \A l \in Levels : book[l] \in 0..MaxSize
  BY DEF FeedInv, TypeOK, Book
<1>2. Successor(next) \in Nums
  BY <1>1, SuccessorIs
<1>3. CASE SendSnapshot
  <2> DEFINE f == [channel |-> "l2_data", num |-> next, kind |-> "snapshot",
                   lines |-> {<<l, book[l]>> : l \in {l \in Levels : book[l] > 0}},
                   bad |-> {}, after |-> book]
  <2>1. Send(f) /\ level2 = "due" /\ level2' = "on"
        /\ UNCHANGED <<book, link, session, lastSeq, frame, left, connected, log>>
    BY <1>3 DEF SendSnapshot
  <2>2. /\ f \in Frame /\ f.channel = "l2_data" /\ f.kind = "snapshot" /\ f.num = next
        /\ f.after = book
        /\ f.lines = {<<l, book[l]>> : l \in {l \in Levels : book[l] > 0}}
    BY <1>1 DEF Frame
  <2> HIDE DEF f
  <2>3. \A l \in Levels : book[l] = 0 \/ <<l, book[l]>> \in f.lines
    BY <1>1, <2>2, Bounds
  <2>4. FrameOK(f)
    BY <2>2, <2>3 DEF FrameOK
  <2>5. Sent(f)
    BY <2>1, <2>2, <2>4 DEF Sent, Reads, Carries
  <2> QED BY <1>1, <1>2, <2>1, <2>5, SendGives
<1>4. CASE SendHeartbeat
  <2> DEFINE f == Plain("heartbeats")
  <2>1. Send(f)
        /\ UNCHANGED <<book, level2, link, session, lastSeq, frame, left, connected, log>>
    BY <1>4 DEF SendHeartbeat
  <2>2. /\ f \in Frame /\ f.channel = "heartbeats" /\ f.kind = "bad" /\ f.num = next
        /\ f.after = book /\ f.lines = {}
    BY <1>1 DEF Frame, Plain
  <2> HIDE DEF f
  <2>3. Sent(f)
    BY <2>1, <2>2 DEF Sent, FrameOK, Reads, Carries
  <2> QED BY <1>1, <1>2, <2>1, <2>3, SendGives
<1>5. ASSUME NEW b \in Book, SendUpdate(b)
      PROVE  /\ UNCHANGED <<link, session, lastSeq, frame, left, connected, log>>
             /\ link = "up" /\ Len(wire) < WireCap
             /\ book' \in Book /\ next' \in Nums
             /\ faults' \in 0..MaxFaults /\ missing' \in BOOLEAN
             /\ level2' = level2
             /\ Loses \/ \E g : Comes(g)
  <2> DEFINE f == [channel |-> "l2_data", num |-> next, kind |-> "update",
                   lines |-> {<<l, b[l]>> : l \in {l \in Levels : b[l] # book[l]}},
                   bad |-> {}, after |-> b]
  <2>1. Send(f) /\ book' = b
        /\ UNCHANGED <<level2, link, session, lastSeq, frame, left, connected, log>>
    BY <1>5 DEF SendUpdate
  <2>2. \A l \in Levels : b[l] \in 0..MaxSize
    BY DEF Book
  <2>3. /\ f \in Frame /\ f.channel = "l2_data" /\ f.kind = "update" /\ f.num = next
        /\ f.after = b
        /\ f.lines = {<<l, b[l]>> : l \in {l \in Levels : b[l] # book[l]}}
    BY <1>1, <2>2 DEF Frame
  <2> HIDE DEF f
  <2>4. FrameOK(f)
    BY <2>3 DEF FrameOK
  <2>5. Carries(book, f)
    <3> SUFFICES ASSUME NEW l \in Levels, b[l] # book[l] PROVE l \in LevelsOf(f)
      BY <2>3 DEF Carries
    <3>1. <<l, b[l]>> \in f.lines /\ <<l, b[l]>>[1] = l
      BY <2>3
    <3> QED BY <3>1 DEF LevelsOf
  <2>6. Sent(f)
    BY <2>1, <2>3, <2>4, <2>5 DEF Sent, Reads
  <2> QED BY <1>1, <1>2, <2>1, <2>6, SendGives
<1>6. CASE SendError
  <2> DEFINE g == Plain("none")
  <2>1. /\ g \in Frame /\ g.channel = "none" /\ g.kind = "bad" /\ g.lines = {}
    BY <1>1 DEF Frame, Plain
  <2>2. /\ wire' = Append(wire, g) /\ link = "up" /\ Len(wire) < WireCap
        /\ next' = Successor(next) \/ next' = next
        /\ faults' = faults + 1 /\ faults' \in 0..MaxFaults
        /\ missing' \in BOOLEAN
        /\ UNCHANGED <<book, level2, link, session, lastSeq, frame, left, connected, log>>
    <3>1. missing' = (missing \/ (next' # next /\ HasFirst)) /\ HasFirst \in BOOLEAN
      BY <1>6 DEF SendError, HasFirst
    <3>2. missing' \in BOOLEAN
      BY <1>1, <3>1
    <3> QED BY <1>1, <1>6, <3>2, Bounds DEF SendError, Fault
  <2> HIDE DEF g
  <2>3. Comes(g)
    BY <2>1, <2>2 DEF Comes, Appends, FrameOK, Reads
  <2> QED BY <1>1, <1>2, <2>2, <2>3
<1> QED BY <1>3, <1>4, <1>5, <1>6 DEF CoinbaseSends

\* A session in which every frame came whole stays one, while frames come.
LEMMA SentInSession ==
  ASSUME TypeOK, WireInv, SessionInv, link = "up", link' = "up",
         UNCHANGED <<session, lastSeq>>,
         Loses \/ \E g : Appends(g)
  PROVE  SessionInv'
<1>1. session <= faults + 1 /\ faults \in Nat /\ session \in Nat
  BY Bounds DEF SessionInv, TypeOK
<1>2. CASE faults' = faults + 1
  BY <1>1, <1>2 DEF SessionInv
<1>3. ASSUME NEW g, Appends(g), UNCHANGED faults
      PROVE  SessionInv'
  <2> SUFFICES ASSUME session = faults + 1
               PROVE  /\ \A j \in 1..Len(wire') :
                           /\ Reads(wire'[j])
                           /\ (j = 1 /\ lastSeq = None) \/ wire'[j].num = Successor(NumAt(j - 1)')
                      /\ (Len(wire') = 0 /\ lastSeq = None)
                           \/ (next = Successor(NumAt(Len(wire))))'
    BY <1>1, <1>3 DEF SessionInv, Reads, NumAt
  <2> PICK n \in Nat : n = Len(wire)
    BY WireIs
  <2>1. /\ Len(wire') = n + 1 /\ wire'[n + 1] = g
        /\ \A i \in 1..n : wire'[i] = wire[i]
    BY <1>3, AppendProperties DEF WireInv, Appends
  <2>2. Reads(g) /\ g.num = next /\ next' = Successor(next)
    BY <1>1, <1>3 DEF Appends
  <2>3. /\ \A j \in 1..n : /\ Reads(wire[j])
                           /\ (j = 1 /\ lastSeq = None) \/ wire[j].num = Successor(NumAt(j - 1))
        /\ (n = 0 /\ lastSeq = None) \/ next = Successor(NumAt(n))
    BY DEF SessionInv
  <2>4. \A i \in 0..n : NumAt(i)' = NumAt(i)
    BY <2>1 DEF NumAt
  <2>5. NumAt(n + 1)' = next
    BY <2>1, <2>2 DEF NumAt
  <2>6. ASSUME NEW j \in 1..n + 1
        PROVE  /\ Reads(wire'[j])
               /\ (j = 1 /\ lastSeq = None) \/ wire'[j].num = Successor(NumAt(j - 1)')
    <3>1. CASE j \in 1..n
      <4>1. j - 1 \in 0..n
        BY <3>1
      <4> QED BY <2>1, <2>3, <2>4, <3>1, <4>1
    <3>2. CASE j = n + 1
      <4>1. j - 1 = n /\ n \in 0..n
        BY <3>2
      <4> QED BY <2>1, <2>2, <2>3, <2>4, <3>2, <4>1
    <3> QED BY <3>1, <3>2
  <2>7. (next = Successor(NumAt(Len(wire))))'
    BY <2>1, <2>2 DEF NumAt, Successor
  <2> QED BY <2>1, <2>6, <2>7
<1> QED BY <1>2, <1>3 DEF Loses, Appends

LEMMA SendKeeps == FeedInv /\ CoinbaseSends => FeedInv'
<1> SUFFICES ASSUME FeedInv, CoinbaseSends PROVE FeedInv'
  OBVIOUS
<1>1. TypeOK /\ WireInv /\ FrameInv /\ UpInv /\ SessionInv
  BY DEF FeedInv
<1>2. /\ UNCHANGED <<link, session, lastSeq, frame, left, connected, reader, readerOf, asOf, doubt>>
      /\ link = "up" /\ Len(wire) < WireCap
      /\ book' \in Book /\ next' \in Nums
      /\ faults' \in 0..MaxFaults /\ missing' \in BOOLEAN
      /\ level2' = level2 \/ (level2 = "due" /\ level2' = "on")
      /\ Loses \/ \E g : Comes(g)
  BY CoinbaseGives DEF log
<1>3. ChainInv /\ TailInv /\ SnapshotInv /\ ReplayInv
  BY <1>1, <1>2 DEF UpInv
<1>4. /\ wire' \in Seq(Frame) /\ Len(wire') <= WireCap
      /\ \A i \in 1..Len(wire') :
           /\ FrameOK(wire'[i])
           /\ \/ i \in 1..Len(wire) /\ wire'[i] = wire[i]
              \/ i = Len(wire) + 1 /\ (wire'[i].kind = "snapshot" => level2 = "due" /\ level2' = "on")
  <2>1. CASE Loses
    BY <1>1, <1>2, <2>1 DEF Loses, WireInv, TypeOK
  <2>2. ASSUME NEW g, Comes(g)
        PROVE  /\ wire' \in Seq(Frame) /\ Len(wire') <= WireCap
               /\ \A i \in 1..Len(wire') :
                    /\ FrameOK(wire'[i])
                    /\ \/ i \in 1..Len(wire) /\ wire'[i] = wire[i]
                       \/ i = Len(wire) + 1
                            /\ (wire'[i].kind = "snapshot" => level2 = "due" /\ level2' = "on")
    <3> PICK n \in Nat : n = Len(wire)
      BY <1>1, WireIs
    <3>1. /\ wire' \in Seq(Frame) /\ Len(wire') = n + 1 /\ wire'[n + 1] = g
          /\ \A i \in 1..n : wire'[i] = wire[i]
      BY <1>1, <2>2, AppendProperties DEF WireInv, Comes, Appends
    <3>2. \A i \in 1..n : FrameOK(wire[i])
      BY <1>1 DEF WireInv
    <3> QED BY <1>2, <2>2, <3>1, <3>2, Bounds DEF Comes
  <2> QED BY <1>2, <2>1, <2>2
<1>5. ChainInv' /\ TailInv'
  BY <1>1, <1>2, <1>3, AppendKeepsChain, LossKeepsChain DEF Comes
<1>6. SnapshotInv'
  <2>1. HasSnapshot' = HasSnapshot
    BY <1>2 DEF HasSnapshot
  <2>2. \A i \in 1..Len(wire) : wire[i].kind = "snapshot" =>
          /\ level2 = "on" /\ readerOf[1] # session /\ ~HasSnapshot
          /\ \A j \in 1..Len(wire) : wire[j].kind = "snapshot" => i = j
    BY <1>3 DEF SnapshotInv
  <2>3. level2 = "due" => readerOf[1] # session /\ ~HasSnapshot
    BY <1>3 DEF SnapshotInv
  <2>4. ASSUME NEW i \in 1..Len(wire'), wire'[i].kind = "snapshot"
        PROVE  /\ level2' = "on" /\ readerOf[1] # session /\ ~HasSnapshot
               /\ \A j \in 1..Len(wire') : wire'[j].kind = "snapshot" => i = j
    <3>1. CASE i \in 1..Len(wire) /\ wire'[i] = wire[i]
      <4>1. level2 = "on" /\ readerOf[1] # session /\ ~HasSnapshot
        BY <2>2, <2>4, <3>1
      <4>2. ASSUME NEW j \in 1..Len(wire'), wire'[j].kind = "snapshot" PROVE i = j
        BY <1>4, <2>2, <2>4, <3>1, <4>1, <4>2
      <4> QED BY <1>2, <4>1, <4>2
    <3>2. CASE i = Len(wire) + 1 /\ level2 = "due" /\ level2' = "on"
      <4>1. \A j \in 1..Len(wire) : wire[j].kind # "snapshot"
        BY <2>2, <3>2
      <4>2. ASSUME NEW j \in 1..Len(wire'), wire'[j].kind = "snapshot" PROVE i = j
        BY <1>4, <3>2, <4>1, <4>2
      <4> QED BY <2>3, <3>2, <4>2
    <3> QED BY <1>4, <2>4, <3>1, <3>2
  <2>5. lastSeq = None => readerOf[1] # session /\ frame = <<>>
    BY <1>3 DEF SnapshotInv
  <2> QED BY <1>2, <2>1, <2>3, <2>4, <2>5 DEF SnapshotInv
<1>7. ReplayInv'
  BY <1>2, <1>3 DEF ReplayInv, Base
<1>8. FrameInv'
  BY <1>1, <1>2 DEF FrameInv, FrameOK, Reads, RowsOf
<1>9. SessionInv'
  BY <1>1, <1>2, SentInSession DEF Comes
<1>10. WireInv'
  BY <1>1, <1>2, <1>4 DEF WireInv
<1>11. TypeOK'
  <2>1. \A i \in DOMAIN wire' : wire'[i] \in Frame
    BY <1>4
  <2> QED BY <1>1, <1>2, <1>4, <2>1 DEF TypeOK
<1> QED BY <1>2, <1>5, <1>6, <1>7, <1>8, <1>9, <1>10, <1>11 DEF FeedInv, UpInv

-----------------------------------------------------------------------------
(* What the session does with the frames.                                  *)

\* A frame read is the first on the wire.
LEMMA HeadIs ==
  ASSUME FeedInv, ReadsOn
  PROVE  /\ link = "up" /\ frame = <<>> /\ left = {} /\ wire # <<>>
         /\ Head(wire) = wire[1] /\ 1 \in 1..Len(wire) /\ FrameOK(wire[1])
         /\ ChainInv /\ TailInv /\ SnapshotInv /\ ReplayInv /\ SessionInv
         /\ Tail(wire) \in Seq(Frame) /\ Len(Tail(wire)) = Len(wire) - 1
         /\ \A i \in 1..Len(wire) - 1 : Tail(wire)[i] = wire[i + 1]
         /\ Len(wire) \in Nat /\ Len(wire) - 1 \in Nat /\ Len(wire) <= WireCap
<1>1. link = "up" /\ frame = <<>> /\ wire # <<>>
  BY DEF ReadsOn
<1>2. wire \in Seq(Frame) /\ left = {} /\ Len(wire) <= WireCap
  BY <1>1 DEF FeedInv, WireInv, TypeOK
<1>3. Len(wire) \in Nat /\ Len(wire) # 0 /\ Head(wire) = wire[1]
  BY <1>1, <1>2
<1>4. FrameOK(wire[1])
  BY <1>3 DEF FeedInv, WireInv
<1>5. ChainInv /\ TailInv /\ SnapshotInv /\ ReplayInv /\ SessionInv
  BY <1>1 DEF FeedInv, UpInv
<1>6. /\ Tail(wire) \in Seq(Frame) /\ Len(Tail(wire)) = Len(wire) - 1
      /\ \A i \in 1..Len(wire) - 1 : Tail(wire)[i] = wire[i + 1]
  BY <1>1, <1>2, HeadTailProperties
<1> QED BY <1>1, <1>2, <1>3, <1>4, <1>5, <1>6

\* The wire without its head keeps what is said of each frame.
LEMMA RestOfWire ==
  ASSUME FeedInv, ReadsOn, wire' = Tail(wire),
         UNCHANGED <<link, level2, readerOf, session>>,
         HasSnapshot' => Head(wire).kind = "snapshot",
         lastSeq' = None => lastSeq = None /\ frame' = <<>>
  PROVE  /\ SnapshotInv'
         /\ \A i \in 1..Len(wire') : FrameOK(wire'[i])
         /\ wire' \in Seq(Frame) /\ Len(wire') <= WireCap
<1>1. /\ Head(wire) = wire[1] /\ 1 \in 1..Len(wire) /\ SnapshotInv
      /\ wire' \in Seq(Frame) /\ Len(wire') = Len(wire) - 1
      /\ \A i \in 1..Len(wire) - 1 : wire'[i] = wire[i + 1]
      /\ Len(wire) \in Nat /\ Len(wire) - 1 \in Nat /\ Len(wire) <= WireCap
  BY HeadIs
<1>2. \A i \in 1..Len(wire) - 1 : i + 1 \in 1..Len(wire) /\ i + 1 # 1
  BY <1>1
<1>3. \A i \in 1..Len(wire') : FrameOK(wire'[i])
  BY <1>1, <1>2 DEF FeedInv, WireInv
<1>4. \A i, j \in 1..Len(wire) :
        wire[i].kind = "snapshot" /\ wire[j].kind = "snapshot" =>
          i = j /\ level2 = "on" /\ readerOf[1] # session
  BY <1>1 DEF SnapshotInv
<1>5. ASSUME NEW i \in 1..Len(wire'), wire'[i].kind = "snapshot"
      PROVE  /\ level2 = "on" /\ readerOf[1] # session /\ ~HasSnapshot'
             /\ \A j \in 1..Len(wire') : wire'[j].kind = "snapshot" => i = j
  <2>1. i + 1 \in 1..Len(wire) /\ i + 1 # 1 /\ wire[i + 1].kind = "snapshot"
    BY <1>1, <1>2, <1>5
  <2>2. level2 = "on" /\ readerOf[1] # session
    BY <1>4, <2>1
  <2>3. ~HasSnapshot'
    BY <1>1, <1>4, <2>1
  <2>4. ASSUME NEW j \in 1..Len(wire'), wire'[j].kind = "snapshot" PROVE i = j
    <3>1. j + 1 \in 1..Len(wire) /\ wire[j + 1].kind = "snapshot"
      BY <1>1, <1>2, <2>4
    <3>2. i + 1 = j + 1
      BY <1>4, <2>1, <3>1
    <3> QED BY <1>1, <3>2
  <2> QED BY <2>2, <2>3, <2>4
<1>6. level2 = "due" => readerOf[1] # session /\ ~HasSnapshot'
  BY <1>1 DEF SnapshotInv
<1>7. lastSeq' = None => readerOf[1] # session /\ frame' = <<>>
  BY <1>1 DEF SnapshotInv
<1>8. SnapshotInv'
  BY <1>5, <1>6, <1>7 DEF SnapshotInv
<1> QED BY <1>1, <1>3, <1>8, Bounds

\* A frame less on the wire does not tell a fault where there was none.
LEMMA ReadInSession ==
  ASSUME FeedInv, ReadsOn, wire' = Tail(wire), link' = "up",
         UNCHANGED <<session, faults, next>>,
         Reads(Head(wire)) => lastSeq' = Head(wire).num /\ lastSeq' # None
  PROVE  SessionInv'
<1>1. /\ Head(wire) = wire[1] /\ SessionInv /\ link = "up"
      /\ Len(wire') = Len(wire) - 1
      /\ \A i \in 1..Len(wire) - 1 : wire'[i] = wire[i + 1]
      /\ Len(wire) \in Nat /\ Len(wire) - 1 \in Nat
  BY HeadIs
<1> PICK n \in Nat : n = Len(wire) - 1
  BY <1>1
<1> SUFFICES ASSUME session = faults + 1
             PROVE  /\ \A j \in 1..n :
                         /\ Reads(wire'[j])
                         /\ (j = 1 /\ lastSeq' = None) \/ wire'[j].num = Successor(NumAt(j - 1)')
                    /\ (n = 0 /\ lastSeq' = None) \/ next' = Successor(NumAt(n)')
  BY <1>1 DEF SessionInv, Reads, NumAt
<1>2. /\ \A j \in 1..n + 1 : /\ Reads(wire[j])
                             /\ (j = 1 /\ lastSeq = None) \/ wire[j].num = Successor(NumAt(j - 1))
      /\ next = Successor(NumAt(n + 1))
  BY <1>1 DEF SessionInv
<1>3. Reads(wire[1]) /\ lastSeq' = wire[1].num /\ lastSeq' # None
  BY <1>1, <1>2
<1>4. \A i \in 0..n : NumAt(i)' = NumAt(i + 1)
  BY <1>1, <1>3 DEF NumAt
<1>5. ASSUME NEW j \in 1..n
      PROVE  Reads(wire'[j]) /\ wire'[j].num = Successor(NumAt(j - 1)')
  <2>1. j + 1 \in 1..n + 1 /\ j + 1 # 1 /\ (j + 1) - 1 = j /\ j - 1 \in 0..n /\ (j - 1) + 1 = j
    OBVIOUS
  <2> QED BY <1>1, <1>2, <1>4, <2>1
<1> QED BY <1>2, <1>4, <1>5

LEMMA SkipKeeps == FeedInv /\ SkipFrame => FeedInv'
<1> SUFFICES ASSUME FeedInv, SkipFrame PROVE FeedInv'
  OBVIOUS
<1>1. /\ ReadsOn /\ wire' = Tail(wire) /\ ~Reads(Head(wire))
      /\ UNCHANGED <<book, level2, next, link, session, lastSeq, frame, left, connected,
                     reader, readerOf, asOf, doubt, missing, faults>>
  BY DEF SkipFrame, log, Reads
<1>2. TypeOK /\ WireInv /\ FrameInv /\ link = "up" /\ frame = <<>> /\ wire # <<>>
      /\ Head(wire) = wire[1] /\ ChainInv /\ TailInv /\ SnapshotInv /\ ReplayInv
  BY <1>1, HeadIs DEF FeedInv
<1>3. ChainInv' /\ TailInv'
  <2>1. 0 \in {0, 1} /\ ~Reads(wire[1])
    BY <1>1, <1>2
  <2> QED BY <1>1, <1>2, <2>1, ShiftKeepsChain
<1>4. /\ SnapshotInv' /\ wire' \in Seq(Frame) /\ Len(wire') <= WireCap
      /\ \A i \in 1..Len(wire') : FrameOK(wire'[i])
  <2>1. ~HasSnapshot'
    BY <1>1, <1>2 DEF HasSnapshot
  <2> QED BY <1>1, <1>2, <2>1, RestOfWire
<1>5. ReplayInv' /\ FrameInv'
  BY <1>1, <1>2 DEF ReplayInv, FrameInv, Base
<1>6. SessionInv'
  BY <1>1, <1>2, ReadInSession
<1>7. WireInv'
  BY <1>1, <1>2, <1>4 DEF WireInv
<1>8. TypeOK'
  <2>1. \A i \in DOMAIN wire' : wire'[i] \in Frame
    BY <1>4
  <2> QED BY <1>1, <1>2, <1>4, <2>1 DEF TypeOK
<1> QED BY <1>1, <1>2, <1>3, <1>4, <1>5, <1>6, <1>7, <1>8 DEF FeedInv, UpInv

LEMMA TakeKeeps == FeedInv /\ TakeFrame => FeedInv'
<1> SUFFICES ASSUME FeedInv, TakeFrame PROVE FeedInv'
  OBVIOUS
<1> PICK f : f = Head(wire)
  OBVIOUS
<1>1. /\ ReadsOn /\ wire' = Tail(wire) /\ Reads(f) /\ InTurn(f)
      /\ lastSeq' = f.num /\ frame' = <<f>> /\ left' = RowsOf(f)
      /\ doubt' = IF f.kind = "snapshot" /\ RowsOf(f) # {} THEN f.bad
                  ELSE IF f.kind = "snapshot" THEN Levels
                  ELSE doubt \cup (LevelsOf(f) \ {line[1] : line \in RowsOf(f)})
      /\ UNCHANGED <<book, level2, next, link, session, connected, reader, readerOf, asOf,
                     missing, faults>>
  BY DEF TakeFrame, Reads
<1>2. /\ TypeOK /\ WireInv /\ FrameInv /\ link = "up" /\ frame = <<>> /\ left = {}
      /\ wire # <<>> /\ f = wire[1] /\ 1 \in 1..Len(wire) /\ FrameOK(f)
      /\ ChainInv /\ TailInv /\ SnapshotInv /\ ReplayInv
  BY <1>1, HeadIs DEF FeedInv
<1>3. /\ f \in Frame /\ f.num \in Nums /\ f.num # None /\ f.bad \subseteq Levels
      /\ f.lines \subseteq Levels \X (0..MaxSize)
      /\ RowsOf(f) \subseteq f.lines /\ LevelsOf(f) \subseteq Levels
      /\ Base' = f.after
  <2>1. f \in Frame
    BY <1>2 DEF FrameOK
  <2>2. f.num \in Nums /\ f.bad \subseteq Levels /\ f.lines \subseteq Levels \X (0..MaxSize)
    BY <2>1 DEF Frame
  <2>3. f.num # None
    BY <2>2, Bounds DEF Nums, None
  <2>4. RowsOf(f) \subseteq f.lines /\ LevelsOf(f) \subseteq Levels
    BY <2>2 DEF RowsOf, LevelsOf
  <2>5. Base' = f.after
    BY <1>1 DEF Base
  <2> QED BY <2>1, <2>2, <2>3, <2>4, <2>5
<1>4. ChainInv' /\ TailInv'
  <2>1. 1 \in {0, 1} /\ Reads(wire[1]) /\ lastSeq' = wire[1].num /\ Base' = wire[1].after
    BY <1>1, <1>2, <1>3
  <2> QED BY <1>1, <1>2, <2>1, ShiftKeepsChain
<1>5. /\ SnapshotInv' /\ wire' \in Seq(Frame) /\ Len(wire') <= WireCap
      /\ \A i \in 1..Len(wire') : FrameOK(wire'[i])
  <2>1. HasSnapshot' => f.kind = "snapshot"
    BY <1>1 DEF HasSnapshot
  <2>2. lastSeq' # None
    BY <1>1, <1>3
  <2> QED BY <1>1, <1>2, <2>1, <2>2, RestOfWire
<1>6. f.kind = "snapshot" => readerOf[1] # session
  BY <1>2 DEF SnapshotInv
<1>7. ReplayInv'
  <2> SUFFICES ASSUME readerOf[1] = session, NEW l \in Levels, l \notin doubt',
                      reader[l] # f.after[l]
               PROVE  <<l, f.after[l]>> \in RowsOf(f)
    BY <1>1, <1>3 DEF ReplayInv
  <2>1. f.kind # "snapshot" /\ lastSeq # None
    BY <1>2, <1>6 DEF SnapshotInv
  <2>2. l \notin doubt /\ (l \in LevelsOf(f) => \E line \in RowsOf(f) : line[1] = l)
    BY <1>1, <2>1
  <2>3. reader[l] = asOf[l]
    BY <1>2, <2>2 DEF ReplayInv, Base
  <2>4. Carries(asOf, f)
    <3>1. 0 \in 0..Len(wire) /\ 1 \in 0 + 1..Len(wire) /\ 1 - 1 = 0
      BY <1>2
    <3>2. Compared(0, 0)
      BY <2>1 DEF Compared
    <3>3. NumAt(0) = lastSeq /\ AfterAt(0) = asOf
      BY <1>2 DEF NumAt, AfterAt, Base
    <3>4. f.num = Successor(lastSeq)
      BY <1>1, <2>1 DEF InTurn
    <3>5. Compared(0, 1 - 1) /\ Reads(wire[1]) /\ wire[1].num = Successor(NumAt(0))
      BY <1>1, <1>2, <3>1, <3>2, <3>3, <3>4
    <3>6. Carries(AfterAt(0), wire[1])
      BY <1>2, <3>1, <3>5 DEF ChainInv
    <3> QED BY <1>2, <3>3, <3>6
  <2>5. l \in LevelsOf(f)
    BY <2>3, <2>4 DEF Carries
  <2>6. PICK line \in RowsOf(f) : line[1] = l
    BY <2>2, <2>5
  <2>7. line \in Levels \X (0..MaxSize) /\ line[2] = f.after[l]
    BY <1>2, <1>3, <2>6 DEF FrameOK
  <2> QED BY <2>6, <2>7
<1>8. FrameInv'
  <2>1. frame'[1] = f
    BY <1>1
  <2> QED BY <1>1, <1>2, <1>6, <2>1 DEF FrameInv, FrameOK, Reads, RowsOf
<1>9. SessionInv'
  BY <1>1, <1>2, <1>3, ReadInSession
<1>10. WireInv'
  <2>1. frame' \in Seq(Frame)
    BY <1>1, <1>3
  <2> QED BY <1>1, <1>2, <1>5, <2>1 DEF WireInv
<1>11. TypeOK'
  <2>1. \A i \in DOMAIN wire' : wire'[i] \in Frame
    BY <1>5
  <2>2. Len(frame') <= 1 /\ \A i \in DOMAIN frame' : frame'[i] \in Frame
    BY <1>1, <1>3
  <2>3. doubt' \subseteq Levels /\ left' \subseteq Levels \X (0..MaxSize) /\ frame' # <<>>
    BY <1>1, <1>2, <1>3 DEF TypeOK
  <2> QED BY <1>1, <1>2, <1>3, <1>5, <2>1, <2>2, <2>3 DEF TypeOK
<1> QED BY <1>1, <1>2, <1>4, <1>5, <1>7, <1>8, <1>9, <1>10, <1>11 DEF FeedInv, UpInv

\* What is known of the frame at hand.
LEMMA FrameIs ==
  ASSUME FeedInv, frame # <<>>
  PROVE  \E f \in Frame :
           /\ frame[1] = f /\ FrameOK(f) /\ Reads(f) /\ f.num = lastSeq /\ Base = f.after
           /\ link = "up" /\ left \subseteq RowsOf(f) /\ RowsOf(f) \subseteq f.lines
           /\ \A line \in RowsOf(f) :
                /\ line \in Levels \X (0..MaxSize) /\ line[1] \in Levels
                /\ line[2] = f.after[line[1]] /\ line = <<line[1], f.after[line[1]]>>
           /\ f.kind = "snapshot" =>
                /\ left # {} => doubt = f.bad
                /\ readerOf[1] # session => left = RowsOf(f)
                /\ readerOf[1] = session => readerOf[2] = f.num
<1> PICK f : f = frame[1]
  OBVIOUS
<1>1. /\ link = "up" /\ FrameOK(f) /\ Reads(f) /\ f.num = lastSeq /\ left \subseteq RowsOf(f)
      /\ f.kind = "snapshot" =>
            /\ left # {} => doubt = f.bad
            /\ readerOf[1] # session => left = RowsOf(f)
            /\ readerOf[1] = session => readerOf[2] = f.num
  BY DEF FeedInv, FrameInv
<1>2. f \in Frame /\ f.lines \subseteq Levels \X (0..MaxSize)
  BY <1>1 DEF FrameOK, Frame
<1>3. RowsOf(f) \subseteq f.lines
  BY DEF RowsOf
<1>4. ASSUME NEW line \in RowsOf(f)
      PROVE  /\ line \in Levels \X (0..MaxSize) /\ line[1] \in Levels
             /\ line[2] = f.after[line[1]] /\ line = <<line[1], f.after[line[1]]>>
  <2>1. line \in f.lines /\ line \in Levels \X (0..MaxSize)
    BY <1>2, <1>3
  <2>2. line[2] = f.after[line[1]]
    BY <1>1, <2>1 DEF FrameOK
  <2> QED BY <2>1, <2>2
<1>5. Base = f.after
  BY DEF Base
<1> QED BY <1>1, <1>2, <1>3, <1>4, <1>5

\* A row is queued, or finds no room.
LEMMA RowKeeps ==
  ASSUME FeedInv, NEW line \in left, QueueSnapshotRow(line) \/ QueueUpdateRow(line)
  PROVE  FeedInv'
<1>1. TypeOK /\ WireInv /\ FrameInv /\ UpInv /\ SessionInv
  BY DEF FeedInv
<1>2. frame # <<>>
  BY DEF QueueSnapshotRow, QueueUpdateRow
<1> PICK f \in Frame :
      /\ frame[1] = f /\ FrameOK(f) /\ Reads(f) /\ f.num = lastSeq /\ Base = f.after
      /\ link = "up" /\ left \subseteq RowsOf(f) /\ RowsOf(f) \subseteq f.lines
      /\ \A row \in RowsOf(f) :
           /\ row \in Levels \X (0..MaxSize) /\ row[1] \in Levels
           /\ row[2] = f.after[row[1]] /\ row = <<row[1], f.after[row[1]]>>
      /\ f.kind = "snapshot" =>
           /\ left # {} => doubt = f.bad
           /\ readerOf[1] # session => left = RowsOf(f)
           /\ readerOf[1] = session => readerOf[2] = f.num
  BY <1>2, FrameIs
<1> PICK l \in Levels : line[1] = l /\ line[2] = f.after[l] /\ line = <<l, f.after[l]>>
  OBVIOUS
<1>3. /\ UNCHANGED <<book, level2, next, wire, link, session, lastSeq, frame, connected,
                     missing, asOf>>
      /\ left' = left \ {line} /\ Base' = Base
  BY DEF QueueSnapshotRow, QueueUpdateRow, Queue, coinbase, Base
<1>4. /\ faults \in 0..MaxFaults /\ faults' \in 0..MaxFaults /\ faults <= faults'
      /\ faults' \in Nat /\ faults \in Nat /\ doubt \subseteq Levels
      /\ session \in 0..MaxFaults + 1 /\ session \in Nat
      /\ readerOf \in (0..session) \X Nums /\ reader \in Book
      /\ f.num \in Nums /\ f.after \in Book /\ f.after[l] \in 0..MaxSize
  <2>1. faults \in 0..MaxFaults /\ session \in 0..MaxFaults + 1 /\ doubt \subseteq Levels
        /\ readerOf \in (0..session) \X Nums /\ reader \in Book
    BY <1>1 DEF TypeOK
  <2>2. faults' = faults \/ (faults < MaxFaults /\ faults' = faults + 1)
    BY DEF QueueSnapshotRow, QueueUpdateRow, Queue, Fault
  <2>3. f.num \in Nums /\ f.after \in Book /\ f.after[l] \in 0..MaxSize
    BY DEF Frame, Book
  <2> QED BY <2>1, <2>2, <2>3, Bounds
<1>5. CASE f.kind = "snapshot"
  <2> DEFINE from == IF readerOf # <<session, f.num>> THEN EmptyBook ELSE reader
  <2>1. /\ reader' = [from EXCEPT ![l] = f.after[l]] /\ readerOf' = <<session, f.num>>
        /\ UNCHANGED <<doubt, faults>>
    BY <1>5 DEF QueueSnapshotRow, QueueUpdateRow, Queue
  <2>2. from \in Book /\ doubt = f.bad
    BY <1>4, <1>5, Bounds DEF Book, EmptyBook
  <2>3. \A k \in Levels : reader'[k] = IF k = l THEN f.after[l] ELSE from[k]
    BY <2>1, <2>2 DEF Book
  <2>4. reader' \in Book
    BY <1>4, <2>1, <2>2 DEF Book
  <2>5. ASSUME NEW k \in Levels \ doubt
        PROVE  <<k, f.after[k]>> \in left \ {line} \/ reader'[k] = f.after[k]
    <3>1. CASE k = l
      BY <2>3, <3>1
    <3>2. CASE k # l /\ readerOf[1] = session
      <4>1. readerOf = <<session, f.num>>
        BY <1>4, <1>5, <3>2
      <4>2. <<k, f.after[k]>> \in left \/ reader[k] = f.after[k]
        BY <1>1, <3>2 DEF UpInv, ReplayInv
      <4> QED BY <2>3, <3>2, <4>1, <4>2
    <3>3. CASE k # l /\ readerOf[1] # session
      <4>1. from = EmptyBook /\ from[k] = 0
        BY <3>3 DEF EmptyBook
      <4>2. f.after[k] = 0 \/ <<k, f.after[k]>> \in f.lines
        BY <1>5 DEF FrameOK
      <4>3. ASSUME <<k, f.after[k]>> \in f.lines
            PROVE  <<k, f.after[k]>> \in left
        <5>1. f.channel = "l2_data" /\ f.kind # "bad"
          BY <1>5 DEF FrameOK, Reads
        <5>2. <<k, f.after[k]>>[1] \notin f.bad
          BY <2>2, <2>5
        <5>3. <<k, f.after[k]>> \in RowsOf(f)
          BY <4>3, <5>1, <5>2 DEF RowsOf
        <5> QED BY <1>5, <3>3, <5>3
      <4> QED BY <2>3, <3>3, <4>1, <4>2, <4>3
    <3> QED BY <3>1, <3>2, <3>3
  <2>6. ReplayInv'
    BY <1>3, <2>1, <2>5 DEF ReplayInv
  <2>7. FrameInv'
    BY <1>1, <1>2, <1>3, <1>5, <2>1, <2>2 DEF FrameInv, FrameOK, Reads, RowsOf
  <2>8. SnapshotInv'
    <3>1. HasSnapshot' = HasSnapshot /\ HasSnapshot
      BY <1>2, <1>3, <1>5 DEF HasSnapshot
    <3>2. lastSeq # None
      BY <1>4, Bounds DEF Nums, None
    <3>3. level2 # "due" /\ \A i \in 1..Len(wire) : wire[i].kind # "snapshot"
      BY <1>1, <3>1 DEF UpInv, SnapshotInv
    <3> QED BY <1>3, <3>2, <3>3 DEF SnapshotInv
  <2>9. readerOf' \in (0..session') \X Nums
    BY <1>3, <1>4, <2>1
  <2> QED BY <1>1, <1>2, <1>3, <1>4, <2>1, <2>4, <2>6, <2>7, <2>8, <2>9, WireStays
          DEF FeedInv, UpInv, SessionInv, NumAt, Reads, WireInv, TypeOK
<1>6. CASE f.kind # "snapshot"
  <2>1. /\ UNCHANGED readerOf
        /\ \/ reader' = [reader EXCEPT ![l] = f.after[l]] /\ doubt' = doubt \ {l}
           \/ UNCHANGED reader /\ doubt' = doubt \cup {l}
    BY <1>6 DEF QueueSnapshotRow, QueueUpdateRow, Queue
  <2>2. reader' \in Book /\ doubt' \subseteq Levels
    BY <1>4, <2>1 DEF Book
  <2>3. ASSUME readerOf[1] = session, NEW k \in Levels \ doubt'
        PROVE  <<k, f.after[k]>> \in left \ {line} \/ reader'[k] = f.after[k]
    <3>1. CASE k = l
      BY <1>4, <2>1, <2>3, <3>1 DEF Book
    <3>2. CASE k # l
      <4>1. k \in Levels \ doubt /\ reader'[k] = reader[k]
        BY <1>4, <2>1, <2>3, <3>2 DEF Book
      <4>2. <<k, f.after[k]>> \in left \/ reader[k] = f.after[k]
        BY <1>1, <2>3, <4>1 DEF UpInv, ReplayInv
      <4> QED BY <3>2, <4>1, <4>2
    <3> QED BY <3>1, <3>2
  <2>4. ReplayInv'
    BY <1>3, <2>1, <2>3 DEF ReplayInv
  <2>5. FrameInv'
    BY <1>1, <1>2, <1>3, <1>6, <2>1 DEF FrameInv, FrameOK, Reads, RowsOf
  <2>6. SnapshotInv'
    BY <1>1, <1>3, <2>1 DEF UpInv, SnapshotInv, HasSnapshot
  <2>7. SessionInv'
    <3>1. CASE faults' = faults
      BY <1>1, <1>3, <3>1 DEF SessionInv, NumAt, Reads
    <3>2. CASE faults' # faults
      <4>1. link = "up" /\ session \in Nat /\ faults \in Nat /\ faults' \in Nat
        BY <1>1, <1>2, <1>4, Bounds DEF TypeOK
      <4>2. session <= faults + 1
        BY <1>1, <4>1 DEF SessionInv
      <4>3. faults < faults'
        BY <1>4, <3>2, <4>1
      <4>4. \A n, a, b \in Nat : n <= a + 1 /\ a < b => n # b + 1 /\ n <= b + 1
        OBVIOUS
      <4>5. session # faults' + 1 /\ session <= faults' + 1
        BY <4>1, <4>2, <4>3, <4>4
      <4> QED BY <1>3, <4>1, <4>5 DEF SessionInv
    <3> QED BY <3>1, <3>2
  <2> QED BY <1>1, <1>2, <1>3, <1>4, <2>1, <2>2, <2>4, <2>5, <2>6, <2>7, WireStays
          DEF FeedInv, UpInv, WireInv, TypeOK
<1> QED BY <1>5, <1>6

LEMMA DoneKeepsFeed == FeedInv /\ FrameDone => FeedInv'
<1> SUFFICES ASSUME FeedInv, FrameDone PROVE FeedInv'
  OBVIOUS
<1>1. TypeOK /\ WireInv /\ FrameInv /\ UpInv /\ SessionInv
  BY DEF FeedInv
<1>2. /\ frame # <<>> /\ left = {} /\ asOf' = frame[1].after /\ frame' = <<>>
      /\ UNCHANGED <<book, level2, next, wire, link, session, lastSeq, left, connected,
                     reader, readerOf, doubt, missing, faults>>
  BY DEF FrameDone, coinbase
<1>3. link = "up" /\ frame[1] \in Frame /\ frame[1].num = lastSeq
  BY <1>2, FrameIs
<1>4. asOf' \in Book /\ Base' = Base
  BY <1>2, <1>3 DEF Frame, Base
<1>5. lastSeq # None
  BY <1>3, Bounds DEF Frame, Nums, None
<1>6. faults \in Nat /\ faults <= faults
  BY <1>1, Bounds DEF TypeOK
<1>7. ChainInv' /\ TailInv'
  BY <1>1, <1>2, <1>3, <1>4, <1>6, WireStays DEF UpInv
<1>8. SnapshotInv'
  BY <1>1, <1>2, <1>3, <1>5 DEF UpInv, SnapshotInv, HasSnapshot
<1>9. ReplayInv'
  BY <1>1, <1>2, <1>3, <1>4 DEF UpInv, ReplayInv
<1>10. SessionInv'
  BY <1>1, <1>2 DEF SessionInv, NumAt, Reads
<1>11. WireInv' /\ FrameInv'
  BY <1>1, <1>2, <1>3 DEF WireInv, FrameInv
<1>12. TypeOK'
  BY <1>1, <1>2, <1>4 DEF TypeOK
<1> QED BY <1>2, <1>3, <1>7, <1>8, <1>9, <1>10, <1>11, <1>12 DEF FeedInv, UpInv

-----------------------------------------------------------------------------
(* Sessions begin and end.                                                 *)

\* A session that lost a frame saw a fault, so every session does that ends.
LEMMA EndKeeps ==
  ASSUME FeedInv, Gap \/ ConnectFails \/ Close \/ NoteEnd \/ Stop \/ Spawn
  PROVE  FeedInv'
<1>1. TypeOK /\ WireInv /\ FrameInv /\ UpInv /\ SessionInv
  BY DEF FeedInv
<1>2. /\ faults \in Nat /\ faults <= MaxFaults /\ session \in Nat
      /\ session <= MaxFaults + 1
      /\ link # "up" => session <= faults
      /\ link = "up" => session <= faults + 1
  BY <1>1, Bounds DEF TypeOK, SessionInv
<1>3. Gap => session <= faults
  <2> SUFFICES ASSUME Gap, session = faults + 1 PROVE FALSE
    BY <1>1, <1>2 DEF Gap, ReadsOn
  <2>1. /\ ReadsOn /\ ~InTurn(Head(wire))
    BY DEF Gap
  <2>2. link = "up" /\ Head(wire) = wire[1] /\ 1 \in 1..Len(wire)
    BY <2>1, HeadIs
  <2>3. lastSeq = None \/ wire[1].num = Successor(NumAt(1 - 1))
    BY <1>1, <2>2 DEF SessionInv
  <2>4. NumAt(1 - 1) = lastSeq
    BY DEF NumAt
  <2> QED BY <2>1, <2>2, <2>3, <2>4 DEF InTurn
<1>4. /\ link' # "up" /\ link' \in {"down", "ended", "stopped"}
      /\ UNCHANGED <<book, next, session, reader, readerOf, asOf, doubt>>
      /\ session <= faults' /\ faults' \in 0..MaxFaults
      /\ lastSeq' \in Nums \cup {None}
      /\ connected' \in BOOLEAN /\ missing' \in BOOLEAN
      /\ level2' \in {level2, "none"}
      /\ wire' = <<>> /\ frame' = <<>> /\ left' = {}
  <2>1. CASE Gap
    <3>1. link = "up" /\ frame = <<>> /\ left = {} /\ lastSeq' = wire[1].num
          /\ wire[1].num \in Nums
      <4>1. ReadsOn /\ lastSeq' = Head(wire).num
        BY <2>1 DEF Gap
      <4>2. FrameOK(wire[1]) /\ Head(wire) = wire[1] /\ link = "up" /\ frame = <<>> /\ left = {}
        BY <4>1, HeadIs
      <4> QED BY <4>1, <4>2 DEF FrameOK, Frame
    <3> QED BY <1>1, <1>2, <1>3, <2>1, <3>1, Bounds DEF Gap, HangUp, log, TypeOK
  <2>2. CASE ConnectFails
    BY <1>1, <1>2, <2>2, Bounds DEF ConnectFails, Fault, coinbase, log, WireInv, TypeOK
  <2>3. CASE Close
    BY <1>1, <1>2, <2>3, Bounds DEF Close, HangUp, Fault, log, WireInv, TypeOK
  <2>4. CASE NoteEnd \/ Spawn
    BY <1>1, <1>2, <2>4, Bounds DEF NoteEnd, Spawn, coinbase, log, WireInv, TypeOK
  <2>5. CASE Stop
    <3>1. /\ link' = "stopped" /\ level2' = "none" /\ wire' = <<>> /\ frame' = <<>> /\ left' = {}
          /\ missing' = FALSE /\ faults < MaxFaults /\ faults' = faults + 1
          /\ UNCHANGED <<book, next, session, lastSeq, connected, reader, readerOf, asOf, doubt>>
      BY <2>5 DEF Stop, Fault, log
    <3>2. session <= faults' /\ faults' \in 0..MaxFaults
      BY <1>2, <3>1, Bounds
    <3>3. lastSeq' \in Nums \cup {None} /\ connected' \in BOOLEAN /\ missing' \in BOOLEAN
      BY <1>1, <3>1 DEF TypeOK
    <3> QED BY <3>1, <3>2, <3>3
  <2> QED BY <2>1, <2>2, <2>3, <2>4, <2>5
<1>5. WireInv'
  <2>1. wire' \in Seq(Frame) /\ frame' \in Seq(Frame) /\ Len(wire') = 0
    BY <1>4
  <2> QED BY <1>4, <2>1 DEF WireInv
<1>6. FrameInv' /\ UpInv' /\ SessionInv'
  BY <1>2, <1>4 DEF FrameInv, UpInv, SessionInv
<1>7. TypeOK'
  <2>1. Len(wire') = 0 /\ Len(frame') = 0 /\ DOMAIN wire' = {} /\ DOMAIN frame' = {}
    BY <1>4
  <2> QED BY <1>1, <1>4, <2>1, Bounds DEF TypeOK
<1> QED BY <1>5, <1>6, <1>7 DEF FeedInv

\* A session begins with no number and nothing of it replayed.
LEMMA ConnectKeeps == FeedInv /\ Connect => FeedInv'
<1> SUFFICES ASSUME FeedInv, Connect PROVE FeedInv'
  OBVIOUS
<1>1. TypeOK /\ WireInv /\ SessionInv
  BY DEF FeedInv
<1>2. /\ link = "down" /\ link' = "up" /\ connected' = TRUE /\ session' = session + 1
      /\ lastSeq' = None /\ missing' = FALSE /\ level2' = "due" /\ next' = 0 /\ wire' = <<>>
      /\ UNCHANGED <<book, frame, left, reader, readerOf, asOf, doubt, faults>>
  BY DEF Connect, log
<1>3. frame = <<>> /\ left = {} /\ session <= faults
  BY <1>1, <1>2 DEF WireInv, SessionInv
<1>4. /\ faults \in Nat /\ faults <= MaxFaults /\ session \in Nat
      /\ readerOf \in (0..session) \X Nums
  BY <1>1, Bounds DEF TypeOK
<1>5. /\ session' \in 0..MaxFaults + 1 /\ session' <= faults + 1
      /\ readerOf \in (0..session') \X Nums /\ readerOf[1] # session'
  <2>1. \A s \in 0..session : s \in 0..session' /\ s # session'
    BY <1>2, <1>4
  <2> QED BY <1>2, <1>3, <1>4, <2>1, Bounds
<1>6. Len(wire') = 0 /\ wire' \in Seq(Frame) /\ DOMAIN wire' = {}
  BY <1>2
<1>7. ChainInv' /\ TailInv'
  <2>1. \A i, j : i \in 0..0 => ~Compared(i, j)'
    BY <1>2 DEF Compared
  <2> QED BY <1>6, <2>1 DEF ChainInv, TailInv
<1>8. SnapshotInv'
  BY <1>2, <1>3, <1>5, <1>6 DEF SnapshotInv, HasSnapshot
<1>9. ReplayInv' /\ FrameInv'
  BY <1>2, <1>3, <1>5 DEF ReplayInv, FrameInv
<1>10. SessionInv'
  BY <1>2, <1>5, <1>6 DEF SessionInv
<1>11. WireInv'
  BY <1>1, <1>2, <1>6 DEF WireInv
<1>12. TypeOK'
  <2>1. 0 \in Nums
    BY Bounds DEF Nums
  <2>2. Len(wire') <= WireCap /\ \A i \in DOMAIN wire' : wire'[i] \in Frame
    BY <1>6, Bounds
  <2>3. /\ frame' = <<>> /\ Len(frame') <= 1 /\ left' = {}
        /\ \A i \in DOMAIN frame' : frame'[i] \in Frame
    BY <1>1, <1>2, <1>3 DEF TypeOK
  <2>4. /\ book' \in Book /\ reader' \in Book /\ asOf' \in Book /\ doubt' \subseteq Levels
        /\ faults' \in 0..MaxFaults /\ left' \subseteq Levels \X (0..MaxSize)
    BY <1>1, <1>2 DEF TypeOK
  <2>5. /\ level2' \in {"none", "due", "on"} /\ next' \in Nums /\ lastSeq' \in Nums \cup {None}
        /\ link' \in {"down", "up", "ended", "stopped"}
        /\ connected' \in BOOLEAN /\ missing' \in BOOLEAN
    BY <1>2, <2>1
  <2>6. session' \in 0..MaxFaults + 1 /\ readerOf' \in (0..session') \X Nums
    BY <1>2, <1>5
  <2> QED BY <2>2, <2>3, <2>4, <2>5, <2>6, Zenon DEF TypeOK
<1> QED BY <1>7, <1>8, <1>9, <1>10, <1>11, <1>12 DEF FeedInv, UpInv

LEMMA InitFeed == Init => FeedInv
<1> SUFFICES ASSUME Init PROVE FeedInv
  OBVIOUS
<1>1. /\ book \in Book /\ level2 = "none" /\ next = 0 /\ wire = <<>>
      /\ link = "down" /\ session = 0 /\ lastSeq = None
      /\ frame = <<>> /\ left = {} /\ connected = FALSE
      /\ reader = EmptyBook /\ readerOf = <<0, 0>> /\ asOf = EmptyBook /\ doubt = Levels
      /\ missing = FALSE /\ faults = 0
  BY DEF Init
<1>2. EmptyBook \in Book /\ 0 \in Nums
  BY Bounds DEF EmptyBook, Book, Nums
<1>3. Len(wire) = 0 /\ DOMAIN wire = {} /\ Len(frame) = 0 /\ DOMAIN frame = {}
      /\ wire \in Seq(Frame) /\ frame \in Seq(Frame)
  BY <1>1
<1>4. TypeOK
  <2>1. 0 \in 0..MaxFaults + 1 /\ 0 \in 0..MaxFaults /\ 0 <= WireCap
    BY Bounds
  <2>2. readerOf \in (0..session) \X Nums
    <3>1. 0 \in 0..session
      BY <1>1
    <3> QED BY <1>1, <1>2, <3>1
  <2>3. /\ book \in Book /\ reader \in Book /\ asOf \in Book /\ doubt \subseteq Levels
        /\ next \in Nums /\ lastSeq \in Nums \cup {None}
        /\ session \in 0..MaxFaults + 1 /\ faults \in 0..MaxFaults /\ Len(wire) <= WireCap
    BY <1>1, <1>2, <1>3, <2>1
  <2>4. /\ \A i \in DOMAIN wire : wire[i] \in Frame
        /\ \A i \in DOMAIN frame : frame[i] \in Frame
        /\ Len(frame) <= 1 /\ left \subseteq Levels \X (0..MaxSize) /\ left = {}
    BY <1>1, <1>3
  <2>5. /\ level2 \in {"none", "due", "on"} /\ link \in {"down", "up", "ended", "stopped"}
        /\ connected \in BOOLEAN /\ missing \in BOOLEAN
    BY <1>1
  <2> QED BY <2>2, <2>3, <2>4, <2>5, Zenon DEF TypeOK
<1> QED BY <1>1, <1>3, <1>4 DEF FeedInv, WireInv, FrameInv, UpInv, SessionInv

LEMMA FeedStays == FeedInv /\ UNCHANGED vars => FeedInv'
<1> SUFFICES ASSUME FeedInv, UNCHANGED vars PROVE FeedInv'
  OBVIOUS
<1>1. UNCHANGED <<book, level2, next, wire, link, session, lastSeq, frame, left, connected,
                  reader, readerOf, asOf, doubt, missing, faults>>
  BY DEF vars, coinbase, log
<1>2. TypeOK' /\ WireInv' /\ FrameInv' /\ SessionInv'
  BY <1>1 DEF FeedInv, TypeOK, WireInv, FrameInv, SessionInv, NumAt, FrameOK, Reads, RowsOf
<1>3. UpInv'
  BY <1>1 DEF FeedInv, UpInv, ChainInv, TailInv, SnapshotInv, ReplayInv, Compared, NumAt,
              AfterAt, Base, HasSnapshot, Reads, Carries, LevelsOf
<1> QED BY <1>2, <1>3 DEF FeedInv

LEMMA NextFeed == FeedInv /\ Next => FeedInv'
BY SendKeeps, SkipKeeps, TakeKeeps, RowKeeps, DoneKeepsFeed, EndKeeps, ConnectKeeps
   DEF Next, HandleText, Sessions

\* The log replays to Coinbase's book.
LEMMA FeedTracks == FeedInv => LogTracksCoinbase
<1> SUFFICES ASSUME FeedInv, Synced, NEW l \in Levels \ doubt PROVE reader[l] = asOf[l]
  BY DEF LogTracksCoinbase
<1>1. link = "up" /\ frame = <<>> /\ readerOf[1] = session
  BY DEF Synced
<1>2. ReplayInv /\ left = {}
  BY <1>1 DEF FeedInv, UpInv, TypeOK
<1> QED BY <1>1, <1>2 DEF ReplayInv, Base

-----------------------------------------------------------------------------
(***************************************************************************)
(* What GapEndsSession rests on: a frame that is left out leaves a gap in  *)
(* the numbers, and no later frame closes it.                              *)
(***************************************************************************)

\* A frame on its way, or the next one Coinbase sends, does not follow the one
\* it will be compared with.
Follows(i, num) == num = Successor(NumAt(i))

OutOfTurn ==
  \/ \E i \in 0..Len(wire) : \E j \in i + 1..Len(wire) :
       Compared(i, j - 1) /\ Reads(wire[j]) /\ ~Follows(i, wire[j].num)
  \/ \E i \in 0..Len(wire) : Compared(i, Len(wire)) /\ ~Follows(i, next)

\* What is compared has a last one, once there is a first.
FirstInv == HasFirst => \E i \in 0..Len(wire) : Compared(i, Len(wire))

LossInv == link = "up" => FirstInv /\ (missing => OutOfTurn)

\* What a fault does to the history: a frame of some session is left out.
Skips == next' = Successor(next) /\ (Loses \/ \E g : Appends(g) /\ ~Reads(g))

LEMMA MissingGives ==
  ASSUME FeedInv, CoinbaseSends
  PROVE  missing' => missing \/ (HasFirst /\ Skips)
<1>1. missing \in BOOLEAN /\ HasFirst \in BOOLEAN /\ faults \in 0..MaxFaults /\ next \in Nums
      /\ book \in Book
  BY DEF FeedInv, TypeOK, HasFirst
<1>2. ASSUME NEW f, f \in Frame, Send(f), missing', ~missing
      PROVE  HasFirst /\ Skips
  <2>1. /\ next' = Successor(next) /\ faults' = faults + 1
        /\ wire' \in {wire, Append(wire, [f EXCEPT !.channel = "unparsed"])}
        /\ HasFirst
    BY <1>1, <1>2 DEF Send, Fault
  <2>2. CASE wire' = wire
    BY <2>1, <2>2 DEF Skips, Loses
  <2>3. CASE wire' = Append(wire, [f EXCEPT !.channel = "unparsed"])
    <3> DEFINE g == [f EXCEPT !.channel = "unparsed"]
    <3>1. g \in Frame /\ g.channel = "unparsed"
      BY <1>2 DEF Frame
    <3> HIDE DEF g
    <3>2. Appends(g) /\ ~Reads(g)
      BY <2>1, <2>3, <3>1 DEF Appends, Reads, g
    <3> QED BY <2>1, <3>2 DEF Skips
  <2> QED BY <2>1, <2>2, <2>3
<1>3. CASE SendSnapshot
  <2>1. [channel |-> "l2_data", num |-> next, kind |-> "snapshot",
         lines |-> {<<l, book[l]>> : l \in {l \in Levels : book[l] > 0}},
         bad |-> {}, after |-> book] \in Frame
    BY <1>1 DEF Frame, Book
  <2> QED BY <1>2, <1>3, <2>1 DEF SendSnapshot
<1>4. CASE SendHeartbeat
  <2>1. Plain("heartbeats") \in Frame
    BY <1>1 DEF Frame, Plain
  <2> QED BY <1>2, <1>4, <2>1 DEF SendHeartbeat
<1>5. ASSUME NEW b \in Book, SendUpdate(b)
      PROVE  missing' => missing \/ (HasFirst /\ Skips)
  <2>1. [channel |-> "l2_data", num |-> next, kind |-> "update",
         lines |-> {<<l, b[l]>> : l \in {l \in Levels : b[l] # book[l]}},
         bad |-> {}, after |-> b] \in Frame
    BY <1>1 DEF Frame, Book
  <2> QED BY <1>2, <1>5, <2>1 DEF SendUpdate
<1>6. CASE SendError
  <2>1. Plain("none") \in Frame /\ Plain("none").channel = "none"
    BY <1>1 DEF Frame, Plain
  <2>2. /\ wire' = Append(wire, Plain("none")) /\ faults' = faults + 1
        /\ next' \in {next, Successor(next)} /\ UNCHANGED book
        /\ missing' = (missing \/ (next' # next /\ HasFirst))
    BY <1>6 DEF SendError, Fault
  <2>3. Appends(Plain("none")) /\ ~Reads(Plain("none"))
    BY <2>1, <2>2 DEF Appends, Reads
  <2> QED BY <1>1, <2>2, <2>3 DEF Skips
<1> QED BY <1>3, <1>4, <1>5, <1>6 DEF CoinbaseSends

\* The distance from a frame that is compared to the next number only grows,
\* and does not go round.
LEMMA StaysAhead ==
  ASSUME TypeOK, WireInv, TailInv, NEW i \in 0..Len(wire), Compared(i, Len(wire)),
         next' = Successor(next), faults < MaxFaults
  PROVE  next' # Successor(NumAt(i))
<1>1. PICK d \in 0..faults : next = (NumAt(i) + 1 + d) % Modulus
  BY DEF TailInv
<1>2. NumAt(i) \in Nums /\ faults \in Nat /\ Len(wire) \in Nat
  BY WireIs
<1> PICK m \in Nums : m = NumAt(i)
  BY <1>2
<1>3. d \in Nat /\ d < MaxFaults /\ d + 1 \in Nat /\ d + 1 <= MaxFaults /\ d + 1 # 0
  BY <1>2, Bounds
<1>4. Successor((m + 1 + d) % Modulus) = (m + 1 + (d + 1)) % Modulus
  BY <1>3, Missed, Bounds
<1>5. (m + 1 + (d + 1)) % Modulus # Successor(m)
  BY <1>3, Missed
<1> QED BY <1>1, <1>4, <1>5

\* Once out of turn, the numbers stay so whatever is sent, and a frame left out
\* puts them out of turn.
LEMMA SendKeepsLoss ==
  ASSUME FeedInv, LossInv, CoinbaseSends
  PROVE  LossInv'
<1>1. /\ TypeOK /\ WireInv /\ TailInv /\ FirstInv /\ (missing => OutOfTurn)
      /\ UNCHANGED <<lastSeq, frame, asOf>> /\ link = "up"
      /\ Loses \/ \E g : Appends(g)
  BY CoinbaseGives DEF FeedInv, UpInv, LossInv, Comes, log
<1> PICK n : n = Len(wire)
  OBVIOUS
<1>2. /\ n \in Nat /\ n = Len(wire) /\ faults \in Nat /\ faults' \in 0..MaxFaults
      /\ \A i \in 0..n : \A j \in Nat : Compared(i, j) => NumAt(i) \in Nums
  BY <1>1, WireIs, CoinbaseGives
<1>3. CASE Loses
  <2>1. faults < MaxFaults /\ next' = Successor(next) /\ UNCHANGED wire
    BY <1>2, <1>3, Bounds DEF Loses
  <2>2. /\ \A i : NumAt(i)' = NumAt(i)
        /\ \A i, j : Compared(i, j)' = Compared(i, j)
        /\ HasFirst' = HasFirst
    BY <1>1, <2>1 DEF NumAt, Compared, HasFirst, Reads
  <2>3. ASSUME NEW i \in 0..n, Compared(i, n)
        PROVE  OutOfTurn'
    <3>1. next' # Successor(NumAt(i))
      BY <1>1, <1>2, <2>1, <2>3, StaysAhead
    <3> QED BY <1>2, <2>1, <2>2, <2>3, <3>1 DEF OutOfTurn, Follows, Successor
  <2>4. FirstInv'
    BY <1>1, <2>1, <2>2 DEF FirstInv
  <2>5. OutOfTurn => OutOfTurn'
    <3>1. ASSUME NEW i \in 0..n, NEW j \in i + 1..n,
                 Compared(i, j - 1), Reads(wire[j]), ~Follows(i, wire[j].num)
          PROVE  OutOfTurn'
      <4>1. Compared(i, j - 1)' /\ Reads(wire'[j]) /\ ~Follows(i, wire[j].num)'
        BY <2>1, <2>2, <3>1 DEF Follows, Successor
      <4> QED BY <1>2, <2>1, <4>1 DEF OutOfTurn, Reads
    <3> QED BY <1>2, <2>3, <3>1 DEF OutOfTurn
  <2>6. HasFirst => OutOfTurn'
    BY <1>1, <1>2, <2>3 DEF FirstInv
  <2> QED BY <1>1, <2>4, <2>5, <2>6, MissingGives DEF LossInv
<1>4. ASSUME NEW g, Appends(g)
      PROVE  LossInv'
  <2>1. /\ Len(wire') = n + 1 /\ wire'[n + 1] = g /\ DOMAIN wire' = 1..n + 1
        /\ \A i \in 1..n : wire'[i] = wire[i]
    BY <1>1, <1>2, <1>4, AppendProperties DEF WireInv, Appends
  <2>2. \A i \in 0..n : NumAt(i)' = NumAt(i)
    BY <1>1, <1>2, <2>1 DEF NumAt
  <2>3. ASSUME NEW i \in 0..n, NEW j \in 0..n, Compared(i, j)
        PROVE  Compared(i, j)'
    BY <1>1, <1>2, <2>1, <2>3 DEF Compared, Reads
  <2>4. CASE Reads(g)
    <3>1. g.num = next
      BY <1>4, <2>4 DEF Appends
    <3>2. Compared(n + 1, n + 1)'
      BY <1>2, <2>1, <2>4 DEF Compared, Reads
    <3>3. ASSUME NEW i \in 0..n, Compared(i, n), ~Follows(i, next)
          PROVE  OutOfTurn'
      <4>1. Compared(i, (n + 1) - 1)' /\ n + 1 \in i + 1..n + 1 /\ i \in 0..n + 1
        BY <1>2, <2>3, <3>3
      <4>2. Reads(wire'[n + 1]) /\ ~Follows(i, wire[n + 1].num)'
        BY <2>1, <2>2, <2>4, <3>1, <3>3 DEF Follows, Successor
      <4> QED BY <2>1, <4>1, <4>2 DEF OutOfTurn, Reads
    <3>4. ASSUME NEW i \in 0..n, NEW j \in i + 1..n, Compared(i, j - 1), Reads(wire[j]),
                 ~Follows(i, wire[j].num)
          PROVE  OutOfTurn'
      <4>1. Compared(i, j - 1)' /\ j \in i + 1..n + 1 /\ i \in 0..n + 1
        BY <1>2, <2>3, <3>4
      <4>2. Reads(wire'[j]) /\ ~Follows(i, wire[j].num)'
        BY <1>2, <2>1, <2>2, <3>4 DEF Follows, Successor
      <4> QED BY <2>1, <4>1, <4>2 DEF OutOfTurn, Reads
    <3>5. missing' => missing
      <4>1. Skips => ~Reads(g)
        <5>1. ~Loses
          BY <1>2, <2>1 DEF Loses
        <5>2. ASSUME NEW h, Appends(h), ~Reads(h) PROVE ~Reads(g)
          <6>1. wire'[n + 1] = h
            BY <1>1, <1>2, <5>2, AppendProperties DEF WireInv, Appends
          <6> QED BY <2>1, <5>2, <6>1
        <5> QED BY <5>1, <5>2 DEF Skips
      <4> QED BY <2>4, <4>1, MissingGives
    <3>6. FirstInv'
      BY <1>2, <2>1, <3>2 DEF FirstInv
    <3> QED BY <1>1, <1>2, <3>3, <3>4, <3>5, <3>6 DEF LossInv, OutOfTurn
  <2>5. CASE ~Reads(g)
    <3>1. /\ faults < MaxFaults
          /\ next' = Successor(next) \/ next' = next
      BY <1>2, <1>4, <2>5, Bounds DEF Appends
    <3>2. ASSUME NEW i \in 0..n, Compared(i, n)
          PROVE  Compared(i, n + 1)' /\ i \in 0..n + 1
      BY <1>1, <1>2, <2>1, <2>5, <3>2 DEF Compared, Reads
    <3>3. ASSUME NEW i \in 0..n, Compared(i, n), next' = Successor(next) \/ ~Follows(i, next)
          PROVE  OutOfTurn'
      <4>1. next' # Successor(NumAt(i))
        BY <1>1, <1>2, <3>1, <3>3, StaysAhead DEF Follows
      <4>2. ~Follows(i, next)'
        BY <2>2, <4>1 DEF Follows, Successor
      <4> QED BY <2>1, <3>2, <3>3, <4>2 DEF OutOfTurn
    <3>4. ASSUME NEW i \in 0..n, NEW j \in i + 1..n, Compared(i, j - 1), Reads(wire[j]),
                 ~Follows(i, wire[j].num)
          PROVE  OutOfTurn'
      <4>1. Compared(i, j - 1)' /\ j \in i + 1..n + 1 /\ i \in 0..n + 1
        BY <1>2, <2>3, <3>4
      <4>2. Reads(wire'[j]) /\ ~Follows(i, wire[j].num)'
        BY <1>2, <2>1, <2>2, <3>4 DEF Follows, Successor
      <4> QED BY <2>1, <4>1, <4>2 DEF OutOfTurn, Reads
    <3>5. HasFirst' => HasFirst
      BY <1>1, <1>2, <2>1, <2>5 DEF HasFirst, Reads, WireInv
    <3>6. FirstInv'
      BY <1>1, <1>2, <2>1, <3>2, <3>5 DEF FirstInv
    <3>7. HasFirst /\ Skips => OutOfTurn'
      BY <1>1, <1>2, <3>3 DEF FirstInv, Skips
    <3> QED BY <1>1, <1>2, <3>3, <3>4, <3>6, <3>7, MissingGives DEF LossInv, OutOfTurn
  <2> QED BY <2>4, <2>5
<1> QED BY <1>1, <1>3, <1>4

\* Reading the wire moves what is out of turn forward, and only a frame in turn
\* is taken up.
LEMMA ReadKeepsLoss ==
  ASSUME FeedInv, LossInv, ReadsOn, wire' = Tail(wire), UNCHANGED <<next, missing>>,
         NEW z \in {0, 1},
         z = 0 => ~Reads(wire[1]) /\ UNCHANGED lastSeq,
         z = 1 => Reads(wire[1]) /\ InTurn(wire[1]) /\ lastSeq' = wire[1].num
  PROVE  LossInv'
<1>1. /\ TypeOK /\ WireInv /\ FirstInv /\ (missing => OutOfTurn) /\ wire # <<>> /\ link = "up"
  BY DEF FeedInv, LossInv, ReadsOn
<1> PICK n : n = Len(wire)
  OBVIOUS
<1>2. /\ n \in Nat /\ n = Len(wire) /\ wire \in Seq(Frame) /\ DOMAIN wire = 1..n
      /\ \A i \in 1..n : wire[i].num \in Nums
      /\ None \notin Nums
  BY <1>1, WireIs, Bounds DEF None, Nums
<1>3. /\ n > 0 /\ n - 1 \in Nat /\ Len(wire') = n - 1 /\ DOMAIN wire' = 1..n - 1
      /\ \A i \in 1..n - 1 : wire'[i] = wire[i + 1]
  BY <1>1, <1>2, HeadTailProperties
<1> DEFINE t(i) == IF i = 0 THEN 0 ELSE i - 1
<1>4. ASSUME NEW i \in 0..n, NEW j \in 1..n, i <= j, Compared(i, j)
      PROVE  /\ t(i) \in 0..n - 1 /\ t(i) <= j - 1 /\ Compared(t(i), j - 1)'
             /\ NumAt(t(i))' = NumAt(i)
  <2>1. /\ i = 0 => z = 0
        /\ i = 1 => z = 1
    <3>1. CASE i = 0
      <4>1. ~Reads(wire[1])
        BY <1>4, <3>1 DEF Compared
      <4> QED BY <3>1, <4>1
    <3>2. CASE i = 1
      <4>1. Reads(wire[1])
        BY <1>4, <3>2 DEF Compared
      <4> QED BY <3>2, <4>1
    <3> QED BY <3>1, <3>2
  <2>2. \A k \in t(i) + 1..j - 1 : ~Reads(wire'[k])
    <3> SUFFICES ASSUME NEW k \in t(i) + 1..j - 1 PROVE ~Reads(wire'[k])
      OBVIOUS
    <3>1. k + 1 \in i + 1..j /\ k \in 1..n - 1
      BY <1>2, <1>3
    <3> QED BY <1>3, <1>4, <3>1 DEF Compared
  <2>3. CASE i = 0
    <3>1. lastSeq # None /\ UNCHANGED lastSeq
      BY <1>4, <2>1, <2>3 DEF Compared
    <3>2. t(i) = 0
      BY <2>3
    <3> QED BY <1>2, <1>3, <2>2, <2>3, <3>1, <3>2 DEF Compared, NumAt, Reads
  <2>4. CASE i = 1
    <3>1. lastSeq' = wire[1].num /\ lastSeq' # None
      BY <1>2, <1>3, <2>1, <2>4
    <3>2. t(i) = 0
      BY <2>4
    <3> QED BY <1>2, <1>3, <2>2, <2>4, <3>1, <3>2 DEF Compared, NumAt, Reads
  <2>5. CASE i > 1
    <3>1. t(i) = i - 1 /\ i - 1 \in 1..n - 1 /\ (i - 1) + 1 = i
      BY <1>2, <2>5
    <3>2. Reads(wire[i]) /\ wire'[i - 1] = wire[i]
      BY <1>3, <1>4, <2>5, <3>1 DEF Compared
    <3>3. t(i) \in 0..n - 1 /\ t(i) <= j - 1 /\ t(i) # 0
      BY <1>4, <3>1
    <3>4. NumAt(t(i))' = NumAt(i)
      BY <2>5, <3>1, <3>2 DEF NumAt
    <3>5. Compared(t(i), j - 1)'
      BY <2>2, <2>5, <3>1, <3>2 DEF Compared, Reads
    <3> QED BY <3>3, <3>4, <3>5
  <2> QED BY <2>3, <2>4, <2>5
<1> HIDE DEF t
<1>5. FirstInv'
  <2> SUFFICES ASSUME HasFirst' PROVE \E i \in 0..n - 1 : Compared(i, n - 1)'
    BY <1>3 DEF FirstInv
  <2>1. HasFirst
    <3>1. CASE z = 1
      BY <1>2, <1>3, <3>1 DEF HasFirst, Reads
    <3>2. CASE z = 0
      <4>1. CASE lastSeq' # None
        BY <3>2, <4>1 DEF HasFirst
      <4>2. ASSUME NEW i \in 1..n - 1, Reads(wire'[i]) PROVE HasFirst
        <5>1. i + 1 \in 1..n /\ Reads(wire[i + 1])
          BY <1>3, <4>2
        <5> QED BY <1>2, <5>1 DEF HasFirst, Reads
      <4> QED BY <1>3, <4>1, <4>2 DEF HasFirst, Reads
    <3> QED BY <3>1, <3>2
  <2>2. PICK i \in 0..n : Compared(i, n)
    BY <1>1, <1>2, <2>1 DEF FirstInv
  <2>3. n \in 1..n /\ i <= n
    BY <1>2, <1>3
  <2> QED BY <1>4, <2>2, <2>3
<1>6. ASSUME NEW i \in 0..n, NEW j \in i + 1..n, Compared(i, j - 1), Reads(wire[j]),
             ~Follows(i, wire[j].num)
      PROVE  OutOfTurn'
  <2>1. j # 1
    <3> SUFFICES ASSUME j = 1 PROVE FALSE
      OBVIOUS
    <3>1. i = 0 /\ lastSeq # None /\ z = 1
      BY <1>6 DEF Compared
    <3> QED BY <1>6, <3>1 DEF InTurn, Follows, NumAt
  <2>2. j - 1 \in 1..n /\ i <= j - 1
    BY <1>2, <2>1
  <2>3. /\ t(i) \in 0..n - 1 /\ t(i) <= (j - 1) - 1 /\ Compared(t(i), (j - 1) - 1)'
        /\ NumAt(t(i))' = NumAt(i)
    BY <1>4, <1>6, <2>2
  <2>4. j - 1 \in t(i) + 1..n - 1 /\ wire'[j - 1] = wire[j]
    BY <1>2, <1>3, <2>2, <2>3
  <2>5. ~Follows(t(i), wire[j - 1].num)'
    BY <1>6, <2>3, <2>4 DEF Follows, Successor
  <2> QED BY <1>3, <1>6, <2>3, <2>4, <2>5 DEF OutOfTurn, Reads
<1>7. ASSUME NEW i \in 0..n, Compared(i, n), ~Follows(i, next)
      PROVE  OutOfTurn'
  <2>1. n \in 1..n /\ i <= n
    BY <1>2, <1>3
  <2>2. t(i) \in 0..n - 1 /\ Compared(t(i), n - 1)' /\ NumAt(t(i))' = NumAt(i)
    BY <1>4, <1>7, <2>1
  <2> QED BY <1>3, <1>7, <2>2 DEF OutOfTurn, Follows, Successor
<1> QED BY <1>1, <1>2, <1>5, <1>6, <1>7 DEF LossInv, OutOfTurn

LEMMA NextLoss == FeedInv /\ LossInv /\ [Next]_vars => LossInv'
<1> SUFFICES ASSUME FeedInv, LossInv, [Next]_vars PROVE LossInv'
  OBVIOUS
<1>1. CASE CoinbaseSends
  BY <1>1, SendKeepsLoss
<1>2. CASE SkipFrame
  <2>1. /\ ReadsOn /\ wire' = Tail(wire) /\ UNCHANGED <<next, missing, lastSeq>>
        /\ ~Reads(wire[1]) /\ 0 \in {0, 1}
    BY <1>2, HeadIs DEF SkipFrame, Reads
  <2> QED BY <2>1, ReadKeepsLoss
<1>3. CASE TakeFrame
  <2>1. /\ ReadsOn /\ wire' = Tail(wire) /\ UNCHANGED <<next, missing>>
        /\ Reads(wire[1]) /\ InTurn(wire[1]) /\ lastSeq' = wire[1].num /\ 1 \in {0, 1}
    BY <1>3, HeadIs DEF TakeFrame, Reads
  <2> QED BY <2>1, ReadKeepsLoss
<1>4. CASE link' # "up"
  BY <1>4 DEF LossInv
<1>5. CASE Connect
  <2>1. wire' = <<>> /\ lastSeq' = None /\ missing' = FALSE
    BY <1>5 DEF Connect
  <2>2. ~HasFirst'
    BY <2>1 DEF HasFirst
  <2> QED BY <2>1, <2>2 DEF LossInv, FirstInv
<1>6. CASE UNCHANGED <<wire, lastSeq, next, missing, link>>
  <2>1. /\ \A i : NumAt(i)' = NumAt(i)
        /\ \A i, j : Compared(i, j)' = Compared(i, j)
        /\ HasFirst' = HasFirst
    BY <1>6 DEF NumAt, Compared, HasFirst, Reads
  <2> QED BY <1>6, <2>1 DEF LossInv, FirstInv, OutOfTurn, Follows, Successor, Reads
<1>7. Gap \/ ConnectFails \/ Close \/ NoteEnd \/ Stop \/ Spawn => link' # "up"
  BY DEF Gap, ConnectFails, Close, NoteEnd, Stop, Spawn, HangUp
<1>8. FrameDone \/ (\E line \in left : QueueSnapshotRow(line) \/ QueueUpdateRow(line))
        => UNCHANGED <<wire, lastSeq, next, missing, link>>
  BY DEF FrameDone, QueueSnapshotRow, QueueUpdateRow, coinbase
<1>9. UNCHANGED vars => UNCHANGED <<wire, lastSeq, next, missing, link>>
  BY DEF vars, coinbase
<1> QED BY <1>1, <1>2, <1>3, <1>4, <1>5, <1>6, <1>7, <1>8, <1>9
        DEF Next, HandleText, Sessions

-----------------------------------------------------------------------------
(***************************************************************************)
(* The summaries of the markets (SummaryCache): the inductive invariant.   *)
(***************************************************************************)

N == Cardinality(Markets)

\* What k attempts can take.
Span(k) == k * Timeout

\* What the attempt in the slot can still take.
Left == IF slot \in Markets THEN Timeout - elapsed ELSE 0

\* The types of the tasks, the queue and the slot.
TasksType ==
  /\ pc \in [Markets -> {"stopped", "sleep", "wait", "refresh"}]
  /\ since \in [Markets -> 0..Summary!MaxAge]
  /\ queue \in Seq(Markets)
  /\ slot \in Markets \cup {Summary!NoMarket, Summary!Aborted}
  /\ elapsed \in 0..Timeout

\* The queue holds each waiting task once, the slot the one refreshing.
PlacesInv ==
  /\ \A i, j \in DOMAIN queue : queue[i] = queue[j] => i = j
  /\ \A i \in DOMAIN queue : pc[queue[i]] = "wait"
  /\ \A m \in Markets : pc[m] = "wait" => \E i \in DOMAIN queue : queue[i] = m
  /\ \A m \in Markets : pc[m] = "refresh" <=> slot = m

\* What a task has waited, and what those before it can still take, is no more
\* than one attempt of every other market.
WaitsInv ==
  /\ \A i \in DOMAIN queue : since[queue[i]] + Span(i - 1) + Left <= Span(N - 1)
  /\ \A m \in Markets :
       /\ slot = m => since[m] <= Span(N - 1) + elapsed
       /\ pc[m] = "sleep" => since[m] <= Summary!AtLeast(Interval, Summary!Round)
       /\ pc[m] = "stopped" => since[m] = Interval

PeriodInv == TasksType /\ PlacesInv /\ WaitsInv

-----------------------------------------------------------------------------
(* Numbers.                                                                *)

\* Cardinality is the same operator in the instance.
LEMMA SameCounting ==
  /\ Summary!Cardinality(Markets) = N
  /\ Summary!Round = N * Timeout /\ Summary!MaxAge = Interval + N * Timeout + 1
<1>1. Summary!Cardinality(Markets) = N
  BY DEF N, Cardinality, IsFiniteSet, Summary!Cardinality, Summary!IsFiniteSet
<1> QED BY <1>1 DEF Summary!Round, Summary!MaxAge

\* Attempts add up.
LEMMA Spans ==
  /\ \A k \in Nat : Span(k) \in Nat /\ Span(k + 1) = Span(k) + Timeout
  /\ \A j, k \in Nat : j <= k => Span(j) <= Span(k)
<1>1. Timeout \in Nat
  BY TimesAssumption
<1>2. ASSUME NEW k \in Nat PROVE Span(k) \in Nat /\ Span(k + 1) = Span(k) + Timeout
  BY <1>1 DEF Span
<1>3. ASSUME NEW j \in Nat, NEW k \in Nat, j <= k PROVE Span(j) <= Span(k)
  <2>1. PICK d \in Nat : k = j + d
    <3>1. k - j \in Nat /\ k = j + (k - j)
      BY <1>3
    <3> QED BY <3>1
  <2>2. (j + d) * Timeout = j * Timeout + d * Timeout
    BY <1>1
  <2>3. d * Timeout \in Nat /\ j * Timeout \in Nat
    BY <1>1
  <2> QED BY <2>1, <2>2, <2>3 DEF Span
<1> QED BY <1>2, <1>3

\* The constants are natural numbers, and a round is an attempt of each market.
LEMMA Numbers ==
  /\ N \in Nat /\ Summary!Round = Span(N) /\ Summary!Round \in Nat
  /\ Interval \in Nat /\ Interval > 0 /\ Timeout \in Nat /\ Timeout > 0
  /\ Summary!MaxAge = Interval + Summary!Round + 1
<1>1. N \in Nat
  BY MarketsAssumption, FS_CardinalityType DEF N
<1>2. Summary!Round = Span(N)
  BY SameCounting DEF Span
<1> QED BY <1>1, <1>2, Spans, TimesAssumption DEF Summary!MaxAge

\* Where there is a market, a round is one attempt and those of the others.
LEMMA Others ==
  ASSUME NEW m \in Markets
  PROVE  N - 1 \in Nat /\ Summary!Round = Span(N - 1) + Timeout /\ Span(N - 1) \in Nat
<1>1. N # 0
  BY MarketsAssumption, FS_EmptySet, FS_CardinalityType DEF N
<1>2. N - 1 \in Nat /\ N = (N - 1) + 1
  BY <1>1, Numbers
<1> QED BY <1>2, Spans, Numbers

\* A queue in which nobody is twice is no longer than the markets it is of.
LEMMA QueueFits ==
  ASSUME NEW S, IsFiniteSet(S), NEW q \in Seq(S),
         \A i, j \in DOMAIN q : q[i] = q[j] => i = j
  PROVE  Len(q) <= Cardinality(S)
<1>1. Len(q) \in Nat /\ DOMAIN q = 1..Len(q) /\ q \in [1..Len(q) -> S]
  BY LenProperties
<1>2. q \in Injection(1..Len(q), S)
  BY <1>1, Fun_IsInj
<1>3. Cardinality(1..Len(q)) <= Cardinality(S)
  BY <1>2, FS_Injection
<1>4. Cardinality(1..Len(q)) = Len(q)
  BY <1>1, FS_Interval
<1> QED BY <1>3, <1>4

\* One task that is neither waiting nor refreshing leaves room for the others:
\* the queue, with the one in the slot, is of the other markets.
LEMMA QueueOfOthers ==
  ASSUME PeriodInv, NEW m \in Markets, pc[m] = "sleep"
  PROVE  /\ Len(queue) <= N - 1
         /\ slot \in Markets => Len(queue) + 1 <= N - 1
<1>1. /\ queue \in Seq(Markets) /\ Len(queue) \in Nat /\ DOMAIN queue = 1..Len(queue)
      /\ \A i \in DOMAIN queue : queue[i] \in Markets
      /\ queue \in [1..Len(queue) -> Markets]
  BY LenProperties, ElementOfSeq DEF PeriodInv, TasksType
<1>2. \A i \in DOMAIN queue : queue[i] # m
  BY DEF PeriodInv, PlacesInv
<1>3. \A i, j \in DOMAIN queue : queue[i] = queue[j] => i = j
  BY DEF PeriodInv, PlacesInv
<1>4. IsFiniteSet(Markets \ {m}) /\ Cardinality(Markets \ {m}) = N - 1
  BY MarketsAssumption, FS_RemoveElement DEF N
<1>5. queue \in Seq(Markets \ {m})
  BY <1>1, <1>2
<1>6. Len(queue) <= N - 1
  BY <1>3, <1>4, <1>5, QueueFits
<1>7. ASSUME slot \in Markets PROVE Len(queue) + 1 <= N - 1
  <2>1. pc[slot] = "refresh"
    BY <1>7 DEF PeriodInv, PlacesInv
  <2>2. slot \in Markets \ {m} /\ \A i \in DOMAIN queue : queue[i] # slot
    BY <1>7, <2>1 DEF PeriodInv, PlacesInv
  <2>3. /\ IsFiniteSet((Markets \ {m}) \ {slot})
        /\ Cardinality((Markets \ {m}) \ {slot}) = (N - 1) - 1
    BY <1>4, <2>2, FS_RemoveElement
  <2>4. queue \in Seq((Markets \ {m}) \ {slot})
    BY <1>1, <1>2, <2>2
  <2>5. Len(queue) <= (N - 1) - 1
    BY <1>3, <2>3, <2>4, QueueFits
  <2> QED BY <1>1, <2>5, Numbers
<1> QED BY <1>6, <1>7

\* What is left of the queue when a task gives up its place.
LEMMA WithoutPlace ==
  ASSUME PeriodInv, NEW m \in Markets
  PROVE  \/ Summary!Without(m) = queue /\ \A i \in DOMAIN queue : queue[i] # m
         \/ \E k \in DOMAIN queue :
              /\ queue[k] = m
              /\ Summary!Without(m) \in Seq(Markets)
              /\ Len(Summary!Without(m)) = Len(queue) - 1
              /\ \A i \in 1..Len(queue) - 1 :
                   Summary!Without(m)[i] = IF i < k THEN queue[i] ELSE queue[i + 1]
<1>1. /\ queue \in Seq(Markets) /\ Len(queue) \in Nat /\ DOMAIN queue = 1..Len(queue)
      /\ \A i \in DOMAIN queue : queue[i] \in Markets
  BY LenProperties, ElementOfSeq DEF PeriodInv, TasksType
<1>2. CASE ~\E i \in DOMAIN queue : queue[i] = m
  BY <1>2 DEF Summary!Without
<1>3. CASE \E i \in DOMAIN queue : queue[i] = m
  <2> DEFINE k == CHOOSE i \in DOMAIN queue : queue[i] = m
             a == SubSeq(queue, 1, k - 1)
             b == SubSeq(queue, k + 1, Len(queue))
  <2>1. k \in DOMAIN queue /\ queue[k] = m
    BY <1>3
  <2>2. Summary!Without(m) = a \o b
    BY <1>3 DEF Summary!Without
  <2> HIDE DEF k
  <2>3. k \in Int /\ 1 <= k /\ k <= Len(queue)
    BY <1>1, <2>1
  <2>4. /\ a \in Seq(Markets) /\ Len(a) = k - 1
        /\ \A i \in 1..k - 1 : a[i] = queue[i]
    <3>1. \A i \in 1..k - 1 : queue[i] \in Markets
      BY <1>1, <2>3
    <3>2. /\ a \in Seq(Markets) /\ Len(a) = IF 1 <= k - 1 THEN k - 1 - 1 + 1 ELSE 0
          /\ \A i \in 1..(k - 1) - 1 + 1 : a[i] = queue[1 + i - 1]
      BY <1>1, <2>3, <3>1, SubSeqProperties
    <3> QED BY <2>3, <3>2
  <2>5. /\ b \in Seq(Markets) /\ Len(b) = Len(queue) - k
        /\ \A i \in 1..Len(queue) - k : b[i] = queue[k + i]
    <3>1. \A i \in k + 1..Len(queue) : queue[i] \in Markets
      BY <1>1, <2>3
    <3>2. /\ b \in Seq(Markets)
          /\ Len(b) = IF k + 1 <= Len(queue) THEN Len(queue) - (k + 1) + 1 ELSE 0
          /\ \A i \in 1..Len(queue) - (k + 1) + 1 : b[i] = queue[k + 1 + i - 1]
      BY <1>1, <2>3, <3>1, SubSeqProperties
    <3>3. Len(b) = Len(queue) - k
      <4> DEFINE L == Len(queue)
                 lb == Len(b)
      <4>1. L \in Nat /\ k \in Int /\ 1 <= k /\ k <= L
        BY <1>1, <2>3
      <4>2. lb = IF k + 1 <= L THEN L - (k + 1) + 1 ELSE 0
        BY <3>2
      <4> HIDE DEF L, lb
      <4>3. lb = L - k
        BY <4>1, <4>2
      <4> QED BY <4>3 DEF L, lb
    <3>4. ASSUME NEW i \in 1..Len(queue) - k PROVE b[i] = queue[k + i]
      <4> HIDE DEF b
      <4>1. i \in 1..Len(queue) - (k + 1) + 1 /\ k + 1 + i - 1 = k + i
        BY <1>1, <2>3
      <4> QED BY <3>2, <4>1
    <3> QED BY <3>2, <3>3, <3>4
  <2> HIDE DEF a, b
  <2>6. /\ a \o b \in Seq(Markets) /\ Len(a \o b) = Len(a) + Len(b)
        /\ \A i \in 1..Len(a) + Len(b) :
             (a \o b)[i] = IF i <= Len(a) THEN a[i] ELSE b[i - Len(a)]
    BY <2>4, <2>5, ConcatProperties
  <2>7. Len(a) + Len(b) = Len(queue) - 1
    BY <1>1, <2>3, <2>4, <2>5
  <2>8. ASSUME NEW i \in 1..Len(queue) - 1
        PROVE  (a \o b)[i] = IF i < k THEN queue[i] ELSE queue[i + 1]
    <3>1. CASE i < k
      BY <1>1, <2>3, <2>4, <2>6, <2>7, <3>1
    <3>2. CASE i >= k
      <4>1. i - (k - 1) \in 1..Len(queue) - k /\ k + (i - (k - 1)) = i + 1
        BY <1>1, <2>3, <3>2
      <4>2. (a \o b)[i] = b[i - (k - 1)]
        BY <1>1, <2>3, <2>4, <2>6, <2>7, <3>2
      <4>3. b[i - (k - 1)] = queue[k + (i - (k - 1))]
        BY <2>5, <4>1
      <4>4. ~(i < k)
        BY <2>3, <3>2
      <4> QED BY <4>1, <4>2, <4>3, <4>4
    <3>3. i < k \/ i >= k
      BY <1>1, <2>3
    <3> QED BY <3>1, <3>2, <3>3
  <2> QED BY <2>1, <2>2, <2>6, <2>7, <2>8
<1> QED BY <1>2, <1>3

-----------------------------------------------------------------------------
(* The period: one lemma per kind of step.                                 *)

\* The facts about queue and since that the steps start from.
LEMMA Start ==
  ASSUME PeriodInv
  PROVE  /\ queue \in Seq(Markets) /\ Len(queue) \in Nat /\ DOMAIN queue = 1..Len(queue)
         /\ \A i \in DOMAIN queue : queue[i] \in Markets
         /\ \A m \in Markets : since[m] \in 0..Summary!MaxAge /\ since[m] \in Int
         /\ elapsed \in Int /\ 0 <= elapsed /\ elapsed <= Timeout
         /\ Summary!NoMarket \notin Markets /\ Summary!Aborted \notin Markets
         /\ Left \in Int /\ 0 <= Left /\ Left <= Timeout
<1>1. /\ queue \in Seq(Markets) /\ Len(queue) \in Nat /\ DOMAIN queue = 1..Len(queue)
      /\ \A i \in DOMAIN queue : queue[i] \in Markets
  BY LenProperties, ElementOfSeq DEF PeriodInv, TasksType
<1>2. \A m \in Markets : since[m] \in 0..Summary!MaxAge /\ since[m] \in Int
  BY Numbers DEF PeriodInv, TasksType
<1>3. elapsed \in Int /\ 0 <= elapsed /\ elapsed <= Timeout
  BY Numbers DEF PeriodInv, TasksType
<1>4. Summary!NoMarket \notin Markets /\ Summary!Aborted \notin Markets
  BY MarketsAssumption DEF Summary!NoMarket, Summary!Aborted
<1>5. Left \in Int /\ 0 <= Left /\ Left <= Timeout
  BY <1>3, Numbers DEF Left
<1> QED BY <1>1, <1>2, <1>3, <1>4, <1>5

\* tick(): the task that comes last waits for at most every other market's
\* attempt.
LEMMA WakePeriod ==
  ASSUME PeriodInv, NEW m \in Markets, Summary!Wake(m)
  PROVE  PeriodInv'
<1> DEFINE L == Len(queue)
<1>1. /\ pc[m] = "sleep"
      /\ pc' = [pc EXCEPT ![m] = "wait"] /\ since' = [since EXCEPT ![m] = 0]
      /\ queue' = Append(queue, m) /\ slot' = slot /\ elapsed' = elapsed
  BY DEF Summary!Wake, Summary!Due, Summary!attempt
<1>2. L \in Nat /\ DOMAIN queue = 1..L /\ \A i \in 1..L : queue[i] \in Markets
  BY Start
<1>3. /\ queue' \in Seq(Markets) /\ Len(queue') = L + 1 /\ DOMAIN queue' = 1..L + 1
      /\ \A i \in 1..L : queue'[i] = queue[i]
      /\ queue'[L + 1] = m
  BY <1>1, <1>2, Start
<1>4. \A i \in 1..L : queue[i] # m
  BY <1>1, <1>2 DEF PeriodInv, PlacesInv
<1>5. TasksType'
  <2>1. 0 \in 0..Summary!MaxAge
    BY Numbers
  <2> QED BY <1>1, <1>3, <2>1 DEF PeriodInv, TasksType
<1>6. PlacesInv'
  <2>1. ASSUME NEW i \in 1..L + 1, NEW j \in 1..L + 1, queue'[i] = queue'[j] PROVE i = j
    BY <1>2, <1>3, <1>4, <2>1 DEF PeriodInv, PlacesInv
  <2>2. ASSUME NEW i \in 1..L + 1 PROVE pc'[queue'[i]] = "wait"
    <3>1. CASE i = L + 1
      BY <1>1, <1>3, <3>1 DEF PeriodInv, TasksType
    <3>2. CASE i \in 1..L
      <4>1. queue'[i] = queue[i] /\ queue[i] # m /\ pc[queue[i]] = "wait"
        BY <1>2, <1>3, <1>4, <3>2 DEF PeriodInv, PlacesInv
      <4> QED BY <1>1, <4>1 DEF PeriodInv, TasksType
    <3> QED BY <1>2, <3>1, <3>2
  <2>3. ASSUME NEW n \in Markets, pc'[n] = "wait"
        PROVE  \E i \in 1..L + 1 : queue'[i] = n
    <3>1. CASE n = m
      BY <1>2, <1>3, <3>1
    <3>2. CASE n # m
      <4>1. \E i \in 1..L : queue[i] = n
        BY <1>1, <1>2, <2>3, <3>2 DEF PeriodInv, PlacesInv, TasksType
      <4> QED BY <1>2, <1>3, <4>1
    <3> QED BY <3>1, <3>2
  <2>4. ASSUME NEW n \in Markets PROVE pc'[n] = "refresh" <=> slot' = n
    BY <1>1, <2>4 DEF PeriodInv, PlacesInv, TasksType
  <2> QED BY <1>3, <2>1, <2>2, <2>3, <2>4 DEF PlacesInv
<1>7. WaitsInv'
  <2>1. Left' = Left
    BY <1>1 DEF Left
  <2>2. since'[m] = 0 /\ \A n \in Markets : n # m => since'[n] = since[n]
    BY <1>1 DEF PeriodInv, TasksType
  <2>3. Span(L) + Left <= Span(N - 1)
    <3>1. L <= N - 1 /\ (slot \in Markets => L + 1 <= N - 1)
      BY <1>1, QueueOfOthers
    <3>2. N - 1 \in Nat
      BY Others
    <3>3. Span(L) <= Span(N - 1) /\ Span(L) \in Int
      BY <1>2, <3>1, <3>2, Spans
    <3>4. CASE slot \in Markets
      <4>1. Span(L + 1) <= Span(N - 1) /\ Span(L + 1) = Span(L) + Timeout
        BY <1>2, <3>1, <3>2, <3>4, Spans
      <4>2. Span(N - 1) \in Int
        BY <3>2, Spans
      <4> QED BY <3>3, <4>1, <4>2, Start, Numbers
    <3>5. CASE slot \notin Markets
      <4>1. Left = 0
        BY <3>5 DEF Left
      <4> QED BY <3>3, <4>1
    <3> QED BY <3>4, <3>5
  <2>4. ASSUME NEW i \in 1..L + 1
        PROVE  since'[queue'[i]] + Span(i - 1) + Left' <= Span(N - 1)
    <3>1. CASE i = L + 1
      <4>1. since'[queue'[i]] = 0 /\ i - 1 = L /\ Span(L) \in Int
        <5>1. queue'[i] = m /\ i - 1 = L
          BY <1>2, <1>3, <3>1
        <5>2. Span(L) \in Int
          BY <1>2, Spans
        <5> QED BY <2>2, <5>1, <5>2
      <4> QED BY <2>1, <2>3, <4>1, Start
    <3>2. CASE i \in 1..L
      BY <1>2, <1>3, <1>4, <2>1, <2>2, <3>2 DEF PeriodInv, WaitsInv
    <3> QED BY <1>2, <3>1, <3>2
  <2>5. ASSUME NEW n \in Markets
        PROVE  /\ slot' = n => since'[n] <= Span(N - 1) + elapsed'
               /\ pc'[n] = "sleep" => since'[n] <= Summary!AtLeast(Interval, Summary!Round)
               /\ pc'[n] = "stopped" => since'[n] = Interval
    <3>1. CASE n = m
      <4>1. pc'[m] = "wait" /\ slot' # m
        BY <1>1 DEF PeriodInv, PlacesInv, TasksType
      <4> QED BY <3>1, <4>1
    <3>2. CASE n # m
      BY <1>1, <2>2, <3>2 DEF PeriodInv, WaitsInv, TasksType
    <3> QED BY <3>1, <3>2
  <2> QED BY <1>3, <2>4, <2>5 DEF WaitsInv
<1> QED BY <1>5, <1>6, <1>7 DEF PeriodInv

\* The first in the queue is served, and the others move up.
LEMMA AcquirePeriod ==
  ASSUME PeriodInv, Summary!Acquire
  PROVE  PeriodInv'
<1> DEFINE L == Len(queue)
           h == Head(queue)
<1>1. /\ slot = Summary!NoMarket /\ queue # <<>>
      /\ slot' = h /\ queue' = Tail(queue) /\ elapsed' = 0
      /\ pc' = [pc EXCEPT ![h] = "refresh"] /\ since' = since
  BY DEF Summary!Acquire
<1>2. L \in Nat /\ DOMAIN queue = 1..L /\ \A i \in 1..L : queue[i] \in Markets
  BY Start
<1>3. L >= 1 /\ h = queue[1] /\ h \in Markets
  BY <1>1, <1>2, Start
<1>4. /\ queue' \in Seq(Markets) /\ Len(queue') = L - 1 /\ DOMAIN queue' = 1..L - 1
      /\ \A i \in 1..L - 1 : queue'[i] = queue[i + 1]
  BY <1>1, <1>2, <1>3, Start
<1> HIDE DEF h
<1>5. \A i \in 1..L - 1 : queue[i + 1] # h
  BY <1>2, <1>3 DEF PeriodInv, PlacesInv
<1>6. TasksType'
  BY <1>1, <1>3, <1>4, Numbers DEF PeriodInv, TasksType
<1>7. PlacesInv'
  <2>1. ASSUME NEW i \in 1..L - 1, NEW j \in 1..L - 1, queue'[i] = queue'[j] PROVE i = j
    <3>1. i + 1 \in 1..L /\ j + 1 \in 1..L /\ queue[i + 1] = queue[j + 1]
      BY <1>2, <1>4, <2>1
    <3>2. i + 1 = j + 1
      BY <1>2, <3>1 DEF PeriodInv, PlacesInv
    <3> QED BY <3>2
  <2>2. ASSUME NEW i \in 1..L - 1 PROVE pc'[queue'[i]] = "wait"
    <3>1. i + 1 \in 1..L /\ queue'[i] = queue[i + 1] /\ queue[i + 1] # h
      BY <1>2, <1>4, <1>5
    <3> QED BY <1>1, <1>2, <3>1 DEF PeriodInv, PlacesInv, TasksType
  <2>3. ASSUME NEW n \in Markets, pc'[n] = "wait"
        PROVE  \E i \in 1..L - 1 : queue'[i] = n
    <3>1. n # h /\ pc[n] = "wait"
      BY <1>1, <2>3 DEF PeriodInv, TasksType
    <3>2. PICK i \in 1..L : queue[i] = n
      BY <1>2, <3>1 DEF PeriodInv, PlacesInv
    <3>3. i - 1 \in 1..L - 1 /\ (i - 1) + 1 = i
      BY <1>2, <1>3, <3>1, <3>2
    <3> QED BY <1>4, <3>2, <3>3
  <2>4. ASSUME NEW n \in Markets PROVE pc'[n] = "refresh" <=> slot' = n
    <3>1. slot # n
      BY <1>1, Start
    <3> QED BY <1>1, <3>1 DEF PeriodInv, PlacesInv, TasksType
  <2> QED BY <1>4, <2>1, <2>2, <2>3, <2>4 DEF PlacesInv
<1>8. WaitsInv'
  <2>1. Left = 0 /\ Left' = Timeout
    BY <1>1, <1>3, Start, Numbers DEF Left
  <2>2. \A i \in 1..L : since[queue[i]] + Span(i - 1) <= Span(N - 1)
    <3>1. ASSUME NEW i \in 1..L PROVE since[queue[i]] + Span(i - 1) <= Span(N - 1)
      <4>1. since[queue[i]] + Span(i - 1) + Left <= Span(N - 1)
        BY <1>2 DEF PeriodInv, WaitsInv
      <4>2. since[queue[i]] \in Int /\ Span(i - 1) \in Int
        <5>1. i - 1 \in Nat /\ queue[i] \in Markets
          BY <1>2
        <5>2. Span(i - 1) \in Nat
          BY <5>1, Spans
        <5>3. since[queue[i]] \in Int
          BY <5>1, Start
        <5> QED BY <5>2, <5>3
      <4> QED BY <2>1, <4>1, <4>2
    <3> QED BY <3>1
  <2>3. ASSUME NEW i \in 1..L - 1
        PROVE  since'[queue'[i]] + Span(i - 1) + Left' <= Span(N - 1)
    <3>1. i + 1 \in 1..L /\ queue'[i] = queue[i + 1] /\ (i + 1) - 1 = i
      BY <1>2, <1>4
    <3>2. since[queue[i + 1]] + Span(i) <= Span(N - 1)
      BY <2>2, <3>1
    <3>3. Span(i) = Span(i - 1) + Timeout /\ Span(i - 1) \in Int
      <4>1. i - 1 \in Nat /\ (i - 1) + 1 = i
        BY <1>2
      <4>2. Span(i - 1) \in Nat /\ Span((i - 1) + 1) = Span(i - 1) + Timeout
        BY <4>1, Spans
      <4> QED BY <4>1, <4>2
    <3>4. since[queue[i + 1]] \in Int
      BY <1>2, <3>1, Start
    <3>5. Span(N - 1) \in Int /\ Timeout \in Int
      BY <1>3, Others, Numbers
    <3>6. since[queue[i + 1]] + Span(i - 1) + Timeout <= Span(N - 1)
      BY <3>2, <3>3, <3>4, <3>5
    <3> QED BY <1>1, <2>1, <3>1, <3>6
  <2>4. since[h] <= Span(N - 1)
    <3>1. Span(0) = 0
      BY Numbers DEF Span
    <3> QED BY <1>2, <1>3, <2>2, <3>1, Start
  <2>5. ASSUME NEW n \in Markets
        PROVE  /\ slot' = n => since'[n] <= Span(N - 1) + elapsed'
               /\ pc'[n] = "sleep" => since'[n] <= Summary!AtLeast(Interval, Summary!Round)
               /\ pc'[n] = "stopped" => since'[n] = Interval
    <3>1. slot' = n => since'[n] <= Span(N - 1) + elapsed'
      BY <1>1, <1>3, <2>4, Others
    <3>2. n # h => pc'[n] = pc[n]
      BY <1>1 DEF PeriodInv, TasksType
    <3>3. pc'[h] = "refresh"
      BY <1>1, <1>3 DEF PeriodInv, TasksType
    <3> QED BY <1>1, <3>1, <3>2, <3>3 DEF PeriodInv, WaitsInv
  <2> QED BY <1>4, <2>3, <2>5 DEF WaitsInv
<1> QED BY <1>6, <1>7, <1>8 DEF PeriodInv

\* An attempt is over: its market has waited no longer than a round.
LEMMA ReleasePeriod ==
  ASSUME PeriodInv, NEW m \in Markets, slot = m, NEW s, Summary!Release(m, s)
  PROVE  PeriodInv'
<1> DEFINE L == Len(queue)
<1>1. /\ slot' = Summary!NoMarket /\ pc' = [pc EXCEPT ![m] = "sleep"]
      /\ elapsed' = 0 /\ since' = since /\ queue' = queue
  BY DEF Summary!Release
<1>2. L \in Nat /\ DOMAIN queue = 1..L /\ \A i \in 1..L : queue[i] \in Markets
  BY Start
<1>3. TasksType'
  BY <1>1, Numbers DEF PeriodInv, TasksType
<1>4. pc[m] = "refresh" /\ \A n \in Markets : n # m => pc'[n] = pc[n]
  BY <1>1 DEF PeriodInv, PlacesInv, TasksType
<1>5. pc'[m] = "sleep"
  BY <1>1 DEF PeriodInv, TasksType
<1>6. PlacesInv'
  <2>1. ASSUME NEW i \in 1..L PROVE pc'[queue[i]] = "wait"
    <3>1. pc[queue[i]] = "wait" /\ queue[i] # m
      BY <1>2, <1>4 DEF PeriodInv, PlacesInv
    <3> QED BY <1>2, <1>4, <3>1
  <2>2. ASSUME NEW n \in Markets PROVE pc'[n] = "refresh" <=> slot' = n
    BY <1>1, <1>4, <1>5, Start DEF PeriodInv, PlacesInv
  <2>3. ASSUME NEW n \in Markets, pc'[n] = "wait" PROVE \E i \in DOMAIN queue : queue[i] = n
    BY <1>4, <1>5, <2>3 DEF PeriodInv, PlacesInv
  <2> QED BY <1>1, <1>2, <2>1, <2>2, <2>3 DEF PeriodInv, PlacesInv
<1>7. WaitsInv'
  <2>1. Left' = 0
    BY <1>1, Start DEF Left
  <2>2. ASSUME NEW i \in 1..L
        PROVE  since[queue[i]] + Span(i - 1) + Left' <= Span(N - 1)
    <3>1. since[queue[i]] + Span(i - 1) + Left <= Span(N - 1)
      BY <1>2 DEF PeriodInv, WaitsInv
    <3>2. i - 1 \in Nat
      BY <1>2
    <3>3. since[queue[i]] \in Int /\ Span(i - 1) \in Int /\ Span(N - 1) \in Int
      <4>1. queue[i] \in Markets
        BY <1>2
      <4>2. since[queue[i]] \in Int
        BY <4>1, Start
      <4>3. Span(i - 1) \in Int
        BY <3>2, Spans
      <4> QED BY <4>1, <4>2, <4>3, Others
    <3> QED BY <2>1, <3>1, <3>3, Start
  <2>3. since[m] <= Summary!AtLeast(Interval, Summary!Round)
    <3>1. since[m] <= Span(N - 1) + elapsed
      BY DEF PeriodInv, WaitsInv
    <3>2. /\ since[m] \in Int /\ elapsed \in Int /\ elapsed <= Timeout
          /\ Span(N - 1) \in Nat /\ Summary!Round = Span(N - 1) + Timeout /\ Timeout \in Nat
      BY Others, Start, Numbers
    <3>3. since[m] <= Summary!Round
      BY <3>1, <3>2
    <3> QED BY <3>2, <3>3, Numbers DEF Summary!AtLeast
  <2>4. ASSUME NEW n \in Markets
        PROVE  /\ slot' = n => since'[n] <= Span(N - 1) + elapsed'
               /\ pc'[n] = "sleep" => since'[n] <= Summary!AtLeast(Interval, Summary!Round)
               /\ pc'[n] = "stopped" => since'[n] = Interval
    BY <1>1, <1>4, <1>5, <2>3, Start DEF PeriodInv, WaitsInv
  <2> QED BY <1>1, <1>2, <2>2, <2>4 DEF WaitsInv
<1> QED BY <1>3, <1>6, <1>7 DEF PeriodInv

\* Places with the one at k left out, of l of them (none is left out at l + 1).
LEMMA Places ==
  ASSUME NEW l \in Nat, NEW k \in 1..l + 1, NEW n,
         n = IF k <= l THEN l - 1 ELSE l
  PROVE  /\ \A i \in 1..n : IF i < k THEN i \in 1..l ELSE i + 1 \in 1..l /\ i + 1 # k
         /\ \A i \in 1..l : i < k => i \in 1..n
         /\ \A i \in 1..l : i > k => i - 1 \in 1..n /\ ~(i - 1 < k) /\ (i - 1) + 1 = i
  OBVIOUS

\* A task that is aborted: those behind it move up.
LEMMA StopPeriod ==
  ASSUME PeriodInv, NEW m \in Markets, Summary!Stop(m)
  PROVE  PeriodInv'
<1> DEFINE L == Len(queue)
<1>1. /\ pc' = [pc EXCEPT ![m] = "stopped"] /\ since' = [since EXCEPT ![m] = Interval]
      /\ queue' = Summary!Without(m) /\ elapsed' = elapsed
      /\ slot' = IF slot = m THEN Summary!Aborted ELSE slot
  BY DEF Summary!Stop, Summary!attempt
<1>2. L \in Nat /\ DOMAIN queue = 1..L /\ \A i \in 1..L : queue[i] \in Markets
  BY Start
<1>3. PICK k \in 1..L + 1 :
        /\ k <= L => queue[k] = m
        /\ \A i \in 1..L : queue[i] = m => i = k
        /\ queue' \in Seq(Markets)
        /\ Len(queue') = IF k <= L THEN L - 1 ELSE L
        /\ \A i \in 1..Len(queue') :
             queue'[i] = IF i < k THEN queue[i] ELSE queue[i + 1]
  <2>1. CASE Summary!Without(m) = queue /\ \A i \in DOMAIN queue : queue[i] # m
    <3>1. L + 1 \in 1..L + 1 /\ ~(L + 1 <= L) /\ \A i \in 1..L : i < L + 1
      BY <1>2
    <3>2. queue' = queue /\ queue \in Seq(Markets)
      BY <1>1, <2>1, Start
    <3> QED BY <1>2, <2>1, <3>1, <3>2
  <2>2. ASSUME NEW k \in DOMAIN queue, queue[k] = m,
               Summary!Without(m) \in Seq(Markets), Len(Summary!Without(m)) = Len(queue) - 1,
               \A i \in 1..Len(queue) - 1 :
                 Summary!Without(m)[i] = IF i < k THEN queue[i] ELSE queue[i + 1]
        PROVE  /\ k \in 1..L + 1 /\ k <= L /\ queue[k] = m
               /\ \A i \in 1..L : queue[i] = m => i = k
               /\ queue' \in Seq(Markets) /\ Len(queue') = L - 1
               /\ \A i \in 1..Len(queue') :
                    queue'[i] = IF i < k THEN queue[i] ELSE queue[i + 1]
    <3>1. k \in 1..L + 1 /\ k <= L
      BY <1>2, <2>2
    <3>2. \A i \in 1..L : queue[i] = m => i = k
      BY <1>2, <2>2 DEF PeriodInv, PlacesInv
    <3> QED BY <1>1, <2>2, <3>1, <3>2
  <2> QED BY <2>1, <2>2, WithoutPlace
<1> DEFINE M == Len(queue')
           From(i) == IF i < k THEN i ELSE i + 1
<1>4. M \in Nat /\ DOMAIN queue' = 1..M
  BY <1>3, LenProperties
<1>5. /\ k \in Int /\ 1 <= k /\ k <= L + 1 /\ L \in Int
      /\ \A i \in 1..M : IF i < k THEN i \in 1..L ELSE i + 1 \in 1..L /\ i + 1 # k
      /\ \A i \in 1..L : i < k => i \in 1..M
      /\ \A i \in 1..L : i > k => i - 1 \in 1..M /\ ~(i - 1 < k) /\ (i - 1) + 1 = i
  <2>1. L \in Nat /\ k \in 1..L + 1 /\ M = IF k <= L THEN L - 1 ELSE L
    BY <1>2, <1>3
  <2> HIDE DEF L, M
  <2> QED BY <2>1, Places
<1>6. ASSUME NEW i \in 1..M
      PROVE  /\ From(i) \in 1..L /\ From(i) # k /\ i <= From(i)
             /\ queue'[i] = queue[From(i)] /\ queue[From(i)] # m
             /\ queue[From(i)] \in Markets
  <2>1. From(i) \in 1..L /\ From(i) # k /\ i <= From(i)
    BY <1>5
  <2>2. queue'[i] = queue[From(i)]
    BY <1>3
  <2> HIDE DEF From
  <2> QED BY <1>2, <1>3, <2>1, <2>2
<1>7. \A i, j \in 1..M : From(i) = From(j) => i = j
  BY <1>3, <1>4
<1>8. ASSUME NEW n \in 1..L, n # k PROVE \E i \in 1..M : From(i) = n
  <2>1. CASE n < k
    <3>1. n \in 1..M
      BY <1>5, <2>1
    <3>2. From(n) = n
      BY <2>1
    <3> QED BY <3>1, <3>2
  <2>2. CASE n > k
    <3>1. n - 1 \in 1..M /\ ~(n - 1 < k) /\ (n - 1) + 1 = n
      BY <1>5, <2>2
    <3>2. From(n - 1) = n
      BY <3>1
    <3> QED BY <3>1, <3>2
  <2>3. n < k \/ n > k
    BY <1>8, <1>5
  <2> QED BY <2>1, <2>2, <2>3
<1> HIDE DEF From
<1>9. \A n \in Markets : n # m => pc'[n] = pc[n] /\ since'[n] = since[n]
  BY <1>1 DEF PeriodInv, TasksType
<1>10. pc'[m] = "stopped" /\ since'[m] = Interval
  BY <1>1 DEF PeriodInv, TasksType
<1>11. /\ slot' # m /\ (slot' \in Markets => slot' = slot)
       /\ \A n \in Markets : n # m => (slot' = n <=> slot = n)
  BY <1>1, Start
<1>12. TasksType'
  <2>1. Interval \in 0..Summary!MaxAge
    BY Numbers
  <2> QED BY <1>1, <1>3, <2>1 DEF PeriodInv, TasksType
<1>13. PlacesInv'
  <2>1. ASSUME NEW i \in 1..M, NEW j \in 1..M, queue'[i] = queue'[j] PROVE i = j
    <3>1. From(i) = From(j)
      BY <1>2, <1>6, <2>1 DEF PeriodInv, PlacesInv
    <3> QED BY <1>7, <3>1
  <2>2. ASSUME NEW i \in 1..M PROVE pc'[queue'[i]] = "wait"
    <3>1. pc[queue[From(i)]] = "wait"
      BY <1>2, <1>6 DEF PeriodInv, PlacesInv
    <3> QED BY <1>6, <1>9, <3>1
  <2>3. ASSUME NEW n \in Markets, pc'[n] = "wait" PROVE \E i \in 1..M : queue'[i] = n
    <3>1. n # m /\ pc[n] = "wait"
      BY <1>9, <1>10, <2>3
    <3>2. PICK p \in 1..L : queue[p] = n
      BY <1>2, <3>1 DEF PeriodInv, PlacesInv
    <3>3. p # k
      <4>1. p = k => k <= L
        BY <1>5, <3>2
      <4>2. p = k => queue[p] = m
        BY <1>3, <4>1
      <4> QED BY <3>1, <3>2, <4>2
    <3>4. PICK i \in 1..M : From(i) = p
      BY <1>8, <3>2, <3>3
    <3> QED BY <1>6, <3>2, <3>4
  <2>4. ASSUME NEW n \in Markets PROVE pc'[n] = "refresh" <=> slot' = n
    BY <1>9, <1>10, <1>11 DEF PeriodInv, PlacesInv
  <2> QED BY <1>4, <2>1, <2>2, <2>3, <2>4 DEF PlacesInv
<1>14. WaitsInv'
  <2>1. Left' \in Int /\ Left' <= Left
    BY <1>1, <1>11, Start, Numbers DEF Left
  <2>2. ASSUME NEW i \in 1..M
        PROVE  since'[queue'[i]] + Span(i - 1) + Left' <= Span(N - 1)
    <3> DEFINE p == From(i)
    <3>1. since[queue[p]] + Span(p - 1) + Left <= Span(N - 1)
      BY <1>2, <1>6 DEF PeriodInv, WaitsInv
    <3>2. p \in 1..L /\ i <= p /\ queue[p] \in Markets /\ since'[queue'[i]] = since[queue[p]]
      BY <1>6, <1>9
    <3> HIDE DEF p
    <3>3. Span(i - 1) <= Span(p - 1) /\ Span(i - 1) \in Int /\ Span(p - 1) \in Int
      <4>1. i - 1 \in Nat /\ p - 1 \in Nat /\ i - 1 <= p - 1
        BY <1>2, <1>4, <3>2
      <4>2. Span(i - 1) \in Nat /\ Span(p - 1) \in Nat
        BY <4>1, Spans
      <4>3. Span(i - 1) <= Span(p - 1)
        BY <4>1, Spans
      <4> QED BY <4>2, <4>3
    <3>4. since[queue[p]] \in Int /\ Span(N - 1) \in Int
      BY <3>2, Start, Others
    <3>5. since[queue[p]] + Span(i - 1) + Left' <= Span(N - 1)
      BY <2>1, <3>1, <3>3, <3>4, Start
    <3> QED BY <3>2, <3>5
  <2>3. ASSUME NEW n \in Markets
        PROVE  /\ slot' = n => since'[n] <= Span(N - 1) + elapsed'
               /\ pc'[n] = "sleep" => since'[n] <= Summary!AtLeast(Interval, Summary!Round)
               /\ pc'[n] = "stopped" => since'[n] = Interval
    BY <1>1, <1>9, <1>10, <1>11 DEF PeriodInv, WaitsInv
  <2> QED BY <1>4, <2>2, <2>3 DEF WaitsInv
<1> QED BY <1>12, <1>13, <1>14 DEF PeriodInv

\* Time passes: what waits grows older by as much as the attempt in the slot
\* comes nearer to its end, and nobody whose tick is due sleeps.
LEMMA TimePeriod ==
  ASSUME PeriodInv, Summary!TimePasses
  PROVE  PeriodInv'
<1> DEFINE L == Len(queue)
<1>1. /\ pc' = pc /\ queue' = queue /\ slot' = slot
      /\ since' = [n \in Markets |->
           IF pc[n] = "stopped" THEN since[n] ELSE Summary!AtMost(since[n] + 1, Summary!MaxAge)]
      /\ elapsed' = IF slot = Summary!NoMarket THEN 0 ELSE elapsed + 1
      /\ slot = Summary!NoMarket => queue = <<>>
      /\ slot # Summary!NoMarket => slot # Summary!Aborted /\ elapsed < Timeout
      /\ \A n \in Markets : ~Summary!Due(n)
  BY DEF Summary!TimePasses, Summary!Waiting
<1>2. L \in Nat /\ DOMAIN queue = 1..L /\ \A i \in 1..L : queue[i] \in Markets
  BY Start
<1>3. ASSUME NEW n \in Markets
      PROVE  /\ since'[n] \in 0..Summary!MaxAge /\ since'[n] \in Int
             /\ since'[n] <= since[n] + 1
             /\ pc[n] = "stopped" => since'[n] = since[n]
  <2>1. since'[n] = IF pc[n] = "stopped" THEN since[n]
                    ELSE Summary!AtMost(since[n] + 1, Summary!MaxAge)
    BY <1>1
  <2>2. since[n] \in 0..Summary!MaxAge /\ since[n] \in Int /\ Summary!MaxAge \in Int
    BY Start, Numbers
  <2> QED BY <2>1, <2>2 DEF Summary!AtMost
<1>4. elapsed' \in 0..Timeout
  BY <1>1, Start, Numbers
<1>5. TasksType'
  <2>1. since' \in [Markets -> 0..Summary!MaxAge]
    BY <1>1, <1>3
  <2> QED BY <1>1, <1>4, <2>1 DEF PeriodInv, TasksType
<1>6. PlacesInv'
  BY <1>1 DEF PeriodInv, PlacesInv
<1>7. WaitsInv'
  <2>1. ASSUME NEW i \in 1..L
        PROVE  since'[queue[i]] + Span(i - 1) + Left' <= Span(N - 1)
    <3>1. slot # Summary!NoMarket
      <4>1. queue # <<>>
        BY <1>2
      <4> QED BY <1>1, <4>1
    <3>2. slot \in Markets /\ elapsed' = elapsed + 1
      BY <1>1, <3>1 DEF PeriodInv, TasksType
    <3>3. Left' = Left - 1
      <4>1. Left = Timeout - elapsed /\ Left' = Timeout - (elapsed + 1)
        BY <1>1, <3>2 DEF Left
      <4>2. Timeout \in Int /\ elapsed \in Int
        BY Start, Numbers
      <4> QED BY <4>1, <4>2
    <3>4. since[queue[i]] + Span(i - 1) + Left <= Span(N - 1)
      BY <1>2 DEF PeriodInv, WaitsInv
    <3>5. queue[i] \in Markets /\ i - 1 \in Nat
      BY <1>2
    <3>6. /\ since[queue[i]] \in Int /\ since'[queue[i]] \in Int
          /\ since'[queue[i]] <= since[queue[i]] + 1
      BY <1>3, <3>5, Start
    <3>7. Span(i - 1) \in Int /\ Span(N - 1) \in Int
      <4>1. Span(i - 1) \in Nat
        BY <3>5, Spans
      <4> QED BY <3>5, <4>1, Others
    <3> QED BY <3>3, <3>4, <3>6, <3>7, Start
  <2>2. ASSUME NEW n \in Markets, slot = n PROVE since'[n] <= Span(N - 1) + elapsed'
    <3>1. since[n] <= Span(N - 1) + elapsed
      BY <2>2 DEF PeriodInv, WaitsInv
    <3>2. elapsed' = elapsed + 1
      BY <1>1, <2>2, Start
    <3> QED BY <1>3, <3>1, <3>2, Start, Others
  <2>3. ASSUME NEW n \in Markets, pc[n] = "sleep"
        PROVE  since'[n] <= Summary!AtLeast(Interval, Summary!Round)
    <3>1. since[n] < Interval
      BY <1>1, <2>3, Start, Numbers DEF Summary!Due
    <3>2. since'[n] <= Interval
      BY <1>3, <3>1, Start, Numbers
    <3> QED BY <1>3, <3>2, Numbers DEF Summary!AtLeast
  <2>4. ASSUME NEW n \in Markets, pc[n] = "stopped" PROVE since'[n] = Interval
    BY <1>3, <2>4 DEF PeriodInv, WaitsInv
  <2> QED BY <1>1, <1>2, <2>1, <2>2, <2>3, <2>4 DEF WaitsInv
<1> QED BY <1>5, <1>6, <1>7 DEF PeriodInv

\* A step that leaves the tasks, the queue and the slot alone.
LEMMA SamePeriod ==
  ASSUME PeriodInv, UNCHANGED <<pc, since, queue, slot, elapsed>>
  PROVE  PeriodInv'
  BY DEF PeriodInv, TasksType, PlacesInv, WaitsInv, Left

\* Every step keeps the waits bounded.
LEMMA NextPeriod == PeriodInv /\ [Summary!Next]_summaryVars => PeriodInv'
<1> SUFFICES ASSUME PeriodInv, [Summary!Next]_summaryVars PROVE PeriodInv'
  OBVIOUS
<1>1. CASE Summary!Acquire
  BY <1>1, AcquirePeriod
<1>2. CASE Summary!TimePasses
  BY <1>2, TimePeriod
<1>3. CASE Summary!DropAborted
  <2>1. /\ slot = Summary!Aborted /\ slot' = Summary!NoMarket /\ elapsed' = 0
        /\ pc' = pc /\ since' = since /\ queue' = queue
    BY <1>3 DEF Summary!DropAborted
  <2>2. Left = 0 /\ Left' = 0 /\ \A n \in Markets : slot # n /\ slot' # n
    BY <2>1, Start DEF Left
  <2>3. TasksType'
    BY <2>1, Numbers DEF PeriodInv, TasksType
  <2> QED BY <2>1, <2>2, <2>3 DEF PeriodInv, PlacesInv, WaitsInv
<1>4. ASSUME NEW m \in Markets, Summary!Wake(m) PROVE PeriodInv'
  BY <1>4, WakePeriod
<1>5. ASSUME NEW m \in Markets, Summary!Answer(m) PROVE PeriodInv'
  BY <1>5, SamePeriod DEF Summary!Answer
<1>6. ASSUME NEW m \in Markets, Summary!Refreshed(m) \/ Summary!QueryFails(m) \/ Summary!TimesOut(m)
      PROVE  PeriodInv'
  BY <1>6, ReleasePeriod DEF Summary!Refreshed, Summary!QueryFails, Summary!TimesOut
<1>7. ASSUME NEW m \in Markets, Summary!Stop(m) PROVE PeriodInv'
  BY <1>7, StopPeriod
<1>8. ASSUME NEW m \in Markets, Summary!Spawn(m) PROVE PeriodInv'
  <2>1. /\ pc[m] = "stopped" /\ pc' = [pc EXCEPT ![m] = "sleep"]
        /\ since' = since /\ queue' = queue /\ slot' = slot /\ elapsed' = elapsed
    BY <1>8 DEF Summary!Spawn, Summary!attempt
  <2>2. \A n \in Markets : n # m => pc'[n] = pc[n]
    BY <2>1 DEF PeriodInv, TasksType
  <2>3. pc'[m] = "sleep" /\ TasksType'
    BY <2>1 DEF PeriodInv, TasksType
  <2>4. \A i \in DOMAIN queue : queue[i] \in Markets /\ queue[i] # m
    BY <2>1, Start DEF PeriodInv, PlacesInv
  <2>5. PlacesInv'
    BY <2>1, <2>2, <2>3, <2>4 DEF PeriodInv, PlacesInv
  <2>6. Left' = Left
    BY <2>1 DEF Left
  <2>7. since[m] <= Summary!AtLeast(Interval, Summary!Round)
    <3>1. since[m] = Interval
      BY <2>1 DEF PeriodInv, WaitsInv
    <3> QED BY <3>1, Numbers DEF Summary!AtLeast
  <2>8. WaitsInv'
    BY <2>1, <2>2, <2>3, <2>6, <2>7 DEF PeriodInv, WaitsInv
  <2> QED BY <2>3, <2>5, <2>8 DEF PeriodInv
<1>9. CASE UNCHANGED summaryVars
  BY <1>9, SamePeriod DEF summaryVars, Summary!attempt
<1> QED BY <1>1, <1>2, <1>3, <1>4, <1>5, <1>6, <1>7, <1>8, <1>9 DEF Summary!Next

\* No feed runs at first.
LEMMA InitPeriod == Summary!Init => PeriodInv
<1> SUFFICES ASSUME Summary!Init PROVE PeriodInv
  OBVIOUS
<1>1. /\ pc = [m \in Markets |-> "stopped"] /\ since = [m \in Markets |-> Interval]
      /\ queue = <<>> /\ slot = Summary!NoMarket /\ elapsed = 0
  BY DEF Summary!Init
<1>2. TasksType
  <2>1. Interval \in 0..Summary!MaxAge /\ 0 \in 0..Timeout
    BY Numbers
  <2> QED BY <1>1, <2>1 DEF TasksType
<1>3. DOMAIN queue = {}
  BY <1>1
<1>4. \A m \in Markets : slot # m
  BY <1>1, MarketsAssumption DEF Summary!NoMarket
<1> QED BY <1>1, <1>2, <1>3, <1>4 DEF PeriodInv, PlacesInv, WaitsInv

\* Who waits, or refreshes, has done so for a round at most.
LEMMA WithinRound ==
  ASSUME PeriodInv
  PROVE  \A m \in Markets : pc[m] \in {"wait", "refresh"} => since[m] <= Summary!Round
<1> SUFFICES ASSUME NEW m \in Markets, pc[m] \in {"wait", "refresh"}
             PROVE  since[m] <= Summary!Round
  OBVIOUS
<1>1. /\ since[m] \in Int /\ Summary!Round = Span(N - 1) + Timeout /\ Span(N - 1) \in Int
      /\ Left \in Int /\ 0 <= Left /\ Timeout \in Int /\ 0 <= Timeout
      /\ elapsed \in Int /\ elapsed <= Timeout
  BY Start, Others, Numbers
<1>2. CASE pc[m] = "wait"
  <2>1. PICK i \in DOMAIN queue : queue[i] = m
    BY <1>2 DEF PeriodInv, PlacesInv
  <2>2. since[m] + Span(i - 1) + Left <= Span(N - 1)
    BY <2>1 DEF PeriodInv, WaitsInv
  <2>3. Span(i - 1) \in Nat
    <3>1. i - 1 \in Nat
      BY <2>1, Start
    <3> QED BY <3>1, Spans
  <2> QED BY <1>1, <2>2, <2>3
<1>3. CASE pc[m] = "refresh"
  <2>1. since[m] <= Span(N - 1) + elapsed
    BY <1>3 DEF PeriodInv, PlacesInv, WaitsInv
  <2> QED BY <1>1, <2>1
<1> QED BY <1>2, <1>3

\* While the waits are bounded, so is every running market's period.
LEMMA PeriodSuffices == PeriodInv => Summary!PeriodBounded
<1> SUFFICES ASSUME PeriodInv, NEW m \in Markets, pc[m] # "stopped"
             PROVE  since[m] <= Summary!AtLeast(Interval, Summary!Round)
  BY DEF Summary!PeriodBounded
<1>1. CASE pc[m] = "sleep"
  BY <1>1 DEF PeriodInv, WaitsInv
<1>2. CASE pc[m] \in {"wait", "refresh"}
  <2>1. since[m] <= Summary!Round /\ since[m] \in Int
    BY <1>2, WithinRound, Start
  <2> QED BY <2>1, Numbers DEF Summary!AtLeast
<1> QED BY <1>1, <1>2 DEF PeriodInv, TasksType

-----------------------------------------------------------------------------
(* What is served.                                                         *)

\* What the attempt in the slot has read was read during it.
ReadsInv ==
  /\ answered \in Nat
  /\ firstRead \in {Summary!None} \cup 0..elapsed
  /\ answered > 0 => firstRead # Summary!None
  /\ slot = Summary!NoMarket => answered = 0 /\ firstRead = Summary!None

\* Tables are read in the timeout before they are stamped.
Dated(s) == s.stamp # Summary!None => s.read >= s.stamp /\ s.read <= s.stamp + Timeout

\* Tables of the last attempt are no older than the attempt's tick or, once the
\* next tick has come, than an interval before that.
Recent(m) ==
  IF pc[m] = "sleep"
    THEN snap[m].stamp <= since[m] /\ snap[m].stamp <= Interval
    ELSE snap[m].stamp <= Interval + since[m]

SnapInv(m) ==
  /\ Dated(snap[m])
  /\ snap[m].stamp # Summary!None => pc[m] # "stopped"
  /\ (snap[m].stamp # Summary!None /\ ~snap[m].error) => Recent(m)

ServedInv ==
  /\ ReadsInv
  /\ snap \in [Markets -> Summary!Snapshot]
  /\ \A m \in Markets : SnapInv(m)

\* The ages in a snapshot are numbers.
LEMMA SnapshotFields ==
  ASSUME NEW s \in Summary!Snapshot
  PROVE  /\ s.stamp \in {Summary!None} \cup 0..Summary!MaxAge /\ s.stamp \in Int
         /\ s.read \in {Summary!None} \cup 0..Summary!MaxAge /\ s.read \in Int
         /\ s.stamp # Summary!None => s.stamp >= 0
         /\ s.read # Summary!None => s.read >= 0
         /\ s.stamp <= Summary!MaxAge /\ s.read <= Summary!MaxAge
<1>1. /\ s.stamp \in {Summary!None} \cup 0..Summary!MaxAge
      /\ s.read \in {Summary!None} \cup 0..Summary!MaxAge
  BY DEF Summary!Snapshot
<1> QED BY <1>1, Numbers DEF Summary!None

\* A snapshot with another error field.
LEMMA Marked ==
  ASSUME NEW s \in Summary!Snapshot, NEW e
  PROVE  [s EXCEPT !.error = e] = [stamp |-> s.stamp, read |-> s.read, error |-> e]
  BY DEF Summary!Snapshot

\* What is served by a market that a step leaves alone.
LEMMA SnapStays ==
  ASSUME NEW m \in Markets, SnapInv(m), snap'[m] = snap[m], pc'[m] = pc[m],
         since'[m] = since[m]
  PROVE  SnapInv(m)'
  BY DEF SnapInv, Recent, Dated

\* An attempt that ends leaves the old tables with an error, or stamps new ones.
LEMMA ReleaseServed ==
  ASSUME PeriodInv, ServedInv, NEW m \in Markets, slot = m,
         NEW s \in Summary!Snapshot, Summary!Release(m, s),
         \/ s.stamp = snap[m].stamp /\ s.read = snap[m].read /\ s.error
         \/ s.stamp = 0 /\ s.read \in 0..Timeout
  PROVE  ServedInv'
<1>1. /\ slot' = Summary!NoMarket /\ pc' = [pc EXCEPT ![m] = "sleep"]
      /\ snap' = [snap EXCEPT ![m] = s] /\ since' = since
      /\ elapsed' = 0 /\ answered' = 0 /\ firstRead' = Summary!None
  BY DEF Summary!Release
<1>2. ReadsInv'
  BY <1>1 DEF ReadsInv
<1>3. snap' \in [Markets -> Summary!Snapshot]
  BY <1>1 DEF ServedInv
<1>4. pc'[m] = "sleep" /\ snap'[m] = s
  BY <1>1 DEF ServedInv, PeriodInv, TasksType
<1>5. SnapInv(m)'
  <2>1. CASE s.stamp = snap[m].stamp /\ s.read = snap[m].read /\ s.error
    <3>1. Dated(snap[m])
      BY DEF ServedInv, SnapInv
    <3>2. Dated(s)
      BY <2>1, <3>1 DEF Dated
    <3> QED BY <1>4, <2>1, <3>2 DEF SnapInv, Dated
  <2>2. CASE s.stamp = 0 /\ s.read \in 0..Timeout
    <3>1. Dated(s)
      BY <2>2, Numbers DEF Dated
    <3>2. Recent(m)'
      BY <1>1, <1>4, <2>2, Start, Numbers DEF Recent
    <3> QED BY <1>4, <3>1, <3>2 DEF SnapInv, Dated
  <2> QED BY <2>1, <2>2
<1>6. ASSUME NEW n \in Markets, n # m PROVE SnapInv(n)'
  <2>1. pc'[n] = pc[n] /\ snap'[n] = snap[n] /\ since'[n] = since[n]
    BY <1>1, <1>6 DEF ServedInv, PeriodInv, TasksType
  <2> QED BY <2>1, SnapStays DEF ServedInv
<1> QED BY <1>2, <1>3, <1>5, <1>6 DEF ServedInv

\* All ages grow together.
LEMMA TimeServed ==
  ASSUME PeriodInv, ServedInv, Summary!TimePasses
  PROVE  ServedInv'
<1>1. /\ pc' = pc /\ slot' = slot /\ answered' = answered
      /\ elapsed' = IF slot = Summary!NoMarket THEN 0 ELSE elapsed + 1
      /\ firstRead' = Summary!Older(firstRead)
      /\ since' = [n \in Markets |->
           IF pc[n] = "stopped" THEN since[n] ELSE Summary!AtMost(since[n] + 1, Summary!MaxAge)]
      /\ snap' = [n \in Markets |->
           [snap[n] EXCEPT !.stamp = Summary!Older(@), !.read = Summary!Older(@)]]
      /\ \A n \in Markets : ~Summary!Due(n)
  BY DEF Summary!TimePasses, Summary!Waiting
<1>2. ReadsInv'
  <2>1. CASE firstRead = Summary!None
    <3>1. firstRead' = Summary!None
      BY <1>1, <2>1 DEF Summary!Older
    <3> QED BY <1>1, <2>1, <3>1 DEF ServedInv, ReadsInv
  <2>2. CASE firstRead # Summary!None
    <3>1. firstRead \in 0..elapsed /\ slot # Summary!NoMarket
      BY <2>2 DEF ServedInv, ReadsInv
    <3>2. firstRead' = Summary!AtMost(firstRead + 1, Summary!MaxAge)
      BY <1>1, <2>2 DEF Summary!Older
    <3>3. firstRead' \in 0..elapsed' /\ firstRead' # Summary!None
      <4>1. elapsed' = elapsed + 1
        BY <1>1, <3>1
      <4>2. elapsed \in Int /\ Summary!MaxAge \in Int /\ 0 <= Summary!MaxAge
        BY Start, Numbers
      <4> QED BY <3>1, <3>2, <4>1, <4>2 DEF Summary!AtMost, Summary!None
    <3> QED BY <1>1, <3>1, <3>3 DEF ServedInv, ReadsInv
  <2> QED BY <2>1, <2>2
<1>3. ASSUME NEW n \in Markets
      PROVE  snap'[n] \in Summary!Snapshot /\ SnapInv(n)'
  <2> DEFINE s == snap[n]
             t == snap'[n]
  <2>1. s \in Summary!Snapshot /\ SnapInv(n)
    BY DEF ServedInv
  <2>2. /\ s.stamp \in {Summary!None} \cup 0..Summary!MaxAge /\ s.stamp \in Int
        /\ s.read \in {Summary!None} \cup 0..Summary!MaxAge /\ s.read \in Int
        /\ s.stamp # Summary!None => s.stamp >= 0
    BY <2>1, SnapshotFields
  <2>3. t = [s EXCEPT !.stamp = Summary!Older(@), !.read = Summary!Older(@)]
    BY <1>1
  <2>4. /\ t = [stamp |-> Summary!Older(s.stamp), read |-> Summary!Older(s.read), error |-> s.error]
        /\ t.stamp = Summary!Older(s.stamp) /\ t.read = Summary!Older(s.read) /\ t.error = s.error
    BY <2>1, <2>3 DEF Summary!Snapshot
  <2>5. /\ Summary!Older(s.stamp) \in {Summary!None} \cup 0..Summary!MaxAge
        /\ Summary!Older(s.read) \in {Summary!None} \cup 0..Summary!MaxAge
    BY <2>2, Numbers DEF Summary!Older, Summary!AtMost, Summary!None
  <2>6. t \in Summary!Snapshot
    <3>1. s.error \in BOOLEAN
      BY <2>1 DEF Summary!Snapshot
    <3> QED BY <2>4, <2>5, <3>1, Zenon DEF Summary!Snapshot
  <2>7. CASE s.stamp = Summary!None
    <3>1. t.stamp = Summary!None
      BY <2>4, <2>7 DEF Summary!Older
    <3> QED BY <2>6, <3>1 DEF SnapInv, Dated
  <2>8. CASE s.stamp # Summary!None
    <3> HIDE DEF s
    <3>1. s.read >= s.stamp /\ s.read <= s.stamp + Timeout /\ pc[n] # "stopped"
      BY <2>1, <2>8 DEF SnapInv, Dated, s
    <3>2. s.read # Summary!None
      BY <2>2, <2>8, <3>1 DEF Summary!None
    <3>3. /\ t.stamp = Summary!AtMost(s.stamp + 1, Summary!MaxAge)
          /\ t.read = Summary!AtMost(s.read + 1, Summary!MaxAge)
      BY <2>4, <2>8, <3>2 DEF Summary!Older, s
    <3> HIDE DEF t
    <3>4. t.read >= t.stamp /\ t.read <= t.stamp + Timeout /\ t.stamp <= s.stamp + 1
          /\ t.stamp \in Int
      BY <2>2, <2>8, <3>1, <3>3, Numbers DEF Summary!AtMost
    <3>5. Recent(n) => Recent(n)'
      <4>1. since'[n] = Summary!AtMost(since[n] + 1, Summary!MaxAge)
        BY <1>1, <3>1
      <4>2. CASE pc[n] = "sleep"
        <5>1. since[n] < Interval
          <6>1. ~Summary!Due(n) /\ since[n] \in Int
            BY <1>1, Start
          <6> QED BY <4>2, <6>1, Numbers DEF Summary!Due
        <5>2. since'[n] = since[n] + 1
          BY <4>1, <5>1, Start, Numbers DEF Summary!AtMost
        <5>3. s.stamp <= since[n] => t.stamp <= since'[n] /\ t.stamp <= Interval
          <6>1. s.stamp \in Int /\ t.stamp \in Int /\ t.stamp <= s.stamp + 1
            BY <2>2, <3>4
          <6>2. since[n] \in Int /\ Interval \in Int
            BY Start, Numbers
          <6> QED BY <5>1, <5>2, <6>1, <6>2
        <5>4. pc'[n] = "sleep"
          BY <1>1, <4>2
        <5> QED BY <4>2, <5>3, <5>4 DEF Recent, s, t
      <4>3. CASE pc[n] # "sleep"
        <5>1. since[n] <= Summary!Round
          <6>1. pc[n] \in {"wait", "refresh"}
            BY <3>1, <4>3 DEF PeriodInv, TasksType
          <6> QED BY <6>1, WithinRound
        <5>2. since'[n] = since[n] + 1
          BY <4>1, <5>1, Start, Numbers DEF Summary!AtMost
        <5>3. s.stamp <= Interval + since[n] => t.stamp <= Interval + since'[n]
          <6>1. s.stamp \in Int /\ t.stamp \in Int /\ t.stamp <= s.stamp + 1
            BY <2>2, <3>4
          <6>2. since[n] \in Int /\ Interval \in Int
            BY Start, Numbers
          <6> QED BY <5>2, <6>1, <6>2
        <5>4. pc'[n] # "sleep"
          BY <1>1, <4>3
        <5> QED BY <4>3, <5>3, <5>4 DEF Recent, s, t
      <4> QED BY <4>2, <4>3
    <3>6. Dated(t)
      BY <3>4 DEF Dated
    <3>7. ~s.error => Recent(n)
      BY <2>1, <2>8 DEF SnapInv, s
    <3>8. ~t.error => Recent(n)'
      BY <2>4, <3>5, <3>7 DEF s, t
    <3> QED BY <1>1, <2>6, <3>1, <3>6, <3>8 DEF SnapInv, Dated, t
  <2> QED BY <2>7, <2>8
<1>4. snap' \in [Markets -> Summary!Snapshot]
  <2>1. snap' = [n \in Markets |-> snap'[n]]
    BY <1>1
  <2> QED BY <1>3, <2>1, Zenon
<1> QED BY <1>2, <1>3, <1>4 DEF ServedInv

\* A feed that stops serves nothing.
LEMMA StopServed ==
  ASSUME PeriodInv, ServedInv, NEW m \in Markets, Summary!Stop(m)
  PROVE  ServedInv'
<1>1. /\ pc' = [pc EXCEPT ![m] = "stopped"] /\ since' = [since EXCEPT ![m] = Interval]
      /\ snap' = [snap EXCEPT ![m] = Summary!NoSnapshot]
      /\ slot' = IF slot = m THEN Summary!Aborted ELSE slot
      /\ elapsed' = elapsed /\ answered' = answered /\ firstRead' = firstRead
  BY DEF Summary!Stop, Summary!attempt
<1>2. ReadsInv'
  <2>1. slot' = Summary!NoMarket => slot = Summary!NoMarket
    BY <1>1, MarketsAssumption DEF Summary!NoMarket, Summary!Aborted
  <2> QED BY <1>1, <2>1 DEF ServedInv, ReadsInv
<1>3. Summary!NoSnapshot \in Summary!Snapshot /\ Summary!NoSnapshot.stamp = Summary!None
  <2>1. FALSE \in BOOLEAN
    OBVIOUS
  <2>2. Summary!NoSnapshot \in Summary!Snapshot
    BY <2>1, Zenon DEF Summary!NoSnapshot, Summary!Snapshot
  <2> QED BY <2>2 DEF Summary!NoSnapshot
<1>4. snap' \in [Markets -> Summary!Snapshot]
  BY <1>1, <1>3 DEF ServedInv
<1>5. SnapInv(m)'
  <2>1. snap'[m] = Summary!NoSnapshot
    BY <1>1 DEF ServedInv
  <2> QED BY <1>3, <2>1 DEF SnapInv, Dated
<1>6. ASSUME NEW n \in Markets, n # m PROVE SnapInv(n)'
  <2>1. pc'[n] = pc[n] /\ snap'[n] = snap[n] /\ since'[n] = since[n]
    BY <1>1, <1>6 DEF ServedInv, PeriodInv, TasksType
  <2> QED BY <2>1, SnapStays DEF ServedInv
<1> QED BY <1>2, <1>4, <1>5, <1>6 DEF ServedInv

\* A task that wakes, goes on or is spawned leaves what is served alone.
LEMMA TaskServed ==
  ASSUME PeriodInv, ServedInv, NEW m \in Markets, UNCHANGED snap, ReadsInv',
         \A n \in Markets : n # m => pc'[n] = pc[n] /\ since'[n] = since[n],
         \/ pc'[m] = pc[m] /\ since'[m] = since[m]
         \/ pc[m] = "sleep" /\ pc'[m] = "wait" /\ since'[m] = 0
         \/ pc[m] = "wait" /\ pc'[m] = "refresh" /\ since'[m] = since[m]
         \/ pc[m] = "stopped"
  PROVE  ServedInv'
<1>1. ASSUME NEW n \in Markets PROVE SnapInv(n)'
  <2>1. SnapInv(n) /\ snap'[n] = snap[n]
    BY DEF ServedInv
  <2>2. CASE pc'[n] = pc[n] /\ since'[n] = since[n]
    BY <2>1, <2>2, SnapStays
  <2>3. CASE pc[n] = "stopped"
    <3>1. snap[n].stamp = Summary!None
      BY <2>1, <2>3 DEF SnapInv
    <3> QED BY <2>1, <3>1 DEF SnapInv, Dated
  <2>4. CASE pc[n] = "sleep" /\ pc'[n] = "wait" /\ since'[n] = 0
    <3>1. Recent(n) => Recent(n)'
      BY <2>1, <2>4, Numbers DEF Recent
    <3> QED BY <2>1, <2>4, <3>1 DEF SnapInv, Dated
  <2>5. CASE pc[n] = "wait" /\ pc'[n] = "refresh" /\ since'[n] = since[n]
    <3>1. Recent(n) => Recent(n)'
      BY <2>1, <2>5 DEF Recent
    <3> QED BY <2>1, <2>5, <3>1 DEF SnapInv, Dated
  <2> QED BY <2>2, <2>3, <2>4, <2>5
<1> QED BY <1>1 DEF ServedInv

\* Every step keeps what is served as old as it says.
LEMMA NextServed == PeriodInv /\ ServedInv /\ [Summary!Next]_summaryVars => ServedInv'
<1> SUFFICES ASSUME PeriodInv, ServedInv, [Summary!Next]_summaryVars PROVE ServedInv'
  OBVIOUS
<1>1. CASE Summary!Acquire
  <2> DEFINE h == Head(queue)
  <2>1. /\ slot = Summary!NoMarket /\ queue # <<>> /\ slot' = h
        /\ pc' = [pc EXCEPT ![h] = "refresh"] /\ since' = since /\ snap' = snap
        /\ elapsed' = 0 /\ answered' = 0 /\ firstRead' = Summary!None
    BY <1>1 DEF Summary!Acquire
  <2>2. h \in Markets /\ pc[h] = "wait"
    <3>1. 1 \in DOMAIN queue /\ h = queue[1]
      BY <2>1, Start
    <3> QED BY <3>1, Start DEF PeriodInv, PlacesInv
  <2> HIDE DEF h
  <2>3. ReadsInv'
    BY <2>1 DEF ReadsInv
  <2>4. pc'[h] = "refresh" /\ \A n \in Markets : n # h => pc'[n] = pc[n]
    BY <2>1, <2>2 DEF PeriodInv, TasksType
  <2> QED BY <2>1, <2>2, <2>3, <2>4, TaskServed
<1>2. CASE Summary!TimePasses
  BY <1>2, TimeServed
<1>3. CASE Summary!DropAborted
  <2>1. /\ slot' = Summary!NoMarket /\ elapsed' = 0 /\ answered' = 0 /\ firstRead' = Summary!None
        /\ pc' = pc /\ since' = since /\ snap' = snap
    BY <1>3 DEF Summary!DropAborted
  <2>2. ReadsInv'
    BY <2>1 DEF ReadsInv
  <2>3. \A n \in Markets : SnapInv(n)'
    BY <2>1, SnapStays DEF ServedInv
  <2> QED BY <2>1, <2>2, <2>3 DEF ServedInv
<1>4. ASSUME NEW m \in Markets, Summary!Wake(m) PROVE ServedInv'
  <2>1. /\ pc[m] = "sleep" /\ slot' = slot /\ snap' = snap
        /\ pc' = [pc EXCEPT ![m] = "wait"] /\ since' = [since EXCEPT ![m] = 0]
        /\ elapsed' = elapsed /\ answered' = answered /\ firstRead' = firstRead
    BY <1>4 DEF Summary!Wake, Summary!Due, Summary!attempt
  <2>2. ReadsInv'
    BY <2>1 DEF ServedInv, ReadsInv
  <2>3. /\ pc'[m] = "wait" /\ since'[m] = 0
        /\ \A n \in Markets : n # m => pc'[n] = pc[n] /\ since'[n] = since[n]
    BY <2>1 DEF PeriodInv, TasksType
  <2> QED BY <2>1, <2>2, <2>3, TaskServed
<1>5. ASSUME NEW m \in Markets, Summary!Answer(m) PROVE ServedInv'
  <2>1. /\ slot = m /\ answered' = answered + 1 /\ firstRead' = Summary!FirstRead
        /\ pc' = pc /\ since' = since /\ slot' = slot /\ elapsed' = elapsed
        /\ snap' = snap
    BY <1>5 DEF Summary!Answer
  <2>2. answered \in Nat /\ Summary!FirstRead \in 0..elapsed
    BY Start DEF ServedInv, ReadsInv, Summary!FirstRead
  <2>3. Summary!FirstRead # Summary!None /\ slot # Summary!NoMarket
    BY <2>1, <2>2, Start DEF Summary!None
  <2>4. ReadsInv'
    BY <2>1, <2>2, <2>3 DEF ReadsInv
  <2> QED BY <2>1, <2>4, TaskServed
<1>6. ASSUME NEW m \in Markets, Summary!Refreshed(m) PROVE ServedInv'
  <2> DEFINE s == [stamp |-> 0, read |-> Summary!FirstRead, error |-> FALSE]
  <2>1. slot = m /\ Summary!Release(m, s)
    BY <1>6 DEF Summary!Refreshed
  <2>2. Summary!FirstRead \in 0..Timeout
    BY Start, Numbers DEF ServedInv, ReadsInv, Summary!FirstRead
  <2>3. Summary!FirstRead \in 0..Summary!MaxAge /\ 0 \in 0..Summary!MaxAge
    <3>1. Summary!Round >= Timeout
      BY Others, Numbers
    <3> QED BY <2>2, <3>1, Numbers
  <2>4. s \in Summary!Snapshot /\ s.stamp = 0 /\ s.read = Summary!FirstRead
    <3>1. FALSE \in BOOLEAN
      OBVIOUS
    <3>2. s \in Summary!Snapshot
      BY <2>3, <3>1, Zenon DEF Summary!Snapshot
    <3> QED BY <3>2
  <2> HIDE DEF s
  <2> QED BY <2>1, <2>2, <2>4, ReleaseServed
<1>7. ASSUME NEW m \in Markets, Summary!QueryFails(m) \/ Summary!TimesOut(m) PROVE ServedInv'
  <2> DEFINE s == [snap[m] EXCEPT !.error = TRUE]
  <2>1. slot = m /\ Summary!Release(m, s)
    BY <1>7 DEF Summary!QueryFails, Summary!TimesOut
  <2>2. snap[m] \in Summary!Snapshot
    BY DEF ServedInv
  <2>3. /\ s = [stamp |-> snap[m].stamp, read |-> snap[m].read, error |-> TRUE]
        /\ s.stamp = snap[m].stamp /\ s.read = snap[m].read /\ s.error
    <3>1. s = [stamp |-> snap[m].stamp, read |-> snap[m].read, error |-> TRUE]
      BY <2>2, Marked
    <3> HIDE DEF s
    <3>2. s.stamp = snap[m].stamp /\ s.read = snap[m].read
      BY <3>1
    <3>3. s.error
      BY <3>1
    <3> QED BY <3>1, <3>2, <3>3
  <2>4. s \in Summary!Snapshot
    <3>1. TRUE \in BOOLEAN
      OBVIOUS
    <3>2. /\ snap[m].stamp \in {Summary!None} \cup 0..Summary!MaxAge
          /\ snap[m].read \in {Summary!None} \cup 0..Summary!MaxAge
      BY <2>2, SnapshotFields
    <3> QED BY <2>3, <3>1, <3>2, Zenon DEF Summary!Snapshot
  <2> HIDE DEF s
  <2> QED BY <2>1, <2>3, <2>4, ReleaseServed
<1>8. ASSUME NEW m \in Markets, Summary!Stop(m) PROVE ServedInv'
  BY <1>8, StopServed
<1>9. ASSUME NEW m \in Markets, Summary!Spawn(m) PROVE ServedInv'
  <2>1. /\ pc[m] = "stopped" /\ pc' = [pc EXCEPT ![m] = "sleep"]
        /\ since' = since /\ slot' = slot /\ snap' = snap
        /\ elapsed' = elapsed /\ answered' = answered /\ firstRead' = firstRead
    BY <1>9 DEF Summary!Spawn, Summary!attempt
  <2>2. ReadsInv'
    BY <2>1 DEF ServedInv, ReadsInv
  <2>3. \A n \in Markets : n # m => pc'[n] = pc[n]
    BY <2>1 DEF PeriodInv, TasksType
  <2> QED BY <2>1, <2>2, <2>3, TaskServed
<1>10. CASE UNCHANGED summaryVars
  <2>1. ReadsInv'
    BY <1>10 DEF ServedInv, ReadsInv, summaryVars, Summary!attempt
  <2>2. \A n \in Markets : SnapInv(n)'
    BY <1>10, SnapStays DEF ServedInv, summaryVars
  <2> QED BY <1>10, <2>1, <2>2 DEF ServedInv, summaryVars
<1> QED BY <1>1, <1>2, <1>3, <1>4, <1>5, <1>6, <1>7, <1>8, <1>9, <1>10 DEF Summary!Next

\* Nothing is served at first.
LEMMA InitServed == Summary!Init => ServedInv
<1> SUFFICES ASSUME Summary!Init PROVE ServedInv
  OBVIOUS
<1>1. /\ snap = [m \in Markets |-> Summary!NoSnapshot]
      /\ answered = 0 /\ firstRead = Summary!None /\ elapsed = 0
  BY DEF Summary!Init
<1>2. ReadsInv
  BY <1>1 DEF ReadsInv
<1>3. Summary!NoSnapshot.stamp = Summary!None
  BY DEF Summary!NoSnapshot
<1>4. Summary!NoSnapshot \in Summary!Snapshot
  <2>1. FALSE \in BOOLEAN
    OBVIOUS
  <2> QED BY <2>1, Zenon DEF Summary!NoSnapshot, Summary!Snapshot
<1>5. snap \in [Markets -> Summary!Snapshot]
  BY <1>1, <1>4
<1>6. ASSUME NEW m \in Markets PROVE SnapInv(m)
  <2>1. snap[m].stamp = Summary!None
    BY <1>1, <1>3
  <2> QED BY <2>1 DEF SnapInv, Dated
<1> QED BY <1>2, <1>5, <1>6 DEF ServedInv

\* What is dated, and recent unless an error says otherwise, is as it says.
LEMMA ServedSuffices == PeriodInv /\ ServedInv => Summary!ServedAsStamped
<1> SUFFICES ASSUME PeriodInv, ServedInv, NEW m \in Markets, snap[m].stamp # Summary!None
             PROVE  /\ snap[m].read >= snap[m].stamp
                    /\ snap[m].read <= Summary!AtMost(snap[m].stamp + Timeout, Summary!MaxAge)
                    /\ snap[m].error \/ snap[m].stamp <= Interval + Summary!Round
  BY DEF Summary!ServedAsStamped
<1>1. Dated(snap[m]) /\ pc[m] # "stopped" /\ (~snap[m].error => Recent(m))
  BY DEF ServedInv, SnapInv
<1>2. /\ snap[m].stamp \in Int /\ snap[m].read \in Int /\ snap[m].read <= Summary!MaxAge
  <2>1. snap[m] \in Summary!Snapshot
    BY DEF ServedInv
  <2> QED BY <2>1, SnapshotFields
<1>3. snap[m].read >= snap[m].stamp /\ snap[m].read <= snap[m].stamp + Timeout
  BY <1>1 DEF Dated
<1>4. snap[m].read <= Summary!AtMost(snap[m].stamp + Timeout, Summary!MaxAge)
  BY <1>2, <1>3, Numbers DEF Summary!AtMost
<1>5. Recent(m) => snap[m].stamp <= Interval + Summary!Round
  <2>1. CASE pc[m] = "sleep"
    BY <1>2, <2>1, Numbers DEF Recent
  <2>2. CASE pc[m] \in {"wait", "refresh"}
    <3>1. since[m] <= Summary!Round /\ since[m] \in Int
      BY <2>2, WithinRound, Start
    <3>2. pc[m] # "sleep"
      BY <2>2
    <3> QED BY <1>2, <3>1, <3>2, Numbers DEF Recent
  <2> QED BY <1>1, <2>1, <2>2 DEF PeriodInv, TasksType
<1> QED BY <1>1, <1>3, <1>4, <1>5

-----------------------------------------------------------------------------
(***************************************************************************)
(* The theorems, for any book, market and bound.                           *)
(***************************************************************************)

LEMMA TasksStep ==
  ASSUME [TasksNext]_tasksVars
  PROVE  (Next \/ UNCHANGED vars) /\ [Summary!Next]_summaryVars
BY DEF TasksNext, tasksVars

\* What the Coinbase feed sends, reads and queues keeps its invariant, and so
\* do the tasks that share REFRESH_SLOT.
THEOREM TasksInvariant == TasksSpec => [](FeedInv /\ PeriodInv /\ ServedInv)
<1>1. TasksInit => FeedInv /\ PeriodInv /\ ServedInv
  BY InitFeed, InitPeriod, InitServed DEF TasksInit
<1>2. FeedInv /\ PeriodInv /\ ServedInv /\ [TasksNext]_tasksVars
        => (FeedInv /\ PeriodInv /\ ServedInv)'
  BY TasksStep, NextFeed, FeedStays, NextPeriod, NextServed
<1> QED BY <1>1, <1>2, PTL DEF TasksSpec

\* Every variable of both parts has its type: among others no session begins
\* without a fault but the first, and no more tasks wait than there are markets.
THEOREM TasksTypes == TasksSpec => []PartTypeOK
<1>1. PeriodInv /\ ServedInv => Summary!TypeOK
  <2> SUFFICES ASSUME PeriodInv, ServedInv PROVE Summary!TypeOK
    OBVIOUS
  <2>1. Len(queue) <= Summary!Cardinality(Markets)
    <3>1. Summary!Cardinality(Markets) = Cardinality(Markets)
      BY SameCounting DEF N
    <3> QED BY <3>1, MarketsAssumption, QueueFits DEF PeriodInv, TasksType, PlacesInv
  <2>2. firstRead \in {Summary!None} \cup 0..Timeout
    BY Start, Numbers DEF ServedInv, ReadsInv
  <2> QED BY <2>1, <2>2 DEF Summary!TypeOK, PeriodInv, TasksType, ServedInv, ReadsInv
<1>2. FeedInv /\ PeriodInv /\ ServedInv => PartTypeOK
  BY <1>1 DEF FeedInv, PartTypeOK
<1> QED BY <1>2, TasksInvariant, PTL

\* The log of a Coinbase session replays to Coinbase's book as of the last
\* frame handled, on every level but those whose last row was dropped or could
\* not be read (feeds/coinbase.rs:157-161, 208-270).
THEOREM LogTracks == TasksSpec => []LogTracksCoinbase
<1>1. FeedInv /\ PeriodInv /\ ServedInv => LogTracksCoinbase
  BY FeedTracks
<1> QED BY <1>1, TasksInvariant, PTL

\* A frame left out in mid-session shows, and goes on showing: one on its way,
\* or the next to be sent, does not follow the one it is compared with, so that
\* no heartbeat or update bridges the loss (feeds/coinbase.rs:145-161).
THEOREM LossShows == TasksSpec => [](link = "up" /\ missing => OutOfTurn)
<1>1. TasksInit => LossInv
  BY DEF TasksInit, Init, LossInv
<1>2. FeedInv /\ LossInv /\ [TasksNext]_tasksVars => LossInv'
  BY TasksStep, NextLoss
<1>3. LossInv => (link = "up" /\ missing => OutOfTurn)
  BY DEF LossInv
<1> QED BY <1>1, <1>2, <1>3, TasksInvariant, PTL DEF TasksSpec

\* A running market begins a round within the longer of the interval and what
\* the queries of all markets can take (feeds/summary.rs:9-10, 97-104).
THEOREM PeriodIsBounded == TasksSpec => []SummaryPeriodBounded
<1>1. FeedInv /\ PeriodInv /\ ServedInv => SummaryPeriodBounded
  BY PeriodSuffices DEF SummaryPeriodBounded
<1> QED BY <1>1, TasksInvariant, PTL

\* What is served is as old as it says, or comes with an error
\* (feeds/summary.rs:50-54, 106-122).
THEOREM ServedIsAsStamped == TasksSpec => []SummaryServedAsStamped
<1>1. FeedInv /\ PeriodInv /\ ServedInv => SummaryServedAsStamped
  BY ServedSuffices DEF SummaryServedAsStamped
<1> QED BY <1>1, TasksInvariant, PTL
=============================================================================
