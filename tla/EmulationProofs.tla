-------------------------- MODULE EmulationProofs ---------------------------
(***************************************************************************)
(* Proofs about the emulation: first the two rings of the packets, then the *)
(* two feeds of updates, and at the end the types of all of it.            *)
(***************************************************************************)
EXTENDS Emulation, NatExtrema, SequenceTheorems

-----------------------------------------------------------------------------
(***************************************************************************)
(* Proofs about the two rings of the packets, for every size, batch and    *)
(* number of packets: positions in a ring are counts modulo its size.      *)
(***************************************************************************)

-----------------------------------------------------------------------------
(***************************************************************************)
(* Counts and their positions.                                             *)
(***************************************************************************)

\* A count is as many whole rounds and a position.
LEMMA Rounds ==
  ASSUME NEW s \in Nat \ {0}, NEW a \in Nat
  PROVE  /\ a % s \in 0..(s - 1) /\ a \div s \in Nat
         /\ a = s * (a \div s) + (a % s)
OBVIOUS

\* The position after q whole rounds and r more.
LEMMA PositionOf ==
  ASSUME NEW s \in Nat \ {0}, NEW q \in Nat, NEW r \in 0..(s - 1)
  PROVE  (s * q + r) % s = r
OBVIOUS

\* A whole round more.
LEMMA NextRound ==
  ASSUME NEW s \in Nat \ {0}, NEW q \in Nat
  PROVE  s * (q + 1) = s * q + s
OBVIOUS

\* What is added to a position is added to the count.
LEMMA PositionAdds ==
  ASSUME NEW s \in Nat \ {0}, NEW a \in Nat, NEW n \in Nat
  PROVE  ((a % s) + n) % s = (a + n) % s
<1> DEFINE q == a \div s
           r == a % s
           q2 == (r + n) \div s
           r2 == (r + n) % s
<1>1. a = s * q + r /\ q \in Nat /\ r \in 0..(s - 1)
  BY Rounds
<1>2. r + n = s * q2 + r2 /\ q2 \in Nat /\ r2 \in 0..(s - 1)
  <2>1. r + n \in Nat
    BY <1>1
  <2> HIDE DEF r
  <2> QED BY <2>1, Rounds
<1> HIDE DEF q, r, q2, r2
<1>3. a + n = s * (q + q2) + r2
  <2>1. s * (q + q2) = s * q + s * q2
    BY <1>1, <1>2
  <2>2. n \in Nat /\ s * q \in Nat /\ s * q2 \in Nat
    BY <1>1, <1>2
  <2> QED BY <1>1, <1>2, <2>1, <2>2
<1>4. (s * (q + q2) + r2) % s = r2
  <2>1. q + q2 \in Nat
    BY <1>1, <1>2
  <2> QED BY <1>2, <2>1, PositionOf
<1>5. (a + n) % s = r2
  BY <1>3, <1>4
<1> QED BY <1>5 DEF r2, r

\* From a position to that of a later count it is never further than from
\* the one count to the other, and it leads to that position.
LEMMA Distance ==
  ASSUME NEW s \in Nat \ {0}, NEW q \in Nat, NEW h \in 0..s, NEW b \in Nat, s * q + h <= b
  PROVE  LET t == b % s
         IN  /\ t >= h => s * q + h + (t - h) <= b
             /\ t < h  => s * q + h + (t - h + s) <= b
<1> DEFINE t == b % s
           p == b \div s
<1>1. b = s * p + t /\ p \in Nat /\ t \in 0..(s - 1)
  BY Rounds
<1> HIDE DEF t, p
<1>2. CASE t >= h
  <2>1. p >= q
    <3>1. CASE p + 1 <= q
      <4>1. s * q >= s * (p + 1)
        BY <1>1, <3>1
      <4>2. s * (p + 1) = s * p + s
        BY <1>1, NextRound
      <4>3. s * p \in Nat /\ s * q \in Nat
        BY <1>1
      <4> QED BY <1>1, <4>1, <4>2, <4>3
    <3> QED BY <1>1, <3>1
  <2>2. s * p >= s * q /\ s * p \in Nat /\ s * q \in Nat
    BY <1>1, <2>1
  <2> QED BY <1>1, <1>2, <2>2 DEF t
<1>3. CASE t < h
  <2>1. p >= q + 1
    <3>1. CASE p <= q
      <4>1. s * p <= s * q /\ s * p \in Nat /\ s * q \in Nat
        BY <1>1, <3>1
      <4> QED BY <1>1, <1>3, <4>1
    <3> QED BY <1>1, <3>1
  <2>2. s * p >= s * (q + 1)
    BY <1>1, <2>1
  <2>3. s * (q + 1) = s * q + s /\ s * p \in Nat /\ s * q \in Nat
    BY <1>1, NextRound
  <2> QED BY <1>1, <1>3, <2>2, <2>3 DEF t
<1> QED BY <1>1, <1>2, <1>3 DEF t

\* The way from a position to another leads there.
LEMMA LeadsTo ==
  ASSUME NEW s \in Nat \ {0}, NEW q \in Nat, NEW h \in 0..s, NEW t \in 0..(s - 1)
  PROVE  /\ t >= h => (s * q + h + (t - h)) % s = t
         /\ t < h  => (s * q + h + (t - h + s)) % s = t
<1>1. s * q \in Nat /\ s * (q + 1) = s * q + s
  BY NextRound
<1>2. (s * q + t) % s = t
  BY PositionOf
<1>3. (s * (q + 1) + t) % s = t
  <2>1. q + 1 \in Nat
    OBVIOUS
  <2> QED BY <2>1, PositionOf
<1>4. s * q + h + (t - h) = s * q + t
  BY <1>1
<1>5. s * q + h + (t - h + s) = s * (q + 1) + t
  BY <1>1
<1> QED BY <1>2, <1>3, <1>4, <1>5

-----------------------------------------------------------------------------
(***************************************************************************)
(* The inductive invariant.                                                *)
(***************************************************************************)

\* The worker gets the packets in order: the precondition of PacketsInOrder.
InOrder == pulling = "copies" \/ PowerOfTwo

RingTyped ==
  /\ size \in Nat \ {0} /\ maxSent \in Nat
  /\ pulling \in {"copies", "slices", "low"}
  /\ nSent \in Nat
  /\ rxTail = nSent % size

\* The head of the first ring is where the pulled packets end, save that it
\* may stand behind the buffer instead of at its start.
HeadAtPulled ==
  InOrder =>
    /\ batch \in Seq(Int) /\ pulled \in Nat /\ pulled <= nSent
    /\ rxHead \in 0..size /\ (pulling # "copies" => rxHead < size)
    /\ \E q \in Nat : pulled = size * q + rxHead

\* Each pulled packet is the one of its turn.
BatchInTurn ==
  InOrder =>
    \A j \in 1..Len(batch) :
      LET turn == (pulled - Len(batch) + j - 1) % size
      IN  batch[j] = turn \/ (pulling = "low" /\ batch[j] = turn + size)

\* The head of the second ring is the position of some count c of packets,
\* which what was received never exceeds and what was pushed always covers;
\* between the two reads, c and the packets due are covered.
HeadAtTaken ==
  PowerOfTwo =>
    /\ nReceived \in Nat /\ pushed \in Nat
    /\ txTail = pushed % size
    /\ \E c \in Nat :
         /\ nReceived <= c /\ txHead = c % size
         /\ IF ioPc = "take"
            THEN due \in Nat /\ c + due <= pushed /\ seen = (c + due) % size
            ELSE c <= pushed

RingInv == RingTyped /\ HeadAtPulled /\ BatchInTurn /\ HeadAtTaken

-----------------------------------------------------------------------------
(***************************************************************************)
(* The initial states, and the steps that leave the rings alone.           *)
(***************************************************************************)

LEMMA InitRing == Init => RingInv
<1> SUFFICES ASSUME Init PROVE RingInv
  OBVIOUS
<1>1. PICK x \in Setups : RingInit(x.packets, x.sent, x.ways)
  BY DEF Init
<1>2. /\ x.packets \in Nat \ {0} /\ x.sent \in Nat
      /\ x.ways \subseteq {"copies", "slices", "low"}
  BY SetupsAssumption
<1>3. /\ size \in Nat \ {0} /\ maxSent \in Nat /\ pulling \in {"copies", "slices", "low"}
      /\ rxHead = 0 /\ rxTail = 0 /\ txHead = 0 /\ txTail = 0 /\ ioPc = "loop"
      /\ nSent = 0 /\ nReceived = 0 /\ batch = <<>> /\ pulled = 0 /\ pushed = 0
  BY <1>1, <1>2 DEF RingInit
<1>4. 0 % size = 0 /\ size * 0 = 0
  BY <1>3
<1>5. RingTyped
  BY <1>3, <1>4 DEF RingTyped
<1>6. HeadAtPulled
  BY <1>3, <1>4 DEF HeadAtPulled
<1>7. BatchInTurn
  BY <1>3 DEF BatchInTurn
<1>8. HeadAtTaken
  BY <1>3, <1>4 DEF HeadAtTaken
<1> QED BY <1>5, <1>6, <1>7, <1>8 DEF RingInv

\* The other threads and steps leave the rings alone.
LEMMA RingsUntouched ==
  ASSUME RingInv, UNCHANGED ringVars
  PROVE  RingInv'
<1>1. /\ UNCHANGED <<size, maxSent, pulling, nSent, nReceived, pulled, pushed, batch, rxTail>>
      /\ UNCHANGED <<rxHead, txHead, txTail, ioPc, due, seen>>
  BY DEF ringVars, ioVars, pullVars, pushVars
<1>2. RingTyped'
  BY <1>1 DEF RingInv, RingTyped
<1>3. HeadAtPulled'
  BY <1>1 DEF RingInv, HeadAtPulled, InOrder, PowerOfTwo
<1>4. BatchInTurn'
  BY <1>1 DEF RingInv, BatchInTurn, InOrder, PowerOfTwo
<1>5. HeadAtTaken'
  BY <1>1 DEF RingInv, HeadAtTaken, PowerOfTwo
<1> QED BY <1>2, <1>3, <1>4, <1>5 DEF RingInv

\* The emulator leaves what the worker pulled alone.
LEMMA PullUntouched ==
  ASSUME RingInv, UNCHANGED <<size, pulling, pulled, rxHead, batch>>,
         nSent' \in Nat, nSent' >= nSent
  PROVE  HeadAtPulled' /\ BatchInTurn'
<1>1. HeadAtPulled'
  BY DEF RingInv, RingTyped, HeadAtPulled, InOrder, PowerOfTwo
<1>2. BatchInTurn'
  BY DEF RingInv, BatchInTurn, InOrder, PowerOfTwo
<1> QED BY <1>1, <1>2

-----------------------------------------------------------------------------
(***************************************************************************)
(* The steps of the emulator.                                              *)
(***************************************************************************)

LEMMA FlushRing ==
  ASSUME RingInv, Flush
  PROVE  RingInv'
<1>1. /\ nSent' \in Nat /\ nSent' >= nSent
      /\ rxTail' = (IF nSent' > nSent THEN nSent' % size ELSE rxTail)
      /\ ioPc = "loop" /\ ioPc' = "count"
      /\ UNCHANGED <<size, maxSent, pulling, rxHead, batch, pulled, txTail, pushed>>
      /\ UNCHANGED <<nReceived, due, seen, txHead>>
  BY DEF Flush, pullVars, pushVars, RingInv, RingTyped
<1>2. RingTyped'
  <2>1. rxTail' = nSent' % size
    BY <1>1 DEF RingInv, RingTyped
  <2> QED BY <1>1, <2>1 DEF RingInv, RingTyped
<1>3. HeadAtPulled' /\ BatchInTurn'
  BY <1>1, PullUntouched
<1>4. HeadAtTaken'
  BY <1>1 DEF RingInv, HeadAtTaken, PowerOfTwo
<1> QED BY <1>2, <1>3, <1>4 DEF RingInv

\* The packets due are those from some count on, and do not go beyond what
\* was pushed.
LEMMA CountRing ==
  ASSUME RingInv, Count
  PROVE  RingInv'
<1>1. /\ due' = (IF txTail < txHead THEN txTail - txHead + size ELSE txTail - txHead)
      /\ IF due' > 0 THEN ioPc' = "take" /\ seen' = txTail ELSE ioPc' = "loop"
      /\ ioPc = "count"
      /\ UNCHANGED <<size, maxSent, pulling, rxHead, batch, pulled, txTail, pushed>>
      /\ UNCHANGED <<nSent, nReceived, rxTail, txHead>>
  BY DEF Count, pullVars, pushVars
<1>2. RingTyped'
  BY <1>1 DEF RingInv, RingTyped
<1>3. HeadAtPulled' /\ BatchInTurn'
  <2>1. nSent' \in Nat /\ nSent' >= nSent
    BY <1>1 DEF RingInv, RingTyped
  <2> QED BY <1>1, <2>1, PullUntouched
<1>4. HeadAtTaken'
  <2> SUFFICES ASSUME PowerOfTwo
               PROVE  HeadAtTaken'
    BY <1>1 DEF HeadAtTaken, PowerOfTwo
  <2>1. PICK c \in Nat : nReceived <= c /\ txHead = c % size /\ c <= pushed
    BY <1>1 DEF RingInv, HeadAtTaken
  <2>2. /\ size \in Nat \ {0} /\ pushed \in Nat /\ nReceived \in Nat
        /\ txTail = pushed % size
    BY DEF RingInv, RingTyped, HeadAtTaken
  <2> DEFINE q == c \div size
  <2>3. q \in Nat /\ c = size * q + txHead /\ txHead \in 0..(size - 1)
    BY <2>1, <2>2, Rounds
  <2>4. txTail \in 0..(size - 1)
    BY <2>2, Rounds
  <2> HIDE DEF q
  <2>5. /\ due' \in Nat
        /\ txTail < txHead => due' = txTail - txHead + size
        /\ txTail >= txHead => due' = txTail - txHead
    BY <1>1, <2>2, <2>3, <2>4
  <2>6. c + due' <= pushed
    <3>1. size * q \in Nat /\ txHead \in 0..size /\ size * q + txHead <= pushed
      BY <2>1, <2>2, <2>3
    <3>2. /\ txTail >= txHead => size * q + txHead + (txTail - txHead) <= pushed
          /\ txTail < txHead  => size * q + txHead + (txTail - txHead + size) <= pushed
      BY <2>2, <2>3, <3>1, Distance
    <3> QED BY <2>3, <2>4, <2>5, <3>1, <3>2
  <2>7. txTail = (c + due') % size
    <3>1. txHead \in 0..size
      BY <2>2, <2>3
    <3>2. /\ txTail >= txHead => (size * q + txHead + (txTail - txHead)) % size = txTail
          /\ txTail < txHead  => (size * q + txHead + (txTail - txHead + size)) % size = txTail
      BY <2>2, <2>3, <2>4, <3>1, LeadsTo
    <3> QED BY <2>3, <2>4, <2>5, <3>2
  <2>8. /\ nReceived' \in Nat /\ txTail' = pushed' % size' /\ nReceived' <= c /\ txHead' = c % size'
        /\ IF ioPc' = "take"
           THEN due' \in Nat /\ c + due' <= pushed' /\ seen' = (c + due') % size'
           ELSE c <= pushed'
    <3>1. CASE due' > 0
      BY <1>1, <2>1, <2>2, <2>5, <2>6, <2>7, <3>1
    <3>2. CASE ~(due' > 0)
      BY <1>1, <2>1, <2>2, <3>2
    <3> QED BY <3>1, <3>2
  <2> QED BY <1>1, <2>1, <2>2, <2>8 DEF HeadAtTaken
<1> QED BY <1>2, <1>3, <1>4 DEF RingInv

\* Whichever tail is read, it is that of a count which was pushed, and not
\* before the packets received.
LEMMA TakeRing ==
  ASSUME RingInv, Take
  PROVE  RingInv'
<1>1. /\ txHead' \in {seen, txTail} /\ nReceived' = nReceived + due
      /\ ioPc = "take" /\ ioPc' = "loop"
      /\ UNCHANGED <<size, maxSent, pulling, rxHead, batch, pulled, txTail, pushed>>
      /\ UNCHANGED <<nSent, rxTail>>
  BY DEF Take, pullVars, pushVars
<1>2. RingTyped'
  BY <1>1 DEF RingInv, RingTyped
<1>3. HeadAtPulled' /\ BatchInTurn'
  <2>1. nSent' \in Nat /\ nSent' >= nSent
    BY <1>1 DEF RingInv, RingTyped
  <2> QED BY <1>1, <2>1, PullUntouched
<1>4. HeadAtTaken'
  <2> SUFFICES ASSUME PowerOfTwo
               PROVE  HeadAtTaken'
    BY <1>1 DEF HeadAtTaken, PowerOfTwo
  <2>1. PICK c \in Nat : /\ nReceived <= c /\ due \in Nat /\ c + due <= pushed
                         /\ seen = (c + due) % size
    BY <1>1 DEF RingInv, HeadAtTaken
  <2>2. nReceived \in Nat /\ pushed \in Nat /\ txTail = pushed % size
    BY DEF RingInv, RingTyped, HeadAtTaken
  <2>3. nReceived' <= c + due /\ c + due \in Nat
    BY <1>1, <2>1, <2>2
  <2>4. CASE txHead' = seen
    <3>1. /\ nReceived' \in Nat /\ pushed' \in Nat /\ txTail' = pushed' % size' /\ nReceived' <= c + due
          /\ txHead' = (c + due) % size' /\ ioPc' # "take" /\ c + due <= pushed'
      BY <1>1, <2>1, <2>2, <2>3, <2>4
    <3> QED BY <2>3, <3>1 DEF HeadAtTaken
  <2>5. CASE txHead' = txTail
    <3>1. /\ nReceived' \in Nat /\ pushed' \in Nat /\ txTail' = pushed' % size' /\ nReceived' <= pushed
          /\ txHead' = pushed % size' /\ ioPc' # "take" /\ pushed <= pushed'
      BY <1>1, <2>1, <2>2, <2>3, <2>5
    <3> QED BY <2>2, <3>1 DEF HeadAtTaken
  <2> QED BY <1>1, <2>4, <2>5
<1> QED BY <1>2, <1>3, <1>4 DEF RingInv

LEMMA LeaveRing ==
  ASSUME RingInv, Leave \/ TimeUp
  PROVE  RingInv'
<1>1. /\ UNCHANGED <<size, maxSent, pulling, nSent, nReceived, pulled, pushed, batch, rxTail>>
      /\ UNCHANGED <<rxHead, txHead, txTail, due, seen>>
      /\ ioPc' = ioPc \/ (ioPc = "loop" /\ ioPc' = "end")
  BY DEF Leave, TimeUp, pullVars, pushVars
<1>2. RingTyped'
  BY <1>1 DEF RingInv, RingTyped
<1>3. HeadAtPulled' /\ BatchInTurn'
  <2>1. nSent' \in Nat /\ nSent' >= nSent
    BY <1>1 DEF RingInv, RingTyped
  <2> QED BY <1>1, <2>1, PullUntouched
<1>4. HeadAtTaken'
  BY <1>1 DEF RingInv, HeadAtTaken, PowerOfTwo
<1> QED BY <1>2, <1>3, <1>4 DEF RingInv

-----------------------------------------------------------------------------
(***************************************************************************)
(* The steps of the worker.                                                *)
(***************************************************************************)

\* A slice of consecutive positions.
LEMMA ConsecutiveSeq ==
  ASSUME NEW first \in Nat, NEW n \in Nat
  PROVE  /\ Consecutive(first, n) \in Seq(Int)
         /\ Len(Consecutive(first, n)) = n
         /\ \A j \in 1..n : Consecutive(first, n)[j] = first + j - 1
BY DEF Consecutive

\* LeastOf is one of the two and not above either.
LEMMA LeastOfBounds ==
  ASSUME NEW a \in Nat, NEW b \in Nat
  PROVE  /\ LeastOf(a, b) \in Nat
         /\ LeastOf(a, b) <= a /\ LeastOf(a, b) <= b
         /\ LeastOf(a, b) = a \/ LeastOf(a, b) = b
BY DEF LeastOf

\* With a ring of 2^k packets the mask is the modulus.
LEMMA MaskedIsModulo ==
  ASSUME PowerOfTwo, NEW x \in Nat
  PROVE  Masked(x) = x % size
BY DEF PowerOfTwo, Masked

\* The position of a count beyond the end of the round.
LEMMA PositionBeyond ==
  ASSUME NEW s \in Nat \ {0}, NEW q \in Nat, NEW x \in Nat, x >= s, x < 2 * s
  PROVE  (s * q + x) % s = x - s
<1>1. s * q \in Nat /\ s * (q + 1) = s * q + s
  BY NextRound
<1>2. x - s \in 0..(s - 1) /\ q + 1 \in Nat
  OBVIOUS
<1>3. (s * (q + 1) + (x - s)) % s = x - s
  BY <1>2, PositionOf
<1>4. s * (q + 1) + (x - s) = s * q + x
  BY <1>1
<1> QED BY <1>3, <1>4

\* Both cases, for a count of which the position is known.
LEMMA PositionOfCount ==
  ASSUME NEW s \in Nat \ {0}, NEW q \in Nat, NEW x \in Nat
  PROVE  /\ x < s => (s * q + x) % s = x
         /\ x >= s /\ x < 2 * s => (s * q + x) % s = x - s
<1>1. x < s => x \in 0..(s - 1)
  OBVIOUS
<1> QED BY <1>1, PositionOf, PositionBeyond

\* What every pull has to show of its batch of n packets, and of the head.
PullsOn(q, n) ==
  /\ n \in Nat /\ Len(batch') = n /\ batch' \in Seq(Int)
  /\ pulled + n <= nSent
  /\ rxHead' \in 0..size /\ (pulling # "copies" => rxHead' < size)
  /\ \E p \in Nat : pulled + n = size * p + rxHead'
  /\ \A j \in 1..n :
       LET turn == (size * q + (rxHead + (j - 1))) % size
       IN  batch'[j] = turn \/ (pulling = "low" /\ batch'[j] = turn + size)

\* A low-level slice, or one that ends before the end of the buffer.
LEMMA PullMaskedOn ==
  ASSUME RingInv, PowerOfTwo, NEW q \in Nat, pulled = size * q + rxHead, rxHead < size,
         NEW n \in Nat, pulled + n <= nSent, n <= size,
         pulling = "low" \/ rxHead + n <= size,
         pulling # "copies",
         batch' = Consecutive(rxHead, n), rxHead' = Masked(rxHead + n)
  PROVE  PullsOn(q, n)
<1>1. size \in Nat \ {0} /\ rxHead \in 0..(size - 1) /\ pulled \in Nat
  <2>1. size \in Nat \ {0} /\ pulled \in Nat
    BY DEF RingInv, RingTyped, HeadAtPulled, InOrder
  <2>2. rxHead \in 0..size
    BY DEF RingInv, HeadAtPulled, InOrder
  <2> QED BY <2>1, <2>2
<1>2. batch' \in Seq(Int) /\ Len(batch') = n /\ \A j \in 1..n : batch'[j] = rxHead + j - 1
  <2>1. rxHead \in Nat
    BY <1>1
  <2> QED BY <2>1, ConsecutiveSeq
<1>3. rxHead' = (rxHead + n) % size
  <2>1. rxHead + n \in Nat
    BY <1>1
  <2> QED BY <2>1, MaskedIsModulo
<1>4. rxHead' \in 0..(size - 1) /\ \E p \in Nat : pulled + n = size * p + rxHead'
  <2> DEFINE k == (rxHead + n) \div size
  <2>1. rxHead + n \in Nat
    BY <1>1
  <2>2. k \in Nat /\ rxHead + n = size * k + rxHead' /\ rxHead' \in 0..(size - 1)
    BY <1>1, <1>3, <2>1, Rounds
  <2> HIDE DEF k
  <2>3. size * (q + k) = size * q + size * k /\ size * q \in Nat /\ size * k \in Nat
    BY <1>1, <2>2
  <2>4. pulled + n = size * (q + k) + rxHead' /\ q + k \in Nat
    BY <1>1, <2>2, <2>3
  <2> QED BY <2>2, <2>4
<1>5. ASSUME NEW j \in 1..n
      PROVE  LET turn == (size * q + (rxHead + (j - 1))) % size
             IN  batch'[j] = turn \/ (pulling = "low" /\ batch'[j] = turn + size)
  <2> DEFINE x == rxHead + (j - 1)
             turn == (size * q + x) % size
  <2>1. x \in Nat /\ x < rxHead + n /\ x < 2 * size /\ batch'[j] = x
    BY <1>1, <1>2
  <2>2. x >= size => pulling = "low"
    BY <1>1, <2>1
  <2> HIDE DEF x
  <2>3. /\ x < size => turn = x
        /\ x >= size => turn = x - size
    BY <1>1, <2>1, PositionOfCount
  <2> HIDE DEF turn
  <2>4. x < size \/ (x >= size /\ x - size + size = x)
    BY <1>1, <2>1
  <2>5. batch'[j] = turn \/ (pulling = "low" /\ batch'[j] = turn + size)
    BY <2>1, <2>2, <2>3, <2>4
  <2> QED BY <2>5 DEF turn, x
<1>6. rxHead' \in 0..size /\ rxHead' < size
  BY <1>1, <1>4
<1>7. n \in Nat /\ pulled + n <= nSent
  OBVIOUS
<1> QED BY ONLY <1>2, <1>4, <1>5, <1>6, <1>7, Zenon DEF PullsOn

\* How far the tail is from the head, and that a packet of that distance was
\* sent.
LEMMA SentBefore ==
  ASSUME RingInv, NEW q \in Nat, pulled = size * q + rxHead, rxHead \in 0..size, pulled <= nSent
  PROVE  /\ rxTail \in 0..(size - 1)
         /\ rxTail >= rxHead => pulled + (rxTail - rxHead) <= nSent
         /\ rxTail < rxHead  => pulled + (rxTail - rxHead + size) <= nSent
<1>1. size \in Nat \ {0} /\ nSent \in Nat /\ rxTail = nSent % size
  BY DEF RingInv, RingTyped
<1>2. rxTail \in 0..(size - 1)
  BY <1>1, Rounds
<1>3. size * q + rxHead <= nSent
  OBVIOUS
<1>4. /\ rxTail >= rxHead => size * q + rxHead + (rxTail - rxHead) <= nSent
      /\ rxTail < rxHead  => size * q + rxHead + (rxTail - rxHead + size) <= nSent
  BY <1>1, <1>3, Distance
<1> QED BY <1>2, <1>4

LEMMA PullSliceOn ==
  ASSUME RingInv, InOrder, PullSlice, NEW q \in Nat, pulled = size * q + rxHead
  PROVE  \E n \in Nat : PullsOn(q, n)
<1> DEFINE m == IF rxTail < rxHead THEN size - rxHead ELSE rxTail - rxHead
           n == LeastOf(PktBatch, m)
<1>1. pulling = "slices" /\ batch' = Consecutive(rxHead, n) /\ rxHead' = Masked(rxHead + n)
  BY DEF PullSlice
<1>2. /\ PowerOfTwo /\ rxHead \in 0..size /\ rxHead < size /\ pulled <= nSent
      /\ size \in Nat \ {0} /\ nSent \in Nat /\ pulled \in Nat /\ PktBatch \in Nat
  BY <1>1, RingAssumption DEF RingInv, RingTyped, HeadAtPulled, InOrder
<1>3. /\ rxTail \in 0..(size - 1)
      /\ rxTail >= rxHead => pulled + (rxTail - rxHead) <= nSent
      /\ rxTail < rxHead  => pulled + (rxTail - rxHead + size) <= nSent
  BY <1>2, SentBefore
<1>4. m \in Nat /\ pulled + m <= nSent /\ rxHead + m <= size
  BY <1>2, <1>3
<1>5. n \in Nat /\ n <= m
  BY <1>2, <1>4, LeastOfBounds
<1> HIDE DEF m, n
<1>6. pulled + n <= nSent /\ rxHead + n <= size /\ n <= size
  BY <1>2, <1>4, <1>5
<1>7. PullsOn(q, n)
  BY <1>1, <1>2, <1>5, <1>6, PullMaskedOn
<1> QED BY <1>5, <1>7

LEMMA PullAcrossOn ==
  ASSUME RingInv, InOrder, PullAcross, NEW q \in Nat, pulled = size * q + rxHead
  PROVE  \E n \in Nat : PullsOn(q, n)
<1> DEFINE m == IF rxTail < rxHead THEN rxTail - rxHead + size ELSE rxTail - rxHead
           n == LeastOf(PktBatch, m)
<1>1. pulling = "low" /\ batch' = Consecutive(rxHead, n) /\ rxHead' = Masked(rxHead + n)
  BY DEF PullAcross
<1>2. /\ PowerOfTwo /\ rxHead \in 0..size /\ rxHead < size /\ pulled <= nSent
      /\ size \in Nat \ {0} /\ nSent \in Nat /\ pulled \in Nat /\ PktBatch \in Nat
  BY <1>1, RingAssumption DEF RingInv, RingTyped, HeadAtPulled, InOrder
<1>3. /\ rxTail \in 0..(size - 1)
      /\ rxTail >= rxHead => pulled + (rxTail - rxHead) <= nSent
      /\ rxTail < rxHead  => pulled + (rxTail - rxHead + size) <= nSent
  BY <1>2, SentBefore
<1>4. m \in Nat /\ pulled + m <= nSent /\ m <= size
  BY <1>2, <1>3
<1>5. n \in Nat /\ n <= m
  BY <1>2, <1>4, LeastOfBounds
<1> HIDE DEF m, n
<1>6. pulled + n <= nSent /\ n <= size
  BY <1>2, <1>4, <1>5
<1>7. PullsOn(q, n)
  BY <1>1, <1>2, <1>5, <1>6, PullMaskedOn
<1> QED BY <1>5, <1>7

LEMMA PullCopiesOn ==
  ASSUME RingInv, InOrder, PullCopies, NEW q \in Nat, pulled = size * q + rxHead
  PROVE  \E n \in Nat : PullsOn(q, n)
<1> DEFINE wraps == rxTail < rxHead
           u == IF wraps THEN LeastOf(PktBatch, size - rxHead) ELSE 0
           f == IF wraps /\ u < PktBatch THEN 0 ELSE rxHead + u
           l == IF f < rxTail THEN LeastOf(PktBatch - u, rxTail - f) ELSE 0
           n == u + l
<1>1. /\ pulling = "copies" /\ rxHead' = f + l
      /\ batch' = Consecutive(rxHead, u) \o Consecutive(f, l)
  BY DEF PullCopies
<1>2. /\ rxHead \in 0..size /\ pulled <= nSent /\ size \in Nat \ {0} /\ nSent \in Nat
      /\ pulled \in Nat /\ PktBatch \in Nat
  BY RingAssumption DEF RingInv, RingTyped, HeadAtPulled
<1>3. /\ rxTail \in 0..(size - 1)
      /\ rxTail >= rxHead => pulled + (rxTail - rxHead) <= nSent
      /\ rxTail < rxHead  => pulled + (rxTail - rxHead + size) <= nSent
  BY <1>2, SentBefore
<1>4. u \in Nat /\ rxHead + u <= size /\ u <= PktBatch
  BY <1>2, <1>3, LeastOfBounds
<1>5. f \in 0..size
  BY <1>2, <1>4
<1>6. wraps /\ u < PktBatch => u = size - rxHead /\ f = 0
  BY <1>2, <1>3, <1>4, LeastOfBounds
<1>7. ~(wraps /\ u < PktBatch) => f = rxHead + u
  OBVIOUS
<1>8. /\ wraps => u <= size - rxHead
      /\ ~wraps => u = 0
  BY <1>4, <1>2
<1> HIDE DEF u
<1>9. /\ l \in Nat /\ (f < rxTail => l <= rxTail - f) /\ (~(f < rxTail) => l = 0)
  <2>1. CASE f < rxTail
    <3>1. PktBatch - u \in Nat /\ rxTail - f \in Nat
      BY <1>2, <1>3, <1>4, <1>5, <2>1
    <3> HIDE DEF f
    <3> QED BY <2>1, <3>1, LeastOfBounds
  <2>2. CASE ~(f < rxTail)
    BY <2>2
  <2> QED BY <2>1, <2>2
<1> HIDE DEF f, l
<1>10. /\ batch' \in Seq(Int) /\ Len(batch') = n /\ n \in Nat
       /\ \A j \in 1..n : batch'[j] = IF j <= u THEN rxHead + j - 1 ELSE f + (j - u) - 1
  <2> DEFINE a == Consecutive(rxHead, u)
             b == Consecutive(f, l)
  <2>1. a \in Seq(Int) /\ Len(a) = u /\ \A j \in 1..u : a[j] = rxHead + j - 1
    <3>1. rxHead \in Nat
      BY <1>2
    <3> QED BY <1>4, <3>1, ConsecutiveSeq
  <2>2. b \in Seq(Int) /\ Len(b) = l /\ \A j \in 1..l : b[j] = f + j - 1
    <3>1. f \in Nat
      BY <1>2, <1>5
    <3> QED BY <1>9, <3>1, ConsecutiveSeq
  <2> HIDE DEF a, b
  <2>3. a \o b \in Seq(Int) /\ Len(a \o b) = u + l
    <3>1. a \in Seq(Int) /\ b \in Seq(Int) /\ Len(a) = u /\ Len(b) = l
      BY <2>1, <2>2
    <3> QED BY ONLY <3>1
  <2>4. ASSUME NEW j \in 1..n
        PROVE  (a \o b)[j] = IF j <= u THEN rxHead + j - 1 ELSE f + (j - u) - 1
    <3>1. CASE j <= u
      <4>1. j \in 1..u /\ (a \o b)[j] = a[j]
        BY <1>4, <1>9, <2>1, <2>2, <3>1
      <4> QED BY <2>1, <3>1, <4>1
    <3>2. CASE ~(j <= u)
      <4>1. j - u \in 1..l /\ (a \o b)[j] = b[j - u]
        BY <1>4, <1>9, <2>1, <2>2, <3>2
      <4> QED BY <2>2, <3>2, <4>1
    <3> QED BY <3>1, <3>2
  <2>5. batch' = a \o b
    BY <1>1 DEF a, b
  <2> QED BY <1>4, <1>9, <2>3, <2>4, <2>5
<1>11. ASSUME wraps, u < PktBatch
       PROVE  PullsOn(q, n)
  <2>1. u = size - rxHead /\ f = 0 /\ rxTail < rxHead /\ l <= rxTail
    BY <1>3, <1>6, <1>9, <1>11
  <2>2. pulled + n <= nSent /\ rxHead + n <= 2 * size /\ rxHead' = l
    BY <1>1, <1>2, <1>3, <1>4, <1>9, <2>1
  <2>3. rxHead' \in 0..size /\ \E p \in Nat : pulled + n = size * p + rxHead'
    <3>1. size * (q + 1) = size * q + size /\ size * q \in Nat /\ q + 1 \in Nat
      BY <1>2, NextRound
    <3>2. pulled + n = size * (q + 1) + rxHead'
      BY <1>2, <1>4, <1>9, <2>1, <2>2, <3>1
    <3> QED BY <1>2, <1>3, <1>9, <2>1, <2>2, <3>1, <3>2
  <2>4. ASSUME NEW j \in 1..n
        PROVE  batch'[j] = (size * q + (rxHead + (j - 1))) % size
    <3> DEFINE x == rxHead + (j - 1)
               turn == (size * q + x) % size
    <3>1. x \in Nat /\ x < 2 * size
      BY <1>2, <1>10, <2>2
    <3>2. batch'[j] = IF x < size THEN x ELSE x - size
      BY <1>2, <1>4, <1>10, <2>1
    <3> HIDE DEF x
    <3>3. /\ x < size => turn = x
          /\ x >= size => turn = x - size
      BY <1>2, <3>1, PositionOfCount
    <3> HIDE DEF turn
    <3>4. x < size \/ x >= size
      BY <1>2, <3>1
    <3>5. batch'[j] = turn
      BY <3>2, <3>3, <3>4
    <3> QED BY <3>5 DEF turn, x
  <2> QED BY <1>1, <1>10, <2>2, <2>3, <2>4 DEF PullsOn
<1>12. ASSUME ~(wraps /\ u < PktBatch)
       PROVE  PullsOn(q, n)
  <2>1. f = rxHead + u
    BY <1>7, <1>12
  <2>2. pulled + n <= nSent /\ rxHead + n <= size /\ rxHead' = rxHead + n
    <3>1. CASE wraps
      BY <1>1, <1>2, <1>3, <1>4, <1>8, <1>9, <2>1, <3>1
    <3>2. CASE ~wraps
      BY <1>1, <1>2, <1>3, <1>4, <1>8, <1>9, <2>1, <3>2
    <3> QED BY <3>1, <3>2
  <2>3. rxHead' \in 0..size /\ \E p \in Nat : pulled + n = size * p + rxHead'
    <3>1. size * q \in Nat
      BY <1>2
    <3>2. pulled + n = size * q + rxHead'
      BY <1>2, <1>10, <2>2, <3>1
    <3>3. rxHead' \in 0..size
      BY <1>2, <1>10, <2>2
    <3> HIDE DEF n
    <3> QED BY <3>2, <3>3
  <2>4. ASSUME NEW j \in 1..n
        PROVE  batch'[j] = (size * q + (rxHead + (j - 1))) % size
    <3> DEFINE x == rxHead + (j - 1)
    <3>1. x \in Nat /\ x < size /\ batch'[j] = x
      BY <1>2, <1>4, <1>10, <2>1, <2>2
    <3> HIDE DEF x
    <3>2. (size * q + x) % size = x
      BY <1>2, <3>1, PositionOfCount
    <3> QED BY <3>1, <3>2 DEF x
  <2> QED BY <1>1, <1>10, <2>2, <2>3, <2>4 DEF PullsOn
<1>13. PullsOn(q, n)
  BY <1>11, <1>12
<1> HIDE DEF n
<1> QED BY <1>10, <1>13

LEMMA PullRing ==
  ASSUME RingInv, PullPackets
  PROVE  RingInv'
<1>1. /\ PullCopies \/ PullSlice \/ PullAcross
      /\ pulled' = pulled + Len(batch')
      /\ UNCHANGED <<size, maxSent, pulling, nSent, nReceived, pushed, rxTail>>
      /\ UNCHANGED <<txHead, txTail, ioPc, due, seen>>
  BY DEF PullPackets, ioVars, pushVars
<1>3. RingTyped'
  BY <1>1 DEF RingInv, RingTyped
<1>4. HeadAtTaken'
  BY <1>1 DEF RingInv, HeadAtTaken, PowerOfTwo
<1>5. HeadAtPulled' /\ BatchInTurn'
  <2> SUFFICES ASSUME InOrder
               PROVE  HeadAtPulled' /\ BatchInTurn'
    BY <1>1 DEF HeadAtPulled, BatchInTurn, InOrder, PowerOfTwo
  <2>1. PICK q \in Nat : pulled = size * q + rxHead
    BY DEF RingInv, HeadAtPulled
  <2>2. PICK n \in Nat : PullsOn(q, n)
    BY <1>1, <2>1, PullCopiesOn, PullSliceOn, PullAcrossOn
  <2>3. HeadAtPulled'
    <3>1. pulled \in Nat /\ n \in Nat /\ pulled' = pulled + n
      BY <1>1, <2>2 DEF RingInv, HeadAtPulled, PullsOn
    <3> QED BY <1>1, <2>2, <3>1 DEF HeadAtPulled, PullsOn
  <2>4. BatchInTurn'
    <3>1. /\ pulled \in Nat /\ n \in Nat /\ Len(batch') = n /\ pulled' - Len(batch') = pulled
          /\ rxHead \in Nat /\ size \in Nat
      <4>1. pulled \in Nat /\ size \in Nat /\ rxHead \in 0..size
        BY DEF RingInv, RingTyped, HeadAtPulled
      <4>2. n \in Nat /\ Len(batch') = n
        BY <2>2 DEF PullsOn
      <4> QED BY <1>1, <4>1, <4>2
    <3>2. ASSUME NEW j \in 1..n
          PROVE  pulled' - Len(batch') + j - 1 = size * q + (rxHead + (j - 1))
      <4>1. size * q \in Nat
        BY <3>1
      <4> QED BY <2>1, <3>1, <4>1
    <3> QED BY <1>1, <2>2, <3>1, <3>2 DEF BatchInTurn, PullsOn
  <2> QED BY <2>3, <2>4
<1> QED BY <1>3, <1>4, <1>5 DEF RingInv

LEMMA PushRing ==
  ASSUME RingInv, PushPackets
  PROVE  RingInv'
<1>1. /\ txTail' = Masked(txTail + Len(batch)) /\ pushed' = pushed + Len(batch) /\ batch' = <<>>
      /\ UNCHANGED <<size, maxSent, pulling, nSent, nReceived, pulled, rxTail>>
      /\ UNCHANGED <<rxHead, txHead, ioPc, due, seen>>
  BY DEF PushPackets, ioVars
<1>2. PowerOfTwo => Len(batch) \in Nat /\ pushed \in Nat /\ size \in Nat \ {0}
  BY DEF RingInv, RingTyped, HeadAtPulled, HeadAtTaken, InOrder
<1>3. RingTyped'
  BY <1>1 DEF RingInv, RingTyped
<1>4. HeadAtPulled'
  BY <1>1 DEF RingInv, HeadAtPulled, InOrder, PowerOfTwo
<1>5. BatchInTurn'
  BY <1>1 DEF BatchInTurn
<1>6. HeadAtTaken'
  <2> SUFFICES ASSUME PowerOfTwo
               PROVE  HeadAtTaken'
    BY <1>1 DEF HeadAtTaken, PowerOfTwo
  <2>1. PICK c \in Nat :
          /\ nReceived <= c /\ txHead = c % size
          /\ IF ioPc = "take"
             THEN due \in Nat /\ c + due <= pushed /\ seen = (c + due) % size
             ELSE c <= pushed
    BY DEF RingInv, HeadAtTaken
  <2>2. txTail' = pushed' % size
    <3>1. txTail = pushed % size /\ txTail + Len(batch) \in Nat
      <4>1. txTail = pushed % size
        BY DEF RingInv, HeadAtTaken
      <4>2. pushed % size \in 0..(size - 1)
        BY <1>2, Rounds
      <4> QED BY <1>2, <4>1, <4>2
    <3>2. txTail' = (txTail + Len(batch)) % size
      BY <1>1, <3>1, MaskedIsModulo
    <3> QED BY <1>1, <1>2, <3>1, <3>2, PositionAdds
  <2>3. /\ nReceived' \in Nat /\ pushed' \in Nat /\ nReceived' <= c /\ txHead' = c % size'
        /\ IF ioPc' = "take"
           THEN due' \in Nat /\ c + due' <= pushed' /\ seen' = (c + due') % size'
           ELSE c <= pushed'
    <3>1. nReceived \in Nat
      BY DEF RingInv, HeadAtTaken
    <3> QED BY <1>1, <1>2, <2>1, <3>1
  <2> QED BY <1>1, <2>1, <2>2, <2>3 DEF HeadAtTaken
<1> QED BY <1>3, <1>4, <1>5, <1>6 DEF RingInv

-----------------------------------------------------------------------------
(***************************************************************************)
(* The theorems.                                                           *)
(***************************************************************************)

LEMMA NextRing ==
  ASSUME RingInv, [Next]_vars
  PROVE  RingInv'
<1>1. CASE UNCHANGED ringVars
  BY <1>1, RingsUntouched
<1>2. CASE Packets
  BY <1>2, FlushRing, CountRing, TakeRing, LeaveRing DEF Packets, WhenAlive, IoEmulator
<1>3. CASE Clock
  BY <1>3, LeaveRing DEF Clock, WhenAlive
<1>4. CASE WantPackets
  BY <1>4, PullRing DEF WantPackets
<1>5. CASE Push
  BY <1>5, PushRing DEF Push
<1>6. CASE Loop \/ WantUpdates \/ WantFibUpdates \/ ApplyNext \/ Crash \/ Finish
  <2>1. UNCHANGED ringVars
    BY <1>6 DEF Loop, WantUpdates, WantFibUpdates, ApplyNext, Crash, Finish, Stop, Joined
  <2> QED BY <2>1, <1>1
<1>7. CASE Feed
  <2>1. UNCHANGED ringVars
    BY <1>7 DEF Feed, WhenAlive
  <2> QED BY <2>1, <1>1
<1>8. CASE UNCHANGED vars
  <2>1. UNCHANGED ringVars
    BY <1>8 DEF vars
  <2> QED BY <2>1, <1>1
<1> QED BY <1>2, <1>3, <1>4, <1>5, <1>6, <1>7, <1>8 DEF Next, Worker

\* The invariant holds of the emulation: for every traffic file, batch and way
\* of pulling, in every interleaving of the emulator with the worker.
THEOREM RingInvariant == Spec => []RingInv
BY InitRing, NextRing, PTL DEF Spec

\* A worker that copies packets of a ring of any size, or takes slices of one of
\* 2^k packets, gets the packets of the file in order, round and round, and none
\* that was not sent (pullPackets of dummy-io.cpp); so does the pull of
\* ll-dummy-io.cpp but for the packets of a slice that lie behind the buffer.
THEOREM RingPullsInOrder == Spec => []PacketsInOrder
<1>1. RingInv => PacketsInOrder
  BY DEF RingInv, HeadAtPulled, BatchInTurn, PacketsInOrder, InOrder
<1> QED BY <1>1, RingInvariant, PTL

\* The emulator counts no packet that was not pushed, whatever the worker
\* pushes between its two reads of the tail.
THEOREM RingCountsPushed == Spec => []ReceivedWerePushed
<1>1. RingInv => ReceivedWerePushed
  BY DEF RingInv, RingTyped, HeadAtTaken, ReceivedWerePushed
<1> QED BY <1>1, RingInvariant, PTL

-----------------------------------------------------------------------------
(***************************************************************************)
(* The types of the rings: heads and tails stay inside their buffers, for  *)
(* files of any size and all three pulls.                                  *)
(***************************************************************************)

\* The last power of two that n + 1 reaches: not above n + 1, and more than
\* half of it.
LEMMA LastPowerBounds ==
  ASSUME NEW n \in Nat
  PROVE  /\ LastPower(n) \in Nat \ {0}
         /\ LastPower(n) <= n + 1 /\ n + 1 < 2 * LastPower(n)
<1> DEFINE Rec(f) == f = [m \in 0..n |->
                           IF m = 0 THEN 1 ELSE IF m + 1 = 2 * f[m - 1] THEN m + 1 ELSE f[m - 1]]
           step == [m \in 1..n |-> [v \in Nat |-> IF m + 1 = 2 * v THEN m + 1 ELSE v]]
           power == CHOOSE f : Rec(f)
<1>1. \E f : Rec(f)
  <2>1. \A m \in 1..n : \A v \in Nat : step[m][v] \in Nat
    OBVIOUS
  <2>2. PICK f : f \in Stepwise(n, Nat, 1, step)
    <3>1. 1 \in Nat
      OBVIOUS
    <3> HIDE DEF step
    <3> QED BY <2>1, <3>1, RecursionUpTo
  <2>3. ASSUME NEW m \in 1..n PROVE f[m] = IF m + 1 = 2 * f[m - 1] THEN m + 1 ELSE f[m - 1]
    <3>1. m - 1 \in 0..n /\ f[m - 1] \in Nat
      BY <2>2 DEF Stepwise
    <3> QED BY <2>2, <3>1 DEF Stepwise
  <2>4. \A m \in 0..n : m = 0 \/ m \in 1..n
    OBVIOUS
  <2>5. Rec(f)
    BY <2>2, <2>3, <2>4 DEF Stepwise
  <2> HIDE DEF Rec
  <2> QED BY <2>5
<1>2. Rec(power)
  <2> HIDE DEF Rec
  <2> QED BY <1>1
<1>3. LastPower(n) = power[n]
  BY DEF LastPower
<1> HIDE DEF power
<1>4. /\ \A m \in 1..n : power[m] = IF m + 1 = 2 * power[m - 1] THEN m + 1 ELSE power[m - 1]
      /\ power[0] = 1
  <2>1. \A m \in 1..n : m \in 0..n /\ m # 0
    OBVIOUS
  <2>2. 0 \in 0..n
    OBVIOUS
  <2> QED BY <1>2, <2>1, <2>2
<1> DEFINE T == {m \in 0..n : power[m] \in Nat \ {0} /\ power[m] <= m + 1 /\ m + 1 < 2 * power[m]}
<1>5. 0 \in T
  BY <1>4
<1>6. ASSUME NEW m \in 0..(n - 1), m \in T PROVE m + 1 \in T
  <2>1. m + 1 \in 1..n /\ (m + 1) - 1 = m
    OBVIOUS
  <2>2. power[m + 1] = IF m + 2 = 2 * power[m] THEN m + 2 ELSE power[m]
    <3>1. power[m + 1] = IF (m + 1) + 1 = 2 * power[(m + 1) - 1] THEN (m + 1) + 1 ELSE power[(m + 1) - 1]
      BY <1>4, <2>1, Zenon
    <3> QED BY <2>1, <3>1
  <2>3. power[m] \in Nat \ {0} /\ power[m] <= m + 1 /\ m + 1 < 2 * power[m]
    BY <1>6
  <2> QED BY <2>1, <2>2, <2>3
<1>7. n \in T
  <2> HIDE DEF T
  <2> QED BY <1>5, <1>6, UpTo
<1> QED BY <1>3, <1>7

\* The mask of a ring is smaller than the ring, or is its size, and what is
\* masked is not above the mask.
LEMMA MaskBounds ==
  ASSUME NEW n \in Nat
  PROVE  MaskOf(n) \in 0..n
BY LastPowerBounds DEF MaskOf

LEMMA MaskedBounds ==
  ASSUME size \in Nat, NEW x \in Nat
  PROVE  Masked(x) \in 0..MaskOf(size)
<1> DEFINE k == MaskOf(size)
<1>1. k \in Nat
  BY MaskBounds
<1> HIDE DEF k
<1>2. k + 1 \in Nat \ {0}
  BY <1>1
<1>3. x % (k + 1) \in 0..((k + 1) - 1)
  BY <1>2, Rounds
<1>4. x % (k + 1) \in 0..k
  BY <1>1, <1>3
<1> QED BY <1>4 DEF Masked, k

LEMMA InitRingTypes == Init => RingTypeOK
<1> SUFFICES ASSUME Init PROVE RingTypeOK
  OBVIOUS
<1>1. PICK x \in Setups : RingInit(x.packets, x.sent, x.ways)
  BY DEF Init
<1>2. /\ x.packets \in Nat \ {0} /\ x.sent \in Nat
      /\ x.ways \subseteq {"copies", "slices", "low"}
  BY SetupsAssumption
<1>3. /\ size \in Nat \ {0} /\ maxSent \in Nat /\ pulling \in {"copies", "slices", "low"}
      /\ rxHead = 0 /\ rxTail = 0 /\ txHead = 0 /\ txTail = 0 /\ ioPc = "loop" /\ late = FALSE
      /\ nSent = 0 /\ nReceived = 0 /\ due = 0 /\ seen = 0
      /\ batch = <<>> /\ pulled = 0 /\ pushed = 0
  BY <1>1, <1>2 DEF RingInit
<1>4. MaskOf(size) \in 0..size
  BY <1>3, MaskBounds
<1>5. batch \in Seq(0..(2 * size - 1))
  <2> DEFINE P == 0..(2 * size - 1)
  <2>1. batch = <<>>
    BY <1>3
  <2> HIDE DEF P
  <2>2. batch \in Seq(P)
    BY ONLY <2>1
  <2> QED BY <2>2 DEF P
<1> DEFINE k == MaskOf(size)
<1>6. 0 \in 0..k /\ 0 \in 0..size /\ 0 \in 0..(size - 1) /\ 0 \in 0..maxSent
  <2> HIDE DEF k
  <2>1. k \in Nat
    BY <1>4 DEF k
  <2> QED BY <1>3, <2>1
<1> HIDE DEF k
<1> QED BY ONLY <1>3, <1>5, <1>6 DEF RingTypeOK, k

\* The steps of the emulator.
LEMMA IoRingTypes ==
  ASSUME RingTypeOK, IoEmulator \/ TimeUp
  PROVE  RingTypeOK'
<1> DEFINE k == MaskOf(size)
<1>1. /\ size \in Nat \ {0} /\ maxSent \in Nat /\ nSent \in 0..maxSent /\ nReceived \in Nat
      /\ rxTail \in 0..(size - 1) /\ rxHead \in 0..size
      /\ txHead \in 0..k /\ txTail \in 0..k /\ seen \in 0..k /\ due \in 0..size
      /\ late \in BOOLEAN /\ ioPc \in {"loop", "count", "take", "end"}
  BY DEF RingTypeOK
<1>2. k \in 0..size
  BY <1>1, MaskBounds
<1>3. size' = size /\ k' = k /\ UNCHANGED <<maxSent, pulling, rxHead, batch, pulled, txTail, pushed>>
  BY DEF IoEmulator, Flush, Count, Take, Leave, TimeUp, pullVars, pushVars
<1> HIDE DEF k
<1>4. /\ batch \in Seq(0..(2 * size - 1)) /\ pulled \in Nat /\ pushed \in Nat
      /\ pulling \in {"copies", "slices", "low"}
  BY DEF RingTypeOK
<1>5. CASE Flush
  <2>1. /\ nSent' \in nSent..maxSent /\ ioPc' = "count"
        /\ rxTail' = IF nSent' > nSent THEN nSent' % size ELSE rxTail
        /\ UNCHANGED <<late, nReceived, due, seen, txHead>>
    BY <1>5 DEF Flush
  <2>2. nSent' \in Nat /\ nSent' \in 0..maxSent
    BY <1>1, <2>1
  <2>3. rxTail' \in 0..(size - 1)
    BY <1>1, <2>1, <2>2, Rounds
  <2> QED BY <1>1, <1>3, <1>4, <2>1, <2>2, <2>3 DEF RingTypeOK, k
<1>6. CASE Count
  <2>1. /\ due' = (IF txTail < txHead THEN txTail - txHead + size ELSE txTail - txHead)
        /\ ioPc' \in {"take", "loop"} /\ seen' \in {txTail, seen}
        /\ UNCHANGED <<late, nSent, nReceived, rxTail, txHead>>
    BY <1>6 DEF Count
  <2>2. due' \in 0..size /\ seen' \in 0..k
    BY <1>1, <1>2, <2>1
  <2> QED BY <1>1, <1>3, <1>4, <2>1, <2>2 DEF RingTypeOK, k
<1>7. CASE Take
  <2>1. /\ txHead' \in {seen, txTail} /\ nReceived' = nReceived + due /\ ioPc' = "loop"
        /\ due' = 0 /\ seen' = 0 /\ UNCHANGED <<late, nSent, rxTail>>
    BY <1>7 DEF Take
  <2>2. txHead' \in 0..k /\ nReceived' \in Nat /\ due' \in 0..size /\ seen' \in 0..k
    BY <1>1, <1>2, <2>1
  <2> QED BY <1>1, <1>3, <1>4, <2>1, <2>2 DEF RingTypeOK, k
<1>8. CASE Leave \/ TimeUp
  <2>1. /\ ioPc' \in {ioPc, "end"} /\ late' \in BOOLEAN
        /\ UNCHANGED <<nSent, nReceived, due, seen, rxTail, txHead>>
    BY <1>1, <1>8 DEF Leave, TimeUp
  <2> QED BY <1>1, <1>3, <1>4, <2>1 DEF RingTypeOK, k
<1> QED BY <1>5, <1>6, <1>7, <1>8 DEF IoEmulator

\* A slice of n positions from the head lies before 2 * size.
LEMMA SliceType ==
  ASSUME NEW s \in Nat, NEW first \in Nat, NEW n \in Nat, first + n <= 2 * s
  PROVE  Consecutive(first, n) \in Seq(0..(2 * s - 1)) /\ Len(Consecutive(first, n)) = n
BY DEF Consecutive

\* The steps of the worker.
LEMMA WorkerRingTypes ==
  ASSUME RingTypeOK, PullPackets \/ PushPackets
  PROVE  RingTypeOK'
<1> DEFINE k == MaskOf(size)
           P == 0..(2 * size - 1)
<1>1. /\ size \in Nat \ {0} /\ rxTail \in 0..(size - 1) /\ rxHead \in 0..size /\ rxHead \in Nat
      /\ PktBatch \in Nat
  BY RingAssumption DEF RingTypeOK
<1>2. k \in 0..size
  BY <1>1, MaskBounds
<1>3. batch \in Seq(P) /\ Len(batch) \in Nat /\ pulled \in Nat /\ pushed \in Nat /\ txTail \in Nat
  <2>1. batch \in Seq(P) /\ pulled \in Nat /\ pushed \in Nat /\ txTail \in 0..k
    BY DEF RingTypeOK
  <2> HIDE DEF P, k
  <2> QED BY <1>2, <2>1
<1>4. CASE PullPackets
  <2>1. UNCHANGED <<size, maxSent, pulling, ioVars, pushVars>> /\ pulled' = pulled + Len(batch')
    BY <1>4 DEF PullPackets
  <2>2. CASE PullCopies
    <3> DEFINE wraps == rxTail < rxHead
               u == IF wraps THEN LeastOf(PktBatch, size - rxHead) ELSE 0
               f == IF wraps /\ u < PktBatch THEN 0 ELSE rxHead + u
               l == IF f < rxTail THEN LeastOf(PktBatch - u, rxTail - f) ELSE 0
    <3>1. batch' = Consecutive(rxHead, u) \o Consecutive(f, l) /\ rxHead' = f + l
      BY <2>2 DEF PullCopies
    <3>2. size - rxHead \in Nat
      BY <1>1
    <3>3. u \in Nat /\ u <= PktBatch /\ rxHead + u <= size
      BY <1>1, <3>2, LeastOfBounds
    <3> HIDE DEF u
    <3>4. f \in 0..size
      BY <1>1, <3>3
    <3> HIDE DEF f
    <3>5. l \in Nat /\ f + l <= size
      <4>1. CASE f < rxTail
        <5>1. PktBatch - u \in Nat /\ rxTail - f \in Nat
          BY <1>1, <3>3, <3>4, <4>1
        <5>2. l \in Nat /\ l <= rxTail - f
          BY <4>1, <5>1, LeastOfBounds
        <5> HIDE DEF l
        <5> QED BY <1>1, <3>4, <5>2
      <4>2. CASE ~(f < rxTail)
        BY <1>1, <3>4, <4>2
      <4> QED BY <4>1, <4>2
    <3> HIDE DEF l
    <3>6. Consecutive(rxHead, u) \in Seq(P) /\ Consecutive(f, l) \in Seq(P)
      BY <1>1, <3>3, <3>4, <3>5, SliceType
    <3> HIDE DEF P
    <3>7. batch' \in Seq(P) /\ Len(batch') \in Nat
      BY <3>1, <3>6
    <3>8. rxHead' \in 0..size
      BY <1>1, <3>1, <3>4, <3>5
    <3> QED BY <1>3, <2>1, <3>7, <3>8 DEF RingTypeOK, ioVars, pushVars, P
  <2>3. CASE PullSlice \/ PullAcross
    <3>1. PICK n \in Nat : /\ rxHead + n <= 2 * size
                           /\ batch' = Consecutive(rxHead, n) /\ rxHead' = Masked(rxHead + n)
      <4>1. CASE PullSlice
        <5> DEFINE m == IF rxTail < rxHead THEN size - rxHead ELSE rxTail - rxHead
        <5>1. m \in Nat /\ rxHead + m <= size
          BY <1>1
        <5>2. batch' = Consecutive(rxHead, LeastOf(PktBatch, m)) /\ rxHead' = Masked(rxHead + LeastOf(PktBatch, m))
          BY <4>1 DEF PullSlice
        <5> HIDE DEF m
        <5>3. LeastOf(PktBatch, m) \in Nat /\ LeastOf(PktBatch, m) <= m
          BY <1>1, <5>1, LeastOfBounds
        <5>4. rxHead + LeastOf(PktBatch, m) <= 2 * size
          BY <1>1, <5>1, <5>3
        <5> QED BY <5>2, <5>3, <5>4
      <4>2. CASE PullAcross
        <5> DEFINE m == IF rxTail < rxHead THEN rxTail - rxHead + size ELSE rxTail - rxHead
        <5>1. m \in Nat /\ rxHead + m <= 2 * size
          BY <1>1
        <5>2. batch' = Consecutive(rxHead, LeastOf(PktBatch, m)) /\ rxHead' = Masked(rxHead + LeastOf(PktBatch, m))
          BY <4>2 DEF PullAcross
        <5> HIDE DEF m
        <5>3. LeastOf(PktBatch, m) \in Nat /\ LeastOf(PktBatch, m) <= m
          BY <1>1, <5>1, LeastOfBounds
        <5>4. rxHead + LeastOf(PktBatch, m) <= 2 * size
          BY <1>1, <5>1, <5>3
        <5> QED BY <5>2, <5>3, <5>4
      <4> QED BY <2>3, <4>1, <4>2
    <3>2. batch' \in Seq(P) /\ Len(batch') = n
      BY <1>1, <3>1, SliceType
    <3>3. rxHead' \in 0..k
      BY <1>1, <3>1, MaskedBounds
    <3>4. rxHead' \in 0..size
      BY <1>1, <1>2, <3>3
    <3> HIDE DEF P
    <3> QED BY <1>3, <2>1, <3>2, <3>4 DEF RingTypeOK, ioVars, pushVars, P
  <2> QED BY <1>4, <2>2, <2>3 DEF PullPackets
<1>5. CASE PushPackets
  <2>1. /\ txTail' = Masked(txTail + Len(batch)) /\ pushed' = pushed + Len(batch) /\ batch' = <<>>
        /\ UNCHANGED <<size, maxSent, pulling, ioVars, rxHead, pulled>>
    BY <1>5 DEF PushPackets
  <2>2. txTail + Len(batch) \in Nat
    BY <1>3
  <2>3. txTail' \in 0..k
    BY <1>1, <2>1, <2>2, MaskedBounds
  <2>4. pushed' \in Nat /\ batch' \in Seq(P)
    BY <1>3, <2>1
  <2> QED BY <2>1, <2>3, <2>4 DEF RingTypeOK, ioVars
<1> QED BY <1>4, <1>5

\* Every step of the emulation keeps the rings' types.
LEMMA NextRingTypes ==
  ASSUME RingTypeOK, [Next]_vars
  PROVE  RingTypeOK'
<1>1. CASE UNCHANGED ringVars
  BY <1>1 DEF RingTypeOK, ringVars, ioVars, pullVars, pushVars
<1>2. CASE IoEmulator \/ TimeUp
  BY <1>2, IoRingTypes
<1>3. CASE PullPackets \/ PushPackets
  BY <1>3, WorkerRingTypes
<1> QED
  BY <1>1, <1>2, <1>3 DEF Next, vars, Worker, Loop, WantUpdates, WantFibUpdates, ApplyNext, Crash,
     WantPackets, Push, Finish, Stop, Joined, Packets, Clock, Feed, WhenAlive

-----------------------------------------------------------------------------
(***************************************************************************)
(* Proofs about the emulation, for every update file, buffer, batch and    *)
(* traffic.  The worker applies the updates of the feed in order and once, *)
(* although it shares the buffer with the emulator without a lock; it      *)
(* pulls the buffer of a forwarding table in order and never ahead of      *)
(* time, although the tail only takes two positions; and every variable    *)
(* keeps its type.                                                         *)
(***************************************************************************)

\* How many slots are written: in a build that moves the tail first, the
\* last one before the tail may not be yet.
Written == IF tailFirst /\ half THEN bufferTail - 1 ELSE bufferTail

FeedTyped ==
  /\ tailFirst \in BOOLEAN /\ half \in BOOLEAN
  /\ slots \in [0..(MaxUpdates - 1) -> Updates \cup {Unwritten}]
  /\ bufferHead \in Nat /\ bufferTail \in Nat /\ bufferHead <= bufferTail
  /\ bufferTail <= BufferEnd
  /\ stored \in [Kinds -> Nat]
  /\ half => /\ feedPc \in Kinds
             /\ IF tailFirst THEN bufferTail > 0 ELSE bufferTail < BufferEnd

\* The emulator fills the buffer from the start, each slot once, and the
\* updates of one kind in their order.
SlotsFilled ==
  /\ \A i \in 0..(Written - 1) :
       /\ slots[i] \in Updates
       /\ slots[i][2] < stored[slots[i][1]]
  /\ \A i, j \in 0..(Written - 1) :
       (i < j /\ slots[i][1] = slots[j][1]) => slots[i][2] < slots[j][2]
  /\ \A i \in 0..(MaxUpdates - 1) :
       i >= Written => \/ slots[i] = Unwritten
                       \/ ~tailFirst /\ half /\ i = bufferTail
  /\ (half /\ ~tailFirst) => slots[bufferTail] = <<feedPc, stored[feedPc]>>

\* What the worker has applied is what lies before the head, save for the
\* rest of the batch it is working on.
WorkerInStep ==
  /\ applied \in Seq(Updates \cup {Unwritten})
  /\ at \in Nat /\ nUpdates \in Nat /\ updates \in Nat \cup {Null}
  /\ IF pc = "apply" /\ updates # Null
     THEN /\ updates + nUpdates = bufferHead
          /\ Len(applied) = updates + at
          /\ at <= nUpdates
     ELSE Len(applied) = bufferHead

AppliedFromSlots ==
  \A i \in 1..Len(applied) :
    applied[i] = slots[i - 1] \/ (tailFirst /\ applied[i] = Unwritten)

FeedInv == FeedTyped /\ SlotsFilled /\ WorkerInStep /\ AppliedFromSlots

-----------------------------------------------------------------------------
(***************************************************************************)
(* The bounds of the buffer and of a batch.                                *)
(***************************************************************************)

\* The emulator's end of the buffer is within the buffer.
LEMMA BufferEndBound == BufferEnd \in Nat /\ BufferEnd <= MaxUpdates
<1>1. MaxInsertions + MaxDeletions \in Nat /\ MaxUpdates \in Nat
  BY FeedAssumption
<1> QED BY <1>1, LeastOfBounds DEF BufferEnd

\* The slots that are written are slots of the buffer.
LEMMA WrittenBound ==
  ASSUME FeedTyped
  PROVE  /\ Written \in Nat /\ Written <= MaxUpdates
         /\ Written <= bufferTail /\ bufferTail <= Written + 1
         /\ (~tailFirst \/ ~half) => Written = bufferTail
         /\ (tailFirst /\ half) => Written = bufferTail - 1
BY BufferEndBound, FeedAssumption DEF FeedTyped, Written

-----------------------------------------------------------------------------
(***************************************************************************)
(* The initial states, and the steps that leave the feed alone.            *)
(***************************************************************************)

LEMMA InitFeed == Init => FeedInv
<1> SUFFICES ASSUME Init PROVE FeedInv
  OBVIOUS
<1>1. /\ bufferHead = 0 /\ bufferTail = 0 /\ half = FALSE /\ tailFirst \in BOOLEAN
      /\ slots = [i \in 0..(MaxUpdates - 1) |-> Unwritten]
      /\ stored = [kind \in Kinds |-> 0]
      /\ updates = Null /\ nUpdates \in Nat /\ applied = <<>>
      /\ pc = "loop" /\ at = 0
  BY DEF Init, FeedInit
<1>2. FeedTyped
  <2>1. slots \in [0..(MaxUpdates - 1) -> Updates \cup {Unwritten}]
    BY <1>1
  <2>2. stored \in [Kinds -> Nat]
    BY <1>1
  <2>3. bufferTail <= BufferEnd
    BY <1>1, BufferEndBound
  <2>4. tailFirst \in BOOLEAN /\ half \in BOOLEAN /\ ~half
    BY <1>1
  <2>5. bufferHead \in Nat /\ bufferTail \in Nat /\ bufferHead <= bufferTail
    BY <1>1
  <2> QED BY ONLY <2>1, <2>2, <2>3, <2>4, <2>5 DEF FeedTyped
<1>3. Written = 0
  BY <1>1 DEF Written
<1>4. SlotsFilled
  BY <1>1, <1>3 DEF SlotsFilled
<1>5. WorkerInStep /\ AppliedFromSlots
  BY <1>1 DEF WorkerInStep, AppliedFromSlots
<1> QED BY <1>2, <1>4, <1>5 DEF FeedInv

\* The worker goes on without touching the feed: it may leave the batch only
\* when the batch is done or there was none.
LEMMA FeedUntouched ==
  ASSUME FeedInv, UNCHANGED <<updVars, at>>,
         \/ pc' = pc
         \/ /\ pc' # "apply"
            /\ pc = "apply" => updates = Null \/ at >= nUpdates
  PROVE  FeedInv'
<1>1. /\ UNCHANGED <<tailFirst, half, slots, bufferHead, bufferTail, stored, feedPc>>
      /\ UNCHANGED <<updates, nUpdates, applied, at>>
  BY DEF updVars, feedVars, wantVars
<1>2. FeedTyped'
  BY <1>1 DEF FeedInv, FeedTyped
<1>3. Written' = Written
  BY <1>1 DEF Written
<1>4. SlotsFilled'
  BY <1>1, <1>3 DEF FeedInv, SlotsFilled
<1>5. AppliedFromSlots'
  BY <1>1 DEF FeedInv, AppliedFromSlots
<1>6. WorkerInStep'
  BY <1>1 DEF FeedInv, FeedTyped, WorkerInStep, Null
<1> QED BY <1>2, <1>4, <1>5, <1>6 DEF FeedInv

-----------------------------------------------------------------------------
(***************************************************************************)
(* The steps of the emulator.                                              *)
(***************************************************************************)

\* What the emulator leaves alone, and the worker's place in its batch.
LEMMA WorkerUntouched ==
  ASSUME WorkerInStep, UNCHANGED <<applied, bufferHead, updates, nUpdates, at, pc>>
  PROVE  WorkerInStep'
BY DEF WorkerInStep, Null

LEMMA TurnFeed ==
  ASSUME FeedInv, UNCHANGED workerVars,
         \/ Turn \/ RequestStop \/ Spin
         \/ \E kind \in Kinds : Enough(kind)
  PROVE  FeedInv'
<1>1. ~half
  BY DEF FeedInv, FeedTyped, Turn, RequestStop, Spin, Enough, Kinds
<1>2. /\ UNCHANGED <<tailFirst, half, slots, bufferTail, stored, applied>>
      /\ UNCHANGED <<bufferHead, updates, nUpdates, at, pc>>
  BY DEF Turn, RequestStop, Spin, Enough, wantVars, workerVars
<1>3. FeedTyped'
  BY <1>1, <1>2 DEF FeedInv, FeedTyped
<1>4. Written' = Written
  BY <1>2 DEF Written
<1>5. SlotsFilled'
  BY <1>1, <1>2, <1>4 DEF FeedInv, SlotsFilled
<1>6. AppliedFromSlots'
  BY <1>2 DEF FeedInv, AppliedFromSlots
<1> QED BY <1>2, <1>3, <1>5, <1>6, WorkerUntouched DEF FeedInv

\* The first half of a store: the tail moves, or the slot behind it is filled.
LEMMA StoreFeed ==
  ASSUME FeedInv, UNCHANGED workerVars, NEW kind \in Kinds, Store(kind)
  PROVE  FeedInv'
<1>1. /\ ~half /\ half' = TRUE /\ feedPc = kind /\ bufferTail < BufferEnd
      /\ IF tailFirst THEN bufferTail' = bufferTail + 1 /\ slots' = slots
         ELSE slots' = [slots EXCEPT ![bufferTail] = <<kind, stored[kind]>>] /\ bufferTail' = bufferTail
      /\ UNCHANGED <<tailFirst, feedPc, stored, bufferHead, updates, nUpdates, applied, at, pc>>
  BY DEF Store, wantVars, workerVars
<1>2. /\ bufferTail \in 0..(MaxUpdates - 1) /\ BufferEnd \in Nat /\ BufferEnd <= MaxUpdates
      /\ MaxUpdates \in Nat /\ stored[kind] \in Nat
  BY <1>1, BufferEndBound, FeedAssumption DEF FeedInv, FeedTyped
<1>3. <<kind, stored[kind]>> \in Updates
  BY <1>2 DEF Updates
<1>4. FeedTyped'
  <2>1. slots' \in [0..(MaxUpdates - 1) -> Updates \cup {Unwritten}]
    BY <1>1, <1>3 DEF FeedInv, FeedTyped
  <2>2. /\ bufferTail' \in Nat /\ bufferHead' \in Nat /\ bufferHead' <= bufferTail'
        /\ bufferTail' <= BufferEnd
        /\ IF tailFirst' THEN bufferTail' > 0 ELSE bufferTail' < BufferEnd
    BY <1>1, <1>2 DEF FeedInv, FeedTyped
  <2>3. /\ tailFirst' \in BOOLEAN /\ half' \in BOOLEAN /\ feedPc' \in Kinds
        /\ stored' \in [Kinds -> Nat]
    BY <1>1 DEF FeedInv, FeedTyped
  <2> QED BY <2>1, <2>2, <2>3 DEF FeedTyped, BufferEnd
<1>5. /\ Written = bufferTail /\ Written' = Written
      /\ \A i \in 0..(MaxUpdates - 1) : i # bufferTail => slots'[i] = slots[i]
      /\ tailFirst => slots' = slots
      /\ ~tailFirst => slots'[bufferTail] = <<kind, stored[kind]>>
  <2>1. Written = bufferTail /\ Written' = Written
    BY <1>1, <1>2 DEF Written
  <2>2. slots \in [0..(MaxUpdates - 1) -> Updates \cup {Unwritten}]
    BY DEF FeedInv, FeedTyped
  <2> QED BY <1>1, <1>2, <2>1, <2>2
<1>6. SlotsFilled'
  <2>1. \A i \in 0..(Written - 1) : i \in 0..(MaxUpdates - 1) /\ slots'[i] = slots[i]
    BY <1>2, <1>5
  <2>2. \A i \in 0..(Written' - 1) : slots'[i] \in Updates /\ slots'[i][2] < stored'[slots'[i][1]]
    BY <1>1, <1>5, <2>1 DEF FeedInv, SlotsFilled
  <2>3. \A i, j \in 0..(Written' - 1) :
          (i < j /\ slots'[i][1] = slots'[j][1]) => slots'[i][2] < slots'[j][2]
    BY <1>5, <2>1 DEF FeedInv, SlotsFilled
  <2>4. \A i \in 0..(MaxUpdates - 1) :
          i >= Written' => slots'[i] = Unwritten \/ (~tailFirst' /\ half' /\ i = bufferTail')
    <3> SUFFICES ASSUME NEW i \in 0..(MaxUpdates - 1), i >= Written
                 PROVE  slots'[i] = Unwritten \/ (~tailFirst /\ i = bufferTail)
      BY <1>1, <1>5
    <3>1. slots[i] = Unwritten
      BY <1>1 DEF FeedInv, SlotsFilled
    <3> QED BY <1>5, <3>1
  <2>5. ~tailFirst' => slots'[bufferTail'] = <<feedPc', stored'[feedPc']>>
    BY <1>1, <1>5
  <2> QED BY <1>1, <2>2, <2>3, <2>4, <2>5 DEF SlotsFilled
<1>7. AppliedFromSlots'
  <2> SUFFICES ASSUME NEW i \in 1..Len(applied)
               PROVE  applied[i] = slots'[i - 1] \/ (tailFirst /\ applied[i] = Unwritten)
    BY <1>1 DEF AppliedFromSlots
  <2>1. Len(applied) <= bufferHead /\ Len(applied) \in Nat
    BY DEF FeedInv, FeedTyped, WorkerInStep
  <2>2. i - 1 \in 0..(MaxUpdates - 1) /\ i - 1 # bufferTail
    BY <1>2, <2>1 DEF FeedInv, FeedTyped
  <2> QED BY <1>5, <2>2 DEF FeedInv, AppliedFromSlots
<1>8. WorkerInStep'
  BY <1>1, WorkerUntouched DEF FeedInv
<1> QED BY <1>4, <1>6, <1>7, <1>8 DEF FeedInv

\* The second half: the slot before the tail is filled, or the tail moves.
LEMMA FinishStoreFeed ==
  ASSUME FeedInv, UNCHANGED workerVars, NEW kind \in Kinds, FinishStore(kind)
  PROVE  FeedInv'
<1>1. /\ half /\ half' = FALSE /\ feedPc = kind
      /\ stored' = [stored EXCEPT ![kind] = @ + 1]
      /\ IF tailFirst
         THEN slots' = [slots EXCEPT ![bufferTail - 1] = <<kind, stored[kind]>>] /\ bufferTail' = bufferTail
         ELSE bufferTail' = bufferTail + 1 /\ slots' = slots
      /\ UNCHANGED <<tailFirst, feedPc, bufferHead, updates, nUpdates, applied, at, pc>>
  BY DEF FinishStore, wantVars, workerVars
<1>2. /\ BufferEnd \in Nat /\ BufferEnd <= MaxUpdates /\ MaxUpdates \in Nat
      /\ stored \in [Kinds -> Nat] /\ stored[kind] \in Nat
      /\ tailFirst => bufferTail - 1 \in 0..(MaxUpdates - 1)
      /\ ~tailFirst => bufferTail < BufferEnd /\ bufferTail \in 0..(MaxUpdates - 1)
      /\ slots \in [0..(MaxUpdates - 1) -> Updates \cup {Unwritten}]
  BY <1>1, BufferEndBound, FeedAssumption DEF FeedInv, FeedTyped
<1>3. <<kind, stored[kind]>> \in Updates
  BY <1>2 DEF Updates
<1>4. /\ Written \in 0..(MaxUpdates - 1) /\ Written' = Written + 1 /\ bufferTail' = Written + 1
      /\ Written = IF tailFirst THEN bufferTail - 1 ELSE bufferTail
  BY <1>1, <1>2 DEF Written, FeedInv, FeedTyped
<1>5. /\ \A i \in 0..(MaxUpdates - 1) : i # Written => slots'[i] = slots[i]
      /\ slots'[Written] = <<kind, stored[kind]>>
      /\ slots' \in [0..(MaxUpdates - 1) -> Updates \cup {Unwritten}]
  <2>1. CASE tailFirst
    BY <1>1, <1>2, <1>3, <1>4, <2>1
  <2>2. CASE ~tailFirst
    <3>1. slots' = slots /\ Written = bufferTail
      BY <1>1, <1>4, <2>2
    <3>2. slots[bufferTail] = <<kind, stored[kind]>>
      BY <1>1, <2>2 DEF FeedInv, SlotsFilled
    <3> QED BY <1>2, <3>1, <3>2
  <2> QED BY <2>1, <2>2
<1>6. /\ stored' \in [Kinds -> Nat] /\ stored'[kind] = stored[kind] + 1
      /\ \A k \in Kinds : stored[k] <= stored'[k]
  BY <1>1, <1>2
<1>7. FeedTyped'
  <2>1. bufferTail' \in Nat /\ bufferHead' \in Nat /\ bufferHead' <= bufferTail' /\ bufferTail' <= BufferEnd
    BY <1>1, <1>2 DEF FeedInv, FeedTyped
  <2>2. tailFirst' \in BOOLEAN /\ half' \in BOOLEAN /\ ~half'
    BY <1>1 DEF FeedInv, FeedTyped
  <2> QED BY <1>5, <1>6, <2>1, <2>2 DEF FeedTyped, BufferEnd
<1>8. SlotsFilled'
  <2>1. \A i \in 0..(Written - 1) : /\ i \in 0..(MaxUpdates - 1) /\ slots'[i] = slots[i]
                                    /\ slots[i] \in Updates /\ slots[i][2] < stored[slots[i][1]]
    <3> SUFFICES ASSUME NEW i \in 0..(Written - 1)
                 PROVE  /\ i \in 0..(MaxUpdates - 1) /\ slots'[i] = slots[i]
                        /\ slots[i] \in Updates /\ slots[i][2] < stored[slots[i][1]]
      OBVIOUS
    <3>1. i \in 0..(MaxUpdates - 1) /\ i # Written
      BY <1>2, <1>4
    <3>2. slots'[i] = slots[i]
      BY <1>5, <3>1
    <3>3. slots[i] \in Updates /\ slots[i][2] < stored[slots[i][1]]
      BY DEF FeedInv, SlotsFilled
    <3> QED BY <3>1, <3>2, <3>3
  <2>2. \A u \in Updates : u[1] \in Kinds /\ u[2] \in Nat
    BY DEF Updates
  <2>3. ASSUME NEW i \in 0..(Written' - 1)
        PROVE  slots'[i] \in Updates /\ slots'[i][2] < stored'[slots'[i][1]]
    <3>1. CASE i = Written
      <4>1. slots'[i] = <<kind, stored[kind]>> /\ slots'[i] \in Updates
        BY <1>3, <1>5, <3>1
      <4>2. slots'[i][1] = kind /\ slots'[i][2] = stored[kind]
        BY <4>1
      <4>3. stored[kind] < stored'[kind]
        BY <1>2, <1>6
      <4> QED BY <4>1, <4>2, <4>3
    <3>2. CASE i # Written
      <4>1. i \in 0..(Written - 1)
        BY <1>4, <3>2
      <4> QED BY <1>2, <1>6, <2>1, <2>2, <4>1
    <3> QED BY <3>1, <3>2
  <2>4. ASSUME NEW i \in 0..(Written' - 1), NEW j \in 0..(Written' - 1),
               i < j, slots'[i][1] = slots'[j][1]
        PROVE  slots'[i][2] < slots'[j][2]
    <3>1. i \in 0..(Written - 1)
      BY <1>4, <2>4
    <3>2. CASE j = Written
      <4>1. slots'[j] = <<kind, stored[kind]>>
        BY <1>5, <3>2
      <4>2. slots[i][1] = kind /\ slots[i][2] < stored[kind]
        BY <2>1, <2>4, <3>1, <4>1
      <4> QED BY <2>1, <3>1, <4>1, <4>2
    <3>3. CASE j # Written
      <4>1. j \in 0..(Written - 1)
        BY <1>4, <3>3
      <4> QED BY <2>1, <2>4, <3>1, <4>1 DEF FeedInv, SlotsFilled
    <3> QED BY <3>2, <3>3
  <2>5. ASSUME NEW i \in 0..(MaxUpdates - 1), i >= Written' PROVE slots'[i] = Unwritten
    <3>1. i > Written /\ i # Written
      BY <1>4, <2>5
    <3>2. slots[i] = Unwritten
      BY <1>4, <3>1, <2>5 DEF FeedInv, SlotsFilled
    <3> QED BY <1>5, <3>1, <3>2
  <2>6. ~half'
    BY <1>1
  <2> QED BY <2>3, <2>4, <2>5, <2>6 DEF SlotsFilled
<1>9. AppliedFromSlots'
  <2> SUFFICES ASSUME NEW i \in 1..Len(applied)
               PROVE  applied[i] = slots'[i - 1] \/ (tailFirst /\ applied[i] = Unwritten)
    BY <1>1 DEF AppliedFromSlots
  <2>1. Len(applied) <= bufferHead /\ Len(applied) \in Nat
    BY DEF FeedInv, FeedTyped, WorkerInStep
  <2>2. i - 1 \in 0..(MaxUpdates - 1) /\ i - 1 < bufferTail
    BY <1>2, <2>1 DEF FeedInv, FeedTyped
  <2>3. applied[i] = slots[i - 1] \/ (tailFirst /\ applied[i] = Unwritten)
    BY DEF FeedInv, AppliedFromSlots
  <2>4. CASE i - 1 # Written
    BY <1>5, <2>2, <2>3, <2>4
  <2>5. CASE i - 1 = Written
    <3>1. tailFirst
      BY <1>4, <2>2, <2>5
    <3>2. slots[Written] = Unwritten
      BY <1>4, <3>1 DEF FeedInv, SlotsFilled
    <3> QED BY <2>3, <2>5, <3>1, <3>2
  <2> QED BY <2>4, <2>5
<1>10. WorkerInStep'
  BY <1>1, WorkerUntouched DEF FeedInv
<1> QED BY <1>7, <1>8, <1>9, <1>10 DEF FeedInv

-----------------------------------------------------------------------------
(***************************************************************************)
(* The steps of the worker.                                                *)
(***************************************************************************)

LEMMA WantUpdatesFeed ==
  ASSUME FeedInv, WantUpdates
  PROVE  FeedInv'
<1>1. /\ pc = "pull updates" /\ pc' = "apply" /\ at' = 0
      /\ UNCHANGED <<tailFirst, feedPc, stored, half, slots, bufferTail, applied>>
      /\ IF bufferHead >= bufferTail
         THEN updates' = Null /\ UNCHANGED <<nUpdates, bufferHead>>
         ELSE /\ updates' = bufferHead
              /\ nUpdates' = LeastOf(UpdBatch, bufferTail - bufferHead)
              /\ bufferHead' = bufferHead + nUpdates'
  BY DEF WantUpdates, PullUpdates, feedVars
<1>2. /\ bufferHead \in Nat /\ bufferTail \in Nat /\ bufferHead <= bufferTail
      /\ Len(applied) = bufferHead /\ nUpdates \in Nat
  BY <1>1 DEF FeedInv, FeedTyped, WorkerInStep
<1>3. /\ nUpdates' \in Nat /\ bufferHead' \in Nat /\ bufferHead' <= bufferTail
      /\ updates' # Null => updates' = bufferHead /\ updates' + nUpdates' = bufferHead'
      /\ updates' = Null => bufferHead' = bufferHead
      /\ updates' \in Nat \cup {Null}
  <2>1. CASE bufferHead >= bufferTail
    BY <1>1, <1>2, <2>1
  <2>2. CASE ~(bufferHead >= bufferTail)
    <3>1. bufferTail - bufferHead \in Nat /\ UpdBatch \in Nat
      BY <1>2, <2>2, FeedAssumption
    <3>2. nUpdates' \in Nat /\ nUpdates' <= bufferTail - bufferHead
      BY <1>1, <2>2, <3>1, LeastOfBounds
    <3>3. updates' = bufferHead /\ bufferHead' = bufferHead + nUpdates'
      BY <1>1, <2>2
    <3>4. updates' # Null
      BY <1>2, <3>3 DEF Null
    <3>5. bufferHead' \in Nat /\ bufferHead' <= bufferTail
      <4>1. \A h, t, n \in Nat : n <= t - h => h + n \in Nat /\ h + n <= t
        OBVIOUS
      <4> QED BY <1>2, <3>2, <3>3, <4>1
    <3>6. updates' \in Nat \cup {Null}
      BY <1>2, <3>3
    <3>7. updates' + nUpdates' = bufferHead'
      BY <3>3
    <3> QED BY <3>2, <3>3, <3>4, <3>5, <3>6, <3>7
  <2> QED BY <2>1, <2>2
<1>4. FeedTyped'
  BY <1>1, <1>3 DEF FeedInv, FeedTyped
<1>5. SlotsFilled'
  <2>1. Written' = Written
    BY <1>1 DEF Written
  <2> QED BY <1>1, <2>1 DEF FeedInv, SlotsFilled
<1>6. AppliedFromSlots'
  BY <1>1 DEF FeedInv, AppliedFromSlots
<1>7. WorkerInStep'
  <2>1. at' \in Nat /\ at' = 0 /\ pc' = "apply" /\ applied' = applied
    BY <1>1
  <2>2. applied \in Seq(Updates \cup {Unwritten})
    BY DEF FeedInv, WorkerInStep
  <2>3. CASE updates' = Null
    BY <1>2, <1>3, <2>1, <2>2, <2>3 DEF WorkerInStep
  <2>4. CASE updates' # Null
    <3>1. updates' = bufferHead /\ updates' + nUpdates' = bufferHead'
      BY <1>3, <2>4
    <3>2. Len(applied') = updates' + at' /\ at' <= nUpdates'
      BY <1>2, <1>3, <2>1, <3>1
    <3> QED BY <1>3, <2>1, <2>2, <2>4, <3>1, <3>2 DEF WorkerInStep
  <2> QED BY <2>3, <2>4
<1> QED BY <1>4, <1>5, <1>6, <1>7 DEF FeedInv

LEMMA ApplyFeed ==
  ASSUME FeedInv, ApplyNext
  PROVE  FeedInv'
<1>1. /\ pc = "apply" /\ at < nUpdates /\ updates # Null
      /\ applied' = Append(applied, slots[updates + at]) /\ at' = at + 1
      /\ UNCHANGED <<tailFirst, feedPc, stored, half, slots, bufferTail, bufferHead, updates, nUpdates, pc>>
  BY DEF ApplyNext, Apply, feedVars, wantVars
<1>2. /\ at \in Nat /\ nUpdates \in Nat /\ updates \in Nat /\ bufferHead \in Nat
      /\ updates + nUpdates = bufferHead /\ Len(applied) = updates + at
      /\ bufferHead <= bufferTail /\ bufferTail <= BufferEnd
      /\ applied \in Seq(Updates \cup {Unwritten})
  BY <1>1 DEF FeedInv, FeedTyped, WorkerInStep
<1>3. slots[updates + at] \in Updates \cup {Unwritten}
  <2>1. updates + at \in 0..(MaxUpdates - 1)
    BY <1>1, <1>2, BufferEndBound, FeedAssumption DEF FeedInv, FeedTyped
  <2> QED BY <2>1 DEF FeedInv, FeedTyped
<1>4. /\ applied' \in Seq(Updates \cup {Unwritten})
      /\ Len(applied') = Len(applied) + 1
      /\ \A i \in 1..Len(applied) : applied'[i] = applied[i]
      /\ applied'[Len(applied) + 1] = slots[Len(applied)]
  BY <1>1, <1>2, <1>3
<1>5. FeedTyped'
  BY <1>1 DEF FeedInv, FeedTyped
<1>6. SlotsFilled'
  <2>1. Written' = Written
    BY <1>1 DEF Written
  <2> QED BY <1>1, <2>1 DEF FeedInv, SlotsFilled
<1>7. AppliedFromSlots'
  <2> SUFFICES ASSUME NEW i \in 1..(Len(applied) + 1)
               PROVE  applied'[i] = slots[i - 1] \/ (tailFirst /\ applied'[i] = Unwritten)
    BY <1>1, <1>4 DEF AppliedFromSlots
  <2>1. CASE i \in 1..Len(applied)
    BY <1>4, <2>1 DEF FeedInv, AppliedFromSlots
  <2>2. CASE i = Len(applied) + 1
    BY <1>2, <1>4, <2>2
  <2> QED BY <1>2, <2>1, <2>2
<1>8. WorkerInStep'
  BY <1>1, <1>2, <1>4 DEF WorkerInStep
<1> QED BY <1>5, <1>6, <1>7, <1>8 DEF FeedInv

\* Every step of the emulation keeps the feed in order.
LEMMA FeedStep ==
  ASSUME FeedInv, [Next]_vars
  PROVE  FeedInv'
<1>1. CASE Worker
  <2>1. CASE WantUpdates
    BY <2>1, WantUpdatesFeed
  <2>2. CASE ApplyNext
    BY <2>2, ApplyFeed
  <2>3. CASE Loop \/ WantFibUpdates \/ Push \/ Finish
    <3>1. UNCHANGED <<updVars, at>> /\ pc # "apply" /\ pc' # "apply"
      BY <2>3 DEF Loop, WantFibUpdates, Push, Finish, Stop, Joined
    <3> QED BY <3>1, FeedUntouched
  <2>4. CASE Crash \/ WantPackets
    <3>1. /\ UNCHANGED <<updVars, at>> /\ pc' # "apply"
          /\ pc = "apply" => updates = Null \/ at >= nUpdates
      BY <2>4 DEF Crash, WantPackets
    <3> QED BY <3>1, FeedUntouched
  <2> QED BY <1>1, <2>1, <2>2, <2>3, <2>4 DEF Worker
<1>2. CASE Packets \/ Clock
  <2>1. UNCHANGED <<updVars, at, pc>>
    BY <1>2 DEF Packets, Clock, WhenAlive, workerVars
  <2> QED BY <2>1, FeedUntouched
<1>3. CASE Feed
  <2>1. \/ UpdateEmulator /\ UNCHANGED workerVars
        \/ UNCHANGED <<updVars, at, pc>>
    BY <1>3 DEF Feed, WhenAlive, workerVars
  <2>2. CASE UNCHANGED <<updVars, at, pc>>
    BY <2>2, FeedUntouched
  <2>3. CASE UpdateEmulator /\ UNCHANGED workerVars
    BY <2>3, TurnFeed, StoreFeed, FinishStoreFeed DEF UpdateEmulator
  <2> QED BY <2>1, <2>2, <2>3
<1>4. CASE UNCHANGED vars
  <2>1. UNCHANGED <<updVars, at, pc>>
    BY <1>4 DEF vars, workerVars
  <2> QED BY <2>1, FeedUntouched
<1> QED BY <1>1, <1>2, <1>3, <1>4 DEF Next

\* What the worker has applied stands in the slots, which hold the updates of
\* each kind in their order.
LEMMA FeedImplies == FeedInv => AppliedInOrder
<1> SUFFICES ASSUME FeedInv PROVE AppliedInOrder
  OBVIOUS
<1>1. Len(applied) \in Nat /\ Len(applied) <= bufferHead
  BY DEF FeedInv, FeedTyped, WorkerInStep
<1>2. ASSUME NEW i \in DOMAIN applied, NEW j \in DOMAIN applied,
             i < j, applied[i] # Unwritten, applied[i][1] = applied[j][1]
      PROVE  applied[i][2] < applied[j][2]
  <2>1. i \in 1..Len(applied) /\ j \in 1..Len(applied)
    BY DEF FeedInv, WorkerInStep
  <2>2. applied[i] = slots[i - 1] /\ (applied[j] = slots[j - 1] \/ applied[j] = Unwritten)
    BY <1>2, <2>1 DEF FeedInv, AppliedFromSlots
  <2>3. /\ i - 1 \in 0..(Written - 1) /\ j - 1 \in 0..Written /\ j - 1 \in 0..(MaxUpdates - 1)
        /\ j - 1 = Written => tailFirst
    BY <1>1, <1>2, <2>1, WrittenBound, BufferEndBound, FeedAssumption DEF FeedInv, FeedTyped
  <2>4. slots[i - 1] \in Updates
    BY <2>3 DEF FeedInv, SlotsFilled
  <2>5. applied[j] # Unwritten
    <3>1. applied[i][1] \in Kinds
      BY <2>2, <2>4 DEF Updates
    <3> QED BY <1>2, <3>1 DEF Kinds, Unwritten
  <2>6. j - 1 # Written
    <3>1. j - 1 = Written => slots[j - 1] = Unwritten
      BY <2>3 DEF FeedInv, SlotsFilled
    <3> QED BY <2>2, <2>5, <3>1
  <2>7. j - 1 \in 0..(Written - 1) /\ i - 1 < j - 1
    BY <1>2, <2>1, <2>3, <2>6, WrittenBound DEF FeedInv
  <2>8. slots[i - 1][1] = slots[j - 1][1]
    BY <1>2, <2>2, <2>5
  <2>9. slots[i - 1][2] < slots[j - 1][2]
    BY <2>3, <2>7, <2>8 DEF FeedInv, SlotsFilled
  <2> QED BY <2>2, <2>5, <2>9
<1>3. ASSUME NEW i \in 1..Len(applied), applied[i] = Unwritten PROVE tailFirst
  <2> SUFFICES ASSUME ~tailFirst PROVE FALSE
    OBVIOUS
  <2>1. Written = bufferTail /\ i - 1 \in 0..(Written - 1)
    BY <1>1 DEF FeedInv, FeedTyped, Written
  <2>2. slots[i - 1] \in Updates
    BY <2>1 DEF FeedInv, SlotsFilled
  <2>3. Unwritten \notin Updates
    BY DEF Unwritten, Updates, Kinds
  <2> QED BY <1>3, <2>2, <2>3 DEF FeedInv, AppliedFromSlots
<1> QED BY <1>1, <1>2, <1>3 DEF AppliedInOrder, FeedInv, AppliedFromSlots

\* The worker applies no update of the feed twice and each kind in the order of
\* the file, whatever the build, the sizes and the interleaving of the two
\* threads (dummy-update-manager.cpp:42-57, 94-106).  A build that fills a slot
\* before it moves the tail applies filled slots only; one that moves the tail
\* first may apply a slot that is not written, and loses its update.
THEOREM UpdatesInOrder == Spec => []AppliedInOrder
<1>1. Init => FeedInv
  BY InitFeed
<1>2. FeedInv /\ [Next]_vars => FeedInv'
  BY FeedStep
<1>3. FeedInv => AppliedInOrder
  BY FeedImplies
<1> QED BY <1>1, <1>2, <1>3, PTL DEF Spec

-----------------------------------------------------------------------------
(***************************************************************************)
(* The updates of a forwarding table: what is loaded.                      *)
(***************************************************************************)

Timed == [time : Nat \ {0}, od : Nat]

\* The numbers in a file are naturals, so that what is loaded is a list of
\* updates with the times of the file.
LEMMA NumberedType ==
  ASSUME NEW s \in Seq(Nat \ {0})
  PROVE  Numbered(s) \in Seq(Timed) /\ Len(Numbered(s)) = Len(s)
<1> DEFINE n == Len(s)
           Rec(f) == f = [i \in 0..n |-> IF i > 1 /\ s[i] = s[i - 1] THEN f[i - 1] + 1 ELSE 0]
           step == [i \in 1..n |-> [v \in Nat |-> IF i > 1 /\ s[i] = s[i - 1] THEN v + 1 ELSE 0]]
           od == CHOOSE f : Rec(f)
<1>1. n \in Nat
  OBVIOUS
<1>2. \E f : Rec(f)
  <2>1. \A i \in 1..n : \A v \in Nat : step[i][v] \in Nat
    OBVIOUS
  <2>2. PICK f : f \in Stepwise(n, Nat, 0, step)
    <3>1. 0 \in Nat
      OBVIOUS
    <3> HIDE DEF step, n
    <3> QED BY <1>1, <2>1, <3>1, RecursionUpTo
  <2> HIDE DEF n
  <2>3. ASSUME NEW i \in 1..n PROVE f[i] = IF i > 1 /\ s[i] = s[i - 1] THEN f[i - 1] + 1 ELSE 0
    <3>1. i - 1 \in 0..n /\ f[i - 1] \in Nat
      BY <1>1, <2>2 DEF Stepwise
    <3> QED BY <2>2, <3>1 DEF Stepwise
  <2>4. \A i \in 0..n : i = 0 \/ i \in 1..n
    BY <1>1
  <2>5. Rec(f)
    BY <2>2, <2>3, <2>4 DEF Stepwise
  <2> HIDE DEF Rec
  <2> QED BY <2>5
<1>3. Rec(od)
  <2> HIDE DEF Rec
  <2> QED BY <1>2
<1>4. Numbered(s) = [i \in 1..n |-> [time |-> s[i], od |-> od[i]]]
  BY DEF Numbered
<1> HIDE DEF od
<1>5. \A i \in 0..n : od[i] \in Nat
  <2> DEFINE T == {i \in 0..n : od[i] \in Nat}
  <2>0. od = [i \in 0..n |-> IF i > 1 /\ s[i] = s[i - 1] THEN od[i - 1] + 1 ELSE 0]
    BY <1>3
  <2> HIDE DEF Rec, n
  <2>1. \A i \in 0..n : od[i] = IF i > 1 /\ s[i] = s[i - 1] THEN od[i - 1] + 1 ELSE 0
    BY <2>0
  <2>2. 0 \in T
    BY <1>1, <2>1
  <2>3. ASSUME NEW i \in 0..(n - 1), i \in T PROVE i + 1 \in T
    <3>1. i + 1 \in 0..n /\ (i + 1) - 1 = i /\ od[i] \in Nat
      BY <1>1, <2>3
    <3> QED BY <2>1, <3>1
  <2> HIDE DEF T
  <2>4. \A i \in 0..n : i \in T
    BY <1>1, <2>2, <2>3, UpTo
  <2> QED BY <2>4 DEF T
<1>6. ASSUME NEW i \in 1..n PROVE [time |-> s[i], od |-> od[i]] \in Timed
  <2>1. s[i] \in Nat \ {0} /\ i \in 0..n
    OBVIOUS
  <2> QED BY <1>5, <2>1 DEF Timed
<1> HIDE DEF n
<1>7. Numbered(s) \in [1..n -> Timed]
  BY <1>4, <1>6
<1> QED BY <1>1, <1>7 DEF n

\* The next update is an insertion, after i insertions and d deletions.
InsertionNext(ins, del, i, d) ==
  i < Len(ins) /\ (d = Len(del) \/ isEarlier(ins[i + 1], del[d + 1]))

\* The merge as steps: t[n] insertions and n - t[n] deletions are in the
\* buffer when it has n updates, and those are no more than there are.
LEMMA MergedSteps ==
  ASSUME NEW ins \in Seq(Timed), NEW del \in Seq(Timed)
  PROVE  LET total == Len(ins) + Len(del)
         IN  \E t \in [0..total -> Nat] :
               /\ \A n \in 1..total :
                    t[n] = IF InsertionNext(ins, del, t[n - 1], n - 1 - t[n - 1])
                           THEN t[n - 1] + 1 ELSE t[n - 1]
               /\ \A n \in 0..total : t[n] <= Len(ins) /\ t[n] <= n /\ n - t[n] <= Len(del)
               /\ Merged(ins, del) = [n \in 1..total |-> IF t[n] > t[n - 1] THEN ins[t[n]] ELSE del[n - t[n]]]
<1> DEFINE total == Len(ins) + Len(del)
           next(i, n) == IF InsertionNext(ins, del, i, n - 1 - i) THEN i + 1 ELSE i
           Rec(f) == f = [n \in 0..total |-> IF n = 0 THEN 0 ELSE next(f[n - 1], n)]
           step == [n \in 1..total |-> [v \in Nat |-> next(v, n)]]
           t == CHOOSE f : Rec(f)
<1>1. total \in Nat /\ Len(ins) \in Nat /\ Len(del) \in Nat
  OBVIOUS
<1>2. \E f : Rec(f)
  <2> HIDE DEF total
  <2>1. \A n \in 1..total : \A v \in Nat : step[n][v] \in Nat
    OBVIOUS
  <2>2. PICK f : f \in Stepwise(total, Nat, 0, step)
    <3>1. 0 \in Nat
      OBVIOUS
    <3> HIDE DEF step
    <3> QED BY <1>1, <2>1, <3>1, RecursionUpTo
  <2>3. ASSUME NEW n \in 1..total PROVE f[n] = next(f[n - 1], n)
    <3>1. n - 1 \in 0..total /\ f[n - 1] \in Nat
      BY <1>1, <2>2 DEF Stepwise
    <3>2. f[n] = step[n][f[n - 1]]
      BY <2>2 DEF Stepwise
    <3> HIDE DEF next
    <3> QED BY <3>1, <3>2
  <2>4. \A n \in 0..total : n = 0 \/ n \in 1..total
    BY <1>1
  <2>5. f \in [0..total -> Nat] /\ f[0] = 0
    BY <2>2 DEF Stepwise
  <2> HIDE DEF next
  <2>6. Rec(f)
    BY <2>3, <2>4, <2>5
  <2> HIDE DEF Rec
  <2> QED BY <2>6
<1>3. Rec(t)
  <2> HIDE DEF Rec
  <2> QED BY <1>2
<1>4. Merged(ins, del) = [n \in 1..total |-> IF t[n] > t[n - 1] THEN ins[t[n]] ELSE del[n - t[n]]]
  BY DEF Merged, InsertionNext
<1> HIDE DEF t
<1>5. \A n \in 0..total : t[n] = IF n = 0 THEN 0 ELSE next(t[n - 1], n)
  <2> HIDE DEF next, total
  <2> QED BY <1>3
<1>6. \A n \in 0..total : t[n] \in Nat /\ t[n] <= Len(ins) /\ t[n] <= n /\ n - t[n] <= Len(del)
  <2> DEFINE B(n) == t[n] \in Nat /\ t[n] <= Len(ins) /\ t[n] <= n /\ n - t[n] <= Len(del)
             T == {n \in 0..total : B(n)}
  <2>1. 0 \in T
    <3>1. t[0] = 0
      BY <1>1, <1>5
    <3> QED BY <1>1, <3>1
  <2>2. ASSUME NEW n \in 0..(total - 1), n \in T PROVE n + 1 \in T
    <3>1. n + 1 \in 0..total /\ n + 1 # 0 /\ (n + 1) - 1 = n
      BY <1>1
    <3>2. t[n + 1] = IF InsertionNext(ins, del, t[n], n - t[n]) THEN t[n] + 1 ELSE t[n]
      BY <1>5, <3>1
    <3>3. t[n] \in Nat /\ t[n] <= Len(ins) /\ t[n] <= n /\ n - t[n] <= Len(del)
      BY <2>2
    <3>4. CASE InsertionNext(ins, del, t[n], n - t[n])
      <4>1. t[n] < Len(ins)
        BY <3>4 DEF InsertionNext
      <4> QED BY <1>1, <3>1, <3>2, <3>3, <3>4, <4>1
    <3>5. CASE ~InsertionNext(ins, del, t[n], n - t[n])
      <4>1. t[n] = Len(ins) \/ n - t[n] # Len(del)
        BY <1>1, <3>3, <3>5 DEF InsertionNext
      <4>2. n - t[n] < Len(del)
        BY <1>1, <3>3, <4>1
      <4> QED BY <1>1, <3>1, <3>2, <3>3, <3>5, <4>2
    <3> QED BY <3>4, <3>5
  <2> HIDE DEF total, B
  <2>3. \A n \in 0..total : n \in T
    <3> HIDE DEF T
    <3> QED BY <1>1, <2>1, <2>2, UpTo
  <2> QED BY <2>3 DEF B
<1>7. t \in [0..total -> Nat]
  <2>1. t = [n \in 0..total |-> IF n = 0 THEN 0 ELSE next(t[n - 1], n)]
    BY <1>3
  <2> HIDE DEF next, total, Rec
  <2>2. t = [n \in 0..total |-> t[n]]
    BY <2>1
  <2> QED BY <1>6, <2>2
<1>8. \A n \in 1..total : n \in 0..total /\ n # 0
  BY <1>1
<1> HIDE DEF total, Rec
<1>9. /\ \A n \in 1..total :
           t[n] = IF InsertionNext(ins, del, t[n - 1], n - 1 - t[n - 1]) THEN t[n - 1] + 1 ELSE t[n - 1]
      /\ \A n \in 0..total : t[n] <= Len(ins) /\ t[n] <= n /\ n - t[n] <= Len(del)
  BY <1>5, <1>6, <1>8
<1> QED BY <1>4, <1>7, <1>9 DEF total

LEMMA TimesAreNumbers ==
  ASSUME NEW s \in Seq(Timed)
  PROVE  \A i \in 1..Len(s) : s[i].time \in Nat
<1> SUFFICES ASSUME NEW i \in 1..Len(s) PROVE s[i].time \in Nat
  OBVIOUS
<1>1. s[i] \in Timed
  OBVIOUS
<1> QED BY <1>1 DEF Timed

\* The buffer has all updates of both lists, and if these are in order of time
\* so is it.
LEMMA MergedByTime ==
  ASSUME NEW ins \in Seq(Timed), NEW del \in Seq(Timed)
  PROVE  /\ Merged(ins, del) \in Seq(Timed)
         /\ Len(Merged(ins, del)) = Len(ins) + Len(del)
         /\ (ByTime(ins) /\ ByTime(del)) => ByTime(Merged(ins, del))
<1> DEFINE total == Len(ins) + Len(del)
           m == Merged(ins, del)
<1>1. total \in Nat /\ Len(ins) \in Nat /\ Len(del) \in Nat
  OBVIOUS
<1>2. PICK t \in [0..total -> Nat] :
        /\ \A n \in 1..total :
             t[n] = IF InsertionNext(ins, del, t[n - 1], n - 1 - t[n - 1]) THEN t[n - 1] + 1 ELSE t[n - 1]
        /\ \A n \in 0..total : t[n] <= Len(ins) /\ t[n] <= n /\ n - t[n] <= Len(del)
        /\ m = [n \in 1..total |-> IF t[n] > t[n - 1] THEN ins[t[n]] ELSE del[n - t[n]]]
  BY MergedSteps
<1> HIDE DEF total, m
<1>3. \A n \in 1..total : n \in 0..total /\ n - 1 \in 0..total
  BY <1>1
<1>4. ASSUME NEW n \in 1..total
      PROVE  /\ t[n - 1] \in Nat /\ t[n] \in Nat
             /\ \/ /\ InsertionNext(ins, del, t[n - 1], n - 1 - t[n - 1])
                   /\ t[n] = t[n - 1] + 1 /\ m[n] = ins[t[n]] /\ t[n] \in 1..Len(ins)
                \/ /\ ~InsertionNext(ins, del, t[n - 1], n - 1 - t[n - 1])
                   /\ t[n] = t[n - 1] /\ m[n] = del[n - t[n]] /\ n - t[n] \in 1..Len(del)
  <2>1. t[n - 1] \in Nat /\ t[n] \in Nat
    BY <1>3
  <2>2. /\ t[n] <= Len(ins) /\ t[n] <= n /\ n - t[n] <= Len(del)
        /\ t[n - 1] <= n - 1
    BY <1>2, <1>3
  <2>3. m[n] = IF t[n] > t[n - 1] THEN ins[t[n]] ELSE del[n - t[n]]
    BY <1>2
  <2>4. CASE InsertionNext(ins, del, t[n - 1], n - 1 - t[n - 1])
    <3>1. t[n] = t[n - 1] + 1
      BY <1>2, <2>4
    <3> QED BY <1>1, <2>1, <2>2, <2>3, <2>4, <3>1
  <2>5. CASE ~InsertionNext(ins, del, t[n - 1], n - 1 - t[n - 1])
    <3>1. t[n] = t[n - 1]
      BY <1>2, <2>5
    <3> QED BY <1>1, <2>1, <2>2, <2>3, <2>5, <3>1
  <2> QED BY <2>1, <2>4, <2>5
<1>5. \A n \in 1..total : m[n] \in Timed
  <2>1. (\A i \in 1..Len(ins) : ins[i] \in Timed) /\ \A i \in 1..Len(del) : del[i] \in Timed
    OBVIOUS
  <2> QED BY <1>4, <2>1
<1>6. m \in Seq(Timed) /\ Len(m) = total
  <2>1. m = [n \in 1..total |-> m[n]]
    BY <1>2
  <2> QED BY <1>1, <1>5, <2>1
<1>7. ASSUME ByTime(ins), ByTime(del), NEW n \in 2..Len(m) PROVE m[n - 1].time <= m[n].time
  <2>1. n \in 1..total /\ n - 1 \in 1..total /\ (n - 1) - 1 = n - 2
    BY <1>1, <1>6
  <2>2. \A i \in 1..Len(ins) : ins[i].time \in Nat
    BY TimesAreNumbers
  <2>3. \A i \in 1..Len(del) : del[i].time \in Nat
    BY TimesAreNumbers
  <2> DEFINE a == t[n - 2]
             b == t[n - 1]
  <2>4. a \in Nat /\ b \in Nat /\ t[n] \in Nat /\ n \in Nat
    BY <1>4, <2>1
  <2>5. \/ InsertionNext(ins, del, a, n - 2 - a) /\ b = a + 1 /\ m[n - 1] = ins[b] /\ b \in 1..Len(ins)
        \/ ~InsertionNext(ins, del, a, n - 2 - a) /\ b = a /\ m[n - 1] = del[n - 1 - b] /\ n - 1 - b \in 1..Len(del)
    BY <1>4, <2>1
  <2>6. \/ t[n] = b + 1 /\ m[n] = ins[b + 1] /\ b + 1 \in 1..Len(ins)
        \/ t[n] = b /\ m[n] = del[n - b] /\ n - b \in 1..Len(del)
    BY <1>4, <2>1
  <2> HIDE DEF a, b
  <2>7. CASE b = a + 1 /\ m[n] = ins[b + 1] /\ b + 1 \in 1..Len(ins)
    <3>1. m[n - 1] = ins[b] /\ b \in 1..Len(ins)
      BY <2>4, <2>5, <2>7
    <3>2. b + 1 \in 2..Len(ins) /\ (b + 1) - 1 = b
      BY <1>1, <2>4, <2>7, <3>1
    <3>3. ins[(b + 1) - 1].time <= ins[b + 1].time
      BY <1>7, <3>2 DEF ByTime
    <3> QED BY <2>7, <3>1, <3>2, <3>3
  <2>8. CASE b = a + 1 /\ m[n] = del[n - b] /\ n - b \in 1..Len(del)
    <3>1. InsertionNext(ins, del, a, n - 2 - a) /\ m[n - 1] = ins[b] /\ b \in 1..Len(ins)
      BY <2>4, <2>5, <2>8
    <3>2. n - 2 - a + 1 = n - b /\ n - 2 - a # Len(del)
      BY <1>1, <2>4, <2>8
    <3>3. isEarlier(ins[a + 1], del[n - 2 - a + 1])
      BY <3>1, <3>2 DEF InsertionNext
    <3>4. isEarlier(ins[b], del[n - b])
      BY <2>8, <3>2, <3>3
    <3>5. ins[b].time \in Nat /\ del[n - b].time \in Nat
      BY <2>2, <2>3, <2>8, <3>1
    <3> QED BY <2>8, <3>1, <3>4, <3>5 DEF isEarlier
  <2>9. CASE b = a /\ m[n] = ins[b + 1] /\ b + 1 \in 1..Len(ins)
    <3>1. ~InsertionNext(ins, del, a, n - 2 - a) /\ m[n - 1] = del[n - 1 - b] /\ n - 1 - b \in 1..Len(del)
      BY <2>4, <2>5, <2>9
    <3>2. a < Len(ins) /\ n - 2 - a + 1 = n - 1 - b
      BY <1>1, <2>4, <2>9
    <3>3. ~isEarlier(ins[a + 1], del[n - 2 - a + 1])
      BY <3>1, <3>2 DEF InsertionNext
    <3>4. ~isEarlier(ins[b + 1], del[n - 1 - b])
      BY <2>9, <3>2, <3>3
    <3>5. ins[b + 1].time \in Nat /\ del[n - 1 - b].time \in Nat
      BY <2>2, <2>3, <2>9, <3>1
    <3> QED BY <2>9, <3>1, <3>4, <3>5 DEF isEarlier
  <2>10. CASE b = a /\ m[n] = del[n - b] /\ n - b \in 1..Len(del)
    <3>1. m[n - 1] = del[n - 1 - b] /\ n - 1 - b \in 1..Len(del)
      BY <2>4, <2>5, <2>10
    <3>2. n - b \in 2..Len(del) /\ (n - b) - 1 = n - 1 - b
      <4>1. n - b \in Int /\ (n - b) - 1 = n - 1 - b
        BY <2>4
      <4>2. (n - b) - 1 >= 1 /\ n - b <= Len(del)
        BY <2>10, <3>1, <4>1
      <4> QED BY <1>1, <4>1, <4>2
    <3>3. del[(n - b) - 1].time <= del[n - b].time
      BY <1>7, <3>2 DEF ByTime
    <3> QED BY <2>10, <3>1, <3>2, <3>3
  <2> QED BY <2>5, <2>6, <2>7, <2>8, <2>9, <2>10
<1>8. (ByTime(ins) /\ ByTime(del)) => ByTime(m)
  BY <1>7 DEF ByTime
<1> QED BY <1>6, <1>8 DEF m, total


\* A file's deletions, in whatever order, and its insertions are a list of times.
LEMMA SortedType ==
  ASSUME NEW file \in UpdateFiles, NEW s \in Sorted(file)
  PROVE  s \in Seq(Nat \ {0}) /\ Len(s) = Len(file.del) + Len(file.ins)
<1> DEFINE del == file.del
           ins == file.ins
<1>1. del \in Seq(Nat \ {0}) /\ ins \in Seq(Nat \ {0})
  BY UpdateFilesAssumption
<1>2. PICK d \in Reorderings(del) : s = d \o ins
  BY DEF Sorted
<1> HIDE DEF del, ins
<1>3. PICK p \in [DOMAIN del -> DOMAIN del] : d = [i \in DOMAIN del |-> del[p[i]]]
  BY <1>2 DEF Reorderings
<1>4. DOMAIN del = 1..Len(del) /\ Len(del) \in Nat
  BY <1>1
<1>5. \A i \in 1..Len(del) : del[p[i]] \in Nat \ {0}
  <2>1. \A i \in 1..Len(del) : p[i] \in 1..Len(del)
    BY <1>4
  <2>2. \A i \in 1..Len(del) : del[i] \in Nat \ {0}
    BY <1>1
  <2> QED BY <2>1, <2>2
<1>6. d \in Seq(Nat \ {0}) /\ Len(d) = Len(del)
  <2>1. d = [i \in 1..Len(del) |-> del[p[i]]]
    BY <1>3, <1>4
  <2> QED BY <1>4, <1>5, <2>1
<1>7. s \in Seq(Nat \ {0}) /\ Len(s) = Len(del) + Len(ins)
  <2> DEFINE S == Nat \ {0}
  <2>1. d \in Seq(S) /\ ins \in Seq(S)
    BY <1>1, <1>6
  <2>2. s = d \o ins /\ Len(d) = Len(del)
    BY <1>2, <1>6
  <2> HIDE DEF S
  <2>3. s \in Seq(S) /\ Len(s) = Len(d) + Len(ins)
    BY <2>1, <2>2, ConcatProperties
  <2> QED BY <2>2, <2>3 DEF S
<1> QED BY <1>7 DEF del, ins

\* The two lists that a file is split into.
LEMMA LoadedType ==
  ASSUME NEW file \in UpdateFiles, NEW s \in Sorted(file)
  PROVE  LET all == Numbered(s)
             del == SubSeq(all, 1, Len(file.del))
             ins == SubSeq(all, Len(file.del) + 1, Len(all))
         IN  del \in Seq(Timed) /\ ins \in Seq(Timed)
<1> DEFINE n == Len(file.del)
           all == Numbered(s)
<1>1. s \in Seq(Nat \ {0}) /\ n \in Nat /\ n <= Len(s)
  <2>1. file.del \in Seq(Nat \ {0}) /\ file.ins \in Seq(Nat \ {0})
    BY UpdateFilesAssumption
  <2>2. Len(file.del) \in Nat /\ Len(file.ins) \in Nat
    BY <2>1
  <2>3. s \in Seq(Nat \ {0}) /\ Len(s) = Len(file.del) + Len(file.ins)
    BY SortedType
  <2> DEFINE i == Len(file.ins)
  <2>4. n \in Nat /\ i \in Nat /\ Len(s) = n + i
    BY <2>2, <2>3
  <2> HIDE DEF n, i
  <2>5. n \in Nat /\ n <= Len(s)
    BY <2>4
  <2> QED BY <2>3, <2>5
<1>2. all \in Seq(Timed) /\ Len(all) = Len(s)
  BY <1>1, NumberedType
<1> HIDE DEF all, n
<1>3. SubSeq(all, 1, n) \in Seq(Timed)
  BY <1>1, <1>2
<1>4. SubSeq(all, n + 1, Len(all)) \in Seq(Timed)
  BY <1>1, <1>2
<1> QED BY <1>3, <1>4 DEF all, n


-----------------------------------------------------------------------------
(***************************************************************************)
(* The tail of the forwarding table's buffer, and what the worker pulls.   *)
(***************************************************************************)

FibTyped ==
  /\ fibPc \in {"load", "loop", "end"}
  /\ sorted \in BOOLEAN /\ BufferByTime
  /\ fibBuffer \in Seq(Timed)
  /\ fibDue \in 0..MaxDue /\ fibTail = TailFor(fibDue)
  /\ fibHead \in {0, TailBit}
  /\ fibBatch.from \in Nat /\ fibBatch.n \in Int /\ fibPulled \in Int
  /\ fibPc = "load" => /\ fibBuffer = <<>> /\ fibDue = 0 /\ fibHead = 0
                       /\ fibBatch = [from |-> 0, n |-> 0] /\ fibPulled = 0

\* How often the worker went round, q, and that it never gets ahead of the
\* tail, which has moved at least twice in every round.
RoundsPulled(q) ==
  /\ fibPulled = Len(fibBuffer) * q + fibHead
  /\ fibDue \div TailBit >= 2 * q + (IF fibHead = 0 THEN 0 ELSE 1)

FibRounds ==
  LET l == Len(fibBuffer)
  IN  l + 1 # TailBit =>
        /\ fibPulled \in Nat /\ fibBatch.n \in Nat
        /\ fibBatch.from + fibBatch.n <= l
        /\ (fibBatch.n > 0 /\ fibPulled <= MaxDue) =>
             (fibPulled - fibBatch.n - fibBatch.from) % l = 0
        /\ IF l = TailBit
           THEN fibHead = 0 /\ (fibPulled <= MaxDue => \E q \in Nat : fibPulled = l * q)
           ELSE \E q \in Nat : RoundsPulled(q)

FibInv == FibTyped /\ FibRounds

\* The quotient of a division.
LEMMA Quotient ==
  ASSUME NEW s \in Nat \ {0}, NEW a \in Nat
  PROVE  /\ a \div s \in Nat /\ s * (a \div s) <= a
         /\ \A q \in Nat : s * q <= a => q <= a \div s
<1> DEFINE d == a \div s
<1>1. d \in Nat /\ a % s \in 0..(s - 1) /\ a = s * d + (a % s)
  BY Rounds
<1> HIDE DEF d
<1>2. s * d \in Nat /\ s * d <= a /\ a < s * d + s
  BY <1>1
<1>3. ASSUME NEW q \in Nat, s * q <= a PROVE q <= d
  <2> SUFFICES ASSUME q > d PROVE FALSE
    BY <1>1
  <2> DEFINE k == q - d - 1
  <2>1. k \in Nat /\ q = d + 1 + k
    BY <1>1
  <2> HIDE DEF k
  <2>2. s * q = s * d + s + s * k /\ s * k \in Nat
    BY <1>1, <2>1
  <2> QED BY <1>2, <1>3, <2>2
<1> QED BY <1>1, <1>2, <1>3 DEF d

\* The tail is at the start of the buffer or at its highest bit.
LEMMA TailForValue ==
  ASSUME TailBit \in Nat \ {0}, NEW a \in Nat
  PROVE  LET d == a \div TailBit
         IN  /\ d \in Nat
             /\ \/ TailFor(a) = 0 /\ \E e \in Nat : d = 2 * e
                \/ TailFor(a) = TailBit /\ \E e \in Nat : d = 2 * e + 1
<1> DEFINE b == TailBit
           d == a \div b
           e == d \div 2
           r == d % 2
<1>1. TailFor(a) = r * b
  BY DEF TailFor
<1>2. d \in Nat
  <2> HIDE DEF b
  <2> QED BY Rounds DEF b
<1> HIDE DEF d
<1>3. e \in Nat /\ d = 2 * e + r /\ r \in 0..1
  BY <1>2, Rounds
<1> HIDE DEF e, r, b
<1>4. b \in Nat \ {0}
  BY DEF b
<1>5. CASE r = 0
  BY <1>1, <1>2, <1>3, <1>4, <1>5 DEF b, d
<1>6. CASE r = 1
  BY <1>1, <1>2, <1>3, <1>4, <1>6 DEF b, d
<1> QED BY <1>3, <1>5, <1>6


\* The highest bit of one more than the updates of the buffer.
LEMMA TailBitBounds ==
  ASSUME fibBuffer \in Seq(Timed)
  PROVE  /\ Len(fibBuffer) \in Nat /\ TailBit \in Nat \ {0}
         /\ TailBit <= Len(fibBuffer) + 1 /\ Len(fibBuffer) + 1 < 2 * TailBit
<1> DEFINE l == Len(fibBuffer)
<1>1. l \in Nat
  OBVIOUS
<1> HIDE DEF l
<1>2. LastPower(l) \in Nat \ {0} /\ LastPower(l) <= l + 1 /\ l + 1 < 2 * LastPower(l)
  BY <1>1, LastPowerBounds
<1> QED BY <1>1, <1>2 DEF TailBit, l

\* What the worker has pulled, while the tail is inside the buffer, was due.
LEMMA RoundsAreDue ==
  ASSUME NEW l \in Nat, NEW b \in Nat \ {0}, l + 1 < 2 * b, NEW c \in Nat,
         NEW q \in Nat, NEW h \in {0, b},
         c \div b >= 2 * q + (IF h = 0 THEN 0 ELSE 1)
  PROVE  l * q + h \in Nat /\ l * q + h <= c
<1> DEFINE d == c \div b
<1>3. d \in Nat /\ b * d <= c
  BY Quotient
<1>4. d >= 2 * q + (IF h = 0 THEN 0 ELSE 1)
  OBVIOUS
<1> HIDE DEF d
<1>5. l * q <= 2 * b * q /\ l * q \in Nat /\ b * q \in Nat
  <2> DEFINE k == 2 * b - l
  <2>1. k \in Nat /\ 2 * b = l + k
    OBVIOUS
  <2> HIDE DEF k
  <2>2. (l + k) * q = l * q + k * q /\ k * q \in Nat /\ l * q \in Nat /\ b * q \in Nat
    BY <2>1
  <2> QED BY <2>1, <2>2
<1>6. ASSUME NEW x \in Nat, d >= x PROVE b * x <= c
  <2> DEFINE k == d - x
  <2>1. k \in Nat /\ d = x + k
    BY <1>3, <1>6
  <2> HIDE DEF k
  <2>2. b * d = b * x + b * k /\ b * k \in Nat /\ b * x \in Nat
    BY <2>1
  <2> QED BY <1>3, <2>2
<1>7. CASE h = 0
  <2>1. b * (2 * q) <= c
    BY <1>4, <1>6, <1>7
  <2> QED BY <1>4, <1>5, <1>7, <2>1
<1>8. CASE h = b
  <2>1. h # 0
    BY <1>8
  <2>2. b * (2 * q + 1) <= c
    BY <1>4, <1>6, <2>1
  <2>3. b * (2 * q + 1) = 2 * b * q + b
    OBVIOUS
  <2> QED BY <1>4, <1>5, <1>8, <2>2, <2>3
<1> QED BY <1>4, <1>7, <1>8


\* Before the file is loaded, and when it has been, the worker has pulled
\* nothing.
Untouched ==
  /\ fibBuffer \in Seq(Timed) /\ fibHead = 0 /\ fibBatch = [from |-> 0, n |-> 0]
  /\ fibPulled = 0 /\ fibDue = 0

LEMMA NothingPulled == Untouched => FibRounds
<1> SUFFICES ASSUME Untouched PROVE FibRounds
  OBVIOUS
<1> USE DEF Untouched
<1> DEFINE l == Len(fibBuffer)
           b == TailBit
<1>1. l \in Nat /\ b \in Nat \ {0} /\ b <= l + 1
  BY TailBitBounds
<1>2. RoundsPulled(0)
  <2>1. fibDue \div b \in Nat
    <3> HIDE DEF b
    <3> QED BY <1>1, Quotient
  <2>2. l * 0 = 0
    BY <1>1
  <2> QED BY <2>1, <2>2 DEF RoundsPulled
<1>3. l * 0 = 0 /\ 0 \in Nat
  BY <1>1
<1> HIDE DEF b, l
<1>4. \E q \in Nat : fibPulled = l * q
  BY <1>3
<1>5. (l = b => fibHead = 0 /\ (fibPulled <= MaxDue => \E q \in Nat : fibPulled = l * q))
      /\ \E q \in Nat : RoundsPulled(q)
  BY <1>2, <1>4
<1> QED BY <1>1, <1>5 DEF FibRounds, l, b

LEMMA InitFib == Init => FibInv
<1> SUFFICES ASSUME FibInit PROVE FibInv
  BY DEF Init
<1>1. /\ fibPc = "load" /\ fibBuffer = <<>> /\ sorted = TRUE /\ fibDue = 0 /\ fibHead = 0 /\ fibTail = 0
      /\ fibBatch = [from |-> 0, n |-> 0] /\ fibPulled = 0
  BY DEF FibInit
<1>2. fibBuffer \in Seq(Timed) /\ Len(fibBuffer) = 0
  BY <1>1
<1>3. FibRounds
  BY <1>1, <1>2, NothingPulled DEF Untouched
<1>4. fibTail = TailFor(fibDue)
  <2>1. TailBit \in Nat \ {0}
    BY <1>2, TailBitBounds
  <2>2. 0 \div TailBit = 0
    <3> DEFINE b == TailBit
    <3>1. b \in Nat \ {0}
      BY <2>1
    <3> HIDE DEF b
    <3>2. 0 \div b \in Nat /\ b * (0 \div b) <= 0
      BY <3>1, Quotient
    <3> QED BY <3>1, <3>2 DEF b
  <2> QED BY <1>1, <2>1, <2>2 DEF TailFor
<1>5. BufferByTime
  BY <1>2 DEF BufferByTime, ByTime
<1>6. FibTyped
  BY <1>1, <1>2, <1>4, <1>5, UpdateFilesAssumption DEF FibTyped
<1> QED BY <1>3, <1>6 DEF FibInv

\* The file is loaded before the tail moves.
LEMMA LoadFib ==
  ASSUME FibInv, FibLoad
  PROVE  FibInv'
<1>1. PICK file \in UpdateFiles : \E s \in Sorted(file) :
        LET all == Numbered(s)
            del == SubSeq(all, 1, Len(file.del))
            ins == SubSeq(all, Len(file.del) + 1, Len(all))
        IN  /\ fibBuffer' = Merged(ins, del)
            /\ sorted' = (ByTime(ins) /\ ByTime(del))
  BY Zenon DEF FibLoad
<1>0. PICK s \in Sorted(file) :
        LET all == Numbered(s)
            del == SubSeq(all, 1, Len(file.del))
            ins == SubSeq(all, Len(file.del) + 1, Len(all))
        IN  /\ fibBuffer' = Merged(ins, del)
            /\ sorted' = (ByTime(ins) /\ ByTime(del))
  BY Zenon, <1>1
<1> DEFINE all == Numbered(s)
           del == SubSeq(all, 1, Len(file.del))
           ins == SubSeq(all, Len(file.del) + 1, Len(all))
<1>2. del \in Seq(Timed) /\ ins \in Seq(Timed)
  BY LoadedType
<1>3. fibBuffer' = Merged(ins, del) /\ sorted' = (ByTime(ins) /\ ByTime(del))
  BY <1>0
<1> HIDE DEF del, ins, all
<1>4. fibBuffer' \in Seq(Timed) /\ (ByTime(ins) /\ ByTime(del) => ByTime(fibBuffer'))
  BY <1>2, <1>3, MergedByTime
<1>5. /\ fibPc' = "loop" /\ fibDue = 0 /\ fibHead = 0
      /\ fibBatch = [from |-> 0, n |-> 0] /\ fibPulled = 0 /\ fibTail = TailFor(0)
      /\ UNCHANGED <<fibDue, fibTail, fibHead, fibBatch, fibPulled>>
  BY DEF FibLoad, FibInv, FibTyped, fibWantVars
<1>11. TailBit \in Nat \ {0}
  BY TailBitBounds DEF FibInv, FibTyped
<1>6. FibRounds'
  <2>1. Untouched'
    BY <1>4, <1>5 DEF Untouched
  <2> QED BY <2>1, NothingPulled, PTL
<1>7. TailBit' \in Nat \ {0}
  <2>1. Len(fibBuffer') \in Nat
    BY <1>4
  <2> QED BY <2>1, LastPowerBounds DEF TailBit
<1>8. fibTail' = 0 /\ TailFor(0)' = 0
  <2>1. ASSUME NEW b \in Nat \ {0} PROVE ((0 \div b) % 2) * b = 0
    <3>1. 0 \div b \in Nat /\ b * (0 \div b) <= 0
      BY <2>1, Quotient
    <3>2. 0 \div b = 0
      BY <3>1
    <3> QED BY <3>2
  <2> DEFINE b == TailBit
             c == TailBit'
  <2>2. ((0 \div b) % 2) * b = 0 /\ ((0 \div c) % 2) * c = 0
    BY <1>7, <1>11, <2>1
  <2>3. TailFor(0) = ((0 \div b) % 2) * b /\ TailFor(0)' = ((0 \div c) % 2) * c
    BY DEF TailFor
  <2> HIDE DEF b, c
  <2> QED BY <1>5, <2>2, <2>3
<1>9. BufferByTime' /\ sorted' \in BOOLEAN
  BY <1>3, <1>4 DEF BufferByTime
<1>10. FibTyped'
  <2>1. fibDue' = 0 /\ 0 \in 0..MaxDue
    BY <1>5, UpdateFilesAssumption
  <2>2. fibTail' = TailFor(fibDue)'
    BY <1>5, <1>8 DEF TailFor, TailBit
  <2> QED BY <1>4, <1>5, <1>9, <2>1, <2>2 DEF FibTyped
<1> QED BY <1>6, <1>10 DEF FibInv


\* A larger number of updates is due: the tail has not moved back.
LEMMA TickFib ==
  ASSUME FibInv, FibTick
  PROVE  FibInv'
<1>1. /\ fibPc = "loop" /\ fibDue' \in (fibDue + 1)..MaxDue /\ fibTail' = TailFor(fibDue')
      /\ UNCHANGED <<fibPc, fibBuffer, sorted, fibHead, fibBatch, fibPulled>>
  BY DEF FibTick, fibWantVars
<1>2. TailBit' = TailBit /\ TailFor(fibDue)' = TailFor(fibDue')
  BY <1>1 DEF TailBit, TailFor
<1>3. BufferByTime'
  BY <1>1 DEF FibInv, FibTyped, BufferByTime
<1>4. fibDue \in Nat /\ fibDue' \in 0..MaxDue /\ fibDue <= fibDue'
  BY <1>1, UpdateFilesAssumption DEF FibInv, FibTyped
<1>5. FibTyped'
  BY <1>1, <1>2, <1>3, <1>4 DEF FibInv, FibTyped
<1>6. ASSUME NEW q \in Nat, RoundsPulled(q) PROVE RoundsPulled(q)'
  <2> DEFINE b == TailBit
  <2>1. b \in Nat \ {0} /\ fibHead \in {0, b}
    BY TailBitBounds DEF FibInv, FibTyped
  <2>2. fibDue \div b >= 2 * q + (IF fibHead = 0 THEN 0 ELSE 1)
    BY <1>6 DEF RoundsPulled
  <2> HIDE DEF b
  <2>3. fibDue' \in Nat
    BY <1>4
  <2>4. fibDue \div b \in Nat /\ b * (fibDue \div b) <= fibDue
    BY <1>4, <2>1, Quotient
  <2>5. fibDue' \div b \in Nat /\ \A x \in Nat : b * x <= fibDue' => x <= fibDue' \div b
    BY <2>1, <2>3, Quotient
  <2> DEFINE d == fibDue \div b
             e == fibDue' \div b
  <2>6. d <= e
    <3>1. d \in Nat /\ b * d <= fibDue /\ b * d \in Nat
      BY <2>1, <2>4
    <3>2. b * d <= fibDue' => d <= e
      BY <2>5, <3>1
    <3> HIDE DEF d, e
    <3> QED BY <1>4, <3>1, <3>2
  <2> HIDE DEF d, e
  <2>7. e >= 2 * q + (IF fibHead = 0 THEN 0 ELSE 1)
    BY <2>2, <2>4, <2>5, <2>6 DEF d, e
  <2> QED BY <1>1, <1>2, <1>6, <2>7 DEF RoundsPulled, e, b
<1>7. FibRounds'
  <2>1. (\E q \in Nat : RoundsPulled(q)) => \E q \in Nat : RoundsPulled(q)'
    BY <1>6
  <2> QED BY <1>1, <1>2, <2>1 DEF FibInv, FibRounds
<1> QED BY <1>5, <1>7 DEF FibInv

\* A step that leaves the buffer, its two positions and the pulls alone.
LEMMA LeaveFib ==
  ASSUME FibInv, UNCHANGED <<fibBuffer, sorted, fibDue, fibTail, fibWantVars>>,
         fibPc' = fibPc \/ fibPc' = "end"
  PROVE  FibInv'
<1>1. UNCHANGED <<fibBuffer, sorted, fibDue, fibTail, fibHead, fibBatch, fibPulled>>
  BY DEF fibWantVars
<1>2. TailBit' = TailBit /\ TailFor(fibDue)' = TailFor(fibDue) /\ BufferByTime' = BufferByTime
  BY <1>1 DEF TailBit, TailFor, BufferByTime, ByTime
<1>3. FibTyped'
  BY <1>1, <1>2 DEF FibInv, FibTyped
<1>4. \A q \in Nat : RoundsPulled(q)' <=> RoundsPulled(q)
  BY <1>1, <1>2 DEF RoundsPulled
<1>5. FibRounds'
  BY <1>1, <1>2, <1>4 DEF FibInv, FibRounds
<1> QED BY <1>3, <1>5 DEF FibInv

\* The positions and the length of a batch, whatever the buffer.
LEMMA PullTyped ==
  ASSUME FibInv, FibPull
  PROVE  FibTyped'
<1> DEFINE b == TailBit
           l == Len(fibBuffer)
           n == IF fibTail < fibHead THEN l - fibHead ELSE fibTail - fibHead
<1>1. /\ fibBatch' = [from |-> fibHead, n |-> n]
      /\ fibPulled' = LeastOf(MaxDue + 1, fibPulled + n)
      /\ fibHead' = IF fibHead + n = l THEN 0 ELSE fibHead + n
      /\ UNCHANGED <<fibPc, fibBuffer, sorted, fibDue, fibTail>>
  BY DEF FibPull, fibFeedVars
<1>2. TailBit' = TailBit /\ TailFor(fibDue)' = TailFor(fibDue) /\ BufferByTime' = BufferByTime
  BY <1>1 DEF TailBit, TailFor, BufferByTime, ByTime
<1>3. l \in Nat /\ b \in Nat \ {0} /\ b <= l + 1 /\ fibHead \in {0, b} /\ fibTail = TailFor(fibDue)
      /\ fibDue \in Nat
  BY TailBitBounds, UpdateFilesAssumption DEF FibInv, FibTyped
<1>4. fibTail \in {0, b}
  BY <1>3, TailForValue
<1> HIDE DEF b, l
<1>5. n \in Int /\ fibHead' \in {0, b}
  <2>1. CASE fibHead = 0 /\ fibTail = 0
    BY <1>1, <1>3, <2>1
  <2>2. CASE fibHead = 0 /\ fibTail = b
    BY <1>1, <1>3, <2>2
  <2>3. CASE fibHead = b /\ fibTail = 0
    <3>1. n = l - b /\ b + (l - b) = l
      BY <1>3, <2>3
    <3> QED BY <1>1, <1>3, <2>3, <3>1
  <2>4. CASE fibHead = b /\ fibTail = b
    BY <1>1, <1>3, <2>4
  <2> QED BY <1>3, <1>4, <2>1, <2>2, <2>3, <2>4
<1>6. fibPulled' \in Int
  <2>1. fibPulled \in Int /\ MaxDue \in Nat
    BY UpdateFilesAssumption DEF FibInv, FibTyped
  <2> HIDE DEF n
  <2> QED BY <1>1, <1>5, <2>1 DEF LeastOf
<1>7. ASSUME fibPc = "load"
      PROVE  fibBatch' = [from |-> 0, n |-> 0] /\ fibHead' = 0 /\ fibPulled' = 0
  <2>1. fibBuffer = <<>> /\ fibDue = 0 /\ fibHead = 0 /\ fibPulled = 0
    BY <1>7 DEF FibInv, FibTyped
  <2>2. fibTail = 0
    <3>1. 0 \div b \in Nat /\ b * (0 \div b) <= 0
      BY <1>3, Quotient
    <3>2. 0 \div b = 0
      BY <1>3, <3>1
    <3> QED BY <1>3, <2>1, <3>2 DEF TailFor, b
  <2>3. n = 0 /\ fibHead' = 0
    BY <1>1, <1>3, <2>1, <2>2
  <2> HIDE DEF n
  <2> QED BY <1>1, <2>1, <2>3, UpdateFilesAssumption DEF LeastOf
<1> HIDE DEF n
<1>8. fibHead' \in {0, TailBit'} /\ fibBatch'.from \in Nat /\ fibBatch'.n \in Int
  BY <1>1, <1>2, <1>3, <1>5 DEF b
<1> QED BY <1>1, <1>2, <1>6, <1>7, <1>8 DEF FibInv, FibTyped


\* A batch is the next part of the buffer, and none of it before it is due.
LEMMA PullRounds ==
  ASSUME FibInv, FibPull
  PROVE  FibRounds'
<1> DEFINE b == TailBit
           l == Len(fibBuffer)
           d == fibDue \div b
           n == IF fibTail < fibHead THEN l - fibHead ELSE fibTail - fibHead
<1>1. /\ fibBatch' = [from |-> fibHead, n |-> n]
      /\ fibPulled' = LeastOf(MaxDue + 1, fibPulled + n)
      /\ fibHead' = IF fibHead + n = l THEN 0 ELSE fibHead + n
      /\ UNCHANGED <<fibPc, fibBuffer, sorted, fibDue, fibTail>>
  BY DEF FibPull, fibFeedVars
<1>2. TailBit' = b
  BY <1>1 DEF TailBit
<1>3. /\ l \in Nat /\ b \in Nat \ {0} /\ b <= l + 1 /\ l + 1 < 2 * b /\ fibHead \in {0, b}
      /\ fibTail = TailFor(fibDue) /\ fibDue \in Nat /\ fibDue <= MaxDue /\ MaxDue \in Nat
  BY TailBitBounds, UpdateFilesAssumption DEF FibInv, FibTyped
<1>4. /\ d \in Nat
      /\ \/ fibTail = 0 /\ \E e \in Nat : d = 2 * e
         \/ fibTail = b /\ \E e \in Nat : d = 2 * e + 1
  BY <1>3, TailForValue
<1> SUFFICES ASSUME l + 1 # b
             PROVE  /\ fibPulled' \in Nat /\ fibBatch'.n \in Nat
                    /\ fibBatch'.from + fibBatch'.n <= l
                    /\ (fibBatch'.n > 0 /\ fibPulled' <= MaxDue) =>
                         (fibPulled' - fibBatch'.n - fibBatch'.from) % l = 0
                    /\ IF l = b
                       THEN fibHead' = 0 /\ (fibPulled' <= MaxDue => \E q \in Nat : fibPulled' = l * q)
                       ELSE \E q \in Nat : RoundsPulled(q)'
  BY <1>1, <1>2 DEF FibRounds
<1>5. l \in Nat \ {0} /\ b <= l
  BY <1>3
<1>6. CASE l = b
  <2>1. fibHead = 0 /\ fibPulled \in Nat /\ (fibPulled <= MaxDue => \E q \in Nat : fibPulled = l * q)
    BY <1>5, <1>6 DEF FibInv, FibRounds
  <2>2. \A q \in Nat : l * (q + 1) = l * q + l /\ (l * q) % l = 0
    <3> HIDE DEF l
    <3> TAKE q \in Nat
    <3>1. 0 \in 0..(l - 1) /\ l * q \in Nat /\ l * q + 0 = l * q
      BY <1>5
    <3>2. (l * q + 0) % l = 0
      BY <1>5, <3>1, PositionOf
    <3> QED BY <1>5, <3>1, <3>2
  <2> HIDE DEF l, b, d
  <2>3. CASE fibTail = 0
    <3>1. n = 0 /\ fibHead' = 0
      BY <1>1, <1>5, <2>1, <2>3
    <3>2. fibPulled' \in Nat /\ (fibPulled' <= MaxDue => fibPulled' = fibPulled)
      <4> HIDE DEF n
      <4> QED BY <1>1, <1>3, <2>1, <3>1 DEF LeastOf
    <3> HIDE DEF n
    <3> QED BY <1>1, <1>5, <1>6, <2>1, <3>1, <3>2
  <2>4. CASE fibTail = b
    <3>1. n = l /\ fibHead' = 0
      BY <1>1, <1>5, <1>6, <2>1, <2>4
    <3>2. /\ fibPulled' \in Nat
          /\ fibPulled' <= MaxDue => fibPulled' = fibPulled + l /\ fibPulled <= MaxDue
      <4> HIDE DEF n
      <4> QED BY <1>1, <1>3, <1>5, <2>1, <3>1 DEF LeastOf
    <3> HIDE DEF n
    <3>3. ASSUME fibPulled' <= MaxDue
          PROVE  /\ (fibPulled' - n - fibHead) % l = 0
                 /\ \E q \in Nat : fibPulled' = l * q
      <4>1. PICK q \in Nat : fibPulled = l * q
        BY <2>1, <3>2, <3>3
      <4>2. fibPulled' - n - fibHead = l * q
        BY <1>5, <2>1, <3>1, <3>2, <3>3, <4>1
      <4>3. fibPulled' = l * (q + 1) /\ q + 1 \in Nat
        BY <2>2, <3>2, <3>3, <4>1
      <4> QED BY <2>2, <4>2, <4>3
    <3>4. fibBatch'.n = l /\ fibBatch'.from = 0
      <4>1. fibBatch'.n = n /\ fibBatch'.from = fibHead
        BY <1>1
      <4> QED BY <2>1, <3>1, <4>1
    <3>5. n = fibBatch'.n /\ fibHead = fibBatch'.from
      BY <2>1, <3>1, <3>4
    <3>6. fibPulled' <= MaxDue => (fibPulled' - fibBatch'.n - fibBatch'.from) % l = 0
      BY <3>3, <3>5
    <3>7. fibPulled' <= MaxDue => \E q \in Nat : fibPulled' = l * q
      BY <3>3
    <3>8. fibBatch'.n \in Nat /\ fibBatch'.from + fibBatch'.n <= l
      BY <1>5, <3>4
    <3> QED BY <1>6, <3>1, <3>2, <3>6, <3>7, <3>8
  <2> QED BY <1>4, <2>3, <2>4
<1>7. CASE l # b
  <2>1. PICK q \in Nat : RoundsPulled(q)
    BY <1>7 DEF FibInv, FibRounds
  <2>3. fibPulled = l * q + fibHead /\ d >= 2 * q + (IF fibHead = 0 THEN 0 ELSE 1)
    BY <2>1 DEF RoundsPulled
  <2>2. fibPulled \in Nat /\ fibPulled <= fibDue
    <3> HIDE DEF b, l, d
    <3> QED BY <1>3, <2>3, RoundsAreDue DEF d
  <2>4. l * (q + 1) = l * q + l /\ (l * q) % l = 0 /\ l * q \in Nat
    <3> HIDE DEF l
    <3>1. 0 \in 0..(l - 1) /\ l * q \in Nat /\ l * q + 0 = l * q
      BY <1>5
    <3>2. (l * q + 0) % l = 0
      BY <1>5, <3>1, PositionOf
    <3> QED BY <1>5, <3>1, <3>2
  <2> DEFINE Pulls(p) ==
               /\ n \in Nat /\ fibHead + n <= l
               /\ fibPulled + n = l * p + fibHead'
               /\ d >= 2 * p + (IF fibHead' = 0 THEN 0 ELSE 1)
  <2>5. \E p \in Nat : Pulls(p)
    <3> HIDE DEF b, l, d
    <3>1. CASE fibHead = 0 /\ fibTail = 0
      <4>1. n = 0 /\ fibHead' = 0
        BY <1>1, <1>5, <3>1
      <4> QED BY <2>2, <2>3, <3>1, <4>1, <1>5
    <3>2. CASE fibHead = 0 /\ fibTail = b
      <4>1. n = b /\ fibHead' = b
        BY <1>1, <1>3, <1>7, <3>2
      <4>2. d >= 2 * q + 1
        BY <1>3, <1>4, <2>3, <3>2
      <4>3. Pulls(q)
        BY <1>3, <1>5, <2>2, <2>3, <2>4, <3>2, <4>1, <4>2
      <4> QED BY <4>3
    <3>3. CASE fibHead = b /\ fibTail = 0
      <4>1. n = l - b /\ fibHead' = 0 /\ n \in Nat
        <5>1. n = l - b /\ b + (l - b) = l /\ l - b \in Nat
          BY <1>3, <1>5, <3>3
        <5> QED BY <1>1, <3>3, <5>1
      <4>2. d >= 2 * (q + 1)
        BY <1>3, <1>4, <2>3, <3>3
      <4>3. Pulls(q + 1)
        BY <1>3, <1>5, <2>2, <2>3, <2>4, <3>3, <4>1, <4>2
      <4> QED BY <4>3
    <3>4. CASE fibHead = b /\ fibTail = b
      <4>1. n = 0 /\ fibHead' = b
        BY <1>1, <1>3, <1>5, <1>7, <3>4
      <4> QED BY <1>3, <1>5, <2>2, <2>3, <3>4, <4>1
    <3> QED BY <1>3, <1>4, <3>1, <3>2, <3>3, <3>4
  <2>6. PICK p \in Nat : Pulls(p)
    BY <2>5
  <2>7. fibPulled + n <= fibDue /\ fibPulled + n \in Nat
    <3>1. fibHead' \in {0, b}
      BY <1>2, PullTyped DEF FibTyped
    <3> HIDE DEF b, l, n, d
    <3> QED BY <1>3, <2>6, <3>1, RoundsAreDue DEF d
  <2>8. fibPulled' = fibPulled + n
    BY <1>1, <1>3, <2>7 DEF LeastOf
  <2>9. fibPulled' - n - fibHead = l * q
    <3> HIDE DEF b, l, d
    <3> QED BY <1>3, <1>5, <2>2, <2>3, <2>4, <2>6, <2>8
  <2>10. RoundsPulled(p)'
    BY <1>1, <1>2, <2>6, <2>8 DEF RoundsPulled
  <2>11. fibBatch'.n = n /\ fibBatch'.from = fibHead
    BY <1>1
  <2> HIDE DEF b, l, d
  <2> QED BY <1>7, <2>4, <2>6, <2>7, <2>8, <2>9, <2>10, <2>11
<1> QED BY <1>6, <1>7


\* Every step of the emulation keeps the worker in step with the tail.
LEMMA FibStep ==
  ASSUME FibInv, [Next]_vars
  PROVE  FibInv'
<1>1. CASE WantFibUpdates
  BY <1>1, PullTyped, PullRounds DEF WantFibUpdates, FibInv
<1>2. CASE Feed /\ FibEmulator
  <2>1. CASE FibLoad
    BY <2>1, LoadFib
  <2>2. CASE FibTick
    BY <2>2, TickFib
  <2>3. CASE FibLeave
    BY <2>3, LeaveFib DEF FibLeave
  <2> QED BY <1>2, <2>1, <2>2, <2>3 DEF FibEmulator
<1>3. CASE UNCHANGED fibVars
  BY <1>3, LeaveFib DEF fibVars, fibFeedVars
<1>4. Worker => WantFibUpdates \/ UNCHANGED fibVars
  BY DEF Worker, Loop, WantUpdates, ApplyNext, Crash, WantPackets, Push, Finish, Stop, Joined
<1>5. Packets \/ Clock \/ Feed \/ UNCHANGED vars => (Feed /\ FibEmulator) \/ UNCHANGED fibVars
  BY DEF Packets, Clock, Feed, WhenAlive, vars
<1> QED BY <1>1, <1>2, <1>3, <1>4, <1>5 DEF Next

\* What the worker pulled last lies in the buffer and was due.
LEMMA FibImplies == FibInv => BufferByTime /\ FibPulledInOrder
<1> SUFFICES ASSUME FibInv PROVE BufferByTime /\ FibPulledInOrder
  OBVIOUS
<1>1. BufferByTime
  BY DEF FibInv, FibTyped
<1>2. ASSUME Len(fibBuffer) + 1 # TailBit, Len(fibBuffer) # TailBit
      PROVE  fibPulled <= fibDue
  <2> DEFINE l == Len(fibBuffer)
             b == TailBit
  <2>1. PICK q \in Nat : RoundsPulled(q)
    BY <1>2 DEF FibInv, FibRounds
  <2>2. l \in Nat /\ b \in Nat \ {0} /\ l + 1 < 2 * b /\ fibHead \in {0, b} /\ fibDue \in Nat
    BY TailBitBounds, UpdateFilesAssumption DEF FibInv, FibTyped
  <2>3. fibPulled = l * q + fibHead /\ fibDue \div b >= 2 * q + (IF fibHead = 0 THEN 0 ELSE 1)
    BY <2>1 DEF RoundsPulled
  <2> HIDE DEF l, b
  <2> QED BY <2>2, <2>3, RoundsAreDue
<1> QED BY <1>1, <1>2 DEF FibInv, FibRounds, FibPulledInOrder

LEMMA FibTypes == FibTyped => FibTypeOK
<1> SUFFICES ASSUME FibTyped PROVE FibTypeOK
  OBVIOUS
<1>1. Len(fibBuffer) \in Nat /\ TailBit \in Nat \ {0} /\ TailBit <= Len(fibBuffer) + 1
  BY TailBitBounds DEF FibTyped
<1>2. fibDue \in Nat
  BY UpdateFilesAssumption DEF FibTyped
<1>3. TailFor(fibDue) \in {0, TailBit}
  BY <1>1, <1>2, TailForValue
<1>4. fibHead \in 0..(Len(fibBuffer) + 1)
  BY <1>1 DEF FibTyped
<1> QED BY <1>3, <1>4 DEF FibTyped, FibTypeOK, Timed


-----------------------------------------------------------------------------
(***************************************************************************)
(* The types of all variables.                                             *)
(***************************************************************************)

\* The slots that are written are counted by what was taken of each kind, and
\* the worker's index stays in its batch.
FeedCounted ==
  /\ feedPc \in Kinds \cup {"loop", "stop", "spin", "end"}
  /\ stored["insertions"] + stored["deletions"] = Written
  /\ nUpdates \in 0..UpdBatch /\ at \in 0..UpdBatch
  /\ updates # Null => updates <= BufferEnd

WorkerTyped ==
  /\ manager \in {"none", "dummy", "fib"}
  /\ pc \in {"loop", "pull updates", "pull packets", "apply", "push", "stop updates", "join updates",
             "stop packets", "join packets", "end", "crashed"}

LEMMA ThreadsTyped ==
  ASSUME ThreadsTypeOK, [Next]_vars
  PROVE  ThreadsTypeOK'
<1>1. CASE UNCHANGED threadVars
  BY <1>1 DEF ThreadsTypeOK, threadVars
<1>2. CASE \E t \in Emulators : Terminate(t)
  BY <1>2 DEF ThreadsTypeOK, Terminate
<1>3. CASE IoEmulator \/ TimeUp
  BY <1>3 DEF ThreadsTypeOK, IoEmulator, Flush, Count, Take, Leave, TimeUp, threadVars, Emulators
<1>4. CASE UpdateEmulator
  BY <1>4 DEF ThreadsTypeOK, UpdateEmulator, Turn, RequestStop, Spin, Store, FinishStore, Enough,
     threadVars, Emulators
<1>5. CASE FibEmulator
  BY <1>5 DEF ThreadsTypeOK, FibEmulator, FibLoad, FibTick, FibLeave, threadVars, Emulators
<1>6. Worker => UNCHANGED threadVars \/ \E t \in Emulators : Terminate(t)
  <2>1. CASE Finish
    <3>1. "updates" \in Emulators /\ "packets" \in Emulators
      BY DEF Emulators
    <3> QED BY <2>1, <3>1 DEF Finish, Stop, Joined, Join
  <2>2. CASE WantPackets \/ Push
    <3>1. PullPackets => UNCHANGED threadVars
      BY DEF PullPackets, PullCopies, PullSlice, PullAcross
    <3>2. PushPackets => UNCHANGED threadVars
      BY DEF PushPackets
    <3> QED BY <2>2, <3>1, <3>2 DEF WantPackets, Push
  <2>3. CASE Loop \/ WantUpdates \/ WantFibUpdates \/ ApplyNext \/ Crash
    BY <2>3 DEF Loop, WantUpdates, PullUpdates, WantFibUpdates, FibPull, ApplyNext, Apply, Crash
  <2> QED BY <2>1, <2>2, <2>3 DEF Worker
<1> QED BY <1>1, <1>2, <1>3, <1>4, <1>5, <1>6 DEF Next, vars, Packets, Clock, Feed, WhenAlive

LEMMA WorkerKept ==
  ASSUME WorkerTyped, [Next]_vars
  PROVE  WorkerTyped'
<1>1. CASE UNCHANGED <<manager, pc>>
  BY <1>1 DEF WorkerTyped
<1>2. CASE Worker
  BY <1>2 DEF WorkerTyped, Worker, Loop, WantUpdates, WantFibUpdates, ApplyNext, Crash, WantPackets,
     Push, Finish, Stop, Joined
<1> QED BY <1>1, <1>2 DEF Next, vars, workerVars, Packets, Clock, Feed, WhenAlive

\* The emulator of the updates and the worker keep their counts.
LEMMA FeedCounts ==
  ASSUME FeedInv, FeedCounted, [Next]_vars
  PROVE  FeedCounted'
<1>1. /\ bufferHead \in Nat /\ bufferTail \in Nat /\ bufferHead <= bufferTail
      /\ bufferTail <= BufferEnd /\ BufferEnd \in Nat /\ UpdBatch \in Nat \ {0}
      /\ stored \in [Kinds -> Nat] /\ half \in BOOLEAN /\ tailFirst \in BOOLEAN
  BY BufferEndBound, FeedAssumption DEF FeedInv, FeedTyped
<1>2. BufferEnd' = BufferEnd
  BY DEF BufferEnd
<1>3. CASE UNCHANGED <<updVars, at>>
  <2>1. Written' = Written
    BY <1>3 DEF Written, updVars, feedVars
  <2> QED BY <1>2, <1>3, <2>1 DEF FeedCounted, updVars, feedVars, wantVars
<1>4. CASE WantUpdates
  <2>1. UNCHANGED <<tailFirst, feedVars>> /\ at' = 0
    BY <1>4 DEF WantUpdates, PullUpdates
  <2>2. Written' = Written
    BY <2>1 DEF Written, feedVars
  <2>3. nUpdates' \in 0..UpdBatch /\ (updates' # Null => updates' <= BufferEnd)
    <3>1. CASE bufferHead >= bufferTail
      BY <1>4, <3>1 DEF FeedCounted, WantUpdates, PullUpdates, wantVars
    <3>2. CASE bufferHead < bufferTail
      <4>0. ~(bufferHead >= bufferTail)
        BY <1>1, <3>2
      <4>1. updates' = bufferHead /\ nUpdates' = LeastOf(UpdBatch, bufferTail - bufferHead)
        BY <1>4, <4>0, Zenon DEF WantUpdates, PullUpdates
      <4>2. bufferTail - bufferHead \in Nat
        BY <1>1
      <4>3. nUpdates' \in Nat /\ nUpdates' <= UpdBatch
        BY <1>1, <4>1, <4>2, LeastOfBounds
      <4> QED BY <1>1, <4>1, <4>3
    <3> QED BY <1>1, <3>1, <3>2
  <2> QED BY <1>1, <1>2, <2>1, <2>2, <2>3 DEF FeedCounted, feedVars
<1>5. CASE ApplyNext
  <2>1. UNCHANGED <<tailFirst, feedVars, updates, nUpdates>> /\ at' = at + 1 /\ at < nUpdates
    BY <1>5 DEF ApplyNext, Apply, wantVars
  <2>2. Written' = Written
    BY <2>1 DEF Written, feedVars
  <2> QED BY <1>1, <1>2, <2>1, <2>2 DEF FeedCounted, feedVars
<1>6. CASE (Turn \/ RequestStop \/ Spin \/ \E kind \in Kinds : Enough(kind)) /\ UNCHANGED workerVars
  <2>1. UNCHANGED <<tailFirst, stored, half, bufferTail, updates, nUpdates, at>>
    BY <1>6 DEF Turn, RequestStop, Spin, Enough, wantVars, workerVars
  <2>2. Written' = Written
    BY <2>1 DEF Written
  <2>3. feedPc' \in Kinds \cup {"loop", "stop", "spin", "end"}
    BY <1>6 DEF Turn, RequestStop, Spin, Enough, Kinds
  <2> QED BY <1>2, <2>1, <2>2, <2>3 DEF FeedCounted
<1>7. CASE (\E kind \in Kinds : Store(kind)) /\ UNCHANGED workerVars
  <2>1. /\ UNCHANGED <<tailFirst, feedPc, stored, updates, nUpdates, at>> /\ ~half /\ half' = TRUE
        /\ bufferTail' = IF tailFirst THEN bufferTail + 1 ELSE bufferTail
    BY <1>7 DEF Store, wantVars, workerVars
  <2>2. Written' = Written
    BY <1>1, <2>1 DEF Written
  <2> QED BY <1>2, <2>1, <2>2 DEF FeedCounted
<1>8. CASE UNCHANGED workerVars /\ \E kind \in Kinds : FinishStore(kind)
  <2>1. PICK kind \in Kinds : FinishStore(kind)
    BY <1>8
  <2>2. /\ UNCHANGED <<tailFirst, feedPc, updates, nUpdates, at>> /\ half /\ half' = FALSE
        /\ bufferTail' = IF tailFirst THEN bufferTail ELSE bufferTail + 1
        /\ stored' = [stored EXCEPT ![kind] = @ + 1]
    BY <1>8, <2>1 DEF FinishStore, wantVars, workerVars
  <2>3. Written' = Written + 1
    BY <1>1, <2>2 DEF Written
  <2>4. stored'["insertions"] + stored'["deletions"] = stored["insertions"] + stored["deletions"] + 1
    BY <1>1, <2>2 DEF Kinds
  <2> QED BY <1>2, <2>2, <2>3, <2>4 DEF FeedCounted
<1> QED
  BY <1>3, <1>4, <1>5, <1>6, <1>7, <1>8 DEF Next, vars, Worker, Loop, WantFibUpdates, Crash,
     WantPackets, Push, Finish, Stop, Joined, Packets, Clock, Feed, WhenAlive, UpdateEmulator, workerVars

LEMMA FeedTypes == FeedInv /\ FeedCounted => FeedTypeOK
<1> SUFFICES ASSUME FeedInv, FeedCounted PROVE FeedTypeOK
  OBVIOUS
<1>1. BufferEnd \in Nat /\ Written \in Nat /\ Written <= BufferEnd
  BY BufferEndBound, WrittenBound DEF FeedInv, FeedTyped
<1>2. stored \in [Kinds -> 0..BufferEnd]
  <2>1. stored \in [Kinds -> Nat] /\ stored["insertions"] + stored["deletions"] = Written
    BY DEF FeedInv, FeedTyped, FeedCounted
  <2>2. \A kind \in Kinds : stored[kind] \in 0..BufferEnd
    BY <1>1, <2>1 DEF Kinds
  <2> QED BY <2>1, <2>2
<1> QED BY <1>1, <1>2 DEF FeedInv, FeedTyped, FeedCounted, WorkerInStep, FeedTypeOK


LEMMA InitTypes == Init => ThreadsTypeOK /\ WorkerTyped /\ FeedCounted
<1> SUFFICES ASSUME Init PROVE ThreadsTypeOK /\ WorkerTyped /\ FeedCounted
  OBVIOUS
<1>1. ThreadsTypeOK
  BY DEF Init, ThreadsInit, ThreadsTypeOK
<1>2. WorkerTyped
  BY SetupsAssumption DEF Init, WorkerTyped
<1>3. FeedCounted
  <2>1. /\ FeedInit /\ at = 0
        /\ UpdBatch \in Nat \ {0}
    BY FeedAssumption DEF Init
  <2>2. Written = 0 /\ stored["insertions"] + stored["deletions"] = 0
    BY <2>1 DEF FeedInit, Written, Kinds
  <2>3. nUpdates \in 0..UpdBatch /\ updates = Null /\ feedPc = "loop"
    BY <2>1 DEF FeedInit
  <2> QED BY <2>1, <2>2, <2>3 DEF FeedCounted
<1> QED BY <1>1, <1>2, <1>3

\* The tail of a forwarding table's buffer, its head and the batches of the
\* worker stay in step, in every state.
THEOREM FibInvariant == Spec => []FibInv
<1>1. Init => FibInv
  BY InitFib
<1>2. FibInv /\ [Next]_vars => FibInv'
  BY FibStep
<1> QED BY <1>1, <1>2, PTL DEF Spec

\* The buffer of a forwarding table holds the updates in order of time,
\* whatever the file, unless the sort by route left its two lists out of order
\* (update.cpp:102, fib-update-manager.cpp:44-55).
THEOREM BufferInOrder == Spec => []BufferByTime
<1>1. FibInv => BufferByTime
  BY FibImplies
<1> QED BY <1>1, FibInvariant, PTL

\* The worker pulls that buffer in order, round and round, and nothing before
\* it is due, whatever the number of updates, though the tail only ever is at
\* one of two positions (fib-update-manager.cpp:67, 122-134).
THEOREM FibPullsInOrder == Spec => []FibPulledInOrder
<1>1. FibInv => FibPulledInOrder
  BY FibImplies
<1> QED BY <1>1, FibInvariant, PTL

\* Every variable of the emulation keeps its type; the positions in the rings
\* and in the two buffers are within them but for the exceptions that the types
\* name.
THEOREM EmulationTypes == Spec => []TypeOK
<1> DEFINE Inv == ThreadsTypeOK /\ RingTypeOK /\ FeedInv /\ FeedCounted /\ FibInv /\ WorkerTyped
<1>1. Init => Inv
  BY InitTypes, InitRingTypes, InitFeed, InitFib
<1>2. Inv /\ [Next]_vars => Inv'
  BY ThreadsTyped, NextRingTypes, FeedStep, FeedCounts, FibStep, WorkerKept
<1>3. Inv => TypeOK
  <2>1. FibInv => FibTypeOK
    BY FibTypes DEF FibInv
  <2>2. FeedCounted => at \in 0..UpdBatch
    BY DEF FeedCounted
  <2> QED BY <2>1, <2>2, FeedTypes DEF TypeOK, WorkerTyped
<1> HIDE DEF Inv
<1> QED BY <1>1, <1>2, <1>3, PTL DEF Spec

=============================================================================
