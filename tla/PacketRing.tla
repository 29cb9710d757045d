----------------------------- MODULE PacketRing -----------------------------
(***************************************************************************)
(* dummy-io.cpp, and ll-dummy-io.cpp which does the same with plain        *)
(* functions: an emulator thread that makes packets of a fixed buffer      *)
(* available by moving the tail of a ring, a worker that pulls them and    *)
(* pushes them back through a second ring, and an emulator that counts     *)
(* what comes back.  No lock is taken.                                     *)
(*                                                                         *)
(* A packet is its position in m_packetBuffer.  The heads and tails of     *)
(* both rings are ints that one thread writes and the other reads.         *)
(***************************************************************************)
EXTENDS Threads

CONSTANT PktBatch   \* pktBatch of the worker

ASSUME RingAssumption == PktBatch \in Nat \ {0}

VARIABLES
  size,        \* m_nTotalPackets
  maxSent,     \* bound of the model: how many packets the emulator sends
  pulling,     \* what the worker calls: pullPackets that "copies" or that "slices", or
               \* "low", the pull of ll-dummy-io.cpp
  rxHead, rxTail, txHead, txTail,
  ioPc,        \* the emulator: "loop", "count", "take" or "end"
  late,        \* whether test_seconds have passed
  nSent, nReceived,
  due, seen,   \* the emulator's nPackets and the m_txTail it is computed from
  batch,       \* the packets pulled and not pushed yet
  pulled,      \* history: number of packets pulled
  pushed       \* history: number of packets pushed

ioVars   == <<ioPc, late, nSent, nReceived, due, seen, rxTail, txHead>>
pullVars == <<rxHead, batch, pulled>>
pushVars == <<txTail, pushed>>
ringVars == <<size, maxSent, pulling, ioVars, pullVars, pushVars>>

\* m_packs_nb_mask: the largest 2^k - 1 that is at most n.
MaskOf(n) == LastPower(n) - 1

\* x & m_packs_nb_mask
Masked(x) == x % (MaskOf(size) + 1)

\* The low-level start cuts the buffer to a power of two that fits in it.
RingInit(packets, sent, ways) ==
  /\ pulling \in ways
  /\ size \in 1..packets
  /\ size = IF pulling = "low" THEN MaskOf(packets - 1) + 1 ELSE packets
  /\ maxSent = sent
  /\ rxHead = 0 /\ rxTail = 0 /\ txHead = 0 /\ txTail = 0
  /\ ioPc = "loop" /\ late = FALSE
  /\ nSent = 0 /\ nReceived = 0
  /\ due = 0 /\ seen = 0
  /\ batch = <<>> /\ pulled = 0 /\ pushed = 0

-----------------------------------------------------------------------------
(***************************************************************************)
(* The emulator.                                                           *)
(***************************************************************************)

\* The clock reaches test_seconds.
TimeUp ==
  /\ ~late
  /\ late' = TRUE
  /\ UNCHANGED <<threadVars, size, maxSent, pulling, pullVars, pushVars, ioPc, nSent,
                 nReceived, due, seen, rxTail, txHead>>

\* The low-level emulator does not go on when somebody else asked for a stop.
Stopped == late \/ ~running["packets"] \/ (pulling = "low" /\ stopRequested)

\* The packets of the time since the last turn become available, any number.
Flush ==
  /\ ioPc = "loop"
  /\ ~Stopped
  /\ nSent' \in nSent..maxSent
  /\ rxTail' = IF nSent' > nSent THEN nSent' % size ELSE rxTail
  /\ ioPc' = "count"
  /\ UNCHANGED <<threadVars, size, maxSent, pulling, pullVars, pushVars, late,
                 nReceived, due, seen, txHead>>

\* Mutant of Count: an empty ring counts as a full one.
CountFull ==
  /\ ioPc = "count"
  /\ due' = IF txTail <= txHead THEN txTail - txHead + size ELSE txTail - txHead
  /\ IF due' > 0 THEN ioPc' = "take" /\ seen' = txTail ELSE ioPc' = "loop" /\ UNCHANGED seen
  /\ UNCHANGED <<threadVars, size, maxSent, pulling, pullVars, pushVars, late, nSent,
                 nReceived, rxTail, txHead>>

\* nPackets, from the first read of m_txTail.
Count ==
  /\ ioPc = "count"
  /\ due' = IF txTail < txHead THEN txTail - txHead + size ELSE txTail - txHead
  /\ IF due' > 0 THEN ioPc' = "take" /\ seen' = txTail ELSE ioPc' = "loop" /\ UNCHANGED seen
  /\ UNCHANGED <<threadVars, size, maxSent, pulling, pullVars, pushVars, late, nSent,
                 nReceived, rxTail, txHead>>

\* m_txHead gets m_txTail, which a build may or may not read once more.
Take ==
  /\ ioPc = "take"
  /\ txHead' \in {seen, txTail}
  /\ nReceived' = nReceived + due
  /\ ioPc' = "loop"
  /\ due' = 0 /\ seen' = 0
  /\ UNCHANGED <<threadVars, size, maxSent, pulling, pullVars, pushVars, late, nSent, rxTail>>

\* Mutant of Leave: the emulator does not tell the worker.
LeaveSilently ==
  /\ ioPc = "loop"
  /\ Stopped
  /\ ioPc' = "end"
  /\ ended' = [ended EXCEPT !["packets"] = TRUE]
  /\ UNCHANGED <<stopRequested, running, size, maxSent, pulling, pullVars, pushVars,
                 late, nSent, nReceived, due, seen, rxTail, txHead>>

Leave ==
  /\ ioPc = "loop"
  /\ Stopped
  /\ ioPc' = "end"
  /\ stopRequested' = TRUE
  /\ ended' = [ended EXCEPT !["packets"] = TRUE]
  /\ UNCHANGED <<running, size, maxSent, pulling, pullVars, pushVars, late, nSent,
                 nReceived, due, seen, rxTail, txHead>>

IoEmulator == Flush \/ Count \/ Take \/ Leave

-----------------------------------------------------------------------------
(***************************************************************************)
(* The worker.  m_rxTail is read once, at the start; m_rxHead and m_txTail *)
(* are written by the worker only.                                         *)
(***************************************************************************)

Consecutive(first, n) == [j \in 1..n |-> first + j - 1]

\* Mutant of PullCopies: an empty ring counts as a full one.
PullCopiesFull ==
  LET wraps == rxTail <= rxHead
      upper == IF wraps THEN LeastOf(PktBatch, size - rxHead) ELSE 0
      from  == IF wraps /\ upper < PktBatch THEN 0 ELSE rxHead + upper
      lower == IF from < rxTail THEN LeastOf(PktBatch - upper, rxTail - from) ELSE 0
  IN  /\ pulling = "copies"
      /\ batch' = Consecutive(rxHead, upper) \o Consecutive(from, lower)
      /\ rxHead' = from + lower

\* pullPackets(pkts, max_num): first up to the end of the buffer, if the tail
\* is behind the head, then up to the tail.
PullCopies ==
  LET wraps == rxTail < rxHead
      upper == IF wraps THEN LeastOf(PktBatch, size - rxHead) ELSE 0
      from  == IF wraps /\ upper < PktBatch THEN 0 ELSE rxHead + upper
      lower == IF from < rxTail THEN LeastOf(PktBatch - upper, rxTail - from) ELSE 0
  IN  /\ pulling = "copies"
      /\ batch' = Consecutive(rxHead, upper) \o Consecutive(from, lower)
      /\ rxHead' = from + lower

\* pullPackets(num, max_num): a slice of the buffer.
PullSlice ==
  LET n == LeastOf(PktBatch, IF rxTail < rxHead THEN size - rxHead ELSE rxTail - rxHead)
  IN  /\ pulling = "slices"
      /\ batch' = Consecutive(rxHead, n)
      /\ rxHead' = Masked(rxHead + n)

\* pull of ll-dummy-io.cpp: a slice as well, but of all that is there, so that
\* it goes on behind the buffer where the ring wraps.
PullAcross ==
  LET n == LeastOf(PktBatch, IF rxTail < rxHead THEN rxTail - rxHead + size ELSE rxTail - rxHead)
  IN  /\ pulling = "low"
      /\ batch' = Consecutive(rxHead, n)
      /\ rxHead' = Masked(rxHead + n)

PullPackets ==
  /\ PullCopies \/ PullSlice \/ PullAcross
  /\ pulled' = pulled + Len(batch')
  /\ UNCHANGED <<threadVars, size, maxSent, pulling, ioVars, pushVars>>

PushPackets ==
  /\ txTail' = Masked(txTail + Len(batch))
  /\ pushed' = pushed + Len(batch)
  /\ batch' = <<>>
  /\ UNCHANGED <<threadVars, size, maxSent, pulling, ioVars, rxHead, pulled>>

-----------------------------------------------------------------------------
RingTypeOK ==
  /\ size \in Nat \ {0} /\ maxSent \in Nat /\ pulling \in {"copies", "slices", "low"}
  /\ rxHead \in 0..size /\ rxTail \in 0..(size - 1)
  /\ txHead \in 0..MaskOf(size) /\ txTail \in 0..MaskOf(size)
  /\ ioPc \in {"loop", "count", "take", "end"}
  /\ late \in BOOLEAN
  /\ nSent \in 0..maxSent /\ nReceived \in Nat
  /\ due \in 0..size /\ seen \in 0..MaskOf(size)
  /\ batch \in Seq(0..(2 * size - 1))
  /\ pulled \in Nat /\ pushed \in Nat

\* The masks of push and of the slices wrap a ring of 2^k packets.
PowerOfTwo == size = MaskOf(size) + 1

\* A worker that copies packets, or that takes slices of a ring of 2^k, gets
\* the packets of the file in order, round and round, and never one that the
\* emulator has not sent: pullPackets reads a tail that moves meanwhile, wraps
\* at the end of the buffer and splits batches (dummy-io.cpp:51-90).  Only a
\* low-level slice runs on behind the buffer instead of starting again
\* (ll-dummy-io.cpp:94).  Slices of a ring of another size are excepted: they
\* lose their place when the mask wraps it (dummy-io.cpp:87).
PacketsInOrder ==
  (pulling = "copies" \/ PowerOfTwo) =>
    /\ pulled <= nSent
    /\ \A j \in 1..Len(batch) :
         LET turn == (pulled - Len(batch) + j - 1) % size
         IN  batch[j] = turn \/ (pulling = "low" /\ batch[j] = turn + size)

\* The emulator counts no packet that was not pushed, though the ring may
\* wrap and its tail move between the two reads (dummy-io.cpp:134-141).
ReceivedWerePushed == PowerOfTwo => nReceived <= pushed

=============================================================================
