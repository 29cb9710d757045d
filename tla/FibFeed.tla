------------------------------- MODULE FibFeed -------------------------------
(***************************************************************************)
(* fib-update-manager.cpp over loadIpUpdates of data/update.cpp: the       *)
(* updates of a forwarding table, sorted and merged into one buffer by the *)
(* emulator thread, which then moves a tail; the worker pulls what lies    *)
(* between head and tail and starts again at the end.  No lock is taken.   *)
(*                                                                         *)
(* An update is a record: its time in the file, and od, its number among   *)
(* those of the same time.                                                 *)
(***************************************************************************)
EXTENDS Threads

CONSTANTS
  UpdateFiles,   \* files: the times of its insertions in order of route, ins, and of its deletions, del
  MaxDue         \* bound: the updates that fall due while the emulation runs

ASSUME UpdateFilesAssumption ==
  /\ \A file \in UpdateFiles : file.ins \in Seq(Nat \ {0}) /\ file.del \in Seq(Nat \ {0})
  /\ MaxDue \in Nat

VARIABLES
  fibPc,        \* the emulator: "load", "loop" or "end"
  fibBuffer,    \* updatesBuffer, whole once it is loaded
  sorted,       \* history: whether the two lists are in order of time, as loaded
  fibDue,       \* nProcessedUpdates
  fibHead, fibTail,
  fibBatch,     \* the worker's last batch: from where, how many
  fibPulled     \* history: how many updates the worker has pulled, at most MaxDue + 1

fibFeedVars == <<fibPc, fibBuffer, sorted, fibDue, fibTail>>
fibWantVars == <<fibHead, fibBatch, fibPulled>>
fibVars     == <<fibFeedVars, fibWantVars>>

FibInit ==
  /\ fibPc = "load" /\ fibBuffer = <<>> /\ sorted = TRUE
  /\ fibDue = 0 /\ fibHead = 0 /\ fibTail = 0
  /\ fibBatch = [from |-> 0, n |-> 0] /\ fibPulled = 0

-----------------------------------------------------------------------------
(***************************************************************************)
(* The emulator.                                                           *)
(***************************************************************************)

Reorderings(s) ==
  {[i \in DOMAIN s |-> s[p[i]]] :
     p \in {q \in [DOMAIN s -> DOMAIN s] : \A i, j \in DOMAIN s : q[i] = q[j] => i = j}}

\* std::sort by route, which is 0 for all deletions: they come first, in any
\* order.
Sorted(file) == {d \o file.ins : d \in Reorderings(file.del)}

\* The loop of loadIpUpdates: od counts the updates of one time in a row.
Numbered(s) ==
  LET od[i \in 0..Len(s)] ==
        IF i > 1 /\ s[i] = s[i - 1] THEN od[i - 1] + 1 ELSE 0
  IN  [i \in DOMAIN s |-> [time |-> s[i], od |-> od[i]]]

\* Mutant of isEarlier: the times are not looked at.
isEarlierByNumber(x, y) == x.od < y.od

isEarlier(x, y) == x.time < y.time \/ (x.time = y.time /\ x.od < y.od)

\* The three loops that fill updatesBuffer from the two lists: taken[n] is
\* nInsertions once nUpdates is n.
Merged(ins, del) ==
  LET total == Len(ins) + Len(del)
      taken[n \in 0..total] ==
        IF n = 0 THEN 0
        ELSE LET i == taken[n - 1]  d == n - 1 - i
             IN  IF i < Len(ins) /\ (d = Len(del) \/ isEarlier(ins[i + 1], del[d + 1]))
                 THEN i + 1 ELSE i
  IN  [n \in 1..total |->
         IF taken[n] > taken[n - 1] THEN ins[taken[n]] ELSE del[n - taken[n]]]

ByTime(s) == \A i \in 2..Len(s) : s[i - 1].time <= s[i].time

FibLoad ==
  /\ fibPc = "load"
  /\ \E file \in UpdateFiles : \E s \in Sorted(file) :
       LET all == Numbered(s)
           del == SubSeq(all, 1, Len(file.del))
           ins == SubSeq(all, Len(file.del) + 1, Len(all))
       IN  /\ fibBuffer' = Merged(ins, del)
           /\ sorted' = (ByTime(ins) /\ ByTime(del))
  /\ fibPc' = "loop"
  /\ UNCHANGED <<threadVars, fibDue, fibTail, fibWantVars>>

\* tot_update_mask: not a mask but the highest bit of totalUpdates + 1.
TailBit == LastPower(Len(fibBuffer))

\* nProcessedUpdates & tot_update_mask
TailFor(n) == ((n \div TailBit) % 2) * TailBit

\* More updates fall due, any number.
FibTick ==
  /\ fibPc = "loop" /\ running["updates"]
  /\ fibDue' \in (fibDue + 1)..MaxDue
  /\ fibTail' = TailFor(fibDue')
  /\ UNCHANGED <<threadVars, fibPc, fibBuffer, sorted, fibWantVars>>

\* The emulator ends when the worker tells it to, and not before.
FibLeave ==
  /\ fibPc = "loop" /\ ~running["updates"]
  /\ fibPc' = "end"
  /\ stopRequested' = TRUE
  /\ ended' = [ended EXCEPT !["updates"] = TRUE]
  /\ UNCHANGED <<running, fibBuffer, sorted, fibDue, fibTail, fibWantVars>>

FibEmulator == FibLoad \/ FibTick \/ FibLeave

-----------------------------------------------------------------------------
(***************************************************************************)
(* The worker: pullUpdates reads bufferTail once and does not cut a batch. *)
(***************************************************************************)

\* Mutant of FibPull: a tail at the head counts as one before it.
FibPullFull ==
  LET n    == IF fibTail <= fibHead THEN Len(fibBuffer) - fibHead ELSE fibTail - fibHead
      next == fibHead + n
  IN  /\ fibBatch' = [from |-> fibHead, n |-> n]
      /\ fibPulled' = LeastOf(MaxDue + 1, fibPulled + n)
      /\ fibHead' = IF next = Len(fibBuffer) THEN 0 ELSE next
      /\ UNCHANGED <<threadVars, fibFeedVars>>

FibPull ==
  LET n    == IF fibTail < fibHead THEN Len(fibBuffer) - fibHead ELSE fibTail - fibHead
      next == fibHead + n
  IN  /\ fibBatch' = [from |-> fibHead, n |-> n]
      /\ fibPulled' = LeastOf(MaxDue + 1, fibPulled + n)
      /\ fibHead' = IF next = Len(fibBuffer) THEN 0 ELSE next
      /\ UNCHANGED <<threadVars, fibFeedVars>>

-----------------------------------------------------------------------------
FibTypeOK ==
  /\ fibPc \in {"load", "loop", "end"}
  /\ sorted \in BOOLEAN
  /\ fibBuffer \in Seq([time : Nat \ {0}, od : Nat])
  /\ fibDue \in 0..MaxDue
  /\ fibTail \in {0, TailBit}
  /\ fibHead \in 0..(Len(fibBuffer) + 1)
  /\ fibBatch.from \in Nat /\ fibBatch.n \in Int
  /\ fibPulled \in Int

\* The buffer holds the updates in order of time, those of the two lists in
\* turn, unless the sort by route left those out of order: it may mix up the
\* deletions, which have no route (update.cpp:102, fib-update-manager.cpp:44-55).
BufferByTime == sorted => ByTime(fibBuffer)

\* The worker gets the updates of the buffer in order, round and round, never
\* reads behind the buffer and never gets one before it is due, although the
\* tail is one of two positions and the worker may miss that it moved.  There
\* are two exceptions: a buffer one short of a power of two has its tail behind
\* it, and one of a power of two is pulled again as long as its tail is at its
\* end (fib-update-manager.cpp:67, 122-134).
FibPulledInOrder ==
  Len(fibBuffer) + 1 # TailBit =>
    /\ fibBatch.from + fibBatch.n <= Len(fibBuffer)
    /\ (fibBatch.n > 0 /\ fibPulled <= MaxDue) =>
         (fibPulled - fibBatch.n - fibBatch.from) % Len(fibBuffer) = 0
    /\ Len(fibBuffer) # TailBit => fibPulled <= fibDue

=============================================================================
