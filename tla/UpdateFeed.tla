----------------------------- MODULE UpdateFeed -----------------------------
(***************************************************************************)
(* dummy-update-manager.cpp: an emulator thread that copies the insertions *)
(* and deletions of a file into a buffer as time passes, and pullUpdates,  *)
(* with which the worker takes what is there.  No lock is taken.           *)
(***************************************************************************)
EXTENDS Threads

CONSTANTS
  MaxInsertions, MaxDeletions,   \* what the update file holds
  MaxUpdates,                    \* max_updates, the slots of the buffer
  UpdBatch                       \* updBatch of the worker

ASSUME FeedAssumption ==
  /\ MaxInsertions \in Nat /\ MaxDeletions \in Nat
  /\ MaxUpdates \in Nat
  /\ UpdBatch \in Nat \ {0}

Kinds   == {"insertions", "deletions"}
Updates == Kinds \X Nat

\* What a slot of MEM_ALLOC holds before anything is written to it.
Unwritten == <<"unwritten", 0>>

\* The null pointer that pullUpdates returns.
Null == -1

VARIABLES
  tailFirst,    \* the build: whether the store to bufferTail comes first
  slots,        \* updatesBuffer
  bufferHead, bufferTail,
  feedPc,       \* the emulator: "loop", one of Kinds, "stop", "spin" or "end"
  stored,       \* nInsertions, nDeletions
  half,         \* whether one of the two stores of an update is done
  updates,      \* the worker's updates, a position in the buffer or Null
  nUpdates,     \* the worker's nUpdates, not initialised by emulation
  applied       \* history: the updates the worker gave to the classifier

feedVars == <<feedPc, stored, half, slots, bufferTail>>
wantVars == <<bufferHead, updates, nUpdates>>
updVars  == <<tailFirst, feedVars, wantVars, applied>>

BufferEnd == LeastOf(MaxInsertions + MaxDeletions, MaxUpdates)

Limit(kind) == IF kind = "insertions" THEN MaxInsertions ELSE MaxDeletions

FeedInit ==
  /\ tailFirst \in BOOLEAN
  /\ slots = [i \in 0..(MaxUpdates - 1) |-> Unwritten]
  /\ bufferHead = 0 /\ bufferTail = 0
  /\ feedPc = "loop"
  /\ stored = [kind \in Kinds |-> 0]
  /\ half = FALSE
  /\ updates = Null
  /\ nUpdates \in 0..1
  /\ applied = <<>>

-----------------------------------------------------------------------------
(***************************************************************************)
(* The emulator.  Its clock decides how many updates of a kind it stores   *)
(* in one turn: any number here.                                           *)
(***************************************************************************)

More ==
  /\ running["updates"]
  /\ bufferTail < BufferEnd
  /\ \A kind \in Kinds : stored[kind] < Limit(kind)

\* The condition of the outer loop.
Turn ==
  /\ feedPc = "loop"
  /\ feedPc' = IF More THEN "insertions" ELSE "stop"
  /\ UNCHANGED <<threadVars, tailFirst, stored, half, slots, bufferTail, wantVars, applied>>

\* Mutant of Store: the end of the buffer is not respected.
StoreOn(kind) ==
  /\ feedPc = kind
  /\ ~half
  /\ stored[kind] < Limit(kind)
  /\ half' = TRUE
  /\ IF tailFirst
     THEN bufferTail' = bufferTail + 1 /\ UNCHANGED slots
     ELSE slots' = [slots EXCEPT ![bufferTail] = <<kind, stored[kind]>>] /\ UNCHANGED bufferTail
  /\ UNCHANGED <<threadVars, tailFirst, feedPc, stored, wantVars, applied>>

\* updatesBuffer[bufferTail ++] = insertions[nInsertions ++] is two stores to
\* shared memory, whose order the build chooses.
Store(kind) ==
  /\ feedPc = kind
  /\ ~half
  /\ bufferTail < BufferEnd
  /\ stored[kind] < Limit(kind)
  /\ half' = TRUE
  /\ IF tailFirst
     THEN bufferTail' = bufferTail + 1 /\ UNCHANGED slots
     ELSE slots' = [slots EXCEPT ![bufferTail] = <<kind, stored[kind]>>] /\ UNCHANGED bufferTail
  /\ UNCHANGED <<threadVars, tailFirst, feedPc, stored, wantVars, applied>>

FinishStore(kind) ==
  /\ feedPc = kind
  /\ half
  /\ half' = FALSE
  /\ stored' = [stored EXCEPT ![kind] = @ + 1]
  /\ IF tailFirst
     THEN slots' = [slots EXCEPT ![bufferTail - 1] = <<kind, stored[kind]>>] /\ UNCHANGED bufferTail
     ELSE bufferTail' = bufferTail + 1 /\ UNCHANGED slots
  /\ UNCHANGED <<threadVars, tailFirst, feedPc, wantVars, applied>>

\* Enough of this kind for the time that has passed.
Enough(kind) ==
  /\ feedPc = kind
  /\ ~half
  /\ feedPc' = IF kind = "insertions" THEN "deletions" ELSE "loop"
  /\ UNCHANGED <<threadVars, tailFirst, stored, half, slots, bufferTail, wantVars, applied>>

RequestStop ==
  /\ feedPc = "stop"
  /\ feedPc' = "spin"
  /\ stopRequested' = TRUE
  /\ UNCHANGED <<running, ended, tailFirst, stored, half, slots, bufferTail, wantVars, applied>>

\* while (thisThread->running), then the rules of the file are freed.
Spin ==
  /\ feedPc = "spin"
  /\ ~running["updates"]
  /\ feedPc' = "end"
  /\ ended' = [ended EXCEPT !["updates"] = TRUE]
  /\ UNCHANGED <<stopRequested, running, tailFirst, stored, half, slots, bufferTail, wantVars, applied>>

UpdateEmulator ==
  \/ Turn \/ RequestStop \/ Spin
  \/ \E kind \in Kinds : Store(kind) \/ FinishStore(kind) \/ Enough(kind)

-----------------------------------------------------------------------------
(***************************************************************************)
(* The worker.  bufferTail is read once or twice by pullUpdates; what the  *)
(* first read permits the second permits too, so that one step stands for  *)
(* both.                                                                   *)
(***************************************************************************)

\* Mutant of PullUpdates: the batch is not taken off the buffer.
PullUpdatesAgain ==
  /\ IF bufferHead >= bufferTail
     THEN updates' = Null /\ UNCHANGED nUpdates
     ELSE updates' = bufferHead /\ nUpdates' = LeastOf(UpdBatch, bufferTail - bufferHead)
  /\ UNCHANGED <<threadVars, tailFirst, feedVars, bufferHead, applied>>

PullUpdates ==
  /\ IF bufferHead >= bufferTail
     THEN updates' = Null /\ UNCHANGED <<nUpdates, bufferHead>>
     ELSE /\ updates' = bufferHead
          /\ nUpdates' = LeastOf(UpdBatch, bufferTail - bufferHead)
          /\ bufferHead' = bufferHead + nUpdates'
  /\ UNCHANGED <<threadVars, tailFirst, feedVars, applied>>

\* processUpdate of the update at position i of the batch.
Apply(i) ==
  /\ updates # Null
  /\ applied' = Append(applied, slots[updates + i])
  /\ UNCHANGED <<threadVars, tailFirst, feedVars, wantVars>>

-----------------------------------------------------------------------------
FeedTypeOK ==
  /\ tailFirst \in BOOLEAN
  /\ slots \in [0..(MaxUpdates - 1) -> Updates \cup {Unwritten}]
  /\ bufferTail \in 0..BufferEnd /\ bufferHead \in 0..bufferTail
  /\ feedPc \in Kinds \cup {"loop", "stop", "spin", "end"}
  /\ stored \in [Kinds -> 0..BufferEnd]
  /\ half \in BOOLEAN
  /\ updates \in {Null} \cup 0..BufferEnd
  /\ nUpdates \in 0..UpdBatch
  /\ applied \in Seq(Updates \cup {Unwritten})

\* The classifier gets no update twice, and gets the updates in the order in
\* which the emulator stored them, those of one kind in the order of the file.
\* A build that stores the slot before bufferTail never hands over a slot that
\* is not written; one that stores bufferTail first may, and the update of that
\* slot is then lost (dummy-update-manager.cpp:47, 53, 96-105).
AppliedInOrder ==
  /\ Len(applied) <= bufferHead
  /\ \A i \in 1..Len(applied) :
       IF applied[i] = Unwritten THEN tailFirst ELSE applied[i] = slots[i - 1]
  /\ \A i, j \in DOMAIN applied :
       (i < j /\ applied[i] # Unwritten /\ applied[i][1] = applied[j][1]) =>
         applied[i][2] < applied[j][2]

=============================================================================
