------------------------------ MODULE Threads ------------------------------
(***************************************************************************)
(* pp-thread.cpp and the global stop flag: the worker launches two         *)
(* emulator threads, any of the three sees the flag that any emulator has  *)
(* raised, and the worker ends an emulator by clearing its running flag    *)
(* and joining it.                                                         *)
(***************************************************************************)
EXTENDS Integers, Sequences

Emulators == {"packets", "updates"}

VARIABLES
  stopRequested,   \* globalStopRequested
  running,         \* ThreadArgs::running of each emulator
  ended            \* whether the function of each emulator has returned

threadVars == <<stopRequested, running, ended>>

ThreadsTypeOK ==
  /\ stopRequested \in BOOLEAN
  /\ running \in [Emulators -> BOOLEAN]
  /\ ended \in [Emulators -> BOOLEAN]

\* launchThread for both.
ThreadsInit ==
  /\ stopRequested = FALSE
  /\ running = [t \in Emulators |-> TRUE]
  /\ ended = [t \in Emulators |-> FALSE]

\* terminateThread, up to the join.
Terminate(t) ==
  /\ running' = [running EXCEPT ![t] = FALSE]
  /\ UNCHANGED <<stopRequested, ended>>

\* The join returns.
Join(t) == ended[t] /\ UNCHANGED threadVars

LeastOf(a, b) == IF a <= b THEN a ELSE b

\* The loop that doubles temp as long as temp - 1 <= n: the greatest power of
\* two that is not above n + 1.
LastPower(n) ==
  LET power[m \in 0..n] ==
        IF m = 0 THEN 1 ELSE IF m + 1 = 2 * power[m - 1] THEN m + 1 ELSE power[m - 1]
  IN  power[n]

=============================================================================
