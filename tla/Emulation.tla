----------------------------- MODULE Emulation -----------------------------
(***************************************************************************)
(* Benchmark::emulation: the worker's loop over an update feed and a       *)
(* packet ring, until one of the emulator threads asks it to stop; then    *)
(* the worker stops both and joins them.  TEST_IO of ll-benchmark.cpp is   *)
(* the same loop over the low-level ring, without updates.                 *)
(***************************************************************************)
EXTENDS PacketRing, UpdateFeed, FibFeed

\* Bound of the model: the traffic files, how many packets are sent with each,
\* what the worker pulls them with, and the update manager.
CONSTANT Setups

ASSUME SetupsAssumption ==
  \A s \in Setups :
    /\ s.packets \in Nat \ {0} /\ s.sent \in Nat
    /\ s.ways \subseteq {"copies", "slices", "low"}
    /\ s.manager \in {"none", "dummy", "fib"}
    /\ "low" \in s.ways => s.manager = "none" /\ s.packets > 1

VARIABLES
  manager,   \* m_um: none, the one of UpdateFeed or the one of FibFeed
  pc,   \* the worker
  at    \* its index i into the updates it has pulled

workerVars == <<manager, pc, at>>
vars == <<threadVars, ringVars, updVars, fibVars, workerVars>>

Init ==
  /\ \E s \in Setups : RingInit(s.packets, s.sent, s.ways) /\ manager = s.manager
  /\ ThreadsInit
  /\ FeedInit /\ FibInit
  /\ manager # "dummy" => ~tailFirst /\ nUpdates = 0   \* not used then
  /\ pc = "loop" /\ at = 0

WhenAlive(A) == pc \notin {"crashed", "end"} /\ A

-----------------------------------------------------------------------------
\* while(!globalStopRequested)
Loop ==
  /\ pc = "loop"
  /\ pc' = CASE stopRequested /\ manager # "none"  -> "stop updates"
             [] stopRequested /\ manager = "none"  -> "stop packets"
             [] ~stopRequested /\ manager # "none" -> "pull updates"
             [] OTHER                              -> "pull packets"
  /\ UNCHANGED <<threadVars, ringVars, updVars, fibVars, manager, at>>

WantUpdates ==
  /\ pc = "pull updates" /\ manager = "dummy"
  /\ PullUpdates
  /\ pc' = "apply"
  /\ at' = 0
  /\ UNCHANGED <<ringVars, fibVars, manager>>

\* Nobody writes to that buffer any more: the batch is applied with the pull.
WantFibUpdates ==
  /\ pc = "pull updates" /\ manager = "fib"
  /\ FibPull
  /\ pc' = "pull packets"
  /\ UNCHANGED <<ringVars, updVars, manager, at>>

ApplyNext ==
  /\ pc = "apply"
  /\ at < nUpdates
  /\ Apply(at)
  /\ at' = at + 1
  /\ UNCHANGED <<pc, ringVars, fibVars, manager>>

\* updates[i] of a null pointer.
Crash ==
  /\ pc = "apply"
  /\ at < nUpdates
  /\ updates = Null
  /\ pc' = "crashed"
  /\ UNCHANGED <<threadVars, ringVars, updVars, fibVars, manager, at>>

WantPackets ==
  /\ \/ pc = "pull packets"
     \/ pc = "apply" /\ at >= nUpdates
  /\ PullPackets
  /\ pc' = "push"
  /\ UNCHANGED <<updVars, fibVars, manager, at>>

\* The packets are matched, which changes nothing shared, and pushed.
Push ==
  /\ pc = "push"
  /\ PushPackets
  /\ pc' = "loop"
  /\ UNCHANGED <<updVars, fibVars, manager, at>>

\* m_um->stop() and m_io->stop()
Stop(t, from, to) ==
  /\ pc = from
  /\ Terminate(t)
  /\ pc' = to
  /\ UNCHANGED <<ringVars, updVars, fibVars, manager, at>>

Joined(t, from, to) ==
  /\ pc = from
  /\ Join(t)
  /\ pc' = to
  /\ UNCHANGED <<ringVars, updVars, fibVars, manager, at>>

Finish ==
  \/ Stop("updates", "stop updates", "join updates")
  \/ Joined("updates", "join updates", "stop packets")
  \/ Stop("packets", "stop packets", "join packets")
  \/ Joined("packets", "join packets", "end")

Worker ==
  \/ Loop \/ WantUpdates \/ WantFibUpdates \/ ApplyNext \/ Crash \/ WantPackets \/ Push
  \/ Finish

Packets == WhenAlive(IoEmulator) /\ UNCHANGED <<updVars, fibVars, workerVars>>
Clock   == WhenAlive(TimeUp) /\ UNCHANGED <<updVars, fibVars, workerVars>>
Feed ==
  WhenAlive(\/ manager = "dummy" /\ UpdateEmulator /\ UNCHANGED <<ringVars, fibVars, workerVars>>
            \/ manager = "fib" /\ FibEmulator /\ UNCHANGED <<ringVars, updVars, workerVars>>)

Next == Worker \/ Packets \/ Clock \/ Feed

\* The operating system runs every thread, and time passes.
Spec ==
  /\ Init /\ [][Next]_vars
  /\ WF_vars(Worker) /\ WF_vars(Packets) /\ WF_vars(Feed) /\ WF_vars(Clock)

-----------------------------------------------------------------------------
(***************************************************************************)
(* Properties.                                                             *)
(***************************************************************************)

\* Every variable has its type.
TypeOK ==
  /\ ThreadsTypeOK /\ RingTypeOK /\ FeedTypeOK /\ FibTypeOK
  /\ manager \in {"none", "dummy", "fib"}
  /\ pc \in {"loop", "pull updates", "pull packets", "apply", "push", "stop updates", "join updates",
             "stop packets", "join packets", "end", "crashed"}
  /\ at \in 0..UpdBatch

\* The emulation comes to its end: whichever emulator asks first, the worker
\* leaves its loop and both threads are joined, though one of them spins until
\* the worker tells it to go (benchmark.cpp:173-194).
EmulationEnds == <>(pc \in {"end", "crashed"})

\* pullUpdates tells the worker the actual number of pending updates, which is
\* none when it returns no updates (update-manager.hpp:28-36).  It fails: the
\* number is then what the worker's variable held before
\* (dummy-update-manager.cpp:96).
NumberIsPending == (pc = "apply" /\ updates = Null) => nUpdates = 0

=============================================================================
