----------------------------- MODULE TupleChain -----------------------------
(***************************************************************************)
(* class/tuple-chain.cpp over class/marked-tuple.cpp: one chain of tuples, *)
(* ordered by mask inclusion, with its updates and its binary search.      *)
(*                                                                         *)
(* The chain is built tuple by tuple, each with the rules it holds, from   *)
(* the longest mask to the shortest (finalizeConstruction in c-tss.cpp);   *)
(* it then serves searches and single-rule updates, one call at a time.    *)
(* A search is a state of its own, one step per tuple it tests.            *)
(***************************************************************************)
EXTENDS ChainLinks

CONSTANTS
  MaxTuples,   \* MAX_TUPLES
  MaxDead      \* bound of the model: how often one entry is erased for good

ASSUME BoundsAssumption == MaxTuples \in Nat /\ MaxDead \in Nat

VARIABLES
  chain,     \* m_tuples[0 .. m_nTuples - 1], by mask
  ent,       \* the entries of every tuple
  pc,        \* "build", "idle", "search" or "done"
  pkt,       \* the fields searched for, {} when there is no search
  lo, hi,    \* the subtree the search is at: levels lo .. hi - 1
  best,      \* bestRule of the search
  probes,    \* the number of tuples the search has tested
  promoted   \* history: the markers that insert gave a rule, not yet erased

chainVars  == <<chain, ent, promoted>>
searchVars == <<pkt, lo, hi, best, probes>>
vars       == <<chainVars, searchVars, pc>>

InChain(m) == \E j \in 1..Len(chain) : chain[j] = m

-----------------------------------------------------------------------------
Init ==
  /\ chain = <<>>
  /\ ent = [x \in Ids |-> Absent]
  /\ promoted = {}
  /\ pc = "build"
  /\ pkt = {}
  /\ lo = 1 /\ hi = 1
  /\ best = NoRule
  /\ probes = 0

\* finalizeConstruction inserts the next tuple of the path: its mask is
\* covered by none of those inserted before, so that it becomes the head.
BuildTuple(m) ==
  /\ pc = "build"
  /\ Len(chain) < MaxTuples
  /\ ~InChain(m)
  /\ Fits(chain, m, 1)
  /\ \E F \in (SUBSET {r \in Rules : r.mask = m}) \ {{}} :
       ent' = Link(Shift(chain, m, 1), Filled(ent, F), 1)
  /\ chain' = Shift(chain, m, 1)
  /\ UNCHANGED <<pc, promoted, searchVars>>

EndBuild ==
  /\ pc = "build"
  /\ pc' = "idle"
  /\ UNCHANGED <<chainVars, searchVars>>

\* insertRule of a rule with a new mask, for which this chain has a slot:
\* the empty tuple is linked, then the rule inserted.
InsertTuple(r) ==
  /\ pc = "idle"
  /\ Len(chain) < MaxTuples
  /\ ~InChain(r.mask)
  /\ \E i \in 1..(Len(chain) + 1) :
       /\ IsSlot(chain, r.mask, i)
       /\ Fits(chain, r.mask, i)
       /\ LET c == Shift(chain, r.mask, i)
              e == Link(c, ent, i)
          IN  /\ chain' = c
              /\ ent' = InsertAt(c, e, i, r)
              /\ promoted' = IF e[<<r.mask, r.key>>].inTable
                             THEN promoted \cup {<<r.mask, r.key>>} ELSE promoted
  /\ UNCHANGED <<pc, searchVars>>

\* insertRule of a rule whose tuple exists.
InsertRule(r) ==
  /\ pc = "idle"
  /\ ~HoldsRule(ent, r)
  /\ \E i \in 1..Len(chain) :
       /\ chain[i] = r.mask
       /\ ent' = InsertAt(chain, ent, i, r)
  /\ promoted' = IF Pure(ent[<<r.mask, r.key>>])
                 THEN promoted \cup {<<r.mask, r.key>>} ELSE promoted
  /\ UNCHANGED <<chain, pc, searchVars>>

\* deleteRule of a rule that the tuple holds; of any other it does nothing.
EraseRule(r) ==
  /\ pc = "idle"
  /\ HoldsRule(ent, r)
  /\ ent[<<r.mask, r.key>>].dead < MaxDead
  /\ \E i \in 1..Len(chain) :
       /\ chain[i] = r.mask
       /\ ent' = EraseAt(chain, ent, i, r)
  /\ promoted' = promoted \ {<<r.mask, r.key>>}
  /\ UNCHANGED <<chain, pc, searchVars>>

-----------------------------------------------------------------------------
(***************************************************************************)
(* search: down the tree of ChainLinks, lo .. hi - 1 being the subtree that *)
(* is left.                                                                *)
(***************************************************************************)
\* Mutant of StartSearch: the tree has a level too many.
StartSearchPastEnd(p) ==
  /\ pc = "idle"
  /\ pc' = "search"
  /\ pkt' = p
  /\ lo' = 1 /\ hi' = Len(chain) + 2
  /\ best' = NoRule
  /\ probes' = 0
  /\ UNCHANGED chainVars

StartSearch(p) ==
  /\ pc = "idle"
  /\ pc' = "search"
  /\ pkt' = p
  /\ lo' = 1 /\ hi' = Len(chain) + 1
  /\ best' = NoRule
  /\ probes' = 0
  /\ UNCHANGED chainVars

\* Mutant of Probe: fail leads back to the same tuple.
ProbeAgain ==
  /\ pc = "search"
  /\ lo < hi
  /\ LET mid == Root(lo, hi)
         x   == Id(chain, mid, pkt)
     IN  IF Hit(ent, x)
         THEN /\ best' = HitRule(ent, x)
              /\ lo' = mid + 1
              /\ hi' = IF HitMarker(ent, x) THEN hi ELSE mid + 1
         ELSE /\ hi' = mid + 1
              /\ UNCHANGED <<best, lo>>
  /\ UNCHANGED <<chainVars, pc, pkt, probes>>

\* One turn of the loop.
Probe ==
  /\ pc = "search"
  /\ lo < hi
  /\ LET mid == Root(lo, hi)
         x   == Id(chain, mid, pkt)
     IN  IF Hit(ent, x)
         THEN /\ best' = HitRule(ent, x)
              /\ lo' = mid + 1
              /\ hi' = IF HitMarker(ent, x) THEN hi ELSE mid + 1
         ELSE /\ hi' = mid
              /\ UNCHANGED <<best, lo>>
  /\ probes' = probes + 1
  /\ UNCHANGED <<chainVars, pc, pkt>>

EndSearch ==
  /\ pc = "search"
  /\ lo >= hi
  /\ pc' = "done"
  /\ UNCHANGED <<chainVars, searchVars>>

\* The caller takes the answer.
Return ==
  /\ pc = "done"
  /\ pc' = "idle"
  /\ pkt' = {}
  /\ lo' = 1 /\ hi' = 1
  /\ best' = NoRule
  /\ probes' = 0
  /\ UNCHANGED chainVars

Search == Probe \/ EndSearch \/ Return

Next ==
  \/ \E m \in Masks : BuildTuple(m)
  \/ EndBuild
  \/ \E r \in Rules : InsertTuple(r) \/ InsertRule(r) \/ EraseRule(r)
  \/ \E p \in Packets : StartSearch(p)
  \/ Search

\* A search is a loop of the calling thread: it does not stop half way.
Spec == Init /\ [][Next]_vars /\ WF_vars(Search)

-----------------------------------------------------------------------------
(***************************************************************************)
(* Properties.                                                             *)
(***************************************************************************)

\* The rules that were inserted and not erased since.
Installed == {ent[x].rule : x \in {y \in Ids : RULE \in ent[y].bits}}

\* A scan for the packet meets a dead entry in front of a live one.
PacketDead == \E x \in Ids : Key(x[1], pkt) = x[2] /\ HitsDead(ent, x)

\* Every variable has its type, and the search stays inside the chain.
TypeOK ==
  /\ chain \in Seq(Masks)
  /\ ent \in [Ids -> Entries]
  /\ promoted \subseteq Ids
  /\ pc \in {"build", "idle", "search", "done"}
  /\ pkt \in Packets
  /\ lo \in Nat /\ hi \in Nat
  /\ pc \in {"search", "done"} => 1 <= lo /\ lo <= Len(chain) + 1 /\ hi <= Len(chain) + 1
  /\ best \in Rules \cup {NoRule}
  /\ probes \in Nat

\* The tuples of the chain are strictly nested: insertTuple finds the one
\* slot of a mask that keeps it so, or refuses it (tuple-chain.cpp:21-33).
ChainNested ==
  \A i, j \in 1..Len(chain) : i < j => Cover(chain[i], chain[j]) /\ chain[i] # chain[j]

\* No update leaves an entry without its markers: erase dereferences the
\* one in prev (marked-tuple.cpp:89-90), and a search that misses a tuple
\* never looks at the longer ones (tuple-chain.cpp:85).
MarkersComplete == MarkedBelow(chain, ent, Len(chain))

\* The marker in prev has the entry among its owners, which is the only way
\* a later refresh can reach it (marked-tuple.cpp:178-180).
OwnersLinked ==
  \A j \in 2..Len(chain) : \A k \in ListedKeys(ent, chain[j]) :
    <<chain[j], k>> \in ent[Id(chain, j - 1, k)].owners

\* An entry is in its table as long as it has a rule or an owner, and what
\* is not in a table is not in the chain either: erase takes an entry out of
\* the table exactly when nothing needs it any more (marked-tuple.cpp:92-94).
EntriesNeeded ==
  \A x \in Ids :
    /\ ent[x].inTable <=> ent[x].bits # {}
    /\ MARKER \in ent[x].bits <=> ent[x].owners # {}
    /\ Listed(ent[x]) => InChain(x[1])
    /\ RULE \in ent[x].bits =>
         ent[x].rule \in Rules /\ <<ent[x].rule.mask, ent[x].rule.key>> = x

\* The rules of their own that a search passes on its way to entry x.
RulesBelow(x) ==
  {r \in Installed : Cover(r.mask, x[1]) /\ r.mask # x[1] /\ Key(r.mask, x[2]) = r.key}

PromotedBelow(x) ==
  \E y \in promoted : Cover(y[1], x[1]) /\ y[1] # x[1] /\ Key(y[1], x[2]) = y[2]

\* A pure marker holds the rule a search would have found below it, unless
\* one of the entries below got its rule after the marker had been left:
\* that is the only update that leaves markers stale.
MarkersFresh ==
  \A x \in Ids :
    (Pure(ent[x]) /\ ~PromotedBelow(x)) => ent[x].rule = BestMatch(RulesBelow(x), x[2])

\* A search ends at the longest tuple that has an entry for the packet,
\* with that entry's rule, whatever the updates before it, unless a scan for
\* the packet meets a dead entry.
SearchFindsLongest ==
  (pc = "done" /\ ~PacketDead) =>
    \E n \in 0..Len(chain) :
      /\ \A j \in 1..Len(chain) : Hit(ent, Id(chain, j, pkt)) <=> j <= n
      /\ best = IF n = 0 THEN NoRule ELSE ent[Id(chain, n, pkt)].rule

\* The answer of a search is the linear scan's, the best installed rule: what
\* benchmark.cpp:140-147 checks of every classifier after its updates.  It
\* fails after an insert onto a marker (marked-tuple.cpp:190-198).
SearchIsBest == pc = "done" => best = BestMatch(Installed, pkt)

PacketPromoted == \E y \in promoted : Key(y[1], pkt) = y[2]

\* The same, of packets that meet no promoted entry.  It fails in a tuple that
\* is scanned and not hashed, once it has lost a rule (marked-tuple.cpp:52-58).
SearchBestUnlessPromoted ==
  (pc = "done" /\ ~PacketPromoted) => best = BestMatch(Installed, pkt)

\* The answer is the best rule unless the packet meets a promoted entry or a
\* dead one: those two causes, and no others, spoil a search.
SearchBestUnlessStale ==
  (pc = "done" /\ ~PacketDead /\ ~PacketPromoted) => best = BestMatch(Installed, pkt)

\* The powers of two, as far as a chain could need them.
Power[k \in 0..MaxTuples] == IF k = 0 THEN 1 ELSE 2 * Power[k - 1]

\* A search tests at most 2 + log2(n - 1) of the n tuples: where it tests k + 2
\* there are more than 2^k.
SearchLogarithmic ==
  \A k \in 0..MaxTuples : probes >= k + 2 => Power[k] <= Len(chain) - 1

\* The insert or the erase of a rule changes the installed rules by that rule
\* and by no other, markers and refreshes notwithstanding; a search changes
\* none (marked-tuple.cpp:171-202, tuple-chain.cpp:65-96).
UpdatesExact ==
  [][/\ \A r \in Rules :
          /\ InsertTuple(r) \/ InsertRule(r) =>
               r \notin Installed /\ Installed' = Installed \cup {r}
          /\ EraseRule(r) => r \in Installed /\ Installed' = Installed \ {r}
     /\ (\E p \in Packets : StartSearch(p)) \/ Search => Installed' = Installed]_vars

\* Every search comes to an end.
SearchReturns == (pc = "search") ~> (pc = "done")

=============================================================================
