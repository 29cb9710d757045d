---------------------------- MODULE ChainedTuples ----------------------------
(***************************************************************************)
(* class/c-tss.cpp over tss.cpp and tuple-chain.cpp, without its state:    *)
(* tuples cut into chains, what an update does to chains and entries, and  *)
(* the answer of a search.  ChainedTSS is a classifier of these operators; *)
(* HeadChains and TupleNodes hold such classifiers as values.              *)
(***************************************************************************)
EXTENDS ChainLinks

-----------------------------------------------------------------------------
(***************************************************************************)
(* Chains.                                                                 *)
(***************************************************************************)

On(c, m) == \E j \in 1..Len(c) : c[j] = m

\* The nested sequences of masks of M, from the shortest to the longest.
Paths(M) ==
  { s \in UNION {[1..n -> M] : n \in 1..Cardinality(M)} :
      \A i, j \in DOMAIN s : i < j => Cover(s[i], s[j]) /\ s[i] # s[j] }

\* Mutant of CoversWith: paths may share a tuple.
CoversWithShared(M, n) ==
  { ps \in [1..n -> Paths(M)] :
      \A m \in M : Cardinality({i \in 1..n : On(ps[i], m)}) >= 1 }

CoversWith(M, n) ==
  { ps \in [1..n -> Paths(M)] :
      \A m \in M : Cardinality({i \in 1..n : On(ps[i], m)}) = 1 }

\* minimumPathCovering: as few paths as possible, every tuple in one.
PathCovers(M) ==
  LET n == CHOOSE k \in 0..Cardinality(M) :
             /\ CoversWith(M, k) # {}
             /\ \A j \in 0..(k - 1) : CoversWith(M, j) = {}
  IN  CoversWith(M, n)

\* A chain built from path c: its tuples join it from the last to the first.
BuildChain(c, e) ==
  LET from[j \in 1..(Len(c) + 1)] ==
        IF j > Len(c) THEN e ELSE Link(SubSeq(c, j, Len(c)), from[j + 1], 1)
  IN  from[1]

\* Mutant of BuildChains: the head of a chain keeps the end of the one before
\* it as its prev.
BuildChainsJoined(cs, e) ==
  LET upTo[i \in 0..Len(cs)] == IF i = 0 THEN <<>> ELSE upTo[i - 1] \o cs[i]
  IN  BuildChain(upTo[Len(cs)], e)

BuildChains(cs, e) ==
  LET from[i \in 1..(Len(cs) + 1)] ==
        IF i > Len(cs) THEN e ELSE BuildChain(cs[i], from[i + 1])
  IN  from[1]

Accepts(c, m) ==
  \E i \in 1..(Len(c) + 1) : IsSlot(c, m, i) /\ Fits(c, m, i)

SlotOf(c, m) == CHOOSE i \in 1..(Len(c) + 1) : IsSlot(c, m, i)

\* insertTuple: the first chain that accepts the tuple, else a new one.
HostFor(chains, m) ==
  LET ok == {i \in 1..Len(chains) : Accepts(chains[i], m)}
  IN  IF ok = {} THEN Len(chains) + 1 ELSE Min(ok)

\* createNewTuple and insertTuple: all chains, the new tuple's and its level.
WithTuple(chains, m) ==
  LET h == HostFor(chains, m)
      c == IF h <= Len(chains) THEN chains[h] ELSE <<>>
      d == Shift(c, m, SlotOf(c, m))
  IN  [all   |-> IF h <= Len(chains) THEN [chains EXCEPT ![h] = d] ELSE Append(chains, d),
       chain |-> d,
       level |-> SlotOf(c, m)]

\* The chain of tuple m; a tuple of the construction that was never chained
\* has no prev and no owner, like a chain of one.
ChainOf(chains, m) ==
  IF \E i \in 1..Len(chains) : On(chains[i], m)
  THEN chains[CHOOSE i \in 1..Len(chains) : On(chains[i], m)]
  ELSE <<m>>

Level(c, m) == CHOOSE i \in 1..Len(c) : c[i] = m

\* TupleChain::search: the rule of the last entry hit on the way down.
ChainAnswer(ent, c, p) ==
  LET n == Len(c)
      hit[s \in (1..(n + 1)) \X (1..(n + 1))] ==
        LET mid == Root(s[1], s[2])
            x   == Id(c, mid, p)
        IN  IF s[1] >= s[2] THEN <<>>
            ELSE IF ~Hit(ent, x) THEN hit[<<s[1], mid>>]
            ELSE IF HitMarker(ent, x) /\ hit[<<mid + 1, s[2]>>] # <<>>
                 THEN hit[<<mid + 1, s[2]>>]
            ELSE <<HitRule(ent, x)>>
      found == hit[<<1, n + 1>>]
  IN  IF found = <<>> THEN NoRule ELSE found[1]

-----------------------------------------------------------------------------
(***************************************************************************)
(* A classifier as a value: a record of the variables that ChainedTSS has. *)
(***************************************************************************)

\* constructWithRules, for any least cover.
Built(F) ==
  LET M    == {r.mask : r \in F}
      many == Cardinality(F) > Threshold
      e    == Filled([x \in Ids |-> Absent], F)
  IN  {[tuples |-> M, chains |-> cs, ent |-> BuildChains(cs, e), rules |-> F, latched |-> many] :
         cs \in IF many THEN PathCovers(M) ELSE {<<>>}}

\* insertRule
WithRule(s, r) ==
  LET t == WithTuple(s.chains, r.mask)
      c == ChainOf(s.chains, r.mask)
  IN  IF r.mask \in s.tuples
      THEN [s EXCEPT !.ent = InsertAt(c, @, Level(c, r.mask), r), !.rules = @ \cup {r}]
      ELSE [s EXCEPT !.tuples = @ \cup {r.mask}, !.chains = t.all, !.rules = @ \cup {r},
                     !.ent = InsertAt(t.chain, Link(t.chain, @, t.level), t.level, r)]

\* deleteRule
WithoutRule(s, r) ==
  LET c == ChainOf(s.chains, r.mask)
  IN  IF r.mask \in s.tuples /\ HoldsRule(s.ent, r)
      THEN [s EXCEPT !.ent = EraseAt(c, @, Level(c, r.mask), r)]
      ELSE s

\* search, before the answer is compared with the best so far
AnswerOf(s, p) ==
  LET upTo[i \in 0..Len(s.chains)] ==
        IF i = 0 THEN NoRule ELSE Better(upTo[i - 1], ChainAnswer(s.ent, s.chains[i], p))
  IN  IF s.latched THEN upTo[Len(s.chains)] ELSE BestMatch(s.rules, p)

-----------------------------------------------------------------------------
(***************************************************************************)
(* For the properties: what a classifier holds, and whom updates spoiled.  *)
(***************************************************************************)

\* The rules that were given and not deleted since.
InstalledIn(s) == {s.ent[x].rule : x \in {y \in Ids : RULE \in s.ent[y].bits}}

\* Entry x of chain c is a marker whose rule is not the best below it, which
\* an insert onto a marker causes, or a dead entry that a scan meets first.
StaleEntry(s, c, x) ==
  LET below == {r \in InstalledIn(s) : On(c, r.mask) /\ Cover(r.mask, x[1]) /\ Matches(r, x[2])}
  IN  HitsDead(s.ent, x) \/ (Pure(s.ent[x]) /\ s.ent[x].rule # BestMatch(below, x[2]))

\* A search for p meets such an entry, or a list that keeps deleted rules.
Spoiled(s, p) ==
  IF s.latched
  THEN \E i \in 1..Len(s.chains) : \E j \in 1..Len(s.chains[i]) :
         StaleEntry(s, s.chains[i], Id(s.chains[i], j, p))
  ELSE \E r \in s.rules \ InstalledIn(s) : Matches(r, p)

=============================================================================
