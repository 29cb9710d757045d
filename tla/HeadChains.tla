----------------------------- MODULE HeadChains -----------------------------
(***************************************************************************)
(* class/hc-tss.cpp over class/head-tuple.cpp: chained tuples and, in      *)
(* front of them, a table from the fields under a common mask to one tree  *)
(* per chain with the tuples that have such rules.  A search descends the  *)
(* trees instead of the chains.                                            *)
(*                                                                         *)
(* A tree orders the tuples of a chain by their position in it, which      *)
(* later tuples shift without changing the order; the number of bits of    *)
(* the mask orders them alike.                                             *)
(***************************************************************************)
EXTENDS ChainedTuples, CountedTree, TLC

VARIABLES
  tss,       \* the ChainedTupleSpaceSearch that it is
  headMask,  \* m_mask of m_head
  trees      \* the trees of m_head, by key and chain

DataOf(m) == Cardinality(m) + 1

\* getHost, as the position of the chain
HostOf(s, m) == CHOOSE i \in 1..Len(s.chains) : On(s.chains[i], m)

\* HeadTuple::insert: rule r of a tuple of s goes into the tree of its key
\* under mask h and of its tuple's chain.
TreesWith(s, ts, h, r) ==
  LET x    == <<Key(h, r.key), HostOf(s, r.mask)>>
      tree == IF x \in DOMAIN ts THEN ts[x] ELSE EmptyTree
  IN  (x :> Insert(tree, DataOf(r.mask))) @@ ts

CommonMask(F) == {b \in Bits : \A r \in F : b \in r.mask}

Init == tss \in Built({}) /\ headMask = {} /\ trees = <<>>

\* finalizeConstruction, after the rules came in this order
Construct(order) ==
  LET F == {order[i] : i \in 1..Len(order)}
      h == CommonMask(F)
  IN  \E s \in Built(F) :
        /\ tss' = s
        /\ IF s.latched
           THEN LET filed[i \in 0..Len(order)] ==
                      IF i = 0 THEN <<>> ELSE TreesWith(s, filed[i - 1], h, order[i])
                IN  headMask' = h /\ trees' = filed[Len(order)]
           ELSE UNCHANGED <<headMask, trees>>

\* Mutant of insertRule: a rule for a tuple that exists is not filed again.
insertRuleNew(r) ==
  /\ tss' = WithRule(tss, r)
  /\ trees' = IF tss.latched /\ r.mask \notin tss.tuples THEN TreesWith(tss', trees, headMask, r) ELSE trees
  /\ UNCHANGED headMask

insertRule(r) ==
  /\ tss' = WithRule(tss, r)
  /\ trees' = IF tss.latched THEN TreesWith(tss', trees, headMask, r) ELSE trees
  /\ UNCHANGED headMask

\* deleteRule leaves the trees as they are.
deleteRule(r) ==
  /\ tss' = WithoutRule(tss, r)
  /\ UNCHANGED <<headMask, trees>>

-----------------------------------------------------------------------------
TupleAt(c, d) == CHOOSE m \in {c[j] : j \in 1..Len(c)} : DataOf(m) = d

\* The rule of the last entry hit on the way down tree t of chain c.
TreeAnswer(c, t, p) ==
  LET found[x \in {Nil} \cup Nodes] ==
        LET entry == <<TupleAt(c, t.data[x]), Key(TupleAt(c, t.data[x]), p)>>
        IN  IF x = Nil THEN <<>>
            ELSE IF ~Hit(tss.ent, entry) THEN found[t.kid["left"][x]]
            ELSE IF HitMarker(tss.ent, entry) /\ found[t.kid["right"][x]] # <<>>
                 THEN found[t.kid["right"][x]]
            ELSE <<HitRule(tss.ent, entry)>>
      last == found[t.root]
  IN  IF last = <<>> THEN NoRule ELSE last[1]

\* search: the best of the trees of the packet's key.
HeadAnswer(p) ==
  LET answers == {TreeAnswer(tss.chains[x[2]], trees[x], p) :
                    x \in {y \in DOMAIN trees : y[1] = Key(headMask, p)}}
      hits    == answers \ {NoRule}
  IN  IF ~tss.latched THEN BestMatch(tss.rules, p)
      ELSE IF hits = {} THEN NoRule
      ELSE CHOOSE r \in hits : \A q \in hits : q.priority <= r.priority

=============================================================================
