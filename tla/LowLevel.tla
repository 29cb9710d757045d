------------------------------ MODULE LowLevel ------------------------------
(***************************************************************************)
(* pc/ll-tss.cpp, ll-tc.cpp and ll-etc.cpp: what the low-level classifiers *)
(* take from a classifier once, after its construction, and how they       *)
(* search it.  They share its hash tables and never its updates: insert    *)
(* and remove are empty.                                                   *)
(***************************************************************************)
EXTENDS TupleNodes

\* Mutant of createTuple: the links are swapped.
createTupleSwapped(c) ==
  LET tuple[x \in (1..(Len(c) + 1)) \X (1..(Len(c) + 1))] ==
        LET mid == Root(x[1], x[2])
        IN  IF x[1] >= x[2] THEN <<>>
            ELSE [mask |-> c[mid], succ |-> tuple[<<x[1], mid>>], fail |-> tuple[<<mid + 1, x[2]>>]]
  IN  tuple[<<1, Len(c) + 1>>]

\* createTuple, of the tuple that is the root of all levels of chain c
createTuple(c) ==
  LET tuple[x \in (1..(Len(c) + 1)) \X (1..(Len(c) + 1))] ==
        LET mid == Root(x[1], x[2])
        IN  IF x[1] >= x[2] THEN <<>>
            ELSE [mask |-> c[mid], succ |-> tuple[<<mid + 1, x[2]>>], fail |-> tuple[<<x[1], mid>>]]
  IN  tuple[<<1, Len(c) + 1>>]

\* The loop of search down chain c: the hash tables alone tell what is hit,
\* never a scan.
descend(ent, c, p) ==
  LET at[i \in 0..Len(c)] ==
        IF i = 0 THEN [tuple |-> createTuple(c), rule |-> NoRule]
        ELSE LET t == at[i - 1].tuple
                 e == ent[<<t.mask, Key(t.mask, p)>>]
             IN  IF t = <<>> THEN at[i - 1]
                 ELSE IF ~e.inTable THEN [at[i - 1] EXCEPT !.tuple = t.fail]
                 ELSE [tuple |-> IF MARKER \in e.bits THEN t.succ ELSE <<>>, rule |-> e.rule]
  IN  at[Len(c)].rule

\* search of ll-tc.cpp: the chains there are, whether or not the classifier
\* itself searches them, after the best rule that is known.
LowChains(s, p, best) ==
  LET upTo[i \in 0..Len(s.chains)] ==
        IF i = 0 THEN best
        ELSE Better(upTo[i - 1], descend(s.ent, s.chains[i], p))
  IN  upTo[Len(s.chains)]

\* search of a leaf of ll-etc.cpp
LowLeaf(leaf, p, best) ==
  IF leaf.latched THEN LowChains(leaf, p, best) ELSE Better(best, BestMatch(leaf.rules, p))

\* visitNode: a node without a table becomes a leaf with a list.
ListLeaf(rules) == [latched |-> FALSE, rules |-> rules]

\* search of ll-etc.cpp from node n on, which must have a table, after no rule
LowTree(n, p) ==
  LET nodes   == WayOf(n, p)
      way     == CutAt(nodes, {i \in 1..(Len(nodes) - 1) : ~nodes[i + 1].table})
      entry(i) == EntryAt(way[i], Key(way[i].mask, p))
      best[i \in 0..Len(way)] == IF i = 0 THEN NoRule ELSE Better(best[i - 1], entry(i).rule)
      last    == entry(Len(way))
      rule    == best[Len(way)]
  IN  CASE last.type = RULE -> rule
        [] last.type = LEAF -> LowLeaf(last.below, p, rule)
        [] last.type = NODE -> LowLeaf(ListLeaf(last.below.rules), p, rule)

\* search of ll-tss.cpp over tuples with rules F: the maximum of a tuple is
\* copied, and the best priority starts with 0, not with -1.
LowTuples(tuples, F, p) ==
  LET max(m) == (CHOOSE r \in F : r.mask = m /\ \A q \in F : q.mask = m => q.priority <= r.priority).priority
      hit(m) == BestMatch({r \in F : r.mask = m}, p)
      best(r) == IF r = NoRule THEN 0 ELSE r.priority
      upTo[i \in 0..Len(tuples)] ==
        IF i = 0 THEN NoRule
        ELSE LET m == tuples[i]
                 b == upTo[i - 1]
             IN  IF max(m) <= best(b) \/ hit(m) = NoRule \/ hit(m).priority <= best(b) THEN b ELSE hit(m)
  IN  upTo[Len(tuples)]

=============================================================================
