---------------------------- MODULE MCOrderedTSS ----------------------------
(***************************************************************************)
(* Two tuples.  One setup has a rule for each of six keys of one of them,  *)
(* one has both, with a second rule for a key and a single rule in the     *)
(* middle of the priorities.  The last constructs a tree of ten nodes with *)
(* a black leaf whose sibling and parent are black.                        *)
(***************************************************************************)
EXTENDS OrderedTSS

R(m, k, p) == [mask |-> m, key |-> k, priority |-> p]

Bits4 == 1..4
Low   == R({1}, {1}, 3)
Twin  == R(Bits4, {}, 21)

\* The keys of ten rules of one tuple.
KeyOf == <<{}, {1}, {2}, {3}, {4}, {1, 2}, {1, 3}, {1, 4}, {2, 3}, {2, 4}>>
Ten   == [p \in 1..10 |-> R(Bits4, KeyOf[p], 2 * p)]

RulesOf(P) == {Ten[p] : p \in P}

OneTree   == [built |-> <<>>, rules |-> RulesOf(1..6), updates |-> 6]
TwoTuples == [built |-> <<>>, rules |-> {Low, Twin} \cup RulesOf({1, 2, 5, 7}), updates |-> 5]
BigTree   == [built |-> [i \in 1..10 |-> Ten[<<9, 4, 10, 1, 2, 3, 6, 7, 5, 8>>[i]]],
              rules |-> RulesOf(1..10), updates |-> 3]
AllRules  == {Low, Twin} \cup RulesOf(1..10)
AllSetups == {OneTree, TwoTuples, BigTree}

=============================================================================
