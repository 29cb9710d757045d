----------------------------- MODULE Comparison -----------------------------
(***************************************************************************)
(* What benchmark.cpp does with the classifiers that are built on tuples:  *)
(* it takes one of them, constructs it with rules, and gives it updates    *)
(* (run, updateSimulation).  A search changes nothing, so that a property  *)
(* speaks of the answers to all packets.                                   *)
(*                                                                         *)
(* Two classifiers that share a module here are run side by side.          *)
(***************************************************************************)
EXTENDS LowLevel

CONSTANTS
  Setups,                                    \* what may be run: records built, fed, updates
  MaxNodes,                                  \* see CountedTree
  Field, MaskThreshold, MaskLen,             \* see ExtendedChains
  Relaxed, Cal                               \* see RelaxedTuples

\* A threshold leaves at least one bit of a field.
ASSUME ComparisonAssumption ==
  /\ \A f \in {1, 2} : \A i \in 1..Len(Field[f]) : Field[f][i] \in Bits
  /\ \A f \in {1, 2} : MaskThreshold[f] = {Field[f][i] : i \in 1..(MaskLen + 1)}
  /\ MaskLen \in Nat \ {0} /\ TreeDepth \in Nat

\* The files give a rule its position as its priority, and the updates go on
\* counting (rule.cpp:94-95 and 152-153).
ASSUME SetupsAssumption ==
  /\ Setups \subseteq [built : Seq(Rules), fed : SUBSET Rules, updates : Nat]
  /\ \A r \in Rules : r.priority > 0
  /\ \A r, s \in Rules : r.priority = s.priority => r = s

Prefixes(f) == {{Field[f][i] : i \in 1..n} : n \in 0..Len(Field[f])}

\* The masks of a rule are made of the lengths of prefixes (rule.cpp:652-653
\* and 684-685), those of dim are prefixes from the empty one on
\* (rtss.cpp:207), and cal only shortens a prefix.
ASSUME PrefixesAssumption ==
  /\ Field \in [{1, 2} -> Seq(Bits)]
  /\ \A i \in 1..Len(Field[1]), j \in 1..Len(Field[2]) : Field[1][i] # Field[2][j]
  /\ \A f \in {1, 2} :
       /\ \A r \in Rules : {b \in r.mask : \E i \in 1..Len(Field[f]) : Field[f][i] = b} \in Prefixes(f)
       /\ Relaxed[f] \in Seq(Prefixes(f)) /\ Relaxed[f] # <<>> /\ Relaxed[f][1] = {}
       /\ Cal[f] \in [Prefixes(f) -> Prefixes(f)] /\ \A m \in Prefixes(f) : Cal[f][m] \subseteq m

VARIABLES
  unit,      \* the classifier that is run: its module
  setup,     \* the chosen setup: m_rules in the order of the file, m_insertions, how many updates at most
  updates,   \* the number of updates so far, -1 before the construction
  given,     \* the rules that were given and not deleted
  gone,      \* those that were deleted
  tss, headMask, trees,
  single, roots, lists,
  rangeLists, rangeMax, merged, mergedLists, mergedMax,
  prunedTuples, prunedTable, prefixes, maxTuples,
  lost       \* history: the rules that TupleMerge found no tuple for

Heads  == INSTANCE HeadChains
Tree   == INSTANCE ExtendedChains
Relax  == INSTANCE RelaxedTuples
Pruned == INSTANCE PrunedTuples

headVars     == <<tss, headMask, trees>>
extendedVars == <<single, roots, lists>>
relaxedVars  == <<rangeLists, rangeMax, merged, mergedLists, mergedMax>>
prunedVars   == <<prunedTuples, prunedTable, prefixes, maxTuples>>

vars == <<unit, setup, updates, given, gone, lost, headVars, extendedVars, relaxedVars, prunedVars>>

Units == {"heads", "tree", "relax", "pruned"}

FileRules == {setup.built[i] : i \in 1..Len(setup.built)}

Init ==
  /\ unit \in Units
  /\ setup \in Setups
  /\ updates = -1
  /\ given = {} /\ gone = {} /\ lost = {}
  /\ Heads!Init /\ Tree!Init /\ Relax!Init /\ Pruned!Init

\* constructWithRules
Construct ==
  /\ updates = -1
  /\ updates' = 0
  /\ given' = FileRules
  /\ IF unit = "heads" THEN Heads!Construct(setup.built) ELSE UNCHANGED headVars
  /\ IF unit = "tree" THEN Tree!Construct(FileRules) ELSE UNCHANGED extendedVars
  /\ IF unit = "relax" THEN Relax!Construct(setup.built) ELSE UNCHANGED relaxedVars
  /\ IF unit = "pruned" THEN Pruned!Construct(setup.built) ELSE UNCHANGED prunedVars
  /\ UNCHANGED <<unit, setup, gone, lost>>

\* processUpdate of a rule that the files insert: each rule once.
Insert(r) ==
  /\ updates \in 0..(setup.updates - 1)
  /\ r \in setup.fed \ (given \cup gone)
  /\ updates' = updates + 1
  /\ given' = given \cup {r}
  /\ lost' = IF unit = "relax" /\ Relax!Accepting(merged, r) = {} THEN lost \cup {r} ELSE lost
  /\ IF unit = "heads" THEN Heads!insertRule(r) ELSE UNCHANGED headVars
  /\ IF unit = "tree" THEN Tree!insertRule(r) ELSE UNCHANGED extendedVars
  /\ IF unit = "relax" THEN Relax!insertRule(r) ELSE UNCHANGED relaxedVars
  /\ IF unit = "pruned" THEN Pruned!insertRule(r) ELSE UNCHANGED prunedVars
  /\ UNCHANGED <<unit, setup, gone>>

\* processUpdate of a rule that the files delete
Delete(r) ==
  /\ updates \in 0..(setup.updates - 1)
  /\ r \in given
  /\ updates' = updates + 1
  /\ given' = given \ {r}
  /\ gone' = gone \cup {r}
  /\ IF unit = "heads" THEN Heads!deleteRule(r) ELSE UNCHANGED headVars
  /\ IF unit = "tree" THEN Tree!deleteRule(r) ELSE UNCHANGED extendedVars
  /\ IF unit = "relax" THEN Relax!deleteRule(r) ELSE UNCHANGED relaxedVars
  /\ IF unit = "pruned" THEN Pruned!deleteRule(r) ELSE UNCHANGED prunedVars
  /\ UNCHANGED <<unit, setup, lost>>

Next == Construct \/ \E r \in Rules : Insert(r) \/ Delete(r)

Spec == Init /\ [][Next]_vars

-----------------------------------------------------------------------------
(***************************************************************************)
(* Properties.                                                             *)
(***************************************************************************)

\* The trees of a head are for keys of its mask and for chains that exist, a
\* field's prefixes have no bit of another field, and the relaxed tuples are
\* among those that a rule's masks lead to.
TypeOK ==
  /\ updates \in -1..setup.updates
  /\ given \subseteq FileRules \cup setup.fed /\ gone \cap given = {} /\ lost \subseteq setup.fed
  /\ tss.tuples \subseteq Masks /\ tss.ent \in [Ids -> Entries]
  /\ \A x \in DOMAIN trees : x[1] \subseteq headMask /\ x[2] \in 1..Len(tss.chains)
  /\ rangeMax \in [Relax!RangeMasks -> Nat] /\ mergedMax \in [Relax!MergeMasks -> Nat]
  /\ merged \in Seq(Relax!MergeMasks)
  /\ prunedTuples \in Seq(Masks) /\ prunedTable \subseteq Rules
  /\ \A f \in {1, 2} : \A x \in prefixes[f] :
       x.mask \subseteq Pruned!FieldBits(f) /\ x.key \subseteq x.mask /\ x.id \in 1..Len(prunedTuples)

\* The answer of the trees of a head is the best match, unless a stale entry
\* of a chain is met, a list still has a deleted rule, or the best match came
\* later and does not cover the head's mask (head-tuple.cpp:17): a tree that
\* lacks a tuple, or an entry that is no marker for what lies above, loses
\* the answer.
HeadAnswers ==
  unit = "heads" => \A p \in Packets :
    LET r == BestMatch(given, p)
    IN  (~Spoiled(tss, p) /\ (r # NoRule => Cover(headMask, r.mask))) => Heads!HeadAnswer(p) = r

\* A tree holds a rule at the one place where a search looks for it, until it
\* is deleted: an insert and an erase that disagree on the way down, at a node
\* that an insert made and that has a list (tuple-node.cpp:152) or at an entry
\* for rules of two kinds, leave a rule behind or hold it twice.
RulesPlacedOnce ==
  unit = "tree" =>
  /\ {x[3] : x \in Places(single)} = given
  /\ Cardinality(Places(single)) = Cardinality(given)
  /\ LET places == UNION {{<<t, x>> : x \in Places(roots[t])} : t \in Tree!Trunks}
         listed == UNION {lists[x] : x \in Tree!Indices}
     IN  /\ {y[2][3] : y \in places} \cup listed = given
         /\ Cardinality(places) + Cardinality(listed) = Cardinality(given)

\* One tree, and three trees with the list for the rest, answer with the best
\* match, unless a leaf is met whose chained tuples do not: the tree's own way
\* down loses no rule, a root with no common mask bit (ec-tss.cpp:38) and a
\* list found by the leading bits of a packet (lsp-rule-list.cpp:165) included.
TreeAnswers ==
  unit = "tree" => \A p \in Packets :
    /\ (\A s \in LeafOf(single, p) : ~Spoiled(s, p)) =>
         Tree!BestOf(Tree!FoundByTree(p)) = BestMatch(given, p)
    /\ (\A t \in Tree!Trunks : \A s \in LeafOf(roots[t], p) : ~Spoiled(s, p)) =>
         Tree!BestOf(Tree!FoundByTrees(p)) = BestMatch(given, p)

\* RangeTupleSpaceSearch answers with the best match, as benchmark.cpp:138-152
\* demands after the updates, unless a deleted rule was better: a request to
\* delete a rule never removes it, as its action is not the rule's
\* (rtss.cpp:167).  Skipping a tuple whose maximum is no better loses none.
RangeAnswers ==
  unit = "relax" => \A p \in Packets :
    BestMatch(given \cup gone, p) \notin gone => Relax!RangeAnswer(p) = BestMatch(given, p)

\* TupleMerge answers with the best match unless a deleted rule was better,
\* which it keeps (tm.cpp:98), or the best match is a rule that no tuple
\* accepted when it came (tm.cpp:86): the same check rejects both.
MergeAnswers ==
  unit = "relax" => \A p \in Packets :
    BestMatch(given \cup (gone \ lost), p) \notin gone \cup lost =>
      Relax!MergeAnswer(p) = BestMatch(given, p)

\* Pruning the tuples by their fields loses the best match only if updates
\* made its tuple, with a number beyond the bit maps (tss-pr.cpp:40).
PrunedAnswers ==
  unit = "pruned" => \A p \in Packets :
    BestMatch(given, p) \notin Pruned!Overflowed =>
      Pruned!PrunedAnswer(p) = BestMatch(given, p)

\* The low-level classifiers answer with the best match, as ll-benchmark.cpp
\* checks (70-72 and 169), from the tables of the ones they are built from,
\* which their construct makes anew (53 and 138) and no update reaches.  Two
\* fail that check and are excepted: one of a classifier that answers from its
\* list, where no chains are to be searched (ll-tc.cpp:29), and one of a root
\* that was refused and has no table, which nothing tests (ll-etc.cpp:246).
LowLevelAnswers ==
  updates = 0 => \A p \in Packets :
    /\ (unit = "heads" /\ tss.latched) => LowChains(tss, p, NoRule) = BestMatch(given, p)
    /\ (unit = "tree" /\ single.table) => LowTree(single, p) = BestMatch(given, p)
    /\ unit = "pruned" => LowTuples(prunedTuples, prunedTable, p) = BestMatch(given, p)

=============================================================================
