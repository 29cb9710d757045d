----------------------------- MODULE OrderedTSS -----------------------------
(***************************************************************************)
(* class/tss.cpp with the ordered tuples of tuple.hpp: one hash table per  *)
(* mask, and a heap of priorities (priority-heap.hpp) whose maximum lets a *)
(* search skip the tuple.                                                  *)
(***************************************************************************)
EXTENDS RuleSpace, Sequences, CountedTree

CONSTANTS
  Garbage,   \* what a freed node may be found to hold: int is cut down to these
  Setups     \* bound of the model: the rules built, those updated, and how many updates

ASSUME OrderedAssumption ==
  /\ Garbage \subseteq Int
  /\ Setups \subseteq [built : Seq(Rules), rules : SUBSET Rules, updates : Nat]
  /\ \A r \in Rules : r.priority > 0

\* The priority of a rule is its position in the file, and updates go on
\* counting (rule.cpp:94-95 and 152-153).
ASSUME DistinctPriorities == \A r, s \in Rules : r.priority = s.priority => r = s

VARIABLES
  setup,      \* the member of Setups
  nUpdates,   \* history: the updates made
  tuples,     \* m_tuples, as the sequence of their masks
  table,      \* m_table of every tuple
  tree, max,  \* m_orderedPriorities of every tuple
  given,      \* history: the rules inserted and not deleted since
  shadowed,   \* history: those of them that found their key in use
  exposed,    \* history: those of them the heap may have lost
  doubled     \* history: the tuples whose tree was left with a doubly black node

tupleVars == <<tuples, table, tree, max>>
vars      == <<setup, nUpdates, tupleVars, given, shadowed, exposed, doubled>>

Ids == {x \in Masks \X SUBSET Bits : x[2] \subseteq x[1]}

IdOf(r) == <<r.mask, r.key>>

Exists(m) == \E i \in 1..Len(tuples) : tuples[i] = m

Held(m) == {table[x] : x \in {y \in Ids : y[1] = m}} \ {NoRule}

AllHeld == UNION {Held(m) : m \in Masks}

Init ==
  /\ setup \in Setups
  /\ nUpdates = 0
  /\ tuples = <<>>
  /\ table = [x \in Ids |-> NoRule]
  /\ tree = [m \in Masks |-> EmptyTree]
  /\ max = [m \in Masks |-> 0]
  /\ given = {} /\ shadowed = {} /\ exposed = {} /\ doubled = {}

\* The rules of the file go in one after the other, then come the updates.
Built == nUpdates >= Len(setup.built)

Update(r) ==
  /\ nUpdates < Len(setup.built) + setup.updates
  /\ IF Built THEN r \in setup.rules ELSE r = setup.built[nUpdates + 1]
  /\ nUpdates' = nUpdates + 1
  /\ UNCHANGED setup

\* Mutant of TuplesWith: every rule gets a tuple of its own.
TuplesWithNew(m) == Append(tuples, m)

TuplesWith(m) == IF Exists(m) THEN tuples ELSE Append(tuples, m)

\* Mutant of TreeWith: only the first rule of a tuple goes into the tree.
TreeWithFirst(m, p) == IF Exists(m) THEN tree[m] ELSE Insert(tree[m], p)

TreeWith(m, p) == Insert(tree[m], p)

MaxWith(m, p) == IF p > max[m] THEN p ELSE max[m]

\* insertRule, which is insertRuleConstruction: the tuple of the mask, a new
\* one if need be, takes the rule; HashTable::insert keeps what the key has
\* and reports success, so that the heap takes the priority in any case.
InsertRule(r) ==
  /\ Update(r)
  /\ Room(tree[r.mask])
  /\ tuples' = TuplesWith(r.mask)
  /\ table' = [table EXCEPT ![IdOf(r)] = IF @ = NoRule THEN r ELSE @]
  /\ tree' = [tree EXCEPT ![r.mask] = TreeWith(r.mask, r.priority)]
  /\ max' = [max EXCEPT ![r.mask] = MaxWith(r.mask, r.priority)]
  /\ given' = given \cup {r}
  /\ shadowed' = IF table'[IdOf(r)] = r THEN shadowed \ {r} ELSE shadowed \cup {r}
  /\ exposed' = exposed \ {r}
  /\ UNCHANGED doubled

\* The maximum that erase takes from node x of the tree: the greatest below
\* its right child, its own data if it has none; but the data of a node that
\* has been freed is whatever the allocator left there.
MaxAfter(before, x) ==
  LET right == before.kid["right"][x]
  IN  IF right # Nil THEN {before.data[Extreme(before, right, "right")]}
      ELSE IF x = before.root THEN {before.data[x]}
      ELSE Garbage

\* Some node of t is doubly black.
LeftDouble(t) == \E x \in Nodes : t.color[x] = DOUBLE_BLACK

\* deleteRule of a rule that the tuple holds.
DeleteRule(r) ==
  LET cut == deleteBST(tree[r.mask], r.priority)
  IN  /\ Update(r) /\ Built
      /\ Exists(r.mask)
      /\ table[IdOf(r)] = r
      /\ table' = [table EXCEPT ![IdOf(r)] = NoRule]
      /\ IF cut.node = Nil
         THEN /\ tree' = [tree EXCEPT ![r.mask] = cut.tree]
              /\ exposed' = exposed \ {r}
              /\ UNCHANGED <<max, doubled>>
         ELSE /\ EraseEnds(cut.tree, cut.node)
              /\ tree' = [tree EXCEPT ![r.mask] = fixDeleteRBTree(cut.tree, cut.node)]
              /\ \E v \in MaxAfter(cut.tree, cut.node) : max' = [max EXCEPT ![r.mask] = v]
              /\ exposed' = (exposed \cup Held(r.mask)) \ {r}
              /\ doubled' = IF LeftDouble(tree'[r.mask]) THEN doubled \cup {r.mask} ELSE doubled
      /\ given' = given \ {r}
      /\ UNCHANGED <<tuples, shadowed>>

\* deleteRule of a rule that the tuple does not hold changes nothing.
DeleteNothing(r) ==
  /\ Update(r) /\ Built
  /\ table[IdOf(r)] # r
  /\ given' = given \ {r}
  /\ shadowed' = shadowed \ {r}
  /\ UNCHANGED <<tupleVars, exposed, doubled>>

Next == \E r \in Rules : InsertRule(r) \/ DeleteRule(r) \/ DeleteNothing(r)

Spec == Init /\ [][Next]_vars

-----------------------------------------------------------------------------
(***************************************************************************)
(* matchPacket, which changes nothing.                                     *)
(***************************************************************************)

\* Mutant of Skipped: a tuple is skipped although its maximum is better.
SkippedEarly(m, best) == max[m] <= (IF best = NoRule THEN -1 ELSE best.priority) + 1

\* maxPriority() <= bestRule->priority; the default rule has priority -1.
Skipped(m, best) == max[m] <= IF best = NoRule THEN -1 ELSE best.priority

\* The tuples one after the other.
Answer(p) ==
  LET after[i \in 0..Len(tuples)] ==
        IF i = 0 THEN NoRule
        ELSE IF Skipped(tuples[i], after[i - 1]) THEN after[i - 1]
        ELSE Better(after[i - 1], table[<<tuples[i], Key(tuples[i], p)>>])
  IN  after[Len(tuples)]

-----------------------------------------------------------------------------
(***************************************************************************)
(* Properties.                                                             *)
(***************************************************************************)

\* Every variable has its type: every link of a tree leads to a node or is
\* null, and what a table has for a mask and a key is a rule of that mask and
\* key.
TypeOK ==
  /\ setup \in Setups /\ nUpdates \in 0..(Len(setup.built) + setup.updates)
  /\ \A i \in 1..Len(tuples) : tuples[i] \in Masks
  /\ \A i, j \in 1..Len(tuples) : tuples[i] = tuples[j] => i = j
  /\ table \in [Ids -> Rules \cup {NoRule}]
  /\ \A r \in AllHeld : table[IdOf(r)] = r
  /\ tree \in [Masks -> Trees] /\ max \in [Masks -> Int]
  /\ given \subseteq Rules /\ shadowed \subseteq given /\ exposed \subseteq given
  /\ doubled \subseteq Masks

\* The number of black nodes on the paths from x down, as a set.
BlackDepths(t, x) ==
  LET depths[y \in {Nil} \cup Nodes] ==
        IF y = Nil THEN {0}
        ELSE {d + (IF t.color[y] = BLACK THEN 1 ELSE 0) :
                d \in depths[t.kid["left"][y]] \cup depths[t.kid["right"][y]]}
  IN  depths[x]

\* Whatever is inserted and erased, though erase may put the data of another
\* node into the one it was called for: the links of the tree agree with each
\* other, it stays in order, and no red node is below a red one, so that no
\* insertion follows a null pointer (ll-rb-tree.hpp:111-155).
LinksAgree(t) ==
  /\ t.root # Nil => t.color[t.root] = BLACK /\ t.parent[t.root] = Nil
  /\ \A x \in Subtree(t, t.root) :
       /\ \A s \in Sides : LET c == t.kid[s][x]
                           IN  c # Nil => t.parent[c] = x /\ ~(t.color[x] = RED /\ t.color[c] = RED)
       /\ \A y \in Subtree(t, t.kid["left"][x]) : t.data[y] <= t.data[x]
       /\ \A y \in Subtree(t, t.kid["right"][x]) : t.data[x] <= t.data[y]

\* The tree is balanced, too, and no erase follows a null pointer, as long as
\* none has left a node doubly black: the loop of fixDeleteRBTree goes on to
\* the parent of such a node and never makes it black (ll-rb-tree.hpp:176-239).
TreesBalanced ==
  \A m \in Masks :
    /\ LinksAgree(tree[m])
    /\ m \notin doubled =>
         /\ \A x \in Subtree(tree[m], tree[m].root) : tree[m].color[x] \in {RED, BLACK}
         /\ Cardinality(BlackDepths(tree[m], tree[m].root)) = 1
         /\ \A r \in Held(m) : LET cut == deleteBST(tree[m], r.priority)
                               IN  cut.node # Nil => EraseEnds(cut.tree, cut.node)

\* The heap of a tuple keeps what the tuple holds: its maximum is an upper
\* bound, or else searches skip the tuple wrongly, and every priority is found
\* in the tree.  Only an erase that takes a node out may have lost those that
\* were there then: the maximum then comes from a node that is gone, and the
\* root takes its tree with it (priority-heap.hpp:18-27, ll-rb-tree.hpp:162).
HeapKeepsHeld ==
  \A r \in AllHeld \ exposed :
    r.priority <= max[r.mask] /\ r.priority \in DataIn(tree[r.mask])

\* The answer is the best of the rules given, unless a rule of the same match
\* was there before it, or its tuple's maximum was lost.
AnswerBest ==
  \A p \in Packets :
    LET best == BestMatch(given, p)
    IN  (best = NoRule \/ best \notin shadowed \cup exposed) => Answer(p) = best

=============================================================================
