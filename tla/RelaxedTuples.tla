---------------------------- MODULE RelaxedTuples ----------------------------
(***************************************************************************)
(* class/rtss.cpp and class/tm.cpp: tuples with shorter masks than those   *)
(* of their rules, which a key maps to a list in order of priority.        *)
(* RangeTupleSpaceSearch has a tuple for every choice of one of a few      *)
(* masks per field; TupleMerge makes tuples as the construction needs them.*)
(***************************************************************************)
EXTENDS RuleSpace, Sequences, FiniteSetsExt

CONSTANTS
  Field,     \* the bits of field 1 and of field 2, as sequences from the first bit on
  Relaxed,   \* dim: the masks for a field in rtss, from the shortest on
  Cal        \* cal: for every mask of a field the mask of a new tuple in tm

VARIABLES
  rangeLists, rangeMax,             \* m_lists and m_orderedPriorities.max, by tuple (and key)
  merged, mergedLists, mergedMax    \* the same of a TupleMerge, and its m_tuples

FieldBits(f) == {Field[f][i] : i \in 1..Len(Field[f])}

\* A mask of field f as the number that the code compares.
Number(f, m) ==
  LET leading[i \in 0..Len(Field[f])] ==
        IF i = 0 THEN 0 ELSE 2 * leading[i - 1] + (IF Field[f][i] \in m THEN 1 ELSE 0)
  IN  leading[Len(Field[f])]

\* A rule's action is its priority, that of a request to delete it is 0.
Action(r) == r.priority

RangeMasks ==
  {Relaxed[1][i] \cup Relaxed[2][j] : i \in 1..Len(Relaxed[1]), j \in 1..Len(Relaxed[2])}

MergeMasks == {Cal[1][a] \cup Cal[2][b] : a \in DOMAIN Cal[1], b \in DOMAIN Cal[2]}

ListIds(S) == {x \in S \X SUBSET Bits : x[2] \subseteq x[1]}

-----------------------------------------------------------------------------
(***************************************************************************)
(* RTuple.                                                                 *)
(***************************************************************************)

\* Mutant of XListWith: a rule is put in front of its list.
XListWithFront(l, r) == <<r>> \o l

\* addRule: in front of the first rule of lower priority.
XListWith(l, r) ==
  LET lower == {j \in 1..Len(l) : r.priority > l[j].priority}
      i     == IF lower = {} THEN Len(l) ELSE Min(lower) - 1
  IN  SubSeq(l, 1, i) \o <<r>> \o SubSeq(l, i + 1, Len(l))

\* deleteRule: the first of the list with this priority and this action.
XListWithout(l, priority, action) ==
  LET hits == {i \in 1..Len(l) : l[i].priority = priority /\ Action(l[i]) = action}
  IN  IF hits = {} THEN l ELSE SubSeq(l, 1, Min(hits) - 1) \o SubSeq(l, Min(hits) + 1, Len(l))

PutRule(lists, m, r) == [lists EXCEPT ![<<m, Key(m, r.key)>>] = XListWith(@, r)]

TakeRule(lists, m, r) ==
  [lists EXCEPT ![<<m, Key(m, r.key)>>] = XListWithout(@, r.priority, 0)]

RaiseMax(max, m, r) == [max EXCEPT ![m] = IF r.priority > @ THEN r.priority ELSE @]

\* RTuple::search: the first of the list that matches.
FirstMatch(lists, m, p) ==
  LET l    == lists[<<m, Key(m, p)>>]
      hits == {i \in 1..Len(l) : Matches(l[i], p)}
  IN  IF hits = {} THEN NoRule ELSE l[Min(hits)]

\* matchPacket: the tuples one after the other, but for those whose maximum
\* is no better than the best so far.
RelaxedAnswer(tuples, lists, max, p) ==
  LET after[i \in 0..Len(tuples)] ==
        IF i = 0 THEN NoRule
        ELSE IF max[tuples[i]] <= IF after[i - 1] = NoRule THEN -1 ELSE after[i - 1].priority
        THEN after[i - 1]
        ELSE Better(after[i - 1], FirstMatch(lists, tuples[i], p))
  IN  after[Len(tuples)]

-----------------------------------------------------------------------------
(***************************************************************************)
(* RangeTupleSpaceSearch.                                                  *)
(***************************************************************************)

\* Mutant of RangeMask: the shortest mask of a field is never left out.
RangeMaskLongest(r) == UNION {Relaxed[f][Len(Relaxed[f])] : f \in {1, 2}}

\* The tuple of a rule: in every field the last mask that is, as a number,
\* not greater than the rule's.
RangeMask(r) ==
  UNION {LET m == r.mask \cap FieldBits(f)
             i == Max({j \in 1..Len(Relaxed[f]) : Number(f, m) >= Number(f, Relaxed[f][j])})
         IN  Relaxed[f][i]
         : f \in {1, 2}}

\* insertRuleConstruction
Ranged(t, r) ==
  [lists |-> PutRule(t.lists, RangeMask(r), r), max |-> RaiseMax(t.max, RangeMask(r), r)]

\* m_tuples: the masks of field 1 change fastest.
RangeTuples ==
  LET upTo[j \in 0..Len(Relaxed[2])] ==
        IF j = 0 THEN <<>>
        ELSE upTo[j - 1] \o [i \in 1..Len(Relaxed[1]) |-> Relaxed[1][i] \cup Relaxed[2][j]]
  IN  upTo[Len(Relaxed[2])]

RangeAnswer(p) == RelaxedAnswer(RangeTuples, rangeLists, rangeMax, p)

-----------------------------------------------------------------------------
(***************************************************************************)
(* TupleMerge.                                                             *)
(***************************************************************************)

\* check: no field's mask is greater, as a number, than the rule's.
Accepts(m, r) ==
  \A f \in {1, 2} : Number(f, m \cap FieldBits(f)) <= Number(f, r.mask \cap FieldBits(f))

MergeMask(r) == UNION {Cal[f][r.mask \cap FieldBits(f)] : f \in {1, 2}}

Accepting(tuples, r) == {i \in 1..Len(tuples) : Accepts(tuples[i], r)}

\* insertRuleConstruction: the first tuple that accepts the rule or a new one.
Merged(t, r) ==
  LET ok  == Accepting(t.tuples, r)
      all == IF ok = {} THEN Append(t.tuples, MergeMask(r)) ELSE t.tuples
      m   == IF ok = {} THEN MergeMask(r) ELSE t.tuples[Min(ok)]
  IN  [tuples |-> all, lists |-> PutRule(t.lists, m, r), max |-> RaiseMax(t.max, m, r)]

\* insertRule: every tuple that accepts the rule gets it.
MergedInto(tuples, r) == {tuples[i] : i \in Accepting(tuples, r)}

MergeAnswer(p) == RelaxedAnswer(merged, mergedLists, mergedMax, p)

-----------------------------------------------------------------------------
Init ==
  /\ rangeLists = [x \in ListIds(RangeMasks) |-> <<>>]
  /\ rangeMax = [m \in RangeMasks |-> 0]
  /\ merged = <<>>
  /\ mergedLists = [x \in ListIds(MergeMasks) |-> <<>>]
  /\ mergedMax = [m \in MergeMasks |-> 0]

\* insertRuleConstruction of the rules in the order of the file.
Construct(order) ==
  LET n == Len(order)
      range[i \in 0..n] ==
        IF i = 0 THEN [lists |-> rangeLists, max |-> rangeMax] ELSE Ranged(range[i - 1], order[i])
      merge[i \in 0..n] ==
        IF i = 0 THEN [tuples |-> merged, lists |-> mergedLists, max |-> mergedMax]
        ELSE Merged(merge[i - 1], order[i])
  IN  /\ rangeLists' = range[n].lists /\ rangeMax' = range[n].max
      /\ merged' = merge[n].tuples /\ mergedLists' = merge[n].lists /\ mergedMax' = merge[n].max

insertRule(r) ==
  LET into == MergedInto(merged, r)
  IN  /\ rangeLists' = PutRule(rangeLists, RangeMask(r), r)
      /\ rangeMax' = RaiseMax(rangeMax, RangeMask(r), r)
      /\ mergedLists' = [x \in DOMAIN mergedLists |->
                           IF x[1] \in into /\ x[2] = Key(x[1], r.key)
                           THEN XListWith(mergedLists[x], r) ELSE mergedLists[x]]
      /\ mergedMax' = [m \in DOMAIN mergedMax |->
                         IF m \in into /\ r.priority > mergedMax[m] THEN r.priority ELSE mergedMax[m]]
      /\ UNCHANGED merged

\* deleteRule; that of TupleMerge does nothing.
deleteRule(r) ==
  /\ rangeLists' = TakeRule(rangeLists, RangeMask(r), r)
  /\ UNCHANGED <<rangeMax, merged, mergedLists, mergedMax>>

=============================================================================
