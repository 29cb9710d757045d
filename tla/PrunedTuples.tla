---------------------------- MODULE PrunedTuples ----------------------------
(***************************************************************************)
(* class/tss-pr.cpp over class/pruned-field.cpp: tuple space search that   *)
(* only asks the tuples which have, in every field, a prefix that matches. *)
(* The tries and the bit maps of the fields are not part of the repository:*)
(* a trie is the set of the prefixes put into it, each with the number of  *)
(* a tuple, and a bit map with too few bits may or may not keep the number.*)
(***************************************************************************)
EXTENDS RuleSpace, Sequences, FiniteSets

CONSTANT Field   \* the bits of field 1 and of field 2, as sequences from the first bit on

VARIABLES
  prunedTuples,  \* m_tuples, as the sequence of their masks
  prunedTable,   \* their tables, as the set of all rules in them
  prefixes,      \* m_prunedFields: sets of records mask, key, id
  maxTuples      \* m_maxTuples

FieldBits(f) == {Field[f][i] : i \in 1..Len(Field[f])}

TupleId(tuples, m) == CHOOSE i \in 1..Len(tuples) : tuples[i] = m

\* insertRuleConstruction: a new tuple if need be.
TuplesFor(tuples, m) ==
  IF \E i \in 1..Len(tuples) : tuples[i] = m THEN tuples ELSE Append(tuples, m)

\* Mutant of PrefixOf: the mask of the whole rule is taken for the field's.
PrefixOfLong(r, f, id) == [mask |-> r.mask, key |-> r.key, id |-> id]

PrefixOf(r, f, id) ==
  [mask |-> r.mask \cap FieldBits(f), key |-> r.key \cap FieldBits(f), id |-> id]

Init ==
  /\ prunedTuples = <<>> /\ prunedTable = {}
  /\ prefixes = [f \in {1, 2} |-> {}]
  /\ maxTuples = 0

\* insertRuleConstruction of the rules in the order of the file, then
\* finalizeConstruction: a tenth of the tuples is kept in reserve.
Construct(order) ==
  LET tuples[i \in 0..Len(order)] ==
        IF i = 0 THEN <<>> ELSE TuplesFor(tuples[i - 1], order[i].mask)
      all == tuples[Len(order)]
      F   == {order[i] : i \in 1..Len(order)}
  IN  /\ prunedTuples' = all
      /\ prunedTable' = F
      /\ maxTuples' = (11 * Len(all)) \div 10
      /\ prefixes' = [f \in {1, 2} |-> {PrefixOf(r, f, TupleId(all, r.mask)) : r \in F}]

\* Mutant of insertRule: the fields are told of a rule only when its tuple is new.
insertRuleNewTuple(r) ==
  LET id == TupleId(prunedTuples', r.mask)
  IN  /\ prunedTuples' = TuplesFor(prunedTuples, r.mask)
      /\ prunedTable' = prunedTable \cup {r}
      /\ \E kept \in SUBSET {1, 2} :
           /\ id <= maxTuples => kept = {1, 2}
           /\ prefixes' = [f \in {1, 2} |->
                            IF f \in kept /\ prunedTuples' # prunedTuples
                            THEN prefixes[f] \cup {PrefixOf(r, f, id)} ELSE prefixes[f]]
      /\ UNCHANGED maxTuples

\* insertRule
insertRule(r) ==
  LET id == TupleId(prunedTuples', r.mask)
  IN  /\ prunedTuples' = TuplesFor(prunedTuples, r.mask)
      /\ prunedTable' = prunedTable \cup {r}
      /\ \E kept \in SUBSET {1, 2} :
           /\ id <= maxTuples => kept = {1, 2}
           /\ prefixes' = [f \in {1, 2} |-> IF f \in kept THEN prefixes[f] \cup {PrefixOf(r, f, id)} ELSE prefixes[f]]
      /\ UNCHANGED maxTuples

\* deleteRule is that of TupleSpaceSearch, and leaves the fields alone.
deleteRule(r) ==
  /\ prunedTable' = prunedTable \ {r}
  /\ UNCHANGED <<prunedTuples, prefixes, maxTuples>>

\* matchField, for an empty result as well.
MatchField(f, p) == {x.id : x \in {y \in prefixes[f] : Key(y.mask, p) = y.key}}

\* search: the tuples that all fields leave.
PrunedAnswer(p) ==
  LET ids  == MatchField(1, p) \cap MatchField(2, p)
      hits == {r \in prunedTable : Matches(r, p) /\ \E i \in ids : prunedTuples[i] = r.mask}
  IN  IF hits = {} THEN NoRule ELSE CHOOSE r \in hits : \A q \in hits : q.priority <= r.priority

\* The rules that are in a tuple whose number does not fit the bit maps.
Overflowed == {r \in prunedTable : TupleId(prunedTuples, r.mask) > maxTuples}

=============================================================================
