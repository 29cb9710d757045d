--------------------------- MODULE ExtendedChains ---------------------------
(***************************************************************************)
(* class/ec-tss.cpp: ExChainedTupleSpaceSearch, one tree of tables above   *)
(* chained tuples, and ExTupleChains, which has three such trees, chosen   *)
(* by the fields in which a rule is specific, and class/lsp-rule-list.cpp  *)
(* for the rules that are specific in neither.                             *)
(***************************************************************************)
EXTENDS TupleNodes

CONSTANTS
  Field,         \* the bits of field 1 and of field 2, as sequences from the first bit on
  MaskThreshold, \* m_maskThreshold, by field
  MaskLen        \* m_maskLen: one bit less than MaskThreshold has in a field

VARIABLES
  single,  \* m_treeRoot of an ExChainedTupleSpaceSearch
  roots,   \* m_treeRoot, m_srcRoot and m_dstRoot of an ExTupleChains
  lists    \* m_lessSpecificRules of it, by index

-----------------------------------------------------------------------------
(***************************************************************************)
(* The rule list: one list of rules per pair of field beginnings.          *)
(***************************************************************************)

Indices == (0..(2 ^ MaskLen - 1)) \X (0..(2 ^ MaskLen - 1))

\* fields[f] >> (32 - m_maskLen)
Leading(f, s) ==
  MapThenSumSet(LAMBDA i : IF Field[f][i] \in s THEN 2 ^ (MaskLen - i) ELSE 0, 1..MaskLen)

FieldMask(f, r) == {b \in r.mask : \E i \in 1..Len(Field[f]) : Field[f][i] = b}

\* Mutant of getIdxRange: the range ends with its first index.
getIdxRangeOne(f, r) == {Leading(f, r.key)}

\* getIdxRange, as the set of what is from start to end.
getIdxRange(f, r) ==
  LET start == Leading(f, r.key)
  IN  start..(start + 2 ^ (MaskLen - Cardinality(FieldMask(f, r))) - 1)

\* DO_FOR_COVERED_ENTRY
Covered(r) == getIdxRange(1, r) \X getIdxRange(2, r)

ListWith(ls, r)    == [x \in Indices |-> IF x \in Covered(r) THEN ls[x] \cup {r} ELSE ls[x]]
ListWithout(ls, r) == [x \in Indices |-> IF x \in Covered(r) THEN ls[x] \ {r} ELSE ls[x]]

ListedFor(ls, p) == {r \in ls[<<Leading(1, p), Leading(2, p)>>] : Matches(r, p)}

-----------------------------------------------------------------------------
(***************************************************************************)
(* The classifiers.                                                        *)
(***************************************************************************)

Trunks == {"both", "src", "dst"}

\* checkSpecific; "none" are the rules of the list.
checkSpecific(r) ==
  CASE MaskThreshold[1] \subseteq r.mask /\ MaskThreshold[2] \subseteq r.mask -> "both"
    [] MaskThreshold[1] \subseteq r.mask /\ ~MaskThreshold[2] \subseteq r.mask -> "src"
    [] ~MaskThreshold[1] \subseteq r.mask /\ MaskThreshold[2] \subseteq r.mask -> "dst"
    [] OTHER -> "none"

RootMask(t) ==
  (IF t \in {"both", "src"} THEN MaskThreshold[1] ELSE {}) \cup
  (IF t \in {"both", "dst"} THEN MaskThreshold[2] ELSE {})

Init ==
  /\ single = NewNode
  /\ roots = [t \in Trunks |-> [NewNode EXCEPT !.mask = RootMask(t)]]
  /\ lists = [x \in Indices |-> {}]

\* finalizeConstruction of both.  The first one's assertion about the result
\* of constructionTree does not stop a build without assertions.
Construct(F) ==
  LET of(t) == {r \in F : checkSpecific(r) = t}
  IN  /\ single' \in TreesOf(Gathered(single, F))
      /\ roots' \in ChoicesOf([t \in Trunks |-> TreesOf(Gathered(roots[t], of(t)))])
      /\ lists' = [x \in Indices |-> {r \in of("none") : x \in Covered(r)}]

insertRule(r) ==
  /\ single' = NodeWith(single, r)
  /\ IF checkSpecific(r) = "none"
     THEN lists' = ListWith(lists, r) /\ UNCHANGED roots
     ELSE roots' = [roots EXCEPT ![checkSpecific(r)] = NodeWith(@, r)] /\ UNCHANGED lists

deleteRule(r) ==
  /\ single' = NodeWithout(single, r)
  /\ IF checkSpecific(r) = "none"
     THEN lists' = ListWithout(lists, r) /\ UNCHANGED roots
     ELSE roots' = [roots EXCEPT ![checkSpecific(r)] = NodeWithout(@, r)] /\ UNCHANGED lists

\* search: the rules that are compared with the best so far.
FoundByTree(p) == Found(single, p)

FoundByTrees(p) == UNION {Found(roots[t], p) : t \in Trunks} \cup ListedFor(lists, p)

\* The answer when the rules of S are compared one by one.
BestOf(S) ==
  IF S = {} THEN NoRule ELSE CHOOSE r \in S : \A q \in S : q.priority <= r.priority

=============================================================================
