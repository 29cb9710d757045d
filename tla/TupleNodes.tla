----------------------------- MODULE TupleNodes -----------------------------
(***************************************************************************)
(* class/tuple-node.cpp and the construction of class/ec-tss.cpp: a tree   *)
(* of tables, each for the mask that its rules have in common, above       *)
(* chained tuples.                                                         *)
(*                                                                         *)
(* A node is a record: the mask, the rules it keeps in a list, whether it  *)
(* has a table, and the entries by key.  An entry has a type, the rule     *)
(* whose mask is the node's, and below: a node or a leaf, which is a       *)
(* classifier of ChainedTuples.                                            *)
(***************************************************************************)
EXTENDS ChainedTuples, TLC

CONSTANT TreeDepth   \* m_treeDepth: the levels of nodes that a construction makes

LEAF == "LEAF"
NODE == "NODE"

NewNode  == [mask |-> Bits, rules |-> {}, table |-> FALSE, entries |-> <<>>]
NewEntryOf == [type |-> RULE, rule |-> NoRule, below |-> NewNode]

EntryAt(n, k) == IF k \in DOMAIN n.entries THEN n.entries[k] ELSE NewEntryOf

WithEntry(n, k, e) == [n EXCEPT !.entries = (k :> e) @@ @]

-----------------------------------------------------------------------------
(***************************************************************************)
(* Construction.                                                           *)
(***************************************************************************)

\* insertConstruction of the rules F, one by one, into a node without table.
Gathered(n, F) ==
  [n EXCEPT !.mask = {b \in @ : \A r \in F : b \in r.mask}, !.rules = @ \cup F]

\* reconstruction of a node with a mask: its rules go into a table, those
\* with a longer mask to the node below their entry.
Reconstructed(n) ==
  IF Cardinality(n.rules) < Threshold THEN n
  ELSE LET under(k) == {r \in n.rules : Key(n.mask, r.key) = k}
           own(k)   == {r \in under(k) : r.mask = n.mask}
           entry(k) == [type  |-> IF under(k) = own(k) THEN RULE ELSE NODE,
                        rule  |-> IF own(k) = {} THEN NoRule ELSE CHOOSE r \in own(k) : TRUE,
                        below |-> Gathered(NewNode, under(k) \ own(k))]
       IN  [n EXCEPT !.rules = {}, !.table = TRUE,
                     !.entries = [k \in {Key(n.mask, r.key) : r \in n.rules} |-> entry(k)]]

Refused(n, depth) == depth = 0 \/ n.mask = {}

\* The functions that take one element of each set of S.
ChoicesOf(S) ==
  {f \in [DOMAIN S -> UNION {S[k] : k \in DOMAIN S}] : \A k \in DOMAIN S : f[k] \in S[k]}

\* constructionTree of a node that is not refused, for any least cover: a
\* node below that is refused becomes a leaf with chains.
Trees(n) ==
  LET level[d \in 0..TreeDepth] ==
        IF d = TreeDepth THEN {n}
        ELSE UNION {{m.entries[k].below : k \in {j \in DOMAIN m.entries : m.entries[j].type = NODE}} :
                      m \in {Reconstructed(q) : q \in level[d + 1]}}
      trees[d \in 0..TreeDepth] ==
        [q \in {x \in level[d] : ~Refused(x, d)} |->
           LET m        == Reconstructed(q)
               grown(e) == IF e.type = RULE THEN {e}
                           ELSE IF Refused(e.below, d - 1)
                           THEN {[e EXCEPT !.type = LEAF, !.below = s] : s \in Built(e.below.rules)}
                           ELSE {[e EXCEPT !.below = s] : s \in trees[d - 1][e.below]}
           IN  {[m EXCEPT !.entries = f] :
                  f \in ChoicesOf([k \in DOMAIN m.entries |-> grown(m.entries[k])])}]
  IN  trees[TreeDepth][n]

\* The trees for a root: one that is refused keeps its rules in the list.
TreesOf(root) == IF Refused(root, TreeDepth) THEN {root} ELSE Trees(root)

-----------------------------------------------------------------------------
(***************************************************************************)
(* Updates and search.                                                     *)
(***************************************************************************)

\* The nodes on the way of fields x from node n down to one whose entry for x
\* is no node: an update adds at most one node to those of a construction.
WayOf(n, x) ==
  LET way[i \in 0..TreeDepth] ==
        IF i = 0 THEN <<n>>
        ELSE LET m == way[i - 1][Len(way[i - 1])]
                 e == EntryAt(m, Key(m.mask, x))
             IN  IF e.type = NODE THEN Append(way[i - 1], e.below) ELSE way[i - 1]
  IN  way[TreeDepth]

\* The way as far as the first of the positions stops, if there is one.
CutAt(way, stops) == IF stops = {} THEN way ELSE SubSeq(way, 1, Min(stops))

\* insert and erase go below only for a rule with more bits than the node's mask.
WayOfRule(n, r) ==
  LET way == WayOf(n, r.key)
  IN  CutAt(way, {i \in DOMAIN way : ~Cover(way[i].mask, r.mask) \/ r.mask = way[i].mask})

\* The tree along way after its last node has become m.
TreeWith(way, r, m) ==
  LET from[i \in 1..Len(way)] ==
        IF i = Len(way) THEN m
        ELSE LET k == Key(way[i].mask, r.key)
             IN  WithEntry(way[i], k, [way[i].entries[k] EXCEPT !.below = from[i + 1]])
  IN  from[1]

\* insert at the node where the way down ends, and insertRule of the leaf that
\* it returns
NodeGiven(m, r) ==
  LET k == Key(m.mask, r.key)
      e == EntryAt(m, k)
  IN  IF ~Cover(m.mask, r.mask) \/ ~m.table THEN [m EXCEPT !.rules = @ \cup {r}]
      ELSE WithEntry(m, k,
             IF r.mask = m.mask THEN [e EXCEPT !.rule = r]
             ELSE IF e.type = LEAF THEN [e EXCEPT !.below = WithRule(@, r)]
             ELSE [e EXCEPT !.type = NODE, !.below = [NewNode EXCEPT !.rules = {r}]])

\* Mutant of NodeRelieved: the lists of nodes are left as they are.
NodeRelievedInTable(m, r) ==
  LET k == Key(m.mask, r.key)
  IN  IF ~Cover(m.mask, r.mask) \/ ~m.table \/ k \notin DOMAIN m.entries THEN m
      ELSE WithEntry(m, k,
             IF r.mask = m.mask THEN [m.entries[k] EXCEPT !.rule = NoRule]
             ELSE IF m.entries[k].type = LEAF THEN [m.entries[k] EXCEPT !.below = WithoutRule(@, r)]
             ELSE m.entries[k])

\* erase at that node, and deleteRule of the leaf that it returns
NodeRelieved(m, r) ==
  LET k == Key(m.mask, r.key)
  IN  IF ~Cover(m.mask, r.mask) \/ ~m.table THEN [m EXCEPT !.rules = @ \ {r}]
      ELSE IF k \notin DOMAIN m.entries THEN m
      ELSE WithEntry(m, k,
             IF r.mask = m.mask THEN [m.entries[k] EXCEPT !.rule = NoRule]
             ELSE IF m.entries[k].type = LEAF THEN [m.entries[k] EXCEPT !.below = WithoutRule(@, r)]
             ELSE m.entries[k])

\* The tree of n with rule r, or without it.
NodeWith(n, r) ==
  LET way == WayOfRule(n, r)
  IN  TreeWith(way, r, NodeGiven(way[Len(way)], r))

NodeWithout(n, r) ==
  LET way == WayOfRule(n, r)
  IN  TreeWith(way, r, NodeRelieved(way[Len(way)], r))

\* The leaves, none or one, that a search for p ends at.
LeafOf(n, p) ==
  LET way == WayOf(n, p)
      m   == way[Len(way)]
  IN  {e.below : e \in {x \in {EntryAt(m, Key(m.mask, p))} : x.type = LEAF}}

\* searchTree: the rules that are compared with the best so far.
Found(n, p) ==
  LET way == WayOf(n, p)
  IN  (UNION {{r \in way[i].rules : Matches(r, p)} \cup {EntryAt(way[i], Key(way[i].mask, p)).rule} :
                i \in 1..Len(way)}
       \cup {AnswerOf(s, p) : s \in LeafOf(n, p)}) \ {NoRule}

-----------------------------------------------------------------------------
(***************************************************************************)
(* For the properties: the places where a tree holds rules.                *)
(***************************************************************************)

\* The places, as paths of keys and what the rule is kept in, with the rules
\* there that were not erased.
Places(n) ==
  LET level[d \in 0..TreeDepth] ==
        IF d = 0 THEN {<<<<>>, n>>}
        ELSE UNION {{<<Append(x[1], k), x[2].entries[k].below>> :
                       k \in {j \in DOMAIN x[2].entries : x[2].entries[j].type = NODE}} : x \in level[d - 1]}
      inEntry(path, e) ==
        {<<path, RULE, r>> : r \in {e.rule} \ {NoRule}} \cup
        (IF e.type = LEAF THEN {<<path, LEAF, r>> : r \in InstalledIn(e.below)} ELSE {})
  IN  UNION {{<<x[1], "list", r>> : r \in x[2].rules} \cup
             UNION {inEntry(Append(x[1], k), x[2].entries[k]) : k \in DOMAIN x[2].entries}
             : x \in UNION {level[d] : d \in 0..TreeDepth}}

=============================================================================
