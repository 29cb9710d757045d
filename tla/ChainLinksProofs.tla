-------------------------- MODULE ChainLinksProofs --------------------------
(***************************************************************************)
(* Lemmas about the operators of MarkedTuple and ChainLinks, of any chain  *)
(* and any entries: types, what an operation does to one entry, and that   *)
(* every entry keeps its markers and its owners.  The proofs about         *)
(* TupleChain and ChainedTSS cite them.                                    *)
(***************************************************************************)
EXTENDS ChainLinks, NatExtrema

\* The masks of c are strictly nested: ChainNested, of any chain.
Nested(c) ==
  \A i, j \in 1..Len(c) : i < j => Cover(c[i], c[j]) /\ c[i] # c[j]

Marked(e, x) == e[x].inTable /\ MARKER \in e[x].bits

-----------------------------------------------------------------------------
(***************************************************************************)
(* Keys and levels.                                                        *)
(***************************************************************************)

\* The pointer to level j for any key is an entry of that tuple.
LEMMA IdType ==
  ASSUME NEW c \in Seq(Masks), NEW j \in 1..Len(c), NEW k \in SUBSET Bits
  PROVE  Id(c, j, k) \in Ids
<1>1. c[j] \in Masks
  OBVIOUS
<1> QED BY <1>1 DEF Id, Ids, Key

\* An entry's mask and key are bits.
LEMMA IdsBits ==
  ASSUME NEW x \in Ids
  PROVE  /\ x = <<x[1], x[2]>>
         /\ x[1] \in Masks /\ x[2] \in SUBSET x[1] /\ x[2] \in SUBSET Bits
BY DEF Ids

\* Masking with a longer mask first changes nothing.
LEMMA IdThrough ==
  ASSUME NEW c \in Seq(Masks), Nested(c), NEW l \in 1..Len(c), NEW j \in 1..l, NEW k
  PROVE  Id(c, j, Key(c[l], k)) = Id(c, j, k)
<1>1. c[j] \subseteq c[l]
  <2>1. CASE j = l
    BY <2>1
  <2>2. CASE j < l
    BY <2>2 DEF Nested, Cover
  <2> QED BY <2>1, <2>2
<1> QED BY <1>1 DEF Id, Key

\* A key of level j is its own projection to level j.
LEMMA IdSelf ==
  ASSUME NEW c, NEW j, NEW k \in SUBSET c[j]
  PROVE  Id(c, j, k) = <<c[j], k>>
BY DEF Id, Key

\* Each tuple of a nested chain occurs at one level.
LEMMA LevelUnique ==
  ASSUME NEW c \in Seq(Masks), Nested(c),
         NEW i \in 1..Len(c), NEW j \in 1..Len(c), c[i] = c[j]
  PROVE  i = j
<1>1. ~(i < j) /\ ~(j < i)
  BY DEF Nested
<1> QED BY <1>1

\* Projecting below the level of an entry, from its key or one that has it.
LEMMA IdBelow ==
  ASSUME NEW c \in Seq(Masks), Nested(c), NEW l \in 1..Len(c), NEW j \in 1..l,
         NEW k, NEW q, Id(c, l, q) = <<c[l], k>>
  PROVE  Id(c, j, k) = Id(c, j, q)
<1>1. k = Key(c[l], q)
  BY DEF Id
<1> QED BY <1>1, IdThrough

-----------------------------------------------------------------------------
(***************************************************************************)
(* The types of the operations on entries.                                 *)
(***************************************************************************)

LEMMA RuleBelowType ==
  ASSUME NEW c \in Seq(Masks), NEW e \in [Ids -> Entries], NEW x \in Ids
  PROVE  RuleBelow(c, e, x) \in Rules \cup {NoRule}
<1> DEFINE L == TableLevelsBelow(c, e, x)
<1>1. CASE L = {}
  BY <1>1 DEF RuleBelow
<1>2. CASE L # {}
  <2>1. L \in SUBSET (0..Len(c)) /\ Len(c) \in Nat
    BY DEF TableLevelsBelow
  <2>2. \E h \in L : \A g \in L : g <= h
    <3> HIDE DEF L
    <3> QED BY <1>2, <2>1, GreatestNat
  <2>3. \E h \in L : \A g \in L : h >= g
    BY <2>1, <2>2
  <2>4. Max(L) \in L
    BY <2>3 DEF Max
  <2>5. Id(c, Max(L), x[2]) \in Ids
    <3>1. Max(L) \in 1..Len(c)
      BY <2>4 DEF TableLevelsBelow
    <3> QED BY <3>1, IdType, IdsBits
  <2>6. RuleBelow(c, e, x) = e[Id(c, Max(L), x[2])].rule
    BY <1>2 DEF RuleBelow
  <2> QED BY <2>5, <2>6 DEF Entries
<1> QED BY <1>1, <1>2

LEMMA NewOwnersType ==
  ASSUME NEW c \in Seq(Masks), NEW e \in [Ids -> Entries], NEW i \in 1..Len(c),
         NEW K \in SUBSET SUBSET Bits, NEW x \in Ids
  PROVE  NewOwners(c, e, i, K, x) \in SUBSET Ids
<1>1. \A j \in 1..(i - 1), k \in K : Id(c, j + 1, k) \in Ids
  <2> TAKE j \in 1..(i - 1), k \in K
  <2>1. j + 1 \in 1..Len(c)
    OBVIOUS
  <2> QED BY <2>1, IdType
<1> QED BY <1>1 DEF NewOwners

LEMMA InsertMarkersType ==
  ASSUME NEW c \in Seq(Masks), NEW e \in [Ids -> Entries], NEW i \in 1..Len(c),
         NEW K \in SUBSET SUBSET Bits
  PROVE  InsertMarkers(c, e, i, K) \in [Ids -> Entries]
<1> SUFFICES ASSUME NEW x \in Ids
             PROVE  InsertMarkers(c, e, i, K)[x] \in Entries
  BY DEF InsertMarkers
<1> DEFINE own == NewOwners(c, e, i, K, x)
<1>1. e[x] \in Entries
  OBVIOUS
<1>2. own \in SUBSET Ids
  BY NewOwnersType
<1>3. RuleBelow(c, e, x) \in Rules \cup {NoRule}
  BY RuleBelowType
<1>4. CASE own = {}
  BY <1>1, <1>4 DEF InsertMarkers
<1>5. CASE own # {}
  <2> DEFINE rule == IF e[x].inTable THEN e[x].rule ELSE RuleBelow(c, e, x)
  <2>1. rule \in Rules \cup {NoRule}
    BY <1>1, <1>3 DEF Entries
  <2>2. InsertMarkers(c, e, i, K)[x]
          = [e[x] EXCEPT !.bits = @ \cup {MARKER}, !.owners = @ \cup own,
                         !.rule = rule, !.inTable = TRUE]
    BY <1>5 DEF InsertMarkers
  <2> DEFINE f == e[x]
             g == [f EXCEPT !.bits = @ \cup {MARKER}, !.owners = @ \cup own,
                            !.rule = rule, !.inTable = TRUE]
  <2>3. f \in Entries /\ own \in SUBSET Ids
    BY <1>1, <1>2
  <2> HIDE DEF own, rule, f
  <2>4. g \in Entries
    BY <2>1, <2>3 DEF Entries
  <2> QED BY <2>2, <2>4 DEF f
<1> QED BY <1>4, <1>5

LEMMA RefreshType ==
  ASSUME NEW c, NEW e \in [Ids -> Entries], NEW i, NEW K, NEW newRule,
         \A k \in K : newRule[k] \in Rules \cup {NoRule}
  PROVE  Refresh(c, e, i, K, newRule) \in [Ids -> Entries]
<1> SUFFICES ASSUME NEW x \in Ids
             PROVE  Refresh(c, e, i, K, newRule)[x] \in Entries
  BY DEF Refresh
<1>1. e[x] \in Entries
  OBVIOUS
<1>2. CASE Key(c[i], x[2]) \in K /\ Reaches(c, e, i, x)
  BY <1>1, <1>2 DEF Refresh, Entries
<1>3. CASE ~(Key(c[i], x[2]) \in K /\ Reaches(c, e, i, x))
  BY <1>1, <1>3 DEF Refresh
<1> QED BY <1>2, <1>3

LEMMA ListedKeysType ==
  ASSUME NEW e, NEW c \in Seq(Masks), NEW i \in 1..Len(c)
  PROVE  ListedKeys(e, c[i]) \in SUBSET SUBSET c[i] /\ c[i] \in SUBSET Bits
<1>1. c[i] \in Masks
  OBVIOUS
<1> QED BY <1>1, MasksAssumption DEF ListedKeys

LEMMA LeaveMarkersType ==
  ASSUME NEW c \in Seq(Masks), NEW e \in [Ids -> Entries], NEW i \in 1..Len(c)
  PROVE  LeaveMarkers(c, e, i) \in [Ids -> Entries]
<1>1. CASE i = 1
  BY <1>1 DEF LeaveMarkers
<1>2. CASE i # 1
  <2> DEFINE K == ListedKeys(e, c[i])
             marked == InsertMarkers(c, e, i, K)
             newRule == [k \in K |-> marked[Id(c, i - 1, k)].rule]
  <2>1. K \in SUBSET SUBSET Bits
    BY ListedKeysType
  <2>2. marked \in [Ids -> Entries]
    <3> HIDE DEF K
    <3> QED BY <2>1, InsertMarkersType
  <2>3. i - 1 \in 1..Len(c)
    BY <1>2
  <2>4. \A k \in K : Id(c, i - 1, k) \in Ids
    <3> HIDE DEF K
    <3> QED BY <2>1, <2>3, IdType
  <2>5. \A k \in K : newRule[k] \in Rules \cup {NoRule}
    <3> HIDE DEF K, marked
    <3> QED BY <2>2, <2>4 DEF Entries
  <2>6. LeaveMarkers(c, e, i) = Refresh(c, marked, i, K, newRule)
    BY <1>2 DEF LeaveMarkers
  <2> HIDE DEF K, marked, newRule
  <2>7. Refresh(c, marked, i, K, newRule) \in [Ids -> Entries]
    BY <2>2, <2>5, RefreshType
  <2> QED BY <2>6, <2>7
<1> QED BY <1>1, <1>2

LEMMA LinkType ==
  ASSUME NEW c \in Seq(Masks), NEW e \in [Ids -> Entries], NEW i \in 1..Len(c)
  PROVE  Link(c, e, i) \in [Ids -> Entries]
<1>1. LeaveMarkers(c, e, i) \in [Ids -> Entries]
  BY LeaveMarkersType
<1>2. CASE i < Len(c)
  <2>1. i + 1 \in 1..Len(c)
    BY <1>2
  <2> QED BY <1>1, <1>2, <2>1, LeaveMarkersType DEF Link
<1>3. CASE ~(i < Len(c))
  BY <1>1, <1>3 DEF Link
<1> QED BY <1>2, <1>3

\* The key a rule has in its tuple is an entry.
LEMMA RuleIdType ==
  ASSUME NEW r \in Rules
  PROVE  /\ <<r.mask, r.key>> \in Ids
         /\ r.mask \in Masks /\ r.key \in SUBSET r.mask /\ r.key \in SUBSET Bits
BY RulesAssumption, MasksAssumption DEF Ids

LEMMA NewEntryType ==
  ASSUME NEW e \in [Ids -> Entries], NEW r \in Rules
  PROVE  /\ NewEntry(e, r) \in [Ids -> Entries]
         /\ NewEntry(e, r) = [e EXCEPT ![<<r.mask, r.key>>] =
              [@ EXCEPT !.bits = {RULE}, !.rule = r, !.inTable = TRUE]]
<1>1. <<r.mask, r.key>> \in Ids
  BY RuleIdType
<1>2. e[<<r.mask, r.key>>] \in Entries
  BY <1>1
<1> QED BY <1>1, <1>2 DEF NewEntry, Entries

LEMMA InsertAtType ==
  ASSUME NEW c \in Seq(Masks), NEW e \in [Ids -> Entries], NEW i \in 1..Len(c),
         NEW r \in Rules
  PROVE  InsertAt(c, e, i, r) \in [Ids -> Entries]
<1> DEFINE x == <<r.mask, r.key>>
<1>1. x \in Ids /\ r.key \in SUBSET Bits
  BY RuleIdType
<1>2. CASE e[x].inTable
  <2> DEFINE set == [e EXCEPT ![x].bits = @ \cup {RULE}, ![x].rule = r]
  <2>1. set \in [Ids -> Entries]
    <3>1. e[x] \in Entries
      BY <1>1
    <3> QED BY <1>1, <3>1 DEF Entries
  <2> DEFINE newRule == [k \in {r.key} |-> r]
  <2>2. InsertAt(c, e, i, r) = Refresh(c, set, i, {r.key}, newRule)
    BY <1>2 DEF InsertAt, SetRule
  <2>3. \A k \in {r.key} : newRule[k] \in Rules \cup {NoRule}
    OBVIOUS
  <2> HIDE DEF set, newRule
  <2>4. Refresh(c, set, i, {r.key}, newRule) \in [Ids -> Entries]
    BY <2>1, <2>3, RefreshType
  <2> QED BY <2>2, <2>4
<1>3. CASE ~e[x].inTable
  <2>1. NewEntry(e, r) \in [Ids -> Entries]
    BY NewEntryType
  <2>2. InsertMarkers(c, NewEntry(e, r), i, {r.key}) \in [Ids -> Entries]
    BY <1>1, <2>1, InsertMarkersType
  <2> QED BY <1>3, <2>1, <2>2 DEF InsertAt
<1> QED BY <1>2, <1>3

LEMMA EraseAtType ==
  ASSUME NEW c \in Seq(Masks), NEW e \in [Ids -> Entries], NEW i \in 1..Len(c),
         NEW r \in Rules
  PROVE  EraseAt(c, e, i, r) \in [Ids -> Entries]
<1> DEFINE x == <<r.mask, r.key>>
           cleared == [e EXCEPT ![x].bits = @ \ {RULE}, ![x].rule = NoRule]
           marker == IF i = 1 THEN x ELSE Id(c, i - 1, r.key)
           fresh == Refresh(c, cleared, i, {r.key},
                            [k \in {r.key} |-> cleared[marker].rule])
<1>1. x \in Ids /\ r.key \in SUBSET Bits
  BY RuleIdType
<1>2. cleared \in [Ids -> Entries]
  <2>1. e[x] \in Entries
    BY <1>1
  <2> QED BY <1>1, <2>1 DEF Entries
<1>3. marker \in Ids
  <2>1. CASE i = 1
    BY <1>1, <2>1
  <2>2. CASE i # 1
    <3>1. i - 1 \in 1..Len(c)
      BY <2>2
    <3> QED BY <1>1, <2>2, <3>1, IdType
  <2> QED BY <2>1, <2>2
<1>4. fresh \in [Ids -> Entries]
  <2> HIDE DEF cleared, marker, x
  <2>1. cleared[marker].rule \in Rules \cup {NoRule}
    BY <1>2, <1>3 DEF Entries
  <2> QED BY <1>2, <2>1, RefreshType
<1>5. EraseAt(c, e, i, r)
        = IF fresh[x].owners = {}
          THEN [fresh EXCEPT ![x].inTable = FALSE, ![x].dead = @ + 1]
          ELSE fresh
  BY DEF EraseAt
<1> HIDE DEF fresh, x
<1>6. fresh[x] \in Entries
  BY <1>1, <1>4
<1> QED BY <1>1, <1>4, <1>5, <1>6 DEF Entries

LEMMA FilledType ==
  ASSUME NEW e \in [Ids -> Entries], NEW F \in SUBSET Rules
  PROVE  Filled(e, F) \in [Ids -> Entries]
<1> SUFFICES ASSUME NEW x \in Ids PROVE Filled(e, F)[x] \in Entries
  BY DEF Filled
<1>1. CASE \E r \in F : x = <<r.mask, r.key>>
  <2> DEFINE rule == CHOOSE r \in F : x = <<r.mask, r.key>>
  <2>1. rule \in Rules
    BY <1>1
  <2>2. Filled(e, F)[x] = [Absent EXCEPT !.bits = {RULE}, !.inTable = TRUE, !.rule = rule]
    BY <1>1 DEF Filled
  <2> HIDE DEF rule
  <2>3. Filled(e, F)[x] = [bits |-> {RULE}, rule |-> rule, owners |-> {},
                           inTable |-> TRUE, dead |-> 0]
    BY <2>2 DEF Absent
  <2> QED BY <2>1, <2>3 DEF Entries
<1>2. CASE ~ \E r \in F : x = <<r.mask, r.key>>
  BY <1>2 DEF Filled
<1> QED BY <1>1, <1>2

\* Inserting a mask at level i: the levels of the longer chain.
LEMMA ShiftProperties ==
  ASSUME NEW c \in Seq(Masks), NEW m \in Masks, NEW i \in 1..(Len(c) + 1)
  PROVE  /\ Shift(c, m, i) \in Seq(Masks)
         /\ Len(Shift(c, m, i)) = Len(c) + 1
         /\ \A j \in 1..(i - 1) : Shift(c, m, i)[j] = c[j]
         /\ Shift(c, m, i)[i] = m
         /\ \A j \in (i + 1)..(Len(c) + 1) : Shift(c, m, i)[j] = c[j - 1]
<1> DEFINE n == Len(c) + 1
           s == Shift(c, m, i)
<1>1. n \in Nat /\ n = Len(c) + 1 /\ i \in 1..n
  OBVIOUS
<1>2. \A j \in 1..Len(c) : c[j] \in Masks
  OBVIOUS
<1>3. s = [j \in 1..n |-> IF j < i THEN c[j] ELSE IF j = i THEN m ELSE c[j - 1]]
  BY DEF Shift
<1>4. s \in [1..n -> Masks]
  BY <1>1, <1>2, <1>3
<1>5. s \in Seq(Masks)
  BY <1>1, <1>4
<1>6. Len(s) = n
  BY <1>1, <1>4, <1>5
<1> QED BY <1>1, <1>3, <1>5, <1>6

\* The slot found by insertTuple keeps the masks strictly nested.
LEMMA ShiftNested ==
  ASSUME NEW c \in Seq(Masks), Nested(c), NEW m \in Masks, NEW i \in 1..(Len(c) + 1),
         IsSlot(c, m, i), Fits(c, m, i), \A j \in 1..Len(c) : c[j] # m
  PROVE  Nested(Shift(c, m, i))
<1> DEFINE s == Shift(c, m, i)
<1>1. /\ Len(s) = Len(c) + 1
      /\ \A j \in 1..(i - 1) : s[j] = c[j]
      /\ s[i] = m
      /\ \A j \in (i + 1)..(Len(c) + 1) : s[j] = c[j - 1]
  BY ShiftProperties
<1> HIDE DEF s
<1> SUFFICES ASSUME NEW g \in 1..Len(s), NEW h \in 1..Len(s), g < h
             PROVE  Cover(s[g], s[h]) /\ s[g] # s[h]
  BY DEF Nested, s
<1>2. CASE h < i
  <2>1. s[g] = c[g] /\ s[h] = c[h] /\ g \in 1..Len(c) /\ h \in 1..Len(c)
    BY <1>1, <1>2
  <2> QED BY <2>1 DEF Nested
<1>3. CASE h = i
  <2>1. s[g] = c[g] /\ s[h] = m /\ g \in 1..Len(c) /\ g \in 1..(i - 1)
    BY <1>1, <1>3
  <2> QED BY <2>1 DEF IsSlot
<1>4. CASE g = i
  <2>1. s[g] = m /\ s[h] = c[h - 1] /\ h - 1 \in 1..Len(c) /\ i \in 1..Len(c)
    BY <1>1, <1>4
  <2>2. Cover(m, c[i])
    BY <2>1 DEF Fits
  <2>3. Cover(c[i], c[h - 1])
    <3>1. CASE h - 1 = i
      BY <3>1 DEF Cover
    <3>2. CASE i < h - 1
      BY <2>1, <3>2 DEF Nested
    <3> QED BY <1>4, <3>1, <3>2
  <2> QED BY <2>1, <2>2, <2>3 DEF Cover
<1>5. CASE g < i /\ i < h
  <2>1. s[g] = c[g] /\ s[h] = c[h - 1] /\ g \in 1..Len(c) /\ h - 1 \in 1..Len(c) /\ g < h - 1
    BY <1>1, <1>5
  <2> QED BY <2>1 DEF Nested
<1>6. CASE i < g
  <2>1. s[g] = c[g - 1] /\ s[h] = c[h - 1]
    <3>1. g \in (i + 1)..(Len(c) + 1) /\ h \in (i + 1)..(Len(c) + 1)
      BY <1>1, <1>6
    <3> QED BY <1>1, <3>1
  <2>2. g - 1 \in 1..Len(c) /\ h - 1 \in 1..Len(c) /\ g - 1 < h - 1
    BY <1>1, <1>6
  <2> QED BY <2>1, <2>2 DEF Nested
<1> QED BY <1>1, <1>2, <1>3, <1>4, <1>5, <1>6

\* A subtree's root is one of its levels.
LEMMA RootInside ==
  ASSUME NEW l \in Nat, NEW h \in Nat, 1 <= l, l < h
  PROVE  Root(l, h) \in l..(h - 1)
BY DEF Root

LEMMA HitRuleType ==
  ASSUME NEW e \in [Ids -> Entries], NEW x \in Ids
  PROVE  HitRule(e, x) \in Rules \cup {NoRule}
<1>1. e[x] \in Entries
  OBVIOUS
<1> QED BY <1>1 DEF HitRule, Entries

-----------------------------------------------------------------------------
(***************************************************************************)
(* What the operations on entries change.                                  *)
(***************************************************************************)

\* An entry with no new owner stays; one with new owners is a marker now.
LEMMA InsertMarkersEntry ==
  ASSUME NEW c \in Seq(Masks), NEW e \in [Ids -> Entries], NEW i \in 1..Len(c),
         NEW K \in SUBSET SUBSET Bits, NEW x \in Ids
  PROVE  LET own == NewOwners(c, e, i, K, x)
             f   == InsertMarkers(c, e, i, K)[x]
         IN  /\ own = {} => f = e[x]
             /\ own # {} => /\ f.inTable /\ MARKER \in f.bits
                            /\ f.bits = e[x].bits \cup {MARKER}
                            /\ f.owners = e[x].owners \cup own
                            /\ e[x].inTable => f.rule = e[x].rule
                            /\ f.dead = e[x].dead
<1> DEFINE own == NewOwners(c, e, i, K, x)
           g   == e[x]
           f   == InsertMarkers(c, e, i, K)[x]
           rule == IF g.inTable THEN g.rule ELSE RuleBelow(c, e, x)
<1>1. own = {} => f = g
  BY DEF InsertMarkers
<1>2. own # {} => f = [g EXCEPT !.bits = @ \cup {MARKER}, !.owners = @ \cup own,
                                !.rule = rule, !.inTable = TRUE]
  BY DEF InsertMarkers
<1>3. g \in Entries
  OBVIOUS
<1>4. g.inTable => rule = g.rule
  OBVIOUS
<1> HIDE DEF own, f, g, rule
<1>5. own # {} => /\ f.inTable /\ MARKER \in f.bits
                  /\ f.bits = g.bits \cup {MARKER}
                  /\ f.owners = g.owners \cup own
                  /\ f.rule = rule
                  /\ f.dead = g.dead
  BY ZenonT(40), <1>2, <1>3 DEF Entries
<1> QED BY <1>1, <1>4, <1>5 DEF own, f, g

\* Markers and owners are only added, and nothing leaves a table.
LEMMA InsertMarkersGrows ==
  ASSUME NEW c \in Seq(Masks), NEW e \in [Ids -> Entries], NEW i \in 1..Len(c),
         NEW K \in SUBSET SUBSET Bits, NEW x \in Ids
  PROVE  LET f == InsertMarkers(c, e, i, K)[x]
         IN  /\ e[x].inTable => f.inTable
             /\ MARKER \in e[x].bits => MARKER \in f.bits
             /\ RULE \in f.bits <=> RULE \in e[x].bits
             /\ e[x].owners \subseteq f.owners
             /\ f.dead = e[x].dead
<1> DEFINE own == NewOwners(c, e, i, K, x)
<1>1. CASE own = {}
  BY <1>1, InsertMarkersEntry
<1>2. CASE own # {}
  BY <1>2, InsertMarkersEntry DEF RULE, MARKER
<1> QED BY <1>1, <1>2

\* A refresh changes no field but rule, and that of pure markers only.
LEMMA RefreshEntry ==
  ASSUME NEW c, NEW e \in [Ids -> Entries], NEW i, NEW K, NEW newRule, NEW x \in Ids
  PROVE  LET f == Refresh(c, e, i, K, newRule)[x]
         IN  /\ f.bits = e[x].bits /\ f.owners = e[x].owners
             /\ f.inTable = e[x].inTable /\ f.dead = e[x].dead
             /\ ~Pure(e[x]) => f.rule = e[x].rule
<1> DEFINE g == e[x]
           f == Refresh(c, e, i, K, newRule)[x]
           rule == newRule[Key(c[i], x[2])]
<1>1. CASE Key(c[i], x[2]) \in K /\ Reaches(c, e, i, x)
  <2>1. Pure(g)
    <3>1. PICK h \in i..Len(c) : c[h] = x[1] /\ Pure(e[Id(c, h, x[2])])
      BY <1>1 DEF Reaches
    <3>2. Id(c, h, x[2]) = x
      BY <3>1, IdsBits DEF Id, Key
    <3> QED BY <3>1, <3>2
  <2>2. f = [g EXCEPT !.rule = rule]
    BY <1>1 DEF Refresh
  <2>3. g \in Entries
    OBVIOUS
  <2> HIDE DEF f, g, rule
  <2>4. /\ f.bits = g.bits /\ f.owners = g.owners
        /\ f.inTable = g.inTable /\ f.dead = g.dead
    BY <2>2, <2>3 DEF Entries
  <2> QED BY <2>1, <2>4 DEF f, g
<1>2. CASE ~(Key(c[i], x[2]) \in K /\ Reaches(c, e, i, x))
  BY <1>2 DEF Refresh
<1> QED BY <1>1, <1>2

Consistent(e, x) ==
  /\ e[x].inTable <=> e[x].bits # {}
  /\ MARKER \in e[x].bits <=> e[x].owners # {}
  /\ RULE \in e[x].bits =>
       e[x].rule \in Rules /\ <<e[x].rule.mask, e[x].rule.key>> = x

LEMMA InsertMarkersConsistent ==
  ASSUME NEW c \in Seq(Masks), NEW e \in [Ids -> Entries], NEW i \in 1..Len(c),
         NEW K \in SUBSET SUBSET Bits, NEW x \in Ids, Consistent(e, x)
  PROVE  Consistent(InsertMarkers(c, e, i, K), x)
<1> DEFINE own == NewOwners(c, e, i, K, x)
           f   == InsertMarkers(c, e, i, K)
<1>1. ASSUME own = {} PROVE Consistent(f, x)
  <2>1. f[x] = e[x]
    BY <1>1, InsertMarkersEntry
  <2> HIDE DEF f
  <2> QED BY <2>1 DEF Consistent
<1>2. ASSUME own # {} PROVE Consistent(f, x)
  <2>1. /\ f[x].inTable /\ MARKER \in f[x].bits
        /\ f[x].bits = e[x].bits \cup {MARKER}
        /\ f[x].owners = e[x].owners \cup own
        /\ e[x].inTable => f[x].rule = e[x].rule
    BY <1>2, InsertMarkersEntry
  <2> HIDE DEF f, own
  <2>2. f[x].inTable <=> f[x].bits # {}
    BY <2>1
  <2>3. MARKER \in f[x].bits <=> f[x].owners # {}
    BY <1>2, <2>1
  <2>4. ASSUME RULE \in f[x].bits
        PROVE  f[x].rule \in Rules /\ <<f[x].rule.mask, f[x].rule.key>> = x
    <3>1. RULE \in e[x].bits
      BY <2>1, <2>4 DEF RULE, MARKER
    <3>2. e[x].inTable
      BY <3>1 DEF Consistent
    <3> QED BY <2>1, <3>1, <3>2 DEF Consistent
  <2> QED BY <2>2, <2>3, <2>4 DEF Consistent
<1> QED BY <1>1, <1>2

LEMMA RefreshConsistent ==
  ASSUME NEW c, NEW e \in [Ids -> Entries], NEW i, NEW K, NEW newRule,
         NEW x \in Ids, Consistent(e, x)
  PROVE  Consistent(Refresh(c, e, i, K, newRule), x)
<1> DEFINE f == Refresh(c, e, i, K, newRule)
<1>1. /\ f[x].bits = e[x].bits /\ f[x].owners = e[x].owners
      /\ f[x].inTable = e[x].inTable
      /\ ~Pure(e[x]) => f[x].rule = e[x].rule
  BY RefreshEntry
<1>2. RULE \in e[x].bits => ~Pure(e[x])
  BY DEF Pure, RULE, MARKER
<1> HIDE DEF f
<1>3. Consistent(f, x)
  BY <1>1, <1>2, Zenon DEF Consistent
<1> QED BY <1>3 DEF f

\* LeaveMarkers is an InsertMarkers of all the keys of the level, and a
\* refresh, which leaves bits, owners and tables alone.
LEMMA LeaveMarkersShape ==
  ASSUME NEW c \in Seq(Masks), NEW e \in [Ids -> Entries], NEW i \in 1..Len(c), i # 1,
         NEW x \in Ids
  PROVE  LET f == LeaveMarkers(c, e, i)[x]
             g == InsertMarkers(c, e, i, ListedKeys(e, c[i]))[x]
         IN  f.bits = g.bits /\ f.owners = g.owners /\ f.inTable = g.inTable /\ f.dead = g.dead
<1> DEFINE K == ListedKeys(e, c[i])
           marked == InsertMarkers(c, e, i, K)
           newRule == [k \in K |-> marked[Id(c, i - 1, k)].rule]
<1>1. K \in SUBSET SUBSET Bits
  BY ListedKeysType
<1>2. marked \in [Ids -> Entries]
  <2> HIDE DEF K
  <2> QED BY <1>1, InsertMarkersType
<1>3. LeaveMarkers(c, e, i) = Refresh(c, marked, i, K, newRule)
  BY DEF LeaveMarkers
<1>4. LET h == Refresh(c, marked, i, K, newRule)[x]
      IN  /\ h.bits = marked[x].bits /\ h.owners = marked[x].owners
          /\ h.inTable = marked[x].inTable /\ h.dead = marked[x].dead
  <2> HIDE DEF marked, K, newRule
  <2> QED BY <1>2, RefreshEntry
<1> QED BY <1>3, <1>4

LEMMA LeaveMarkersConsistent ==
  ASSUME NEW c \in Seq(Masks), NEW e \in [Ids -> Entries], NEW i \in 1..Len(c),
         NEW x \in Ids, Consistent(e, x)
  PROVE  Consistent(LeaveMarkers(c, e, i), x)
<1>1. CASE i = 1
  BY <1>1 DEF LeaveMarkers
<1>2. CASE i # 1
  <2> DEFINE K == ListedKeys(e, c[i])
             marked == InsertMarkers(c, e, i, K)
             newRule == [k \in K |-> marked[Id(c, i - 1, k)].rule]
  <2>1. K \in SUBSET SUBSET Bits
    BY ListedKeysType
  <2>2. marked \in [Ids -> Entries] /\ Consistent(marked, x)
    <3> HIDE DEF K
    <3> QED BY <2>1, InsertMarkersType, InsertMarkersConsistent
  <2>3. LeaveMarkers(c, e, i) = Refresh(c, marked, i, K, newRule)
    BY <1>2 DEF LeaveMarkers
  <2>4. Consistent(Refresh(c, marked, i, K, newRule), x)
    <3> HIDE DEF marked, K, newRule
    <3> QED BY <2>2, RefreshConsistent
  <2> QED BY <2>3, <2>4
<1> QED BY <1>1, <1>2

LEMMA LinkConsistent ==
  ASSUME NEW c \in Seq(Masks), NEW e \in [Ids -> Entries], NEW i \in 1..Len(c),
         NEW x \in Ids, Consistent(e, x)
  PROVE  Consistent(Link(c, e, i), x)
<1>1. LeaveMarkers(c, e, i) \in [Ids -> Entries] /\ Consistent(LeaveMarkers(c, e, i), x)
  BY LeaveMarkersType, LeaveMarkersConsistent
<1>2. CASE i < Len(c)
  <2>1. i + 1 \in 1..Len(c)
    BY <1>2
  <2> QED BY <1>1, <1>2, <2>1, LeaveMarkersConsistent DEF Link
<1>3. CASE ~(i < Len(c))
  BY <1>1, <1>3 DEF Link
<1> QED BY <1>2, <1>3

\* setRule: the entry has the rule, every other keeps its shape.
LEMMA SetRuleEntry ==
  ASSUME NEW c \in Seq(Masks), NEW e \in [Ids -> Entries], NEW i \in 1..Len(c), NEW r \in Rules, NEW y \in Ids
  PROVE  LET x == <<r.mask, r.key>>
             f == SetRule(c, e, i, r)[y]
         IN  /\ f.owners = e[y].owners /\ f.inTable = e[y].inTable /\ f.dead = e[y].dead
             /\ y # x => f.bits = e[y].bits /\ (~Pure(e[y]) => f.rule = e[y].rule)
             /\ y = x => f.bits = e[y].bits \cup {RULE} /\ f.rule = r
<1> DEFINE x == <<r.mask, r.key>>
           set == [e EXCEPT ![x].bits = @ \cup {RULE}, ![x].rule = r]
           newRule == [k \in {r.key} |-> r]
           f == Refresh(c, set, i, {r.key}, newRule)
<1>1. x \in Ids /\ e[x] \in Entries /\ e[y] \in Entries
  BY RuleIdType
<1>2. set \in [Ids -> Entries]
  BY <1>1 DEF Entries
<1>3. y # x => set[y] = e[y]
  BY <1>1
<1>4. y = x => /\ set[y].bits = e[y].bits \cup {RULE} /\ set[y].rule = r
               /\ set[y].owners = e[y].owners /\ set[y].inTable = e[y].inTable
               /\ set[y].dead = e[y].dead
  BY <1>1 DEF Entries
<1>5. /\ f[y].bits = set[y].bits /\ f[y].owners = set[y].owners
      /\ f[y].inTable = set[y].inTable /\ f[y].dead = set[y].dead
      /\ ~Pure(set[y]) => f[y].rule = set[y].rule
  <2> HIDE DEF set, newRule, x
  <2> QED BY <1>2, RefreshEntry
<1>6. y = x => ~Pure(set[y])
  <2> HIDE DEF set, f, x
  <2>1. RULE \notin {MARKER}
    BY DEF RULE, MARKER
  <2>2. y = x => RULE \in set[y].bits
    BY <1>4
  <2> QED BY <2>1, <2>2 DEF Pure
<1>7. SetRule(c, e, i, r) = f
  BY DEF SetRule
<1> HIDE DEF f, set, x
<1>8. /\ f[y].owners = e[y].owners /\ f[y].inTable = e[y].inTable /\ f[y].dead = e[y].dead
      /\ y # x => f[y].bits = e[y].bits /\ (~Pure(e[y]) => f[y].rule = e[y].rule)
      /\ y = x => f[y].bits = e[y].bits \cup {RULE} /\ f[y].rule = r
  BY <1>3, <1>4, <1>5, <1>6
<1> QED BY <1>7, <1>8 DEF x

\* erase: the entry loses its rule, and its place in the table if it has no
\* owner; every other keeps its shape.
LEMMA EraseAtEntry ==
  ASSUME NEW c \in Seq(Masks), NEW e \in [Ids -> Entries], NEW i \in 1..Len(c),
         NEW r \in Rules, NEW y \in Ids
  PROVE  LET x == <<r.mask, r.key>>
             f == EraseAt(c, e, i, r)[y]
         IN  /\ f.owners = e[y].owners
             /\ y # x => /\ f.bits = e[y].bits /\ f.inTable = e[y].inTable
                         /\ f.dead = e[y].dead
                         /\ ~Pure(e[y]) => f.rule = e[y].rule
             /\ y = x => /\ f.bits = e[y].bits \ {RULE}
                         /\ e[y].owners = {} => ~f.inTable /\ f.dead = e[y].dead + 1
                         /\ e[y].owners # {} => f.inTable = e[y].inTable /\ f.dead = e[y].dead
<1> DEFINE x == <<r.mask, r.key>>
           cleared == [e EXCEPT ![x].bits = @ \ {RULE}, ![x].rule = NoRule]
           marker == IF i = 1 THEN x ELSE Id(c, i - 1, r.key)
           newRule == [k \in {r.key} |-> cleared[marker].rule]
           fresh == Refresh(c, cleared, i, {r.key}, newRule)
           f == EraseAt(c, e, i, r)
<1>1. x \in Ids /\ e[x] \in Entries /\ e[y] \in Entries
  BY RuleIdType
<1>2. cleared \in [Ids -> Entries]
  BY <1>1 DEF Entries
<1>3. y # x => cleared[y] = e[y]
  BY <1>1
<1>4. /\ cleared[x].bits = e[x].bits \ {RULE} /\ cleared[x].owners = e[x].owners
      /\ cleared[x].inTable = e[x].inTable /\ cleared[x].dead = e[x].dead
  BY <1>1 DEF Entries
<1>5. ASSUME NEW z \in Ids
      PROVE  /\ fresh[z].bits = cleared[z].bits /\ fresh[z].owners = cleared[z].owners
             /\ fresh[z].inTable = cleared[z].inTable /\ fresh[z].dead = cleared[z].dead
             /\ ~Pure(cleared[z]) => fresh[z].rule = cleared[z].rule
  <2> HIDE DEF cleared, newRule, x
  <2> QED BY <1>2, RefreshEntry
<1>6. DOMAIN fresh = Ids
  BY DEF Refresh
<1>7. f = IF fresh[x].owners = {}
          THEN [fresh EXCEPT ![x].inTable = FALSE, ![x].dead = @ + 1]
          ELSE fresh
  BY DEF EraseAt
<1>8. fresh[x] \in Entries
  <2>1. cleared[marker].rule \in Rules \cup {NoRule}
    <3>1. marker \in Ids
      <4>1. CASE i = 1
        BY <1>1, <4>1
      <4>2. CASE i # 1
        <5>1. i - 1 \in 1..Len(c)
          BY <4>2
        <5> QED BY <4>2, <5>1, IdType, RuleIdType
      <4> QED BY <4>1, <4>2
    <3> HIDE DEF cleared, marker
    <3> QED BY <1>2, <3>1 DEF Entries
  <2>2. \A k \in {r.key} : newRule[k] \in Rules \cup {NoRule}
    BY <2>1
  <2>3. fresh \in [Ids -> Entries]
    <3> HIDE DEF cleared, newRule
    <3> QED BY <1>2, <2>2, RefreshType
  <2> QED BY <1>1, <2>3
<1> HIDE DEF fresh, cleared, f, x
<1>9. ASSUME y # x
      PROVE  /\ f[y].owners = e[y].owners
             /\ f[y].bits = e[y].bits /\ f[y].inTable = e[y].inTable /\ f[y].dead = e[y].dead
             /\ ~Pure(e[y]) => f[y].rule = e[y].rule
  <2>1. f[y] = fresh[y]
    BY <1>6, <1>7, <1>9
  <2> QED BY <1>3, <1>5, <1>9, <2>1
<1>10. ASSUME y = x, e[y].owners = {}
       PROVE  /\ f[y].owners = e[y].owners /\ f[y].bits = e[y].bits \ {RULE}
              /\ ~f[y].inTable /\ f[y].dead = e[y].dead + 1
  <2>1. fresh[x].owners = {} /\ fresh[x].bits = e[x].bits \ {RULE} /\ fresh[x].dead = e[x].dead
    BY <1>1, <1>4, <1>5, <1>10
  <2>2. f[x] = [fresh[x] EXCEPT !.inTable = FALSE, !.dead = @ + 1]
    BY <1>1, <1>6, <1>7, <1>8, <2>1 DEF Entries
  <2>3. /\ f[x].owners = fresh[x].owners /\ f[x].bits = fresh[x].bits
        /\ ~f[x].inTable /\ f[x].dead = fresh[x].dead + 1
    BY <1>8, <2>2 DEF Entries
  <2> QED BY <1>10, <2>1, <2>3
<1>11. ASSUME y = x, e[y].owners # {}
       PROVE  /\ f[y].owners = e[y].owners /\ f[y].bits = e[y].bits \ {RULE}
              /\ f[y].inTable = e[y].inTable /\ f[y].dead = e[y].dead
  <2>1. f = fresh
    BY <1>1, <1>4, <1>5, <1>7, <1>11
  <2> QED BY <1>1, <1>4, <1>5, <1>11, <2>1
<1>12. /\ f[y].owners = e[y].owners
       /\ y # x => /\ f[y].bits = e[y].bits /\ f[y].inTable = e[y].inTable
                   /\ f[y].dead = e[y].dead
                   /\ ~Pure(e[y]) => f[y].rule = e[y].rule
       /\ y = x => /\ f[y].bits = e[y].bits \ {RULE}
                   /\ e[y].owners = {} => ~f[y].inTable /\ f[y].dead = e[y].dead + 1
                   /\ e[y].owners # {} => f[y].inTable = e[y].inTable /\ f[y].dead = e[y].dead
  BY <1>9, <1>10, <1>11
<1> QED BY <1>12 DEF f, x

\* erase keeps an entry that has an owner in its table.
LEMMA EraseAtOwned ==
  ASSUME NEW c \in Seq(Masks), NEW e \in [Ids -> Entries], NEW i \in 1..Len(c),
         NEW r \in Rules, NEW y \in Ids, e[y].owners # {}
  PROVE  EraseAt(c, e, i, r)[y].inTable = e[y].inTable
<1> DEFINE x == <<r.mask, r.key>>
           f == EraseAt(c, e, i, r)
<1>1. /\ y # x => f[y].inTable = e[y].inTable
      /\ y = x => (e[y].owners # {} => f[y].inTable = e[y].inTable)
  BY EraseAtEntry
<1> QED BY <1>1

LEMMA NewEntryEntry ==
  ASSUME NEW e \in [Ids -> Entries], NEW r \in Rules, NEW y \in Ids
  PROVE  LET x == <<r.mask, r.key>>
             f == NewEntry(e, r)[y]
         IN  /\ y # x => f = e[y]
             /\ y = x => /\ f.bits = {RULE} /\ f.rule = r /\ f.inTable
                         /\ f.owners = e[y].owners /\ f.dead = e[y].dead
<1> DEFINE x == <<r.mask, r.key>>
<1>1. x \in Ids /\ e[x] \in Entries
  BY RuleIdType
<1>2. NewEntry(e, r) = [e EXCEPT ![x] = [@ EXCEPT !.bits = {RULE}, !.rule = r, !.inTable = TRUE]]
  BY NewEntryType
<1> HIDE DEF x
<1>3. y # x => NewEntry(e, r)[y] = e[y]
  BY <1>1, <1>2
<1>4. NewEntry(e, r)[x] = [e[x] EXCEPT !.bits = {RULE}, !.rule = r, !.inTable = TRUE]
  BY <1>1, <1>2
<1>5. LET f == NewEntry(e, r)[x]
      IN  /\ f.bits = {RULE} /\ f.rule = r /\ f.inTable
          /\ f.owners = e[x].owners /\ f.dead = e[x].dead
  BY <1>1, <1>4 DEF Entries
<1> QED BY <1>3, <1>5 DEF x

LEMMA InsertAtConsistent ==
  ASSUME NEW c \in Seq(Masks), NEW e \in [Ids -> Entries], NEW i \in 1..Len(c),
         NEW r \in Rules, \A z \in Ids : Consistent(e, z), NEW y \in Ids
  PROVE  Consistent(InsertAt(c, e, i, r), y)
<1> DEFINE x == <<r.mask, r.key>>
<1>1. x \in Ids /\ r.key \in SUBSET Bits
  BY RuleIdType
<1>2. CASE e[x].inTable
  <2> DEFINE f == SetRule(c, e, i, r)
  <2>1. /\ f[y].owners = e[y].owners /\ f[y].inTable = e[y].inTable
        /\ y # x => f[y].bits = e[y].bits /\ (~Pure(e[y]) => f[y].rule = e[y].rule)
        /\ y = x => f[y].bits = e[y].bits \cup {RULE} /\ f[y].rule = r
    BY SetRuleEntry
  <2>2. RULE \in e[y].bits => ~Pure(e[y])
    BY DEF Pure, RULE, MARKER
  <2>3. Consistent(e, y)
    OBVIOUS
  <2> HIDE DEF f
  <2>4. ASSUME y # x PROVE Consistent(f, y)
    BY <2>1, <2>2, <2>3, <2>4, Zenon DEF Consistent
  <2>5. ASSUME y = x PROVE Consistent(f, y)
    <3>1. f[y].bits # {} /\ e[y].bits # {}
      BY <1>2, <2>1, <2>3, <2>5 DEF Consistent
    <3>2. MARKER \in f[y].bits <=> MARKER \in e[y].bits
      BY <2>1, <2>5 DEF RULE, MARKER
    <3>3. f[y].rule \in Rules /\ <<f[y].rule.mask, f[y].rule.key>> = y
      BY <2>1, <2>5
    <3> QED BY <2>1, <2>3, <3>1, <3>2, <3>3, Zenon DEF Consistent
  <2>6. InsertAt(c, e, i, r) = f
    BY <1>2 DEF InsertAt, f
  <2> QED BY <2>4, <2>5, <2>6
<1>3. CASE ~e[x].inTable
  <2> DEFINE n == NewEntry(e, r)
  <2>1. /\ n \in [Ids -> Entries]
        /\ y # x => n[y] = e[y]
        /\ y = x => /\ n[y].bits = {RULE} /\ n[y].rule = r /\ n[y].inTable
                    /\ n[y].owners = e[y].owners
    <3>1. n \in [Ids -> Entries]
      BY NewEntryType
    <3>2. y # x => n[y] = e[y]
      BY NewEntryEntry
    <3>3. y = x => /\ n[y].bits = {RULE} /\ n[y].rule = r /\ n[y].inTable
                   /\ n[y].owners = e[y].owners
      BY SMTT(30), NewEntryEntry
    <3> QED BY <3>1, <3>2, <3>3
  <2>2. Consistent(e, y)
    OBVIOUS
  <2>3. Consistent(n, y)
    <3> HIDE DEF n
    <3>1. ASSUME y # x PROVE Consistent(n, y)
      BY <2>1, <2>2, <3>1, Zenon DEF Consistent
    <3>2. ASSUME y = x PROVE Consistent(n, y)
      <4>1. n[y].owners = {}
        BY <1>3, <2>1, <2>2, <3>2 DEF Consistent
      <4>2. n[y].bits # {} /\ MARKER \notin n[y].bits
        BY <2>1, <3>2 DEF RULE, MARKER
      <4>3. n[y].rule \in Rules /\ <<n[y].rule.mask, n[y].rule.key>> = y
        BY <2>1, <3>2
      <4> QED BY <2>1, <3>2, <4>1, <4>2, <4>3, Zenon DEF Consistent
    <3> QED BY <3>1, <3>2
  <2>4. Consistent(InsertMarkers(c, n, i, {r.key}), y)
    <3> HIDE DEF n
    <3> QED BY <1>1, <2>1, <2>3, InsertMarkersConsistent
  <2> QED BY <1>3, <2>3, <2>4 DEF InsertAt
<1> QED BY <1>2, <1>3

LEMMA EraseAtConsistent ==
  ASSUME NEW c \in Seq(Masks), NEW e \in [Ids -> Entries], NEW i \in 1..Len(c),
         NEW r \in Rules, NEW y \in Ids, Consistent(e, y)
  PROVE  Consistent(EraseAt(c, e, i, r), y)
<1> DEFINE x == <<r.mask, r.key>>
           f == EraseAt(c, e, i, r)
<1>1. /\ f[y].owners = e[y].owners
      /\ y # x => /\ f[y].bits = e[y].bits /\ f[y].inTable = e[y].inTable
                  /\ ~Pure(e[y]) => f[y].rule = e[y].rule
      /\ y = x => /\ f[y].bits = e[y].bits \ {RULE}
                  /\ e[y].owners = {} => ~f[y].inTable
                  /\ e[y].owners # {} => f[y].inTable = e[y].inTable
  BY EraseAtEntry
<1>2. RULE \in e[y].bits => ~Pure(e[y])
  BY DEF Pure, RULE, MARKER
<1>3. e[y].bits \subseteq {RULE, MARKER}
  <2>1. e[y] \in Entries
    OBVIOUS
  <2> QED BY <2>1 DEF Entries
<1> HIDE DEF f
<1>4. ASSUME y # x PROVE Consistent(f, y)
  BY <1>1, <1>2, <1>4, Zenon DEF Consistent
<1>5. ASSUME y = x PROVE Consistent(f, y)
  <2>1. RULE \notin f[y].bits /\ (MARKER \in f[y].bits <=> MARKER \in e[y].bits)
    BY <1>1, <1>5 DEF RULE, MARKER
  <2>2. MARKER \in f[y].bits <=> f[y].owners # {}
    BY <1>1, <2>1 DEF Consistent
  <2>3. CASE e[y].owners = {}
    <3>1. f[y].bits = {} /\ ~f[y].inTable
      BY <1>1, <1>3, <1>5, <2>1, <2>3 DEF Consistent
    <3> QED BY <2>1, <2>2, <3>1 DEF Consistent
  <2>4. CASE e[y].owners # {}
    <3>1. f[y].bits # {} /\ e[y].bits # {} /\ f[y].inTable = e[y].inTable
      BY <1>1, <1>5, <2>1, <2>4 DEF Consistent
    <3> QED BY <2>1, <2>2, <3>1, Zenon DEF Consistent
  <2> QED BY <2>3, <2>4
<1>6. Consistent(f, y)
  BY <1>4, <1>5
<1> QED BY <1>6 DEF f

-----------------------------------------------------------------------------
(***************************************************************************)
(* Where entries appear: an insertMarker lists new entries below its level *)
(* only, on the projections of its keys that it goes down to.              *)
(***************************************************************************)

LEMMA InsertMarkersListed ==
  ASSUME NEW c \in Seq(Masks), NEW e \in [Ids -> Entries], NEW i \in 1..Len(c),
         NEW K \in SUBSET SUBSET Bits, NEW x \in Ids,
         Listed(InsertMarkers(c, e, i, K)[x]), ~Listed(e[x])
  PROVE  \E j \in 1..(i - 1), q \in K : x = Id(c, j, q) /\ GoesDownTo(c, e, i, q, j)
<1>1. NewOwners(c, e, i, K, x) # {}
  BY InsertMarkersEntry DEF Listed
<1> QED BY <1>1 DEF NewOwners

\* leaveMarkers keeps every entry, and marks and owners of each.
LEMMA LeaveMarkersGrows ==
  ASSUME NEW c \in Seq(Masks), NEW e \in [Ids -> Entries], NEW i \in 1..Len(c),
         NEW x \in Ids
  PROVE  LET f == LeaveMarkers(c, e, i)[x]
         IN  /\ e[x].inTable => f.inTable
             /\ MARKER \in e[x].bits => MARKER \in f.bits
             /\ e[x].owners \subseteq f.owners
             /\ f.dead = e[x].dead
<1>1. CASE i = 1
  BY <1>1 DEF LeaveMarkers
<1>2. CASE i # 1
  <2> DEFINE g == InsertMarkers(c, e, i, ListedKeys(e, c[i]))[x]
             f == LeaveMarkers(c, e, i)[x]
  <2>1. f.bits = g.bits /\ f.owners = g.owners /\ f.inTable = g.inTable /\ f.dead = g.dead
    BY <1>2, LeaveMarkersShape
  <2>2. ListedKeys(e, c[i]) \in SUBSET SUBSET Bits
    BY ListedKeysType
  <2>3. /\ e[x].inTable => g.inTable
        /\ MARKER \in e[x].bits => MARKER \in g.bits
        /\ e[x].owners \subseteq g.owners
        /\ g.dead = e[x].dead
    BY <2>2, InsertMarkersGrows
  <2> HIDE DEF f, g
  <2>4. /\ e[x].inTable => f.inTable
        /\ MARKER \in e[x].bits => MARKER \in f.bits
        /\ e[x].owners \subseteq f.owners
        /\ f.dead = e[x].dead
    BY <2>1, <2>3
  <2> QED BY <2>4 DEF f
<1> QED BY <1>1, <1>2

LEMMA LeaveMarkersListed ==
  ASSUME NEW c \in Seq(Masks), NEW e \in [Ids -> Entries], NEW i \in 1..Len(c),
         NEW x \in Ids, Listed(LeaveMarkers(c, e, i)[x]), ~Listed(e[x])
  PROVE  \E j \in 1..(i - 1), q \in ListedKeys(e, c[i]) :
            x = Id(c, j, q) /\ GoesDownTo(c, e, i, q, j)
<1> DEFINE K == ListedKeys(e, c[i])
<1>1. i # 1
  BY DEF LeaveMarkers
<1>2. K \in SUBSET SUBSET Bits
  BY ListedKeysType
<1>3. Listed(InsertMarkers(c, e, i, K)[x])
  BY <1>1, LeaveMarkersShape DEF Listed
<1> HIDE DEF K
<1> QED BY <1>2, <1>3, InsertMarkersListed DEF K

\* Every entry is in a tuple of c.
ListedIn(e, c) == \A x \in Ids : Listed(e[x]) => \E j \in 1..Len(c) : c[j] = x[1]

LEMMA LinkListedIn ==
  ASSUME NEW c \in Seq(Masks), NEW e \in [Ids -> Entries], NEW i \in 1..Len(c),
         ListedIn(e, c)
  PROVE  ListedIn(Link(c, e, i), c)
<1>1. ASSUME NEW f \in [Ids -> Entries], NEW h \in 1..Len(c), ListedIn(f, c)
      PROVE  ListedIn(LeaveMarkers(c, f, h), c)
  <2> SUFFICES ASSUME NEW x \in Ids, Listed(LeaveMarkers(c, f, h)[x])
               PROVE  \E j \in 1..Len(c) : c[j] = x[1]
    BY DEF ListedIn
  <2>1. CASE Listed(f[x])
    BY <1>1, <2>1 DEF ListedIn
  <2>2. CASE ~Listed(f[x])
    <3>1. PICK j \in 1..(h - 1), q \in ListedKeys(f, c[h]) : x = Id(c, j, q)
      BY SMTT(30), <2>2, LeaveMarkersListed
    <3>2. j \in 1..Len(c)
      OBVIOUS
    <3> QED BY <3>1, <3>2 DEF Id
  <2> QED BY <2>1, <2>2
<1>2. LeaveMarkers(c, e, i) \in [Ids -> Entries] /\ ListedIn(LeaveMarkers(c, e, i), c)
  BY <1>1, LeaveMarkersType
<1>3. CASE i < Len(c)
  <2>1. i + 1 \in 1..Len(c)
    BY <1>3
  <2> QED BY <1>1, <1>2, <1>3, <2>1 DEF Link
<1>4. CASE ~(i < Len(c))
  BY <1>2, <1>4 DEF Link
<1> QED BY <1>3, <1>4

LEMMA InsertAtListedIn ==
  ASSUME NEW c \in Seq(Masks), NEW e \in [Ids -> Entries], NEW i \in 1..Len(c),
         NEW r \in Rules, c[i] = r.mask, ListedIn(e, c)
  PROVE  ListedIn(InsertAt(c, e, i, r), c)
<1> SUFFICES ASSUME NEW y \in Ids, Listed(InsertAt(c, e, i, r)[y])
             PROVE  \E j \in 1..Len(c) : c[j] = y[1]
  BY DEF ListedIn
<1> DEFINE x == <<r.mask, r.key>>
           n == NewEntry(e, r)
<1>1. CASE y = x
  BY <1>1
<1>2. CASE Listed(e[y])
  BY <1>2 DEF ListedIn
<1>3. CASE y # x /\ ~Listed(e[y])
  <2>1. ~e[x].inTable
    <3>1. SUFFICES ASSUME e[x].inTable PROVE FALSE
      OBVIOUS
    <3>2. InsertAt(c, e, i, r) = SetRule(c, e, i, r)
      BY <3>1 DEF InsertAt
    <3> QED BY <1>3, <3>2, SetRuleEntry DEF Listed
  <2>2. n \in [Ids -> Entries] /\ ~Listed(n[y])
    <3>1. n \in [Ids -> Entries]
      BY NewEntryType
    <3>2. n[y] = e[y]
      BY <1>3, NewEntryEntry
    <3> QED BY <1>3, <3>1, <3>2
  <2>3. i # 1 /\ Listed(InsertMarkers(c, n, i, {r.key})[y])
    BY <2>1, <2>2 DEF InsertAt
  <2>4. PICK j \in 1..(i - 1), q \in {r.key} : y = Id(c, j, q)
    <3> DEFINE K == {r.key}
    <3>1. K \in SUBSET SUBSET Bits
      BY RuleIdType
    <3>2. Listed(InsertMarkers(c, n, i, K)[y]) /\ ~Listed(n[y])
      BY <2>2, <2>3
    <3> HIDE DEF n, x, K
    <3>3. \E j \in 1..(i - 1), q \in K : y = Id(c, j, q) /\ GoesDownTo(c, n, i, q, j)
      BY <2>2, <3>1, <3>2, InsertMarkersListed
    <3> QED BY <3>3 DEF K
  <2> QED BY <2>4 DEF Id
<1> QED BY <1>1, <1>2, <1>3

LEMMA EraseAtListed ==
  ASSUME NEW c \in Seq(Masks), NEW e \in [Ids -> Entries], NEW i \in 1..Len(c),
         NEW r \in Rules, e[<<r.mask, r.key>>].inTable, NEW y \in Ids
  PROVE  Listed(EraseAt(c, e, i, r)[y]) <=> Listed(e[y])
<1> DEFINE x == <<r.mask, r.key>>
<1>1. CASE y # x
  BY <1>1, EraseAtEntry DEF Listed
<1>2. CASE y = x
  <2>1. e[y].dead \in Nat
    <3>1. e[y] \in Entries
      OBVIOUS
    <3> QED BY <3>1 DEF Entries
  <2>2. Listed(e[y])
    BY <1>2 DEF Listed
  <2>3. Listed(EraseAt(c, e, i, r)[y])
    <3>1. CASE e[y].owners = {}
      <4>1. EraseAt(c, e, i, r)[y].dead = e[y].dead + 1
        BY <1>2, <3>1, EraseAtEntry
      <4> QED BY <2>1, <4>1 DEF Listed
    <3>2. CASE e[y].owners # {}
      BY SMTT(30), <1>2, <3>2, EraseAtEntry DEF Listed
    <3> QED BY <3>1, <3>2
  <2> QED BY <2>2, <2>3
<1> QED BY <1>1, <1>2

\* The tuples stay in the chain when one is inserted.
LEMMA ShiftListedIn ==
  ASSUME NEW c \in Seq(Masks), NEW m \in Masks, NEW i \in 1..(Len(c) + 1),
         NEW e, ListedIn(e, c)
  PROVE  ListedIn(e, Shift(c, m, i))
<1> DEFINE s == Shift(c, m, i)
<1>1. /\ Len(s) = Len(c) + 1
      /\ \A j \in 1..(i - 1) : s[j] = c[j]
      /\ \A j \in (i + 1)..(Len(c) + 1) : s[j] = c[j - 1]
  BY ShiftProperties
<1> HIDE DEF s
<1> SUFFICES ASSUME NEW x \in Ids, Listed(e[x])
             PROVE  \E j \in 1..Len(s) : s[j] = x[1]
  BY DEF ListedIn, s
<1>2. PICK j \in 1..Len(c) : c[j] = x[1]
  BY DEF ListedIn
<1>3. CASE j < i
  <2>1. j \in 1..Len(s) /\ j \in 1..(i - 1)
    BY <1>1, <1>3
  <2> QED BY <1>1, <1>2, <2>1
<1>4. CASE ~(j < i)
  <2>1. j + 1 \in 1..Len(s) /\ j + 1 \in (i + 1)..(Len(c) + 1) /\ (j + 1) - 1 = j
    BY <1>1, <1>4
  <2>2. s[j + 1] = c[(j + 1) - 1]
    BY <1>1, <2>1
  <2> QED BY <1>2, <2>1, <2>2
<1> QED BY <1>3, <1>4

\* An entry of a filled tuple is one of its rules, the others stay.
LEMMA FilledEntry ==
  ASSUME NEW e \in [Ids -> Entries], NEW F \in SUBSET Rules, NEW x \in Ids
  PROVE  LET f == Filled(e, F)[x]
         IN  \/ /\ f.rule \in F /\ <<f.rule.mask, f.rule.key>> = x
                /\ f.bits = {RULE} /\ f.owners = {} /\ f.inTable /\ f.dead = 0
             \/ f = e[x] /\ \A r \in F : x # <<r.mask, r.key>>
<1> DEFINE f == Filled(e, F)[x]
<1>1. CASE \E r \in F : x = <<r.mask, r.key>>
  <2> DEFINE rule == CHOOSE r \in F : x = <<r.mask, r.key>>
  <2>1. rule \in F /\ x = <<rule.mask, rule.key>>
    BY <1>1
  <2>2. f = [Absent EXCEPT !.bits = {RULE}, !.inTable = TRUE, !.rule = rule]
    BY <1>1 DEF Filled
  <2> HIDE DEF rule, f
  <2>3. f.rule = rule /\ f.bits = {RULE} /\ f.owners = {} /\ f.inTable /\ f.dead = 0
    BY <2>2 DEF Absent
  <2>4. /\ f.rule \in F /\ <<f.rule.mask, f.rule.key>> = x
        /\ f.bits = {RULE} /\ f.owners = {} /\ f.inTable /\ f.dead = 0
    BY <2>1, <2>3
  <2> QED BY <2>4 DEF f
<1>2. CASE ~ \E r \in F : x = <<r.mask, r.key>>
  BY <1>2 DEF Filled
<1> QED BY <1>1, <1>2

LEMMA FilledConsistent ==
  ASSUME NEW e \in [Ids -> Entries], NEW F \in SUBSET Rules, NEW x \in Ids, Consistent(e, x)
  PROVE  Consistent(Filled(e, F), x)
<1> DEFINE f == Filled(e, F)
<1>1. \/ /\ f[x].rule \in F /\ <<f[x].rule.mask, f[x].rule.key>> = x
         /\ f[x].bits = {RULE} /\ f[x].owners = {} /\ f[x].inTable
      \/ f[x] = e[x]
  BY FilledEntry
<1>2. RULE # MARKER
  BY DEF RULE, MARKER
<1> HIDE DEF f
<1>3. CASE f[x] = e[x]
  BY <1>3, Zenon DEF Consistent, f
<1>4. ASSUME f[x].rule \in F /\ <<f[x].rule.mask, f[x].rule.key>> = x
             /\ f[x].bits = {RULE} /\ f[x].owners = {} /\ f[x].inTable
      PROVE  Consistent(f, x)
  <2>1. f[x].bits # {} /\ MARKER \notin f[x].bits /\ f[x].rule \in Rules
    BY <1>2, <1>4
  <2> QED BY <1>4, <2>1, Zenon DEF Consistent
<1> QED BY <1>1, <1>3, <1>4 DEF f

-----------------------------------------------------------------------------
(***************************************************************************)
(* The markers of the first n tuples, and the owners they have.            *)
(***************************************************************************)

LinkedBelow(c, e, n) ==
  \A j \in 2..n : \A k \in ListedKeys(e, c[j]) : <<c[j], k>> \in e[Id(c, j - 1, k)].owners

\* The listed keys of a level are the listed entries of its tuple.
LEMMA ListedEntry ==
  ASSUME NEW c \in Seq(Masks), NEW j \in 1..Len(c), NEW e,
         NEW k \in ListedKeys(e, c[j])
  PROVE  /\ k \in SUBSET c[j] /\ k \in SUBSET Bits
         /\ Id(c, j, k) = <<c[j], k>> /\ Listed(e[Id(c, j, k)])
         /\ Id(c, j, k) \in Ids
<1>1. k \in SUBSET c[j] /\ c[j] \in SUBSET Bits
  BY ListedKeysType
<1>2. Id(c, j, k) = <<c[j], k>>
  BY <1>1, IdSelf
<1> QED BY <1>1, <1>2, IdType DEF ListedKeys

\* The keys of a level are its entries, listed or not.
LEMMA KeyEntry ==
  ASSUME NEW c \in Seq(Masks), NEW j \in 1..Len(c), NEW k \in SUBSET c[j]
  PROVE  /\ k \in SUBSET Bits
         /\ Id(c, j, k) = <<c[j], k>> /\ Id(c, j, k) \in Ids
<1>1. c[j] \in SUBSET Bits
  <2>1. c[j] \in Masks
    OBVIOUS
  <2> QED BY <2>1, MasksAssumption
<1> QED BY <1>1, IdSelf, IdType

\* The converse: a listed projection is a listed key of its level.
LEMMA ListedProjection ==
  ASSUME NEW c \in Seq(Masks), NEW j \in 1..Len(c), NEW e, NEW k,
         Listed(e[Id(c, j, k)])
  PROVE  Key(c[j], k) \in ListedKeys(e, c[j])
BY DEF ListedKeys, Id, Key

\* insertMarker with the keys K of level i marks each of them in every
\* tuple below, provided the markers below level i were complete: where the
\* recursion stops, an entry has been found whose own markers go on.
LEMMA InsertMarkersMarks ==
  ASSUME NEW c \in Seq(Masks), Nested(c), NEW e \in [Ids -> Entries],
         NEW i \in 1..Len(c), NEW K \in SUBSET SUBSET Bits,
         MarkedBelow(c, e, i - 1), NEW k \in K, NEW j \in 1..(i - 1)
  PROVE  Marked(InsertMarkers(c, e, i, K), Id(c, j, k))
<1> DEFINE f == InsertMarkers(c, e, i, K)
           x == Id(c, j, k)
<1>1. x \in Ids
  <2>1. j \in 1..Len(c)
    OBVIOUS
  <2> QED BY <2>1, IdType
<1>2. CASE GoesDownTo(c, e, i, k, j)
  <2>1. Id(c, j + 1, k) \in NewOwners(c, e, i, K, x)
    BY <1>2 DEF NewOwners
  <2>2. NewOwners(c, e, i, K, x) # {}
    BY <2>1
  <2> HIDE DEF x
  <2>3. Marked(f, x)
    BY <1>1, <2>2, InsertMarkersEntry DEF Marked
  <2> QED BY <2>3 DEF x
<1>3. CASE ~GoesDownTo(c, e, i, k, j)
  <2>1. PICK l \in (j + 1)..(i - 1) : e[Id(c, l, k)].inTable
    BY <1>3 DEF GoesDownTo
  <2>2. l \in 1..Len(c) /\ l \in 1..(i - 1) /\ j \in 1..(l - 1) /\ j \in 1..l
    OBVIOUS
  <2>3. Key(c[l], k) \in ListedKeys(e, c[l])
    BY <2>1, <2>2, ListedProjection DEF Listed
  <2>4. Marked(e, Id(c, j, Key(c[l], k)))
    BY <2>2, <2>3 DEF MarkedBelow, Marked
  <2>5. Id(c, j, Key(c[l], k)) = x
    BY <2>2, IdThrough
  <2>6. Marked(e, x)
    BY <2>4, <2>5
  <2> HIDE DEF x
  <2>7. Marked(f, x)
    BY <1>1, <2>6, InsertMarkersGrows DEF Marked
  <2> QED BY <2>7 DEF x
<1> QED BY <1>2, <1>3

\* The markers below level i are complete after it, too.
LEMMA InsertMarkersBelow ==
  ASSUME NEW c \in Seq(Masks), Nested(c), NEW e \in [Ids -> Entries],
         NEW i \in 1..Len(c), NEW K \in SUBSET SUBSET Bits,
         MarkedBelow(c, e, i - 1)
  PROVE  MarkedBelow(c, InsertMarkers(c, e, i, K), i - 1)
<1> DEFINE f == InsertMarkers(c, e, i, K)
<1> SUFFICES ASSUME NEW j \in 1..(i - 1), NEW k \in ListedKeys(f, c[j]), NEW h \in 1..(j - 1)
             PROVE  Marked(f, Id(c, h, k))
  BY DEF MarkedBelow, Marked
<1> DEFINE x == Id(c, j, k)
<1>1. j \in 1..Len(c) /\ h \in 1..Len(c) /\ h \in 1..(i - 1) /\ h \in 1..j
  OBVIOUS
<1>2. k \in SUBSET Bits /\ k \in SUBSET c[j] /\ x = <<c[j], k>> /\ x \in Ids /\ Listed(f[x])
  <2> HIDE DEF f
  <2> QED BY ZenonT(40), <1>1, ListedEntry
<1>3. CASE Listed(e[x])
  <2>1. k \in ListedKeys(e, c[j])
    BY <1>2, <1>3 DEF ListedKeys
  <2>2. Marked(e, Id(c, h, k)) /\ Id(c, h, k) \in Ids
    BY <1>1, <1>2, <2>1, IdType DEF MarkedBelow, Marked
  <2> QED BY <2>2, InsertMarkersGrows DEF Marked
<1>4. CASE ~Listed(e[x])
  <2>1. PICK l \in 1..(i - 1), q \in K : x = Id(c, l, q)
    <3>1. x \in Ids /\ Listed(f[x]) /\ ~Listed(e[x])
      BY <1>2, <1>4
    <3> HIDE DEF x
    <3>2. \E l \in 1..(i - 1), q \in K : x = Id(c, l, q) /\ GoesDownTo(c, e, i, q, l)
      BY <3>1, InsertMarkersListed
    <3> QED BY <3>2
  <2>2. l = j
    <3>1. l \in 1..Len(c) /\ c[l] = c[j]
      BY <1>2, <2>1 DEF Id
    <3> QED BY <1>1, <3>1, LevelUnique
  <2>3. Id(c, h, k) = Id(c, h, q)
    BY <1>1, <1>2, <2>1, <2>2, IdBelow
  <2> QED BY <1>1, <2>3, InsertMarkersMarks
<1> QED BY <1>3, <1>4

\* An entry that the recursion goes past is an owner of the one below.
LEMMA InsertMarkersOwner ==
  ASSUME NEW c \in Seq(Masks), NEW e \in [Ids -> Entries], NEW i \in 1..Len(c),
         NEW K \in SUBSET SUBSET Bits, NEW k \in K, NEW j \in 1..(i - 1),
         GoesDownTo(c, e, i, k, j)
  PROVE  Id(c, j + 1, k) \in InsertMarkers(c, e, i, K)[Id(c, j, k)].owners
<1> DEFINE x == Id(c, j, k)
<1>1. x \in Ids
  <2>1. j \in 1..Len(c)
    OBVIOUS
  <2> QED BY <2>1, IdType
<1>2. Id(c, j + 1, k) \in NewOwners(c, e, i, K, x)
  BY DEF NewOwners
<1> HIDE DEF x
<1>3. InsertMarkers(c, e, i, K)[x].owners = e[x].owners \cup NewOwners(c, e, i, K, x)
  BY <1>1, <1>2, InsertMarkersEntry
<1> QED BY <1>2, <1>3 DEF x

\* The owner links below level i are complete after an insertMarker, too.
LEMMA InsertMarkersLinked ==
  ASSUME NEW c \in Seq(Masks), Nested(c), NEW e \in [Ids -> Entries],
         NEW i \in 1..Len(c), NEW K \in SUBSET SUBSET Bits,
         LinkedBelow(c, e, i - 1)
  PROVE  LinkedBelow(c, InsertMarkers(c, e, i, K), i - 1)
<1> DEFINE f == InsertMarkers(c, e, i, K)
<1> SUFFICES ASSUME NEW j \in 2..(i - 1), NEW k \in ListedKeys(f, c[j])
             PROVE  <<c[j], k>> \in f[Id(c, j - 1, k)].owners
  BY DEF LinkedBelow
<1> DEFINE x == Id(c, j, k)
<1>1. j \in 1..Len(c) /\ j - 1 \in 1..Len(c) /\ j - 1 \in 1..j /\ j - 1 \in 1..(i - 1)
  OBVIOUS
<1>2. k \in SUBSET Bits /\ x = <<c[j], k>> /\ x \in Ids /\ Listed(f[x])
  <2> HIDE DEF f
  <2> QED BY <1>1, ListedEntry
<1>3. CASE Listed(e[x])
  <2>1. k \in ListedKeys(e, c[j])
    <3>1. k \in SUBSET c[j]
      <4> HIDE DEF f
      <4> QED BY <1>1, ListedEntry
    <3> QED BY <1>2, <1>3, <3>1 DEF ListedKeys
  <2>2. <<c[j], k>> \in e[Id(c, j - 1, k)].owners /\ Id(c, j - 1, k) \in Ids
    BY <1>1, <1>2, <2>1, IdType DEF LinkedBelow
  <2> QED BY <2>2, InsertMarkersGrows
<1>4. CASE ~Listed(e[x])
  <2>1. PICK l \in 1..(i - 1), q \in K : x = Id(c, l, q) /\ GoesDownTo(c, e, i, q, l)
    <3>1. x \in Ids /\ Listed(f[x]) /\ ~Listed(e[x])
      BY <1>2, <1>4
    <3> HIDE DEF x
    <3> QED BY <3>1, InsertMarkersListed
  <2>2. l = j
    <3>1. l \in 1..Len(c) /\ c[l] = c[j]
      BY <1>2, <2>1 DEF Id
    <3> QED BY <1>1, <3>1, LevelUnique
  <2>3. GoesDownTo(c, e, i, q, j - 1)
    <3>1. ~e[Id(c, j, q)].inTable
      BY <1>4, <2>1, <2>2 DEF Listed
    <3>2. \A g \in ((j - 1) + 1)..(i - 1) : g = j \/ g \in (j + 1)..(i - 1)
      OBVIOUS
    <3> QED BY <2>1, <2>2, <3>1, <3>2 DEF GoesDownTo
  <2>4. Id(c, (j - 1) + 1, q) \in f[Id(c, j - 1, q)].owners
    BY <1>1, <2>3, InsertMarkersOwner
  <2>5. (j - 1) + 1 = j
    OBVIOUS
  <2>6. Id(c, j - 1, k) = Id(c, j - 1, q)
    BY <1>1, <1>2, <2>1, <2>2, IdBelow
  <2> HIDE DEF f
  <2> QED BY <1>2, <2>1, <2>2, <2>4, <2>5, <2>6
<1> QED BY <1>3, <1>4

Complete(c, e, n) == MarkedBelow(c, e, n) /\ LinkedBelow(c, e, n)

\* No key is listed anew at level i or above by leaveMarkers of level i.
LEMMA LeaveMarkersAbove ==
  ASSUME NEW c \in Seq(Masks), Nested(c), NEW e \in [Ids -> Entries],
         NEW i \in 1..Len(c), NEW j \in i..Len(c),
         NEW k \in ListedKeys(LeaveMarkers(c, e, i), c[j])
  PROVE  k \in ListedKeys(e, c[j])
<1> DEFINE f == LeaveMarkers(c, e, i)
           x == Id(c, j, k)
<1>1. j \in 1..Len(c)
  OBVIOUS
<1>2. k \in SUBSET c[j] /\ x = <<c[j], k>> /\ x \in Ids /\ Listed(f[x])
  <2>1. k \in ListedKeys(f, c[j])
    OBVIOUS
  <2> HIDE DEF f
  <2> QED BY <1>1, <2>1, ListedEntry
<1>3. Listed(e[x])
  <2>1. SUFFICES ASSUME ~Listed(e[x]) PROVE FALSE
    OBVIOUS
  <2>2. PICK l \in 1..(i - 1), q \in ListedKeys(e, c[i]) : x = Id(c, l, q)
    <3>1. x \in Ids /\ Listed(f[x]) /\ ~Listed(e[x])
      BY <1>2, <2>1
    <3> HIDE DEF x
    <3>2. \E l \in 1..(i - 1), q \in ListedKeys(e, c[i]) :
            x = Id(c, l, q) /\ GoesDownTo(c, e, i, q, l)
      BY <3>1, LeaveMarkersListed
    <3> QED BY <3>2
  <2>3. l \in 1..Len(c) /\ c[l] = c[j] /\ l # j
    BY <1>2, <2>2 DEF Id
  <2> QED BY <1>1, <2>3, LevelUnique
<1> QED BY <1>2, <1>3 DEF ListedKeys

\* leaveMarkers extends complete markers and links by its level.
LEMMA LeaveMarkersComplete ==
  ASSUME NEW c \in Seq(Masks), Nested(c), NEW e \in [Ids -> Entries],
         NEW i \in 1..Len(c), Complete(c, e, i - 1)
  PROVE  Complete(c, LeaveMarkers(c, e, i), i)
<1>1. CASE i = 1
  BY <1>1 DEF Complete, MarkedBelow, LinkedBelow
<1>2. CASE i # 1
  <2> DEFINE K == ListedKeys(e, c[i])
             g == InsertMarkers(c, e, i, K)
             f == LeaveMarkers(c, e, i)
  <2>1. K \in SUBSET SUBSET Bits
    BY ListedKeysType
  <2>2. g \in [Ids -> Entries] /\ f \in [Ids -> Entries]
    <3>1. f \in [Ids -> Entries]
      BY LeaveMarkersType
    <3> HIDE DEF K, f
    <3> QED BY <2>1, <3>1, InsertMarkersType
  <2>3. MarkedBelow(c, g, i - 1) /\ LinkedBelow(c, g, i - 1)
    <3> HIDE DEF K
    <3> QED BY <2>1, InsertMarkersBelow, InsertMarkersLinked DEF Complete
  <2>4. ASSUME NEW x \in Ids
        PROVE  /\ f[x].bits = g[x].bits /\ f[x].owners = g[x].owners
               /\ f[x].inTable = g[x].inTable /\ f[x].dead = g[x].dead
    BY <1>2, LeaveMarkersShape
  <2>5. ASSUME NEW k \in K
        PROVE  /\ <<c[i], k>> \in g[Id(c, i - 1, k)].owners
               /\ \A h \in 1..(i - 1) : Marked(g, Id(c, h, k))
    <3>1. \A h \in 1..(i - 1) : Marked(g, Id(c, h, k))
      <4> HIDE DEF K
      <4> QED BY <2>1, InsertMarkersMarks DEF Complete
    <3>2. GoesDownTo(c, e, i, k, i - 1) /\ i - 1 \in 1..(i - 1)
      BY <1>2 DEF GoesDownTo
    <3>3. Id(c, (i - 1) + 1, k) \in g[Id(c, i - 1, k)].owners
      <4> HIDE DEF K
      <4> QED BY <2>1, <3>2, InsertMarkersOwner
    <3>4. (i - 1) + 1 = i /\ Id(c, i, k) = <<c[i], k>>
      <4>1. k \in ListedKeys(e, c[i])
        OBVIOUS
      <4>2. Id(c, i, k) = <<c[i], k>>
        <5> HIDE DEF f, g, K
        <5> QED BY <4>1, ListedEntry
      <4>3. (i - 1) + 1 = i
        OBVIOUS
      <4> QED BY <4>2, <4>3
    <3> HIDE DEF g
    <3> QED BY <3>1, <3>3, <3>4
  <2>6. \A j \in 1..(i - 1) : ListedKeys(f, c[j]) = ListedKeys(g, c[j])
    <3> SUFFICES ASSUME NEW j \in 1..(i - 1), NEW k \in SUBSET c[j]
                 PROVE  Listed(f[<<c[j], k>>]) = Listed(g[<<c[j], k>>])
      BY DEF ListedKeys
    <3>1. <<c[j], k>> \in Ids
      <4>1. c[j] \in Masks
        OBVIOUS
      <4> QED BY <4>1, MasksAssumption DEF Ids
    <3> QED BY <2>4, <3>1 DEF Listed
  <2>7. \A k \in ListedKeys(f, c[i]) : k \in K
    BY LeaveMarkersAbove
  <2> HIDE DEF f, g, K
  <2>8. \A x \in Ids : Marked(g, x) => Marked(f, x)
    BY <2>4 DEF Marked
  <2>9. MarkedBelow(c, f, i)
    <3> SUFFICES ASSUME NEW j \in 1..i, NEW k \in ListedKeys(f, c[j]), NEW h \in 1..(j - 1)
                 PROVE  Marked(f, Id(c, h, k))
      BY DEF MarkedBelow, Marked
    <3>1. Id(c, h, k) \in Ids
      <4>1. j \in 1..Len(c) /\ h \in 1..Len(c)
        OBVIOUS
      <4> QED BY <4>1, ListedEntry, IdType
    <3>2. CASE j = i
      BY <2>5, <2>7, <2>8, <3>1, <3>2
    <3>3. CASE j < i
      <4>1. j \in 1..(i - 1) /\ k \in ListedKeys(g, c[j])
        BY <2>6, <3>3
      <4>2. Marked(g, Id(c, h, k))
        BY <2>3, <4>1 DEF MarkedBelow, Marked
      <4> QED BY <2>8, <3>1, <4>2
    <3> QED BY <3>2, <3>3
  <2>10. LinkedBelow(c, f, i)
    <3> SUFFICES ASSUME NEW j \in 2..i, NEW k \in ListedKeys(f, c[j])
                 PROVE  <<c[j], k>> \in f[Id(c, j - 1, k)].owners
      BY DEF LinkedBelow
    <3>1. Id(c, j - 1, k) \in Ids
      <4>1. j \in 1..Len(c) /\ j - 1 \in 1..Len(c)
        OBVIOUS
      <4> QED BY <4>1, ListedEntry, IdType
    <3>2. CASE j = i
      BY <2>4, <2>5, <2>7, <3>1, <3>2
    <3>3. CASE j < i
      <4>1. j \in 2..(i - 1) /\ k \in ListedKeys(g, c[j])
        BY <2>6, <3>3
      <4>2. <<c[j], k>> \in g[Id(c, j - 1, k)].owners
        BY <2>3, <4>1 DEF LinkedBelow
      <4> QED BY <2>4, <3>1, <4>2
    <3> QED BY <3>2, <3>3
  <2> QED BY <2>9, <2>10 DEF Complete, f
<1> QED BY <1>1, <1>2

\* A new tuple at level i: the two leaveMarkers that link it complete the
\* markers of the longer chain.  What the tuples above level i + 1 list has
\* its markers already, and those lead it through level i + 1 to level i.
LEMMA LinkComplete ==
  ASSUME NEW c0 \in Seq(Masks), NEW e \in [Ids -> Entries], NEW m \in Masks,
         NEW i \in 1..(Len(c0) + 1), Nested(Shift(c0, m, i)),
         Complete(c0, e, Len(c0))
  PROVE  Complete(Shift(c0, m, i), Link(Shift(c0, m, i), e, i), Len(c0) + 1)
<1> DEFINE c  == Shift(c0, m, i)
           e1 == LeaveMarkers(c, e, i)
           e2 == LeaveMarkers(c, e1, i + 1)
<1>1. /\ c \in Seq(Masks) /\ Len(c) = Len(c0) + 1 /\ Len(c0) \in Nat
      /\ \A j \in 1..(i - 1) : c[j] = c0[j]
      /\ \A j \in (i + 1)..(Len(c0) + 1) : c[j] = c0[j - 1]
  BY ShiftProperties
<1>2. Nested(c)
  OBVIOUS
<1>3. Link(c, e, i) = IF i < Len(c) THEN e2 ELSE e1
  BY DEF Link
<1> HIDE DEF c
<1>4. \A j \in 1..(i - 1) : \A k : Id(c, j, k) = Id(c0, j, k)
  BY <1>1 DEF Id
<1>5. \A j \in (i + 1)..Len(c) : \A k : Id(c, j, k) = Id(c0, j - 1, k)
  BY <1>1 DEF Id
<1>6. Complete(c, e, i - 1)
  <2>1. MarkedBelow(c, e, i - 1)
    <3> SUFFICES ASSUME NEW j \in 1..(i - 1), NEW k \in ListedKeys(e, c[j]), NEW h \in 1..(j - 1)
                 PROVE  Marked(e, Id(c, h, k))
      BY DEF MarkedBelow, Marked
    <3>1. j \in 1..Len(c0) /\ h \in 1..(i - 1) /\ k \in ListedKeys(e, c0[j])
      BY <1>1
    <3>2. Marked(e, Id(c0, h, k))
      BY <3>1 DEF Complete, MarkedBelow, Marked
    <3> QED BY <1>4, <3>1, <3>2
  <2>2. LinkedBelow(c, e, i - 1)
    <3> SUFFICES ASSUME NEW j \in 2..(i - 1), NEW k \in ListedKeys(e, c[j])
                 PROVE  <<c[j], k>> \in e[Id(c, j - 1, k)].owners
      BY DEF LinkedBelow
    <3>1. /\ j \in 2..Len(c0) /\ j \in 1..(i - 1) /\ j - 1 \in 1..(i - 1)
          /\ c[j] = c0[j] /\ k \in ListedKeys(e, c0[j])
      BY <1>1
    <3>2. <<c0[j], k>> \in e[Id(c0, j - 1, k)].owners
      BY <3>1 DEF Complete, LinkedBelow
    <3> QED BY <1>4, <3>1, <3>2
  <2> QED BY <2>1, <2>2 DEF Complete
<1>7. i \in 1..Len(c)
  BY <1>1
<1>8. e1 \in [Ids -> Entries] /\ Complete(c, e1, i)
  BY <1>1, <1>2, <1>6, <1>7, LeaveMarkersType, LeaveMarkersComplete
<1>9. CASE i = Len(c)
  <2>1. Link(c, e, i) = e1
    BY <1>3, <1>9
  <2> QED BY <1>1, <1>8, <1>9, <2>1 DEF c
<1>10. CASE i < Len(c)
  <2>1. i + 1 \in 1..Len(c) /\ (i + 1) - 1 = i
    BY <1>1, <1>10
  <2>2. e2 \in [Ids -> Entries] /\ Complete(c, e2, i + 1)
    <3> HIDE DEF e1
    <3> QED BY <1>1, <1>2, <1>8, <2>1, LeaveMarkersType, LeaveMarkersComplete
  <2>3. ASSUME NEW x \in Ids
        PROVE  /\ Marked(e, x) => Marked(e2, x)
               /\ e[x].owners \subseteq e2[x].owners
    <3>1. /\ e[x].inTable => e1[x].inTable
          /\ MARKER \in e[x].bits => MARKER \in e1[x].bits
          /\ e[x].owners \subseteq e1[x].owners
      BY <1>1, <1>7, LeaveMarkersGrows
    <3>2. /\ e1[x].inTable => e2[x].inTable
          /\ MARKER \in e1[x].bits => MARKER \in e2[x].bits
          /\ e1[x].owners \subseteq e2[x].owners
      <4> HIDE DEF e1
      <4> QED BY <1>1, <1>8, <2>1, LeaveMarkersGrows
    <3> HIDE DEF e1, e2
    <3> QED BY <3>1, <3>2 DEF Marked
  <2>4. ASSUME NEW j \in (i + 2)..Len(c), NEW k \in ListedKeys(e2, c[j])
        PROVE  /\ k \in ListedKeys(e, c0[j - 1]) /\ k \in SUBSET Bits
               /\ c[j] = c0[j - 1]
               /\ \A h \in 1..(j - 2) : Marked(e, Id(c0, h, k))
               /\ <<c0[j - 1], k>> \in e[Id(c0, j - 2, k)].owners
    <3>1. j \in (i + 1)..Len(c) /\ j \in i..Len(c) /\ j \in 1..Len(c)
      BY <1>1
    <3>2. k \in ListedKeys(e1, c[j])
      <4> HIDE DEF e1
      <4> QED BY <1>1, <1>2, <1>8, <2>1, <3>1, LeaveMarkersAbove
    <3>3. k \in ListedKeys(e, c[j])
      BY <1>1, <1>2, <1>7, <3>1, <3>2, LeaveMarkersAbove
    <3>4. c[j] = c0[j - 1] /\ j - 1 \in 2..Len(c0) /\ (j - 1) - 1 = j - 2
      BY <1>1, <3>1
    <3>5. k \in SUBSET Bits
      BY <1>1, <3>1, <3>3, ListedEntry
    <3> HIDE DEF e1, e2
    <3>6. <<c0[j - 1], k>> \in e[Id(c0, (j - 1) - 1, k)].owners
      BY <3>3, <3>4 DEF Complete, LinkedBelow
    <3>7. \A h \in 1..((j - 1) - 1) : Marked(e, Id(c0, h, k))
      <4>1. j - 1 \in 1..Len(c0)
        BY <3>4
      <4> QED BY <3>3, <3>4, <4>1 DEF Complete, MarkedBelow, Marked
    <3> QED BY <3>3, <3>4, <3>5, <3>6, <3>7
  <2> HIDE DEF e1, e2
  <2>5. MarkedBelow(c, e2, Len(c))
    <3> SUFFICES ASSUME NEW j \in 1..Len(c), NEW k \in ListedKeys(e2, c[j]), NEW h \in 1..(j - 1)
                 PROVE  Marked(e2, Id(c, h, k))
      BY DEF MarkedBelow, Marked
    <3>1. CASE j \in 1..(i + 1)
      BY <2>2, <3>1 DEF Complete, MarkedBelow, Marked
    <3>2. CASE j \in (i + 2)..Len(c)
      <4>1. k \in SUBSET Bits /\ \A g \in 1..(j - 2) : Marked(e, Id(c0, g, k))
        BY <2>4, <3>2
      <4>2. h \in 1..Len(c) /\ Id(c, h, k) \in Ids
        BY <1>1, <4>1, IdType
      <4>3. CASE h < i
        <5>1. h \in 1..(i - 1) /\ h \in 1..(j - 2)
          BY <3>2, <4>3
        <5> QED BY <1>4, <2>3, <4>1, <4>2, <5>1
      <4>4. CASE h > i
        <5>1. h \in (i + 1)..Len(c) /\ h - 1 \in 1..(j - 2)
          BY <3>2, <4>2, <4>4
        <5> QED BY <1>5, <2>3, <4>1, <4>2, <5>1
      <4>5. CASE h = i
        <5>1. i \in 1..(j - 2) /\ i + 1 \in (i + 1)..Len(c) /\ (i + 1) - 1 = i
          BY <1>10, <2>1, <3>2
        <5>2. Marked(e, Id(c, i + 1, k))
          BY <1>5, <4>1, <5>1
        <5>3. Id(c, i + 1, k) \in Ids
          BY <1>1, <2>1, <4>1, IdType
        <5>4. Listed(e2[Id(c, i + 1, k)])
          BY <2>3, <5>2, <5>3 DEF Marked, Listed
        <5>5. Key(c[i + 1], k) \in ListedKeys(e2, c[i + 1])
          BY <1>1, <2>1, <5>4, ListedProjection
        <5>6. Marked(e2, Id(c, i, Key(c[i + 1], k)))
          <6>1. i + 1 \in 1..(i + 1) /\ i \in 1..((i + 1) - 1)
            BY <2>1, <1>7
          <6> QED BY <2>2, <5>5, <6>1 DEF Complete, MarkedBelow, Marked
        <5>7. Id(c, i, Key(c[i + 1], k)) = Id(c, i, k)
          <6>1. i \in 1..(i + 1)
            BY <1>7
          <6> QED BY <1>1, <1>2, <2>1, <6>1, IdThrough
        <5> QED BY <4>5, <5>6, <5>7
      <4> QED BY <4>2, <4>3, <4>4, <4>5
    <3> QED BY <1>1, <3>1, <3>2
  <2>6. LinkedBelow(c, e2, Len(c))
    <3> SUFFICES ASSUME NEW j \in 2..Len(c), NEW k \in ListedKeys(e2, c[j])
                 PROVE  <<c[j], k>> \in e2[Id(c, j - 1, k)].owners
      BY DEF LinkedBelow
    <3>1. CASE j \in 2..(i + 1)
      BY <2>2, <3>1 DEF Complete, LinkedBelow
    <3>2. CASE j \in (i + 2)..Len(c)
      <4>1. /\ k \in SUBSET Bits /\ c[j] = c0[j - 1]
            /\ <<c0[j - 1], k>> \in e[Id(c0, j - 2, k)].owners
        BY <2>4, <3>2
      <4>2. j - 1 \in (i + 1)..Len(c) /\ j - 1 \in 1..Len(c) /\ (j - 1) - 1 = j - 2
        BY <1>1, <3>2
      <4>3. Id(c, j - 1, k) = Id(c0, j - 2, k) /\ Id(c, j - 1, k) \in Ids
        BY <1>1, <1>5, <4>1, <4>2, IdType
      <4> QED BY <2>3, <4>1, <4>3
    <3> QED BY <1>1, <3>1, <3>2
  <2>7. Link(c, e, i) = e2
    BY <1>3, <1>10
  <2> QED BY <1>1, <2>5, <2>6, <2>7 DEF Complete, c
<1> QED BY <1>1, <1>7, <1>9, <1>10

\* Complete depends on what is listed, marked and owned only.
LEMMA CompleteMonotone ==
  ASSUME NEW c \in Seq(Masks), NEW e, NEW f, NEW n \in 0..Len(c), Complete(c, e, n),
         \A x \in Ids : Listed(f[x]) => Listed(e[x]),
         \A x \in Ids : Marked(e, x) => Marked(f, x),
         \A x \in Ids : e[x].owners \subseteq f[x].owners
  PROVE  Complete(c, f, n)
<1>1. ASSUME NEW j \in 1..n, NEW k \in ListedKeys(f, c[j])
      PROVE  k \in ListedKeys(e, c[j]) /\ \A h \in 1..j : Id(c, h, k) \in Ids
  <2>1. j \in 1..Len(c)
    OBVIOUS
  <2>2. k \in SUBSET Bits /\ k \in SUBSET c[j] /\ Listed(e[<<c[j], k>>])
    BY <1>1, <2>1, ListedEntry
  <2>3. \A h \in 1..j : h \in 1..Len(c)
    BY <2>1
  <2> QED BY <2>2, <2>3, IdType DEF ListedKeys
<1>2. MarkedBelow(c, f, n)
  <2> SUFFICES ASSUME NEW j \in 1..n, NEW k \in ListedKeys(f, c[j]), NEW h \in 1..(j - 1)
               PROVE  Marked(f, Id(c, h, k))
    BY DEF MarkedBelow, Marked
  <2>1. h \in 1..j /\ k \in ListedKeys(e, c[j]) /\ Id(c, h, k) \in Ids
    BY <1>1
  <2>2. Marked(e, Id(c, h, k))
    BY <2>1 DEF Complete, MarkedBelow, Marked
  <2> QED BY <2>1, <2>2
<1>3. LinkedBelow(c, f, n)
  <2> SUFFICES ASSUME NEW j \in 2..n, NEW k \in ListedKeys(f, c[j])
               PROVE  <<c[j], k>> \in f[Id(c, j - 1, k)].owners
    BY DEF LinkedBelow
  <2>1. j \in 1..n /\ j - 1 \in 1..j
    OBVIOUS
  <2>2. k \in ListedKeys(e, c[j]) /\ Id(c, j - 1, k) \in Ids
    BY <1>1, <2>1
  <2>3. <<c[j], k>> \in e[Id(c, j - 1, k)].owners
    BY <2>2 DEF Complete, LinkedBelow
  <2> QED BY <2>2, <2>3
<1> QED BY <1>2, <1>3 DEF Complete

\* ... and, up to level n, on the entries of those levels.
LEMMA CompleteSame ==
  ASSUME NEW c \in Seq(Masks), NEW e, NEW f, NEW n \in 0..Len(c), Complete(c, e, n),
         \A j \in 1..n : \A k \in SUBSET c[j] : f[<<c[j], k>>] = e[<<c[j], k>>]
  PROVE  Complete(c, f, n)
<1>1. \A j \in 1..n : \A k : f[Id(c, j, k)] = e[Id(c, j, k)]
  BY DEF Id, Key
<1>2. \A j \in 1..n : ListedKeys(f, c[j]) = ListedKeys(e, c[j])
  BY DEF ListedKeys
<1>3. MarkedBelow(c, f, n)
  <2> SUFFICES ASSUME NEW j \in 1..n, NEW k \in ListedKeys(f, c[j]), NEW h \in 1..(j - 1)
               PROVE  Marked(f, Id(c, h, k))
    BY DEF MarkedBelow, Marked
  <2>1. h \in 1..n /\ k \in ListedKeys(e, c[j])
    BY <1>2
  <2>2. Marked(e, Id(c, h, k))
    BY <2>1 DEF Complete, MarkedBelow, Marked
  <2> QED BY <1>1, <2>1, <2>2 DEF Marked
<1>4. LinkedBelow(c, f, n)
  <2> SUFFICES ASSUME NEW j \in 2..n, NEW k \in ListedKeys(f, c[j])
               PROVE  <<c[j], k>> \in f[Id(c, j - 1, k)].owners
    BY DEF LinkedBelow
  <2>1. j \in 1..n /\ j - 1 \in 1..n
    OBVIOUS
  <2>2. k \in ListedKeys(e, c[j])
    BY <1>2, <2>1
  <2>3. <<c[j], k>> \in e[Id(c, j - 1, k)].owners
    BY <2>2 DEF Complete, LinkedBelow
  <2> QED BY <1>1, <2>1, <2>3
<1> QED BY <1>3, <1>4 DEF Complete

LEMMA EraseAtComplete ==
  ASSUME NEW c \in Seq(Masks), NEW e \in [Ids -> Entries], NEW i \in 1..Len(c),
         NEW r \in Rules, e[<<r.mask, r.key>>].inTable,
         \A x \in Ids : Consistent(e, x), Complete(c, e, Len(c))
  PROVE  Complete(c, EraseAt(c, e, i, r), Len(c))
<1> DEFINE f == EraseAt(c, e, i, r)
<1>1. \A y \in Ids : Listed(f[y]) => Listed(e[y])
  BY EraseAtListed
<1>2. ASSUME NEW y \in Ids, Marked(e, y) PROVE Marked(f, y)
  <2> DEFINE x == <<r.mask, r.key>>
  <2>1. e[y].owners # {} /\ e[y].inTable /\ MARKER \in e[y].bits
    BY <1>2 DEF Marked, Consistent
  <2>2. CASE y # x
    <3>1. f[y].bits = e[y].bits /\ f[y].inTable = e[y].inTable
      BY <2>2, EraseAtEntry
    <3> HIDE DEF f
    <3> QED BY <2>1, <3>1 DEF Marked
  <2>3. CASE y = x
    <3>1. f[y].bits = e[y].bits \ {RULE} /\ f[y].inTable = e[y].inTable
      <4>1. f[y].bits = e[y].bits \ {RULE}
        BY <2>3, EraseAtEntry
      <4>2. f[y].inTable = e[y].inTable
        BY <2>1, EraseAtOwned
      <4> QED BY <2>1, <4>1, <4>2
    <3>2. RULE # MARKER
      BY DEF RULE, MARKER
    <3> HIDE DEF f
    <3> QED BY <2>1, <3>1, <3>2 DEF Marked
  <2> QED BY <2>2, <2>3
<1>3. \A y \in Ids : e[y].owners \subseteq f[y].owners
  BY EraseAtEntry
<1> HIDE DEF f
<1>4. Complete(c, f, Len(c))
  <2>1. Len(c) \in 0..Len(c)
    OBVIOUS
  <2> QED BY <1>1, <1>2, <1>3, <2>1, CompleteMonotone
<1> QED BY <1>4 DEF f

LEMMA InsertAtComplete ==
  ASSUME NEW c \in Seq(Masks), Nested(c), NEW e \in [Ids -> Entries],
         NEW i \in 1..Len(c), NEW r \in Rules, c[i] = r.mask, Complete(c, e, Len(c))
  PROVE  Complete(c, InsertAt(c, e, i, r), Len(c))
<1> DEFINE x == <<r.mask, r.key>>
<1>1. x \in Ids /\ r.key \in SUBSET Bits /\ r.key \in SUBSET c[i] /\ Id(c, i, r.key) = x
  <2>1. x \in Ids /\ r.key \in SUBSET Bits /\ r.key \in SUBSET c[i]
    BY RuleIdType
  <2>2. Id(c, i, r.key) = <<c[i], r.key>>
    BY <2>1, IdSelf
  <2> QED BY <2>1, <2>2
<1>2. CASE e[x].inTable
  <2> DEFINE f == SetRule(c, e, i, r)
  <2>1. ASSUME NEW y \in Ids
        PROVE  /\ f[y].owners = e[y].owners /\ f[y].inTable = e[y].inTable
               /\ f[y].dead = e[y].dead
               /\ e[y].bits \subseteq f[y].bits
    BY SetRuleEntry
  <2> HIDE DEF f
  <2>2. Complete(c, f, Len(c))
    <3>1. Len(c) \in 0..Len(c)
      OBVIOUS
    <3>2. \A y \in Ids : Listed(f[y]) => Listed(e[y])
      BY <2>1 DEF Listed
    <3>3. \A y \in Ids : Marked(e, y) => Marked(f, y)
      BY <2>1 DEF Marked
    <3>4. \A y \in Ids : e[y].owners \subseteq f[y].owners
      BY <2>1
    <3> QED BY <3>1, <3>2, <3>3, <3>4, CompleteMonotone
  <2> QED BY <1>2, <2>2 DEF InsertAt, f
<1>3. CASE ~e[x].inTable
  <2> DEFINE n == NewEntry(e, r)
             K == {r.key}
             f == IF i = 1 THEN n ELSE InsertMarkers(c, n, i, K)
  <2>1. InsertAt(c, e, i, r) = f
    BY <1>3 DEF InsertAt
  <2>2. n \in [Ids -> Entries]
    BY NewEntryType
  <2>3. ASSUME NEW y \in Ids
        PROVE  /\ y # x => n[y] = e[y]
               /\ n[y].owners = e[y].owners
               /\ Marked(e, y) => Marked(n, y)
    <3>1. y # x => n[y] = e[y]
      BY NewEntryEntry
    <3>2. y = x => n[y].owners = e[y].owners
      BY NewEntryEntry
    <3> HIDE DEF n
    <3> QED BY <1>3, <3>1, <3>2 DEF Marked
  <2>4. K \in SUBSET SUBSET Bits
    BY <1>1
  <2> HIDE DEF n, K
  <2>5. Complete(c, n, i - 1)
    <3>1. i - 1 \in 0..Len(c) /\ Complete(c, e, i - 1)
      BY DEF Complete, MarkedBelow, LinkedBelow
    <3>2. ASSUME NEW j \in 1..(i - 1), NEW k \in SUBSET c[j]
          PROVE  n[<<c[j], k>>] = e[<<c[j], k>>]
      <4>1. j \in 1..Len(c) /\ c[j] # c[i]
        BY DEF Nested
      <4>2. <<c[j], k>> \in Ids /\ <<c[j], k>> # x
        BY <4>1, KeyEntry
      <4> QED BY <2>3, <4>2
    <3> HIDE DEF f, x
    <3> QED BY <3>1, <3>2, CompleteSame
  <2>6. ASSUME NEW y \in Ids
        PROVE  /\ Marked(n, y) => Marked(f, y)
               /\ n[y].owners \subseteq f[y].owners
    <3>1. CASE i = 1
      BY <3>1
    <3>2. CASE i # 1
      <4>1. f = InsertMarkers(c, n, i, K)
        BY <3>2
      <4> QED BY <2>2, <2>4, <4>1, InsertMarkersGrows DEF Marked
    <3> QED BY <3>1, <3>2
  <2>7. Complete(c, f, i - 1)
    <3>1. CASE i = 1
      BY <2>5, <3>1
    <3>2. CASE i # 1
      <4>1. f = InsertMarkers(c, n, i, K)
        BY <3>2
      <4> QED BY <2>2, <2>4, <2>5, <4>1, InsertMarkersBelow, InsertMarkersLinked DEF Complete
    <3> QED BY <3>1, <3>2
  <2>8. ASSUME NEW h \in 1..(i - 1) PROVE Marked(f, Id(c, h, r.key))
    <3>1. f = InsertMarkers(c, n, i, K) /\ r.key \in K
      BY DEF K
    <3> HIDE DEF f
    <3> QED BY <2>2, <2>4, <2>5, <3>1, InsertMarkersMarks DEF Complete
  <2>9. i # 1 => x \in f[Id(c, i - 1, r.key)].owners
    <3> SUFFICES ASSUME i # 1 PROVE x \in f[Id(c, i - 1, r.key)].owners
      OBVIOUS
    <3>1. f = InsertMarkers(c, n, i, K) /\ r.key \in K
      BY DEF K
    <3>2. i - 1 \in 1..(i - 1) /\ GoesDownTo(c, n, i, r.key, i - 1) /\ (i - 1) + 1 = i
      BY DEF GoesDownTo
    <3> HIDE DEF f
    <3>3. Id(c, (i - 1) + 1, r.key) \in f[Id(c, i - 1, r.key)].owners
      BY <2>2, <2>4, <3>1, <3>2, InsertMarkersOwner
    <3> QED BY <1>1, <3>2, <3>3
  <2>10. ASSUME NEW j \in i..Len(c), NEW k \in ListedKeys(f, c[j]), <<c[j], k>> # x
         PROVE  k \in ListedKeys(e, c[j])
    <3>1. j \in 1..Len(c)
      OBVIOUS
    <3> DEFINE y == <<c[j], k>>
    <3>2. k \in SUBSET c[j] /\ y \in Ids /\ Listed(f[y])
      <4>1. k \in ListedKeys(f, c[j])
        BY <2>10
      <4> HIDE DEF f, x
      <4>2. k \in SUBSET c[j] /\ Listed(f[y])
        BY <4>1 DEF ListedKeys
      <4>3. Id(c, j, k) = y /\ Id(c, j, k) \in Ids
        BY <3>1, <4>2, KeyEntry
      <4> QED BY <4>2, <4>3
    <3>3. Listed(n[y])
      <4>1. SUFFICES ASSUME ~Listed(n[y]) PROVE FALSE
        OBVIOUS
      <4>2. i # 1 /\ f = InsertMarkers(c, n, i, K)
        BY <3>2, <4>1
      <4>3. \E l \in 1..(i - 1), q \in K : y = Id(c, l, q) /\ GoesDownTo(c, n, i, q, l)
        <5> HIDE DEF f, y
        <5> QED BY <2>2, <2>4, <3>2, <4>1, <4>2, InsertMarkersListed
      <4>4. PICK l \in 1..(i - 1), q \in K : y = Id(c, l, q)
        BY <4>3
      <4>5. l \in 1..Len(c) /\ c[l] = c[j] /\ l # j
        BY <4>4 DEF Id
      <4> QED BY <3>1, <4>5, LevelUnique
    <3> QED BY <2>3, <2>10, <3>2, <3>3 DEF ListedKeys
  <2> HIDE DEF f
  <2>11. MarkedBelow(c, f, Len(c))
    <3> SUFFICES ASSUME NEW j \in 1..Len(c), NEW k \in ListedKeys(f, c[j]), NEW h \in 1..(j - 1)
                 PROVE  Marked(f, Id(c, h, k))
      BY DEF MarkedBelow, Marked
    <3>1. CASE j < i
      BY <2>7, <3>1 DEF Complete, MarkedBelow, Marked
    <3>2. CASE j \in i..Len(c) /\ <<c[j], k>> # x
      <4>1. k \in ListedKeys(e, c[j])
        BY <2>10, <3>2
      <4>2. Marked(e, Id(c, h, k))
        BY <4>1 DEF Complete, MarkedBelow, Marked
      <4>3. Id(c, h, k) \in Ids
        <5>1. h \in 1..Len(c) /\ j \in 1..Len(c)
          OBVIOUS
        <5> HIDE DEF x
        <5>2. k \in SUBSET Bits
          BY <4>1, <5>1, ListedEntry
        <5> QED BY <5>1, <5>2, IdType
      <4> QED BY <2>3, <2>6, <4>2, <4>3
    <3>3. CASE j \in i..Len(c) /\ <<c[j], k>> = x
      <4>1. c[j] = c[i] /\ k = r.key
        BY <3>3
      <4>2. j = i
        BY <4>1, LevelUnique
      <4> QED BY <2>8, <4>1, <4>2
    <3> QED BY <3>1, <3>2, <3>3
  <2>12. LinkedBelow(c, f, Len(c))
    <3> SUFFICES ASSUME NEW j \in 2..Len(c), NEW k \in ListedKeys(f, c[j])
                 PROVE  <<c[j], k>> \in f[Id(c, j - 1, k)].owners
      BY DEF LinkedBelow
    <3>1. CASE j < i
      BY <2>7, <3>1 DEF Complete, LinkedBelow
    <3>2. CASE j \in i..Len(c) /\ <<c[j], k>> # x
      <4>1. k \in ListedKeys(e, c[j])
        BY <2>10, <3>2
      <4>2. <<c[j], k>> \in e[Id(c, j - 1, k)].owners
        BY <4>1 DEF Complete, LinkedBelow
      <4>3. Id(c, j - 1, k) \in Ids
        <5>1. j - 1 \in 1..Len(c) /\ j \in 1..Len(c)
          OBVIOUS
        <5> HIDE DEF x
        <5>2. k \in SUBSET Bits
          BY <4>1, <5>1, ListedEntry
        <5> QED BY <5>1, <5>2, IdType
      <4> QED BY <2>3, <2>6, <4>2, <4>3
    <3>3. CASE j \in i..Len(c) /\ <<c[j], k>> = x
      <4>1. c[j] = c[i] /\ k = r.key
        BY <3>3
      <4>2. j = i
        BY <4>1, LevelUnique
      <4> QED BY <2>9, <3>3, <4>1, <4>2
    <3> QED BY <3>1, <3>2, <3>3
  <2> QED BY <2>1, <2>11, <2>12 DEF Complete
<1> QED BY <1>2, <1>3

\* Without dead entries in the way, what a tuple has for a packet is in its
\* table, and then so is a marker in every tuple below.
LEMMA HitsGoDown ==
  ASSUME NEW c \in Seq(Masks), Nested(c), NEW e \in [Ids -> Entries],
         MarkedBelow(c, e, Len(c)),
         NEW p \in SUBSET Bits, \A g \in 1..Len(c) : ~HitsDead(e, Id(c, g, p)),
         NEW j \in 1..Len(c), Hit(e, Id(c, j, p)),
         NEW i \in 1..(j - 1)
  PROVE  Hit(e, Id(c, i, p)) /\ HitMarker(e, Id(c, i, p))
<1>1. e[Id(c, j, p)].inTable
  BY DEF Hit
<1>2. Key(c[j], p) \in ListedKeys(e, c[j])
  BY <1>1, ListedProjection DEF Listed
<1>3. Marked(e, Id(c, i, Key(c[j], p)))
  BY <1>2 DEF MarkedBelow, Marked
<1>4. i \in 1..j /\ i \in 1..Len(c)
  OBVIOUS
<1>5. Id(c, i, Key(c[j], p)) = Id(c, i, p)
  BY <1>4, IdThrough
<1> QED BY <1>3, <1>4, <1>5 DEF Marked, Hit, HitMarker

-----------------------------------------------------------------------------
(***************************************************************************)
(* Lemmas about the rules that markers hold: a marker has the rule of the  *)
(* nearest entry below it that has one of its own, as long as that entry   *)
(* did not get its rule after the marker was left.  P is the set of the    *)
(* entries that did.                                                       *)
(*                                                                         *)
(* A refresh follows owners, and an owner stays one after a tuple has been *)
(* put between it and its marker: owners may skip levels.  That no harm    *)
(* comes of it needs Skips, an invariant of its own.                       *)
(***************************************************************************)

\* No entry between levels h and j has a rule of its own for key k.
Bare(c, e, k, h, j) == \A g \in (h + 1)..(j - 1) : RULE \notin e[Id(c, g, k)].bits

\* Level h ends the search for a rule below: it is the end of the chain, or
\* has a rule that was there before the markers above.
Settled(c, e, P, k, h) == h = 0 \/ (RULE \in e[Id(c, h, k)].bits /\ Id(c, h, k) \notin P)

RuleAt(c, e, k, h) == IF h = 0 THEN NoRule ELSE e[Id(c, h, k)].rule

\* The markers of level j hold the rule of the nearest level from b on that
\* has one.
FreshFrom(c, e, P, b, j) ==
  \A k \in SUBSET c[j] : \A h \in b..(j - 1) :
    (Pure(e[<<c[j], k>>]) /\ Settled(c, e, P, k, h) /\ Bare(c, e, k, h, j)) =>
      e[<<c[j], k>>].rule = RuleAt(c, e, k, h)

FreshAt(c, e, P, j) == FreshFrom(c, e, P, 0, j)

\* Whatever has a rule between a marker and its owner got it later.
Skips(c, e, P) ==
  \A a \in 1..Len(c) : \A k \in SUBSET c[a] : \A y \in e[<<c[a], k>>].owners :
    /\ y \in Ids /\ Listed(e[y])
    /\ \E b \in (a + 1)..Len(c) :
         /\ y[1] = c[b] /\ Id(c, a, y[2]) = <<c[a], k>>
         /\ \A l \in (a + 1)..(b - 1) :
              RULE \in e[Id(c, l, y[2])].bits => Id(c, l, y[2]) \in P

\* From level i up, all that is listed has its markers down to level i, and is
\* an owner of the one in prev.
TopComplete(c, e, i) ==
  \A j \in (i + 1)..Len(c) : \A k \in ListedKeys(e, c[j]) :
    /\ <<c[j], k>> \in e[Id(c, j - 1, k)].owners
    /\ \A h \in i..(j - 1) : Marked(e, Id(c, h, k))

-----------------------------------------------------------------------------
(***************************************************************************)
(* How far a refresh gets.                                                 *)
(***************************************************************************)

\* In a column of pure markers a refresh gets from level i to level j.
LEMMA PureColumnReached ==
  ASSUME NEW c \in Seq(Masks), Nested(c), NEW e \in [Ids -> Entries],
         NEW i \in 1..Len(c), NEW j \in i..Len(c), NEW k \in SUBSET c[j],
         \A x \in Ids : Pure(e[x]) => e[x].inTable, TopComplete(c, e, i),
         \A l \in i..j : Pure(e[Id(c, l, k)])
  PROVE  Reaches(c, e, i, <<c[j], k>>)
<1> DEFINE x == <<c[j], k>>
           L == i..j
<1>1. j \in 1..Len(c) /\ k \in SUBSET Bits /\ x[1] = c[j] /\ x[2] = k
  <2>1. j \in 1..Len(c)
    OBVIOUS
  <2> QED BY <2>1, KeyEntry
<1>2. L \in SUBSET (i..Len(c)) /\ i \in L /\ j \in L
  BY <1>1
<1>3. ASSUME NEW l \in L, l # i
      PROVE  l - 1 \in L /\ l - 1 < l /\ Id(c, l, k) \in e[Id(c, l - 1, k)].owners
  <2>1. l \in 1..Len(c) /\ l - 1 \in L /\ l \in (i + 1)..Len(c) /\ l - 1 \in 1..l
    BY <1>3
  <2>2. Id(c, l, k) \in Ids
    BY <1>1, <2>1, IdType
  <2>3. Listed(e[Id(c, l, k)])
    BY <2>2 DEF Listed
  <2>4. Key(c[l], k) \in ListedKeys(e, c[l])
    BY <2>1, <2>3, ListedProjection
  <2>5. <<c[l], Key(c[l], k)>> \in e[Id(c, l - 1, Key(c[l], k))].owners
    BY <2>1, <2>4 DEF TopComplete
  <2>6. Id(c, l - 1, Key(c[l], k)) = Id(c, l - 1, k)
    BY <2>1, IdThrough
  <2> QED BY <2>1, <2>5, <2>6 DEF Id
<1>4. \A l \in L : Pure(e[Id(c, l, k)])
  OBVIOUS
<1>5. \A l \in L : l = i \/ \E l0 \in L : l0 < l /\ Id(c, l, k) \in e[Id(c, l0, k)].owners
  BY <1>3
<1> HIDE DEF L, x
<1>6. Reaches(c, e, i, x)
  <2>1. \E h \in L : c[h] = x[1]
    BY <1>1, <1>2
  <2> QED BY <1>1, <1>2, <1>4, <1>5, <2>1 DEF Reaches
<1> QED BY <1>6 DEF x

\* A refresh does not get past an entry with a rule, unless the entry is in P.
LEMMA RuleStopsRefresh ==
  ASSUME NEW c \in Seq(Masks), Nested(c), NEW e \in [Ids -> Entries], NEW P,
         NEW i \in 1..Len(c), NEW j \in i..Len(c), NEW k \in SUBSET c[j],
         Skips(c, e, P), NEW h \in i..(j - 1),
         RULE \in e[Id(c, h, k)].bits, Id(c, h, k) \notin P
  PROVE  ~Reaches(c, e, i, <<c[j], k>>)
<1> SUFFICES ASSUME Reaches(c, e, i, <<c[j], k>>) PROVE FALSE
  OBVIOUS
<1>1. PICK L \in SUBSET (i..Len(c)) :
        /\ i \in L
        /\ \E g \in L : c[g] = c[j]
        /\ \A l \in L :
             /\ Pure(e[Id(c, l, k)])
             /\ l = i \/ \E l0 \in L : l0 < l /\ Id(c, l, k) \in e[Id(c, l0, k)].owners
  BY DEF Reaches
<1>2. j \in L
  <2>1. PICK g \in L : c[g] = c[j]
    BY <1>1
  <2>2. g \in 1..Len(c) /\ j \in 1..Len(c)
    OBVIOUS
  <2> QED BY <2>1, <2>2, LevelUnique
<1>3. h \notin L
  <2> SUFFICES ASSUME h \in L PROVE FALSE
    OBVIOUS
  <2>1. Pure(e[Id(c, h, k)])
    BY <1>1
  <2> QED BY <2>1 DEF Pure, RULE, MARKER
<1> DEFINE T == {l \in L : l > h}
<1>4. PICK t \in T : \A l \in T : t <= l
  <2>1. T \in SUBSET Nat
    <3>1. \A l \in L : l \in Nat
      OBVIOUS
    <3> QED BY <3>1
  <2>2. j \in T
    BY <1>2
  <2> HIDE DEF T
  <2> QED BY <2>1, <2>2, LeastNat
<1>5. t \in L /\ t > h /\ t # i /\ t \in 1..Len(c)
  OBVIOUS
<1>6. PICK l0 \in L : l0 < t /\ Id(c, t, k) \in e[Id(c, l0, k)].owners
  BY <1>1, <1>5
<1>7. l0 < h /\ l0 \in 1..Len(c)
  <2>1. l0 \notin T
    BY <1>4, <1>5, <1>6
  <2> QED BY <1>3, <2>1
<1>8. j \in 1..Len(c) /\ k \in SUBSET Bits /\ h \in 1..Len(c)
  <2>1. j \in 1..Len(c) /\ h \in 1..Len(c)
    OBVIOUS
  <2>2. k \in SUBSET Bits
    BY <2>1, KeyEntry
  <2> QED BY <2>1, <2>2
<1> DEFINE y == Id(c, t, k)
           q == Key(c[l0], k)
<1>9. y[1] = c[t] /\ y[2] = Key(c[t], k) /\ Id(c, l0, k) = <<c[l0], q>> /\ q \in SUBSET c[l0]
  BY DEF Id, Key
<1>10. PICK b \in (l0 + 1)..Len(c) :
         /\ y[1] = c[b]
         /\ \A l \in (l0 + 1)..(b - 1) :
              RULE \in e[Id(c, l, y[2])].bits => Id(c, l, y[2]) \in P
  BY <1>6, <1>7, <1>9 DEF Skips
<1>11. b = t
  <2>1. b \in 1..Len(c) /\ c[b] = c[t]
    BY <1>7, <1>9, <1>10
  <2> QED BY <1>5, <2>1, LevelUnique
<1>12. Id(c, h, y[2]) = Id(c, h, k)
  <2>1. h \in 1..t
    BY <1>5, <1>8
  <2> QED BY <1>5, <1>9, <2>1, IdThrough
<1>13. h \in (l0 + 1)..(b - 1)
  BY <1>5, <1>7, <1>8, <1>11
<1> HIDE DEF y
<1> QED BY <1>10, <1>12, <1>13

\* A refresh starts at its level: nothing below changes.
LEMMA RefreshBelow ==
  ASSUME NEW c \in Seq(Masks), Nested(c), NEW e \in [Ids -> Entries],
         NEW i \in 1..Len(c), NEW K, NEW newRule,
         NEW j \in 1..(i - 1), NEW k \in SUBSET c[j]
  PROVE  Refresh(c, e, i, K, newRule)[<<c[j], k>>] = e[<<c[j], k>>]
<1> DEFINE x == <<c[j], k>>
<1>1. x \in Ids /\ j \in 1..Len(c)
  <2>1. j \in 1..Len(c)
    OBVIOUS
  <2> QED BY <2>1, KeyEntry
<1>2. ~Reaches(c, e, i, x)
  <2> SUFFICES ASSUME Reaches(c, e, i, x) PROVE FALSE
    OBVIOUS
  <2>1. PICK h \in i..Len(c) : c[h] = c[j]
    BY DEF Reaches
  <2>2. h \in 1..Len(c) /\ h # j
    OBVIOUS
  <2> QED BY <1>1, <2>1, <2>2, LevelUnique
<1> HIDE DEF x
<1>3. Refresh(c, e, i, K, newRule)[x] = e[x]
  BY <1>1, <1>2 DEF Refresh
<1> QED BY <1>3 DEF x

\* The rule of an entry that a refresh reaches.
LEMMA RefreshReached ==
  ASSUME NEW c \in Seq(Masks), Nested(c), NEW e \in [Ids -> Entries],
         NEW i \in 1..Len(c), NEW K, NEW newRule,
         NEW j \in i..Len(c), NEW k \in SUBSET c[j], Key(c[i], k) \in K,
         \A x \in Ids : Pure(e[x]) => e[x].inTable, TopComplete(c, e, i),
         \A l \in i..j : Pure(e[Id(c, l, k)])
  PROVE  Refresh(c, e, i, K, newRule)[<<c[j], k>>].rule = newRule[Key(c[i], k)]
<1> DEFINE x == <<c[j], k>>
<1>1. x \in Ids /\ x[2] = k
  <2>1. j \in 1..Len(c)
    OBVIOUS
  <2> QED BY <2>1, KeyEntry
<1>2. Reaches(c, e, i, x)
  BY PureColumnReached
<1> HIDE DEF x
<1>3. e[x] \in Entries
  BY <1>1
<1>4. Refresh(c, e, i, K, newRule)[x] = [e[x] EXCEPT !.rule = newRule[Key(c[i], k)]]
  BY <1>1, <1>2 DEF Refresh
<1>5. Refresh(c, e, i, K, newRule)[x].rule = newRule[Key(c[i], k)]
  BY <1>3, <1>4 DEF Entries
<1> QED BY <1>5 DEF x

\* An entry behind one with a rule keeps its rule.
LEMMA RefreshStopped ==
  ASSUME NEW c \in Seq(Masks), Nested(c), NEW e \in [Ids -> Entries], NEW P,
         NEW i \in 1..Len(c), NEW K, NEW newRule,
         NEW j \in i..Len(c), NEW k \in SUBSET c[j],
         Skips(c, e, P), NEW h \in i..(j - 1),
         RULE \in e[Id(c, h, k)].bits, Id(c, h, k) \notin P
  PROVE  Refresh(c, e, i, K, newRule)[<<c[j], k>>] = e[<<c[j], k>>]
<1> DEFINE x == <<c[j], k>>
<1>1. x \in Ids
  <2>1. j \in 1..Len(c)
    OBVIOUS
  <2> QED BY <2>1, KeyEntry
<1>2. ~Reaches(c, e, i, x)
  BY RuleStopsRefresh
<1> HIDE DEF x
<1>3. Refresh(c, e, i, K, newRule)[x] = e[x]
  BY <1>1, <1>2 DEF Refresh
<1> QED BY <1>3 DEF x

-----------------------------------------------------------------------------
(***************************************************************************)
(* New markers.                                                            *)
(***************************************************************************)

\* insertMarker leaves the entries of its own level and above alone.
LEMMA InsertMarkersAbove ==
  ASSUME NEW c \in Seq(Masks), Nested(c), NEW e \in [Ids -> Entries],
         NEW i \in 1..Len(c), NEW K \in SUBSET SUBSET Bits,
         NEW j \in i..Len(c), NEW k \in SUBSET c[j]
  PROVE  InsertMarkers(c, e, i, K)[<<c[j], k>>] = e[<<c[j], k>>]
<1> DEFINE x == <<c[j], k>>
<1>1. x \in Ids /\ j \in 1..Len(c)
  <2>1. j \in 1..Len(c)
    OBVIOUS
  <2> QED BY <2>1, KeyEntry
<1>2. \A l \in 1..(i - 1) : \A q : Id(c, l, q) # x
  <2> SUFFICES ASSUME NEW l \in 1..(i - 1), NEW q, Id(c, l, q) = x PROVE FALSE
    OBVIOUS
  <2>1. l \in 1..Len(c) /\ c[l] = c[j] /\ l # j
    BY DEF Id
  <2> QED BY <1>1, <2>1, LevelUnique
<1> HIDE DEF x
<1>3. NewOwners(c, e, i, K, x) = {}
  BY <1>2 DEF NewOwners
<1>4. InsertMarkers(c, e, i, K)[x] = e[x]
  BY <1>1, <1>3, InsertMarkersEntry
<1> QED BY <1>4 DEF x

\* The levels below an entry of a nested chain that have one in their table.
LEMMA TableLevelsOf ==
  ASSUME NEW c \in Seq(Masks), Nested(c), NEW e, NEW j \in 1..Len(c), NEW k
  PROVE  TableLevelsBelow(c, e, <<c[j], k>>) = {g \in 1..(j - 1) : e[Id(c, g, k)].inTable}
<1>1. ASSUME NEW g \in 1..Len(c) PROVE Cover(c[g], c[j]) /\ c[g] # c[j] <=> g < j
  <2>1. CASE g < j
    BY <2>1 DEF Nested
  <2>2. CASE g = j
    BY <2>2
  <2>3. CASE j < g
    <3>1. Cover(c[j], c[g]) /\ c[j] # c[g]
      BY <2>3 DEF Nested
    <3>2. ~Cover(c[g], c[j])
      BY <3>1, Zenon DEF Cover
    <3> QED BY <2>3, <3>2
  <2> QED BY <2>1, <2>2, <2>3
<1> QED BY <1>1 DEF TableLevelsBelow

\* RuleBelow takes the rule of the highest of them.
LEMMA RuleBelowNearest ==
  ASSUME NEW c \in Seq(Masks), Nested(c), NEW e, NEW j \in 1..Len(c), NEW k
  PROVE  \/ /\ RuleBelow(c, e, <<c[j], k>>) = NoRule
            /\ \A g \in 1..(j - 1) : ~e[Id(c, g, k)].inTable
         \/ \E h \in 1..(j - 1) :
              /\ RuleBelow(c, e, <<c[j], k>>) = e[Id(c, h, k)].rule
              /\ e[Id(c, h, k)].inTable
              /\ \A g \in (h + 1)..(j - 1) : ~e[Id(c, g, k)].inTable
<1> DEFINE x == <<c[j], k>>
           T == {g \in 1..(j - 1) : e[Id(c, g, k)].inTable}
<1>1. TableLevelsBelow(c, e, x) = T
  BY TableLevelsOf
<1>2. CASE T = {}
  <2>1. RuleBelow(c, e, x) = NoRule
    <3> HIDE DEF x, T
    <3> QED BY <1>1, <1>2 DEF RuleBelow
  <2> QED BY <1>2, <2>1
<1>3. CASE T # {}
  <2>1. T \in SUBSET (0..j) /\ j \in Nat
    OBVIOUS
  <2>2. PICK h \in T : \A g \in T : g <= h
    <3> HIDE DEF T
    <3> QED BY <1>3, <2>1, GreatestNat
  <2>3. Max(T) \in T /\ \A g \in T : Max(T) >= g
    <3>1. \E m \in T : \A g \in T : m >= g
      BY <2>1, <2>2
    <3> HIDE DEF T
    <3> QED BY <3>1 DEF Max
  <2>4. Max(T) = h
    <3>1. Max(T) \in Nat /\ h \in Nat
      BY <2>1, <2>3
    <3> HIDE DEF T
    <3> QED BY <2>2, <2>3, <3>1
  <2>5. RuleBelow(c, e, x) = e[Id(c, h, k)].rule
    <3>1. x[2] = k
      OBVIOUS
    <3> HIDE DEF x, T
    <3> QED BY <1>1, <1>3, <2>4, <3>1 DEF RuleBelow
  <2>6. \A g \in (h + 1)..(j - 1) : ~e[Id(c, g, k)].inTable
    <3> SUFFICES ASSUME NEW g \in (h + 1)..(j - 1), e[Id(c, g, k)].inTable PROVE FALSE
      OBVIOUS
    <3>1. h \in Nat /\ g \in 1..(j - 1) /\ g > h
      BY <2>1
    <3>2. g \in T
      BY <3>1
    <3> QED BY <2>2, <3>1, <3>2
  <2> QED BY <2>2, <2>5, <2>6
<1> QED BY <1>2, <1>3

\* The rule of an entry after insertMarker: its own, or the one from below.
LEMMA InsertMarkersRule ==
  ASSUME NEW c \in Seq(Masks), NEW e \in [Ids -> Entries], NEW i \in 1..Len(c),
         NEW K \in SUBSET SUBSET Bits, NEW x \in Ids
  PROVE  LET f == InsertMarkers(c, e, i, K)[x]
         IN  /\ e[x].inTable => f.rule = e[x].rule
             /\ (f.inTable /\ ~e[x].inTable) => f.rule = RuleBelow(c, e, x)
             /\ RULE \in f.bits <=> RULE \in e[x].bits
             /\ e[x].inTable => f.inTable
             /\ (e[x].inTable /\ Pure(f) /\ e[x].bits # {}) => Pure(e[x])
<1> DEFINE own == NewOwners(c, e, i, K, x)
           f   == InsertMarkers(c, e, i, K)[x]
           g   == e[x]
           b   == RuleBelow(c, e, x)
<1>1. own = {} => f = g
  BY DEF InsertMarkers
<1>2. own # {} => f = [g EXCEPT !.bits = @ \cup {MARKER}, !.owners = @ \cup own,
                                !.rule = IF g.inTable THEN @ ELSE b, !.inTable = TRUE]
  BY DEF InsertMarkers
<1>3. g \in Entries
  OBVIOUS
<1> HIDE DEF own, f, g, b
<1>4. own # {} => /\ f.inTable /\ f.bits = g.bits \cup {MARKER}
                  /\ f.rule = IF g.inTable THEN g.rule ELSE b
  BY <1>2, <1>3 DEF Entries
<1>5. g.inTable => f.rule = g.rule
  BY <1>1, <1>4
<1>6. (f.inTable /\ ~g.inTable) => f.rule = b
  BY <1>1, <1>4
<1>7. RULE \in f.bits <=> RULE \in g.bits
  BY <1>1, <1>4 DEF RULE, MARKER
<1>8. (g.inTable /\ Pure(f) /\ g.bits # {}) => Pure(g)
  BY <1>1, <1>4 DEF Pure
<1>9. g.inTable => f.inTable
  BY <1>1, <1>4
<1> QED BY <1>5, <1>6, <1>7, <1>8, <1>9 DEF f, g, b

\* Projecting a key of level j to the levels below it.
LEMMA IdDown ==
  ASSUME NEW c \in Seq(Masks), Nested(c), NEW j \in 1..Len(c), NEW k \in SUBSET c[j],
         NEW g \in 1..j
  PROVE  /\ k \in SUBSET Bits /\ g \in 1..Len(c)
         /\ Id(c, g, k) \in Ids /\ Id(c, g, k) = <<c[g], Key(c[g], k)>>
         /\ Key(c[g], k) \in SUBSET c[g]
         /\ \A h \in 1..g : Id(c, h, Key(c[g], k)) = Id(c, h, k)
<1>1. g \in 1..Len(c)
  OBVIOUS
<1>2. k \in SUBSET Bits
  BY KeyEntry
<1>3. Id(c, g, k) \in Ids
  BY <1>1, <1>2, IdType
<1>4. \A h \in 1..g : Id(c, h, Key(c[g], k)) = Id(c, h, k)
  BY <1>1, IdThrough
<1> QED BY <1>1, <1>2, <1>3, <1>4 DEF Id, Key

\* A new marker takes over what is fresh below it.
LEMMA InsertMarkersFresh ==
  ASSUME NEW c \in Seq(Masks), Nested(c), NEW e \in [Ids -> Entries], NEW P,
         NEW i \in 1..Len(c), NEW K \in SUBSET SUBSET Bits,
         \A x \in Ids : Consistent(e, x),
         \A j \in 1..(i - 1) : FreshAt(c, e, P, j), NEW j \in 1..(i - 1)
  PROVE  FreshAt(c, InsertMarkers(c, e, i, K), P, j)
<1> DEFINE f == InsertMarkers(c, e, i, K)
<1> SUFFICES ASSUME NEW k \in SUBSET c[j], NEW h \in 0..(j - 1),
                    Pure(f[<<c[j], k>>]), Settled(c, f, P, k, h), Bare(c, f, k, h, j)
             PROVE  f[<<c[j], k>>].rule = RuleAt(c, f, k, h)
  BY DEF FreshAt, FreshFrom
<1> DEFINE x == <<c[j], k>>
<1>1. j \in 1..Len(c) /\ j \in 1..j
  OBVIOUS
<1>2. \A g \in 1..j : Id(c, g, k) \in Ids
  BY <1>1, IdDown
<1>3. x \in Ids
  BY <1>1, KeyEntry
<1>4. \A y \in Ids : /\ e[y].inTable => f[y].rule = e[y].rule
                     /\ (f[y].inTable /\ ~e[y].inTable) => f[y].rule = RuleBelow(c, e, y)
                     /\ RULE \in f[y].bits <=> RULE \in e[y].bits
                     /\ (e[y].inTable /\ Pure(f[y]) /\ e[y].bits # {}) => Pure(e[y])
  BY InsertMarkersRule
<1>5. \A y \in Ids : Consistent(f, y)
  BY InsertMarkersConsistent
<1>6. f[x].inTable
  BY <1>3, <1>5 DEF Consistent, Pure
<1> HIDE DEF f
<1>7. Settled(c, e, P, k, h)
  BY <1>2, <1>4 DEF Settled
<1>8. \A g \in (h + 1)..(j - 1) : RULE \notin e[Id(c, g, k)].bits
  <2> SUFFICES ASSUME NEW g \in (h + 1)..(j - 1) PROVE RULE \notin e[Id(c, g, k)].bits
    OBVIOUS
  <2>1. g \in 1..j /\ RULE \notin f[Id(c, g, k)].bits
    BY DEF Bare
  <2> QED BY <1>2, <1>4, <2>1
<1>9. RuleAt(c, f, k, h) = RuleAt(c, e, k, h)
  <2>1. CASE h = 0
    BY <2>1 DEF RuleAt
  <2>2. CASE h # 0
    <3>1. h \in 1..j /\ RULE \in e[Id(c, h, k)].bits
      BY <1>7, <2>2 DEF Settled
    <3>2. Id(c, h, k) \in Ids /\ e[Id(c, h, k)].inTable
      BY <1>2, <3>1 DEF Consistent
    <3> QED BY <1>4, <2>2, <3>2 DEF RuleAt
  <2> QED BY <2>1, <2>2
<1>10. CASE e[x].inTable
  <2>1. e[x].bits # {}
    BY <1>3, <1>10 DEF Consistent
  <2>2. Pure(e[x]) /\ f[x].rule = e[x].rule
    BY <1>3, <1>4, <1>10, <2>1
  <2>3. e[x].rule = RuleAt(c, e, k, h)
    BY <1>7, <1>8, <2>2 DEF FreshAt, FreshFrom, Bare
  <2> QED BY <1>9, <2>2, <2>3
<1>11. CASE ~e[x].inTable
  <2>1. f[x].rule = RuleBelow(c, e, x)
    BY <1>3, <1>4, <1>6, <1>11
  <2>2. h # 0 => RULE \in e[Id(c, h, k)].bits /\ h \in 1..(j - 1)
    BY <1>7 DEF Settled
  <2>3. h # 0 => e[Id(c, h, k)].inTable
    BY <1>2, <2>2 DEF Consistent
  <2>4. CASE /\ RuleBelow(c, e, x) = NoRule
             /\ \A g \in 1..(j - 1) : ~e[Id(c, g, k)].inTable
    <3>1. h = 0
      BY <2>2, <2>3, <2>4
    <3> QED BY <1>9, <2>1, <2>4, <3>1 DEF RuleAt
  <2>5. CASE \E l \in 1..(j - 1) :
               /\ RuleBelow(c, e, x) = e[Id(c, l, k)].rule
               /\ e[Id(c, l, k)].inTable
               /\ \A g \in (l + 1)..(j - 1) : ~e[Id(c, g, k)].inTable
    <3>1. PICK l \in 1..(j - 1) :
                 /\ RuleBelow(c, e, x) = e[Id(c, l, k)].rule
                 /\ e[Id(c, l, k)].inTable
                 /\ \A g \in (l + 1)..(j - 1) : ~e[Id(c, g, k)].inTable
      BY <2>5
    <3>2. h <= l
      <4> SUFFICES ASSUME h > l PROVE FALSE
        OBVIOUS
      <4>1. h # 0 /\ h \in (l + 1)..(j - 1)
        OBVIOUS
      <4> QED BY <2>3, <3>1, <4>1
    <3>3. CASE h = l
      <4>1. h # 0
        BY <3>3
      <4> QED BY <1>9, <2>1, <3>1, <3>3, <4>1 DEF RuleAt
    <3>4. CASE h < l
      <4> DEFINE q == Key(c[l], k)
      <4>1. /\ l \in 1..j /\ l \in 1..(i - 1) /\ h \in 0..(l - 1) /\ l \in (h + 1)..(j - 1)
            /\ (h + 1)..(l - 1) \subseteq (h + 1)..(j - 1)
        BY <3>4
      <4>2. /\ q \in SUBSET c[l] /\ Id(c, l, k) = <<c[l], q>> /\ Id(c, l, k) \in Ids
            /\ \A g \in 1..l : Id(c, g, q) = Id(c, g, k)
        BY <1>1, <4>1, IdDown
      <4> HIDE DEF q
      <4>3. Pure(e[<<c[l], q>>])
        <5>1. e[Id(c, l, k)].bits # {} /\ RULE \notin e[Id(c, l, k)].bits
          BY <1>8, <3>1, <4>1, <4>2 DEF Consistent
        <5>2. e[Id(c, l, k)] \in Entries
          BY <4>2
        <5>3. e[Id(c, l, k)].bits \in SUBSET {RULE, MARKER}
          BY <5>2 DEF Entries
        <5>4. e[Id(c, l, k)].bits = {MARKER}
          BY <5>1, <5>3
        <5> QED BY <4>2, <5>4 DEF Pure
      <4>4. Settled(c, e, P, q, h)
        <5>1. h = 0 \/ Id(c, h, q) = Id(c, h, k)
          BY <4>1, <4>2
        <5> QED BY <1>7, <5>1 DEF Settled
      <4>5. Bare(c, e, q, h, l)
        <5> SUFFICES ASSUME NEW g \in (h + 1)..(l - 1) PROVE RULE \notin e[Id(c, g, q)].bits
          BY DEF Bare
        <5>1. g \in (h + 1)..(j - 1) /\ g \in 1..l
          BY <4>1
        <5> QED BY <1>8, <4>2, <5>1
      <4>6. e[<<c[l], q>>].rule = RuleAt(c, e, q, h)
        BY <4>1, <4>2, <4>3, <4>4, <4>5 DEF FreshAt, FreshFrom
      <4>7. RuleAt(c, e, q, h) = RuleAt(c, e, k, h)
        <5>1. h = 0 \/ Id(c, h, q) = Id(c, h, k)
          BY <4>1, <4>2
        <5> QED BY <5>1 DEF RuleAt
      <4> QED BY <1>9, <2>1, <3>1, <4>2, <4>6, <4>7
    <3> QED BY <3>2, <3>3, <3>4
  <2>6. \/ /\ RuleBelow(c, e, x) = NoRule
           /\ \A g \in 1..(j - 1) : ~e[Id(c, g, k)].inTable
        \/ \E l \in 1..(j - 1) :
             /\ RuleBelow(c, e, x) = e[Id(c, l, k)].rule
             /\ e[Id(c, l, k)].inTable
             /\ \A g \in (l + 1)..(j - 1) : ~e[Id(c, g, k)].inTable
    BY <1>1, RuleBelowNearest
  <2> QED BY <2>4, <2>5, <2>6
<1> QED BY <1>10, <1>11

\* Skips depends on owners, on what is listed, and on the rules not in P.
LEMMA SkipsMonotone ==
  ASSUME NEW c \in Seq(Masks), NEW e, NEW f, NEW P, NEW Q, Skips(c, e, P),
         \A x \in Ids : f[x].owners = e[x].owners,
         \A x \in Ids : Listed(e[x]) => Listed(f[x]),
         \A x \in Ids : (RULE \in f[x].bits /\ x \notin Q) =>
                        (RULE \in e[x].bits /\ x \notin P)
  PROVE  Skips(c, f, Q)
<1> SUFFICES ASSUME NEW a \in 1..Len(c), NEW k \in SUBSET c[a],
                    NEW y \in f[<<c[a], k>>].owners
             PROVE  /\ y \in Ids /\ Listed(f[y])
                    /\ \E b \in (a + 1)..Len(c) :
                         /\ y[1] = c[b] /\ Id(c, a, y[2]) = <<c[a], k>>
                         /\ \A l \in (a + 1)..(b - 1) :
                              RULE \in f[Id(c, l, y[2])].bits => Id(c, l, y[2]) \in Q
  BY DEF Skips
<1>1. <<c[a], k>> \in Ids
  BY KeyEntry
<1>2. y \in e[<<c[a], k>>].owners
  BY <1>1
<1>3. y \in Ids /\ Listed(e[y])
  BY <1>2 DEF Skips
<1>4. PICK b \in (a + 1)..Len(c) :
        /\ y[1] = c[b] /\ Id(c, a, y[2]) = <<c[a], k>>
        /\ \A l \in (a + 1)..(b - 1) :
             RULE \in e[Id(c, l, y[2])].bits => Id(c, l, y[2]) \in P
  BY <1>2 DEF Skips
<1>5. ASSUME NEW l \in (a + 1)..(b - 1), RULE \in f[Id(c, l, y[2])].bits
      PROVE  Id(c, l, y[2]) \in Q
  <2>1. l \in 1..Len(c) /\ y[2] \in SUBSET Bits
    <3>1. l \in 1..Len(c)
      OBVIOUS
    <3>2. y[2] \in SUBSET Bits
      BY <1>3, IdsBits
    <3> QED BY <3>1, <3>2
  <2>2. Id(c, l, y[2]) \in Ids
    BY <2>1, IdType
  <2> QED BY <1>4, <1>5, <2>2
<1> QED BY <1>3, <1>4, <1>5

\* insertMarker adds owners to the entry just below them only.
LEMMA InsertMarkersSkips ==
  ASSUME NEW c \in Seq(Masks), Nested(c), NEW e \in [Ids -> Entries], NEW P,
         NEW i \in 1..Len(c), NEW K \in SUBSET SUBSET Bits,
         Skips(c, e, P), MarkedBelow(c, e, i - 1),
         \A k \in K : Listed(e[Id(c, i, k)])
  PROVE  Skips(c, InsertMarkers(c, e, i, K), P)
<1> DEFINE f == InsertMarkers(c, e, i, K)
<1> SUFFICES ASSUME NEW a \in 1..Len(c), NEW k \in SUBSET c[a],
                    NEW y \in f[<<c[a], k>>].owners
             PROVE  /\ y \in Ids /\ Listed(f[y])
                    /\ \E b \in (a + 1)..Len(c) :
                         /\ y[1] = c[b] /\ Id(c, a, y[2]) = <<c[a], k>>
                         /\ \A l \in (a + 1)..(b - 1) :
                              RULE \in f[Id(c, l, y[2])].bits => Id(c, l, y[2]) \in P
  BY DEF Skips
<1> DEFINE x == <<c[a], k>>
<1>1. x \in Ids
  BY KeyEntry
<1>2. \A z \in Ids : /\ Listed(e[z]) => Listed(f[z])
                     /\ RULE \in f[z].bits <=> RULE \in e[z].bits
  BY InsertMarkersGrows DEF Listed
<1>3. CASE y \in e[x].owners
  <2> HIDE DEF f
  <2>1. y \in Ids /\ Listed(e[y])
    BY <1>3 DEF Skips
  <2>2. PICK b \in (a + 1)..Len(c) :
          /\ y[1] = c[b] /\ Id(c, a, y[2]) = <<c[a], k>>
          /\ \A l \in (a + 1)..(b - 1) :
               RULE \in e[Id(c, l, y[2])].bits => Id(c, l, y[2]) \in P
    BY <1>3 DEF Skips
  <2>3. ASSUME NEW l \in (a + 1)..(b - 1), RULE \in f[Id(c, l, y[2])].bits
        PROVE  Id(c, l, y[2]) \in P
    <3>1. l \in 1..Len(c) /\ y[2] \in SUBSET Bits
      <4>1. l \in 1..Len(c)
        OBVIOUS
      <4>2. y[2] \in SUBSET Bits
        BY <2>1, IdsBits
      <4> QED BY <4>1, <4>2
    <3>2. Id(c, l, y[2]) \in Ids
      BY <3>1, IdType
    <3> QED BY <1>2, <2>2, <2>3, <3>2
  <2> QED BY <1>2, <2>1, <2>2, <2>3
<1>4. CASE y \notin e[x].owners
  <2>1. y \in NewOwners(c, e, i, K, x)
    <3> HIDE DEF x
    <3>1. \/ f[x] = e[x]
          \/ f[x].owners = e[x].owners \cup NewOwners(c, e, i, K, x)
      BY <1>1, InsertMarkersEntry
    <3>2. y \in f[x].owners
      BY DEF x
    <3> QED BY <1>4, <3>1, <3>2
  <2>2. PICK j \in 1..(i - 1), q \in K : y = Id(c, j + 1, q) /\ Id(c, j, q) = x
    BY <2>1 DEF NewOwners
  <2>3. j = a
    <3>1. j \in 1..Len(c) /\ c[j] = c[a]
      BY <2>2 DEF Id
    <3> QED BY <3>1, LevelUnique
  <2>4. a + 1 \in 1..Len(c) /\ a \in 1..(a + 1) /\ a + 1 \in (a + 1)..Len(c)
    BY <2>3
  <2>5. y \in Ids
    BY <2>2, <2>3, <2>4, IdType
  <2>6. y[1] = c[a + 1] /\ y[2] = Key(c[a + 1], q)
    BY <2>2, <2>3 DEF Id
  <2>7. Id(c, a, y[2]) = x
    BY <2>2, <2>3, <2>4, <2>6, IdThrough
  <2>8. Listed(f[y])
    <3>1. CASE a + 1 = i
      BY <1>2, <2>2, <2>3, <2>5, <3>1
    <3>2. CASE a + 1 # i
      <4>1. a + 1 \in 1..(i - 1)
        BY <2>3, <3>2
      <4>2. Marked(f, Id(c, a + 1, q))
        BY <4>1, InsertMarkersMarks
      <4> QED BY <2>2, <2>3, <4>2 DEF Marked, Listed
    <3> QED BY <3>1, <3>2
  <2>9. (a + 1)..((a + 1) - 1) = {}
    OBVIOUS
  <2> QED BY <2>4, <2>5, <2>6, <2>7, <2>8, <2>9
<1> QED BY <1>3, <1>4

-----------------------------------------------------------------------------
(***************************************************************************)
(* leaveMarkers.                                                           *)
(***************************************************************************)

\* An entry with a marker and no rule is pure.
LEMMA PureMarked ==
  ASSUME NEW e \in [Ids -> Entries], NEW x \in Ids,
         MARKER \in e[x].bits, RULE \notin e[x].bits
  PROVE  Pure(e[x])
<1>1. e[x] \in Entries
  OBVIOUS
<1>2. e[x].bits \in SUBSET {RULE, MARKER}
  BY <1>1 DEF Entries
<1> QED BY <1>2 DEF Pure

\* Freshness of level j depends on the levels up to j only.
LEMMA FreshSame ==
  ASSUME NEW c \in Seq(Masks), NEW e, NEW f, NEW P, NEW b \in Nat,
         NEW j \in 1..Len(c), FreshFrom(c, e, P, b, j),
         \A g \in 1..j : \A k \in SUBSET c[g] : f[<<c[g], k>>] = e[<<c[g], k>>]
  PROVE  FreshFrom(c, f, P, b, j)
<1> SUFFICES ASSUME NEW k \in SUBSET c[j], NEW h \in b..(j - 1),
                    Pure(f[<<c[j], k>>]), Settled(c, f, P, k, h), Bare(c, f, k, h, j)
             PROVE  f[<<c[j], k>>].rule = RuleAt(c, f, k, h)
  BY DEF FreshFrom
<1>1. \A g \in 1..j : f[Id(c, g, k)] = e[Id(c, g, k)]
  BY DEF Id, Key
<1>2. f[<<c[j], k>>] = e[<<c[j], k>>]
  OBVIOUS
<1>3. h = 0 \/ h \in 1..j
  OBVIOUS
<1>4. Settled(c, e, P, k, h) /\ RuleAt(c, f, k, h) = RuleAt(c, e, k, h)
  BY <1>1, <1>3 DEF Settled, RuleAt
<1>5. Bare(c, e, k, h, j)
  <2>1. \A g \in (h + 1)..(j - 1) : g \in 1..j
    OBVIOUS
  <2> QED BY <1>1, <2>1 DEF Bare
<1> QED BY <1>2, <1>4, <1>5 DEF FreshFrom

\* TopComplete depends on the levels from i on only.
LEMMA TopCompleteSame ==
  ASSUME NEW c \in Seq(Masks), NEW e, NEW f, NEW i \in 1..Len(c), TopComplete(c, e, i),
         \A g \in i..Len(c) : \A k \in SUBSET c[g] : f[<<c[g], k>>] = e[<<c[g], k>>]
  PROVE  TopComplete(c, f, i)
<1> SUFFICES ASSUME NEW j \in (i + 1)..Len(c), NEW k \in ListedKeys(f, c[j])
             PROVE  /\ <<c[j], k>> \in f[Id(c, j - 1, k)].owners
                    /\ \A h \in i..(j - 1) : Marked(f, Id(c, h, k))
  BY DEF TopComplete
<1>1. \A g \in i..Len(c) : f[Id(c, g, k)] = e[Id(c, g, k)]
  BY DEF Id, Key
<1>2. k \in ListedKeys(e, c[j])
  <2>1. j \in i..Len(c)
    OBVIOUS
  <2> QED BY <2>1 DEF ListedKeys
<1>3. j - 1 \in i..Len(c) /\ \A h \in i..(j - 1) : h \in i..Len(c)
  OBVIOUS
<1>4. /\ <<c[j], k>> \in e[Id(c, j - 1, k)].owners
      /\ \A h \in i..(j - 1) : Marked(e, Id(c, h, k))
  BY <1>2 DEF TopComplete
<1> QED BY <1>1, <1>3, <1>4 DEF Marked

\* Linking level i to prev makes all levels fresh: below it, new markers take
\* over what is fresh; from it on, the refresh goes as far as entries are pure.
LEMMA LeaveMarkersFresh ==
  ASSUME NEW c \in Seq(Masks), Nested(c), NEW e \in [Ids -> Entries], NEW P,
         NEW i \in 2..Len(c), \A x \in Ids : Consistent(e, x),
         Skips(c, e, P), MarkedBelow(c, e, i - 1), TopComplete(c, e, i),
         \A j \in 1..(i - 1) : FreshAt(c, e, P, j),
         \A j \in i..Len(c) : FreshFrom(c, e, P, i, j)
  PROVE  /\ \A j \in 1..Len(c) : FreshAt(c, LeaveMarkers(c, e, i), P, j)
         /\ Skips(c, LeaveMarkers(c, e, i), P)
<1> DEFINE K  == ListedKeys(e, c[i])
           e1 == InsertMarkers(c, e, i, K)
           R  == [k \in K |-> e1[Id(c, i - 1, k)].rule]
           e2 == Refresh(c, e1, i, K, R)
<1>1. i \in 1..Len(c) /\ i - 1 \in 1..Len(c) /\ i - 1 \in 1..(i - 1) /\ i - 1 \in 1..i
  OBVIOUS
<1>2. LeaveMarkers(c, e, i) = e2
  <2>1. i # 1
    OBVIOUS
  <2> QED BY <2>1 DEF LeaveMarkers
<1>3. K \in SUBSET SUBSET Bits /\ \A k \in K : k \in SUBSET c[i] /\ Listed(e[Id(c, i, k)])
  <2>1. K \in SUBSET SUBSET Bits
    BY <1>1, ListedKeysType
  <2>2. \A k \in K : k \in SUBSET c[i] /\ Listed(e[Id(c, i, k)])
    BY <1>1, ListedEntry
  <2> QED BY <2>1, <2>2
<1>4. \A k : Listed(e[Id(c, i, k)]) => Key(c[i], k) \in K
  BY <1>1, ListedProjection
<1> HIDE DEF K
<1>5. e1 \in [Ids -> Entries] /\ \A x \in Ids : Consistent(e1, x)
  BY <1>1, <1>3, InsertMarkersType, InsertMarkersConsistent
<1>6. \A j \in i..Len(c) : \A k \in SUBSET c[j] : e1[<<c[j], k>>] = e[<<c[j], k>>]
  BY <1>1, <1>3, InsertMarkersAbove
<1>7. Skips(c, e1, P)
  BY <1>1, <1>3, InsertMarkersSkips
<1>8. TopComplete(c, e1, i)
  <2> HIDE DEF e1
  <2> QED BY <1>1, <1>6, TopCompleteSame
<1>9. \A j \in 1..(i - 1) : FreshAt(c, e1, P, j)
  BY <1>1, <1>3, InsertMarkersFresh
<1>10. \A q \in K : Marked(e1, Id(c, i - 1, q))
  BY <1>1, <1>3, InsertMarkersMarks
<1>11. \A q \in K : R[q] = e1[Id(c, i - 1, q)].rule
  OBVIOUS
<1> HIDE DEF e1, R
<1>12. \A x \in Ids : /\ e2[x].bits = e1[x].bits /\ e2[x].owners = e1[x].owners
                      /\ e2[x].inTable = e1[x].inTable /\ e2[x].dead = e1[x].dead
                      /\ ~Pure(e1[x]) => e2[x].rule = e1[x].rule
  BY <1>5, RefreshEntry
<1>13. \A j \in 1..(i - 1) : \A k \in SUBSET c[j] : e2[<<c[j], k>>] = e1[<<c[j], k>>]
  <2> SUFFICES ASSUME NEW j \in 1..(i - 1), NEW k \in SUBSET c[j]
               PROVE  e2[<<c[j], k>>] = e1[<<c[j], k>>]
    OBVIOUS
  <2> QED BY <1>1, <1>5, RefreshBelow
<1>14. Skips(c, e2, P)
  <2> HIDE DEF e2
  <2>1. \A x \in Ids : Listed(e1[x]) => Listed(e2[x])
    BY <1>12 DEF Listed
  <2> QED BY <1>7, <1>12, <2>1, SkipsMonotone
<1>15. ASSUME NEW j \in 1..(i - 1) PROVE FreshAt(c, e2, P, j)
  <2> HIDE DEF e2
  <2>1. j \in 1..Len(c) /\ \A g \in 1..j : g \in 1..(i - 1)
    BY <1>1
  <2>2. \A g \in 1..j : \A k \in SUBSET c[g] : e2[<<c[g], k>>] = e1[<<c[g], k>>]
    BY <1>13, <2>1
  <2>3. FreshFrom(c, e1, P, 0, j)
    BY <1>9 DEF FreshAt
  <2>4. FreshFrom(c, e2, P, 0, j)
    BY <2>1, <2>2, <2>3, FreshSame
  <2> QED BY <2>4 DEF FreshAt
<1>16. ASSUME NEW j \in i..Len(c) PROVE FreshAt(c, e2, P, j)
  <2> SUFFICES ASSUME NEW k \in SUBSET c[j], NEW h \in 0..(j - 1),
                      Pure(e2[<<c[j], k>>]), Settled(c, e2, P, k, h), Bare(c, e2, k, h, j)
               PROVE  e2[<<c[j], k>>].rule = RuleAt(c, e2, k, h)
    BY DEF FreshAt, FreshFrom
  <2> DEFINE x == <<c[j], k>>
  <2>1. j \in 1..Len(c) /\ j \in 1..j /\ i \in 1..j
    OBVIOUS
  <2>2. \A g \in 1..j : /\ Id(c, g, k) \in Ids /\ g \in 1..Len(c)
                        /\ Id(c, g, k) = <<c[g], Key(c[g], k)>>
                        /\ Key(c[g], k) \in SUBSET c[g]
                        /\ \A l \in 1..g : Id(c, l, Key(c[g], k)) = Id(c, l, k)
    BY <2>1, IdDown
  <2>3. x \in Ids /\ Id(c, j, k) = x
    BY <2>1, KeyEntry
  <2>4. \A g \in i..j : e1[Id(c, g, k)] = e[Id(c, g, k)]
    <3>1. \A g \in i..j : g \in 1..j /\ g \in i..Len(c)
      OBVIOUS
    <3> QED BY <1>6, <2>2, <3>1
  <2>5. Pure(e1[x]) /\ Pure(e[x])
    <3>1. j \in i..j
      OBVIOUS
    <3> HIDE DEF e2, x
    <3>2. Pure(e1[x])
      <4>1. Pure(e2[x])
        BY DEF x
      <4> QED BY <1>12, <2>3, <4>1 DEF Pure
    <3> QED BY <2>3, <2>4, <3>1, <3>2
  <2> HIDE DEF e2
  <2>6. CASE h >= i
    <3>1. h \in i..(j - 1) /\ h \in 1..j /\ h # 0 /\ h \in i..j
      BY <2>6
    <3>2. RULE \in e2[Id(c, h, k)].bits /\ Id(c, h, k) \notin P
      BY <3>1 DEF Settled
    <3>3. RULE \in e1[Id(c, h, k)].bits /\ ~Pure(e1[Id(c, h, k)])
      <4>1. RULE \in e1[Id(c, h, k)].bits
        BY <1>12, <2>2, <3>1, <3>2
      <4> QED BY <4>1 DEF Pure, RULE, MARKER
    <3>4. e2[x] = e1[x]
      BY <1>1, <1>5, <1>7, <3>1, <3>2, <3>3, RefreshStopped DEF e2
    <3>5. e2[Id(c, h, k)].rule = e[Id(c, h, k)].rule
      BY <1>12, <2>2, <2>4, <3>1, <3>3
    <3>6. Settled(c, e, P, k, h)
      BY <2>4, <3>1, <3>2, <3>3 DEF Settled
    <3>7. Bare(c, e, k, h, j)
      <4> SUFFICES ASSUME NEW g \in (h + 1)..(j - 1) PROVE RULE \notin e[Id(c, g, k)].bits
        BY DEF Bare
      <4>1. g \in i..j /\ g \in 1..j
        BY <3>1
      <4>2. RULE \notin e2[Id(c, g, k)].bits
        BY DEF Bare
      <4> QED BY <1>12, <2>2, <2>4, <4>1, <4>2
    <3>8. e[x].rule = RuleAt(c, e, k, h)
      BY <2>5, <3>1, <3>6, <3>7 DEF FreshFrom
    <3>9. e1[x] = e[x]
      <4>1. j \in i..j
        OBVIOUS
      <4> HIDE DEF x
      <4> QED BY <2>3, <2>4, <4>1
    <3> QED BY <3>1, <3>4, <3>5, <3>8, <3>9 DEF RuleAt
  <2>7. CASE h < i
    <3>1. \A l \in i..j : Pure(e1[Id(c, l, k)])
      <4> SUFFICES ASSUME NEW l \in i..j, l # j PROVE Pure(e1[Id(c, l, k)])
        BY <2>3, <2>5
      <4>1. l \in i..(j - 1) /\ l \in 1..j /\ j \in (i + 1)..Len(c) /\ l \in (h + 1)..(j - 1)
        BY <2>7
      <4>2. k \in ListedKeys(e1, c[j])
        BY <1>5, <2>3, <2>5 DEF ListedKeys, Consistent, Pure, Listed
      <4>3. MARKER \in e1[Id(c, l, k)].bits
        BY <1>8, <4>1, <4>2 DEF TopComplete, Marked
      <4>4. RULE \notin e1[Id(c, l, k)].bits
        BY <1>12, <2>2, <4>1 DEF Bare
      <4> QED BY <1>5, <2>2, <4>1, <4>3, <4>4, PureMarked
    <3> DEFINE q == Key(c[i], k)
    <3>2. q \in K /\ Id(c, i - 1, q) = Id(c, i - 1, k)
      <4>1. i \in i..j
        OBVIOUS
      <4>2. Pure(e[Id(c, i, k)])
        BY <2>4, <3>1, <4>1
      <4>3. Listed(e[Id(c, i, k)])
        BY <2>1, <2>2, <4>2 DEF Pure, Consistent, Listed
      <4> QED BY <1>1, <1>4, <2>1, <2>2, <4>3
    <3>3. e2[x].rule = R[q]
      <4>1. \A z \in Ids : Pure(e1[z]) => e1[z].inTable
        BY <1>5 DEF Consistent, Pure
      <4> HIDE DEF q
      <4>2. Key(c[i], k) \in K
        BY <3>2 DEF q
      <4>3. Refresh(c, e1, i, K, R)[<<c[j], k>>].rule = R[Key(c[i], k)]
        <5>1. e1 \in [Ids -> Entries]
          BY <1>5
        <5> QED BY SMTT(30), <1>1, <1>8, <3>1, <4>1, <4>2, <5>1, RefreshReached
      <4> QED BY <4>3 DEF e2, q
    <3>4. R[q] = e1[Id(c, i - 1, k)].rule
      BY <1>11, <3>2
    <3>5. \A g \in 1..(i - 1) : e2[Id(c, g, k)] = e1[Id(c, g, k)]
      <4>1. \A g \in 1..(i - 1) : g \in 1..j
        BY <2>1
      <4> QED BY <1>13, <2>2, <4>1
    <3>6. CASE h = i - 1
      <4>1. h # 0
        BY <1>1, <3>6
      <4> QED BY <1>1, <3>3, <3>4, <3>5, <3>6, <4>1 DEF RuleAt
    <3>7. CASE h < i - 1
      <4> DEFINE s == Key(c[i - 1], k)
      <4>1. i - 1 \in 1..j /\ h \in 0..((i - 1) - 1) /\ i - 1 \in (h + 1)..(j - 1)
        BY <3>7, <2>1
      <4>2. /\ s \in SUBSET c[i - 1] /\ Id(c, i - 1, k) = <<c[i - 1], s>> /\ Id(c, i - 1, k) \in Ids
            /\ \A g \in 1..(i - 1) : Id(c, g, s) = Id(c, g, k)
        BY <2>2, <4>1
      <4> HIDE DEF s, q
      <4>3. Pure(e1[<<c[i - 1], s>>])
        <5>1. MARKER \in e1[Id(c, i - 1, k)].bits
          BY <1>10, <3>2 DEF Marked
        <5>2. RULE \notin e1[Id(c, i - 1, k)].bits
          BY <1>12, <4>1, <4>2 DEF Bare
        <5> QED BY <1>5, <4>2, <5>1, <5>2, PureMarked
      <4>4. h = 0 \/ (h \in 1..(i - 1) /\ h \in 1..j /\ Id(c, h, s) = Id(c, h, k))
        BY <4>1, <4>2
      <4>5. Settled(c, e1, P, s, h)
        BY <3>5, <4>4 DEF Settled
      <4>6. Bare(c, e1, s, h, i - 1)
        <5> SUFFICES ASSUME NEW g \in (h + 1)..((i - 1) - 1) PROVE RULE \notin e1[Id(c, g, s)].bits
          BY DEF Bare
        <5>1. g \in (h + 1)..(j - 1) /\ g \in 1..(i - 1)
          BY <4>1
        <5>2. RULE \notin e2[Id(c, g, k)].bits
          BY <5>1 DEF Bare
        <5> QED BY <3>5, <4>2, <5>1, <5>2
      <4>7. e1[<<c[i - 1], s>>].rule = RuleAt(c, e1, s, h)
        BY <1>1, <1>9, <4>1, <4>2, <4>3, <4>5, <4>6 DEF FreshAt, FreshFrom
      <4>8. RuleAt(c, e1, s, h) = RuleAt(c, e2, k, h)
        BY <3>5, <4>4 DEF RuleAt
      <4> QED BY <3>3, <3>4, <4>2, <4>7, <4>8
    <3> QED BY <2>7, <3>6, <3>7
  <2> QED BY <2>6, <2>7
<1>17. \A j \in 1..Len(c) : FreshAt(c, e2, P, j)
  <2>1. \A j \in 1..Len(c) : j \in 1..(i - 1) \/ j \in i..Len(c)
    BY <1>1
  <2> QED BY <1>15, <1>16, <2>1
<1> QED BY <1>2, <1>14, <1>17

-----------------------------------------------------------------------------
(***************************************************************************)
(* Linking a new tuple m at level i of c.                                  *)
(***************************************************************************)

\* Where a level of the longer chain was before, and where one is afterwards.
Old(i, l) == IF l < i THEN l ELSE l - 1
New(i, l) == IF l < i THEN l ELSE l + 1

\* Tuple m before it is linked: it has no marker, and unless it is to be the
\* head, no entry at all.
Unmarked(e, m) == \A k \in SUBSET m : MARKER \notin e[<<m, k>>].bits
Unlisted(e, m) == \A k \in SUBSET m : ~Listed(e[<<m, k>>])

LEMMA ShiftLevels ==
  ASSUME NEW c \in Seq(Masks), NEW m \in Masks, NEW i \in 1..(Len(c) + 1)
  PROVE  LET s == Shift(c, m, i)
         IN  /\ \A l \in 1..Len(s) : l # i =>
                  /\ Old(i, l) \in 1..Len(c) /\ s[l] = c[Old(i, l)]
                  /\ \A k : Id(s, l, k) = Id(c, Old(i, l), k)
             /\ \A l \in 1..Len(c) :
                  /\ New(i, l) \in 1..Len(s) /\ s[New(i, l)] = c[l]
                  /\ \A k : Id(s, New(i, l), k) = Id(c, l, k)
<1> DEFINE s == Shift(c, m, i)
<1>1. /\ Len(s) = Len(c) + 1 /\ Len(c) \in Nat
      /\ \A j \in 1..(i - 1) : s[j] = c[j]
      /\ \A j \in (i + 1)..(Len(c) + 1) : s[j] = c[j - 1]
  BY ShiftProperties
<1> HIDE DEF s
<1>2. ASSUME NEW l \in 1..Len(s), l # i
      PROVE  Old(i, l) \in 1..Len(c) /\ s[l] = c[Old(i, l)]
  <2>1. CASE l < i
    BY <1>1, <2>1 DEF Old
  <2>2. CASE l > i
    BY <1>1, <2>2 DEF Old
  <2> QED BY <1>2, <2>1, <2>2
<1>3. ASSUME NEW l \in 1..Len(c)
      PROVE  New(i, l) \in 1..Len(s) /\ s[New(i, l)] = c[l]
  <2>1. CASE l < i
    BY <1>1, <2>1 DEF New
  <2>2. CASE l >= i
    <3>1. l + 1 \in (i + 1)..(Len(c) + 1) /\ (l + 1) - 1 = l
      BY <2>2
    <3> QED BY <1>1, <2>2, <3>1 DEF New
  <2> QED BY <2>1, <2>2
<1> QED BY <1>2, <1>3 DEF s, Id

\* Owners skip the new tuple, which has no rule where they do.
LEMMA ShiftSkips ==
  ASSUME NEW c \in Seq(Masks), NEW e \in [Ids -> Entries], NEW P, NEW m \in Masks,
         NEW i \in 1..(Len(c) + 1), \A x \in Ids : Consistent(e, x), Skips(c, e, P),
         Unmarked(e, m), i # 1 => Unlisted(e, m)
  PROVE  Skips(Shift(c, m, i), e, P)
<1> DEFINE s == Shift(c, m, i)
<1>1. s \in Seq(Masks) /\ Len(s) = Len(c) + 1 /\ s[i] = m
  BY ShiftProperties
<1>2. /\ \A l \in 1..Len(s) : l # i =>
           /\ Old(i, l) \in 1..Len(c) /\ s[l] = c[Old(i, l)]
           /\ \A k : Id(s, l, k) = Id(c, Old(i, l), k)
      /\ \A l \in 1..Len(c) :
           /\ New(i, l) \in 1..Len(s) /\ s[New(i, l)] = c[l]
           /\ \A k : Id(s, New(i, l), k) = Id(c, l, k)
  BY ShiftLevels
<1> HIDE DEF s
<1> SUFFICES ASSUME NEW a \in 1..Len(s), NEW k \in SUBSET s[a],
                    NEW y \in e[<<s[a], k>>].owners
             PROVE  /\ y \in Ids /\ Listed(e[y])
                    /\ \E b \in (a + 1)..Len(s) :
                         /\ y[1] = s[b] /\ Id(s, a, y[2]) = <<s[a], k>>
                         /\ \A l \in (a + 1)..(b - 1) :
                              RULE \in e[Id(s, l, y[2])].bits => Id(s, l, y[2]) \in P
  BY DEF Skips, s
<1>3. a # i
  <2> SUFFICES ASSUME a = i PROVE FALSE
    OBVIOUS
  <2>1. <<s[a], k>> \in Ids
    BY <1>1, KeyEntry
  <2>2. MARKER \in e[<<s[a], k>>].bits
    BY <2>1 DEF Consistent
  <2> QED BY <1>1, <2>2 DEF Unmarked
<1> DEFINE a0 == Old(i, a)
<1>4. a0 \in 1..Len(c) /\ s[a] = c[a0] /\ \A q : Id(s, a, q) = Id(c, a0, q)
  BY <1>2, <1>3
<1>5. y \in Ids /\ Listed(e[y])
  BY <1>4 DEF Skips
<1>6. PICK b0 \in (a0 + 1)..Len(c) :
        /\ y[1] = c[b0] /\ Id(c, a0, y[2]) = <<c[a0], k>>
        /\ \A l \in (a0 + 1)..(b0 - 1) :
             RULE \in e[Id(c, l, y[2])].bits => Id(c, l, y[2]) \in P
  BY <1>4 DEF Skips
<1> DEFINE b == New(i, b0)
<1>7. b0 \in 1..Len(c)
  BY <1>4, <1>6
<1>8. b \in 1..Len(s) /\ s[b] = c[b0]
  BY <1>2, <1>7
<1>9. b \in (a + 1)..Len(s)
  <2>1. a < b
    BY <1>3, <1>4, <1>7 DEF Old, New
  <2> HIDE DEF b
  <2> QED BY <1>8, <2>1
<1>10. ASSUME NEW l \in (a + 1)..(b - 1), RULE \in e[Id(s, l, y[2])].bits
       PROVE  Id(s, l, y[2]) \in P
  <2>1. l \in 1..Len(s)
    <3> HIDE DEF b
    <3> QED BY <1>8
  <2>2. CASE l = i
    <3>1. i # 1
      BY <2>2
    <3>2. Id(s, l, y[2]) \in Ids
      <4>1. y[2] \in SUBSET Bits
        BY <1>5, IdsBits
      <4> QED BY <1>1, <2>1, <4>1, IdType
    <3>3. Id(s, l, y[2]) = <<m, Key(m, y[2])>> /\ Key(m, y[2]) \in SUBSET m
      BY <1>1, <2>2 DEF Id, Key
    <3>4. Listed(e[Id(s, l, y[2])])
      BY <1>10, <3>2 DEF Consistent, Listed
    <3> QED BY <3>1, <3>3, <3>4 DEF Unlisted
  <2>3. CASE l # i
    <3>1. Old(i, l) \in 1..Len(c) /\ Id(s, l, y[2]) = Id(c, Old(i, l), y[2])
      BY <1>2, <2>1, <2>3
    <3>2. Old(i, l) \in (a0 + 1)..(b0 - 1)
      <4>1. Old(i, l) > Old(i, a)
        BY <1>3, <2>3 DEF Old
      <4>2. Old(i, l) < b0
        BY <1>7, <2>3 DEF Old, New
      <4> HIDE DEF a0, b
      <4> QED BY <1>4, <1>7, <3>1, <4>1, <4>2 DEF a0
    <3> QED BY <1>6, <1>10, <3>1, <3>2
  <2> QED BY <2>2, <2>3
<1> HIDE DEF b
<1> QED BY <1>4, <1>5, <1>6, <1>8, <1>9, <1>10

\* What was fresh is fresh in the longer chain: up to level i, which has no
\* marker, as far down as before; above it, down to level i.
LEMMA ShiftFresh ==
  ASSUME NEW c \in Seq(Masks), NEW e \in [Ids -> Entries], NEW P, NEW m \in Masks,
         NEW i \in 1..(Len(c) + 1), Unmarked(e, m),
         \A j \in 1..Len(c) : FreshAt(c, e, P, j)
  PROVE  LET s == Shift(c, m, i)
         IN  /\ \A j \in 1..i : FreshAt(s, e, P, j)
             /\ \A j \in (i + 1)..Len(s) : FreshFrom(s, e, P, i + 1, j)
<1> DEFINE s == Shift(c, m, i)
<1>1. s \in Seq(Masks) /\ Len(s) = Len(c) + 1 /\ s[i] = m /\ Len(c) \in Nat
  BY ShiftProperties
<1>2. \A l \in 1..Len(s) : l # i =>
        /\ Old(i, l) \in 1..Len(c) /\ s[l] = c[Old(i, l)]
        /\ \A k : Id(s, l, k) = Id(c, Old(i, l), k)
  BY ShiftLevels
<1> HIDE DEF s
<1>3. ASSUME NEW j \in 1..i PROVE FreshAt(s, e, P, j)
  <2>1. CASE j = i
    <3>1. \A k \in SUBSET s[j] : ~Pure(e[<<s[j], k>>])
      BY <1>1, <2>1 DEF Pure, Unmarked
    <3> QED BY <3>1 DEF FreshAt, FreshFrom
  <2>2. CASE j # i
    <3>1. \A l \in 1..j : /\ l \in 1..Len(c) /\ s[l] = c[l]
                          /\ \A k : Id(s, l, k) = Id(c, l, k)
      <4> SUFFICES ASSUME NEW l \in 1..j
                   PROVE  /\ l \in 1..Len(c) /\ s[l] = c[l]
                          /\ \A k : Id(s, l, k) = Id(c, l, k)
        OBVIOUS
      <4>1. l \in 1..Len(s) /\ l # i /\ Old(i, l) = l
        BY <1>1, <2>2 DEF Old
      <4> QED BY <1>2, <4>1
    <3> SUFFICES ASSUME NEW k \in SUBSET s[j], NEW h \in 0..(j - 1), Pure(e[<<s[j], k>>]),
                        Settled(s, e, P, k, h), Bare(s, e, k, h, j)
                 PROVE  e[<<s[j], k>>].rule = RuleAt(s, e, k, h)
      BY DEF FreshAt, FreshFrom
    <3>2. j \in 1..j /\ (h = 0 \/ h \in 1..j) /\ \A g \in (h + 1)..(j - 1) : g \in 1..j
      OBVIOUS
    <3>3. s[j] = c[j] /\ j \in 1..Len(c)
      <4>1. j \in 1..j
        OBVIOUS
      <4> QED BY <3>1, <4>1
    <3>4. Settled(c, e, P, k, h) /\ RuleAt(s, e, k, h) = RuleAt(c, e, k, h)
      BY <3>1, <3>2 DEF Settled, RuleAt
    <3>5. Bare(c, e, k, h, j)
      <4>1. \A g \in (h + 1)..(j - 1) : g \in 1..j
        OBVIOUS
      <4> QED BY <3>1, <4>1 DEF Bare
    <3> QED BY <3>3, <3>4, <3>5 DEF FreshAt, FreshFrom
  <2> QED BY <2>1, <2>2
<1>4. ASSUME NEW j \in (i + 1)..Len(s) PROVE FreshFrom(s, e, P, i + 1, j)
  <2>1. \A l \in (i + 1)..Len(s) : /\ l - 1 \in 1..Len(c) /\ s[l] = c[l - 1]
                                   /\ \A k : Id(s, l, k) = Id(c, l - 1, k)
    <3> SUFFICES ASSUME NEW l \in (i + 1)..Len(s)
                 PROVE  /\ l - 1 \in 1..Len(c) /\ s[l] = c[l - 1]
                        /\ \A k : Id(s, l, k) = Id(c, l - 1, k)
      OBVIOUS
    <3>1. l \in 1..Len(s) /\ l # i /\ Old(i, l) = l - 1
      BY <1>1 DEF Old
    <3> QED BY <1>2, <3>1
  <2> SUFFICES ASSUME NEW k \in SUBSET s[j], NEW h \in (i + 1)..(j - 1), Pure(e[<<s[j], k>>]),
                      Settled(s, e, P, k, h), Bare(s, e, k, h, j)
               PROVE  e[<<s[j], k>>].rule = RuleAt(s, e, k, h)
    BY DEF FreshFrom
  <2>2. /\ h \in (i + 1)..Len(s) /\ h # 0 /\ h - 1 # 0 /\ h - 1 \in 0..((j - 1) - 1)
        /\ \A g \in ((h - 1) + 1)..((j - 1) - 1) : g + 1 \in (h + 1)..(j - 1) /\ g + 1 \in (i + 1)..Len(s)
                                                   /\ (g + 1) - 1 = g
    BY <1>1
  <2>3. s[j] = c[j - 1] /\ j - 1 \in 1..Len(c)
    BY <2>1
  <2>4. Settled(c, e, P, k, h - 1) /\ RuleAt(s, e, k, h) = RuleAt(c, e, k, h - 1)
    BY <2>1, <2>2 DEF Settled, RuleAt
  <2>5. Bare(c, e, k, h - 1, j - 1)
    <3> SUFFICES ASSUME NEW g \in ((h - 1) + 1)..((j - 1) - 1)
                 PROVE  RULE \notin e[Id(c, g, k)].bits
      BY DEF Bare
    <3>1. Id(s, g + 1, k) = Id(c, g, k) /\ g + 1 \in (h + 1)..(j - 1)
      BY <2>1, <2>2
    <3> QED BY <3>1 DEF Bare
  <2> QED BY <2>2, <2>3, <2>4, <2>5 DEF FreshAt, FreshFrom
<1> QED BY <1>3, <1>4 DEF s

\* Markers and owners are complete above the new tuple.
LEMMA ShiftTopComplete ==
  ASSUME NEW c \in Seq(Masks), NEW e, NEW m \in Masks,
         NEW i \in 1..(Len(c) + 1), Complete(c, e, Len(c))
  PROVE  TopComplete(Shift(c, m, i), e, i + 1)
<1> DEFINE s == Shift(c, m, i)
<1>1. s \in Seq(Masks) /\ Len(s) = Len(c) + 1 /\ Len(c) \in Nat
  BY ShiftProperties
<1>2. \A l \in 1..Len(s) : l # i =>
        /\ Old(i, l) \in 1..Len(c) /\ s[l] = c[Old(i, l)]
        /\ \A k : Id(s, l, k) = Id(c, Old(i, l), k)
  BY ShiftLevels
<1> HIDE DEF s
<1>3. \A l \in (i + 1)..Len(s) : /\ l - 1 \in 1..Len(c) /\ s[l] = c[l - 1]
                                 /\ \A k : Id(s, l, k) = Id(c, l - 1, k)
  <2> SUFFICES ASSUME NEW l \in (i + 1)..Len(s)
               PROVE  /\ l - 1 \in 1..Len(c) /\ s[l] = c[l - 1]
                      /\ \A k : Id(s, l, k) = Id(c, l - 1, k)
    OBVIOUS
  <2>1. l \in 1..Len(s) /\ l # i /\ Old(i, l) = l - 1
    BY <1>1 DEF Old
  <2> QED BY <1>2, <2>1
<1> SUFFICES ASSUME NEW j \in ((i + 1) + 1)..Len(s), NEW k \in ListedKeys(e, s[j])
             PROVE  /\ <<s[j], k>> \in e[Id(s, j - 1, k)].owners
                    /\ \A h \in (i + 1)..(j - 1) : Marked(e, Id(s, h, k))
  BY DEF TopComplete, s
<1>4. j \in (i + 1)..Len(s) /\ j - 1 \in (i + 1)..Len(s) /\ j - 1 \in 2..Len(c)
  BY <1>1
<1>5. /\ s[j] = c[j - 1] /\ k \in ListedKeys(e, c[j - 1]) /\ j - 1 \in 1..Len(c)
      /\ Id(s, j - 1, k) = Id(c, (j - 1) - 1, k)
  BY <1>3, <1>4
<1>6. <<s[j], k>> \in e[Id(s, j - 1, k)].owners
  BY <1>4, <1>5 DEF Complete, LinkedBelow
<1>7. ASSUME NEW h \in (i + 1)..(j - 1) PROVE Marked(e, Id(s, h, k))
  <2>1. h \in (i + 1)..Len(s) /\ h - 1 \in 1..((j - 1) - 1)
    BY <1>1
  <2>2. Marked(e, Id(c, h - 1, k))
    BY <1>5, <2>1 DEF Complete, MarkedBelow, Marked
  <2> QED BY <1>3, <2>1, <2>2
<1> QED BY <1>6, <1>7

\* ... and below it.
LEMMA ShiftMarkedBelow ==
  ASSUME NEW c \in Seq(Masks), NEW e, NEW m \in Masks,
         NEW i \in 1..(Len(c) + 1), Complete(c, e, Len(c)),
         i # 1 => Unlisted(e, m)
  PROVE  MarkedBelow(Shift(c, m, i), e, i)
<1> DEFINE s == Shift(c, m, i)
<1>1. s \in Seq(Masks) /\ Len(s) = Len(c) + 1 /\ Len(c) \in Nat /\ s[i] = m
  BY ShiftProperties
<1>2. \A l \in 1..Len(s) : l # i =>
        /\ Old(i, l) \in 1..Len(c) /\ s[l] = c[Old(i, l)]
        /\ \A k : Id(s, l, k) = Id(c, Old(i, l), k)
  BY ShiftLevels
<1> HIDE DEF s
<1>3. \A l \in 1..(i - 1) : /\ l \in 1..Len(c) /\ s[l] = c[l]
                            /\ \A k : Id(s, l, k) = Id(c, l, k)
  <2> SUFFICES ASSUME NEW l \in 1..(i - 1)
               PROVE  /\ l \in 1..Len(c) /\ s[l] = c[l]
                      /\ \A k : Id(s, l, k) = Id(c, l, k)
    OBVIOUS
  <2>1. l \in 1..Len(s) /\ l # i /\ Old(i, l) = l
    BY <1>1 DEF Old
  <2> QED BY <1>2, <2>1
<1> SUFFICES ASSUME NEW j \in 1..i, NEW k \in ListedKeys(e, s[j]), NEW h \in 1..(j - 1)
             PROVE  Marked(e, Id(s, h, k))
  BY DEF MarkedBelow, Marked, s
<1>4. j # i
  <2> SUFFICES ASSUME j = i PROVE FALSE
    OBVIOUS
  <2>1. i # 1
    OBVIOUS
  <2> QED BY <1>1, <2>1 DEF Unlisted, ListedKeys
<1>5. j \in 1..(i - 1) /\ h \in 1..(i - 1)
  BY <1>4
<1>6. j \in 1..Len(c) /\ k \in ListedKeys(e, c[j])
  BY <1>3, <1>5
<1>7. Marked(e, Id(c, h, k))
  BY <1>6 DEF Complete, MarkedBelow, Marked
<1> QED BY <1>3, <1>5, <1>7

\* leaveMarkers of a tuple without entries, or of the head, does nothing.
LEMMA LeaveMarkersNothing ==
  ASSUME NEW c, NEW e \in [Ids -> Entries], NEW i, i # 1 => ListedKeys(e, c[i]) = {}
  PROVE  LeaveMarkers(c, e, i) = e
<1>1. CASE i = 1
  BY <1>1 DEF LeaveMarkers
<1>2. CASE i # 1
  <2> DEFINE e1 == InsertMarkers(c, e, i, {})
             R  == [k \in {} |-> e1[Id(c, i - 1, k)].rule]
  <2>1. \A x \in Ids : NewOwners(c, e, i, {}, x) = {}
    BY DEF NewOwners
  <2>2. e1 = e
    BY <2>1 DEF InsertMarkers
  <2>3. LeaveMarkers(c, e, i) = Refresh(c, e1, i, {}, R)
    BY <1>2 DEF LeaveMarkers
  <2> HIDE DEF R
  <2>4. Refresh(c, e, i, {}, R) = e
    BY DEF Refresh
  <2> QED BY <2>2, <2>3, <2>4
<1> QED BY <1>1, <1>2

\* Linking a new tuple keeps all markers fresh.
LEMMA LinkFresh ==
  ASSUME NEW c \in Seq(Masks), NEW e \in [Ids -> Entries], NEW P, NEW m \in Masks,
         NEW i \in 1..(Len(c) + 1), Nested(Shift(c, m, i)),
         \A x \in Ids : Consistent(e, x), Complete(c, e, Len(c)),
         Unmarked(e, m), i # 1 => Unlisted(e, m),
         Skips(c, e, P), \A j \in 1..Len(c) : FreshAt(c, e, P, j)
  PROVE  LET s == Shift(c, m, i)
         IN  /\ Skips(s, Link(s, e, i), P)
             /\ \A j \in 1..Len(s) : FreshAt(s, Link(s, e, i), P, j)
<1> DEFINE s == Shift(c, m, i)
<1>1. s \in Seq(Masks) /\ Len(s) = Len(c) + 1 /\ Len(c) \in Nat /\ s[i] = m /\ Nested(s)
  BY ShiftProperties
<1>2. Skips(s, e, P)
  BY ShiftSkips
<1>3. /\ \A j \in 1..i : FreshAt(s, e, P, j)
      /\ \A j \in (i + 1)..Len(s) : FreshFrom(s, e, P, i + 1, j)
  BY ShiftFresh
<1>4. TopComplete(s, e, i + 1) /\ MarkedBelow(s, e, i)
  BY ShiftTopComplete, ShiftMarkedBelow
<1> HIDE DEF s
<1>5. LeaveMarkers(s, e, i) = e
  <2>1. i # 1 => ListedKeys(e, s[i]) = {}
    BY <1>1 DEF Unlisted, ListedKeys
  <2> QED BY <2>1, LeaveMarkersNothing
<1>6. CASE i < Len(s)
  <2>1. i + 1 \in 2..Len(s) /\ (i + 1) - 1 = i
    BY <1>1, <1>6
  <2>2. Link(s, e, i) = LeaveMarkers(s, e, i + 1)
    BY <1>5, <1>6 DEF Link
  <2>3. /\ \A j \in 1..Len(s) : FreshAt(s, LeaveMarkers(s, e, i + 1), P, j)
        /\ Skips(s, LeaveMarkers(s, e, i + 1), P)
    BY <1>1, <1>2, <1>3, <1>4, <2>1, LeaveMarkersFresh
  <2> QED BY <2>2, <2>3 DEF s
<1>7. CASE ~(i < Len(s))
  <2>1. Link(s, e, i) = e /\ i = Len(s)
    BY <1>1, <1>5, <1>7 DEF Link
  <2> QED BY <1>2, <1>3, <2>1 DEF s
<1> QED BY <1>6, <1>7

-----------------------------------------------------------------------------
(***************************************************************************)
(* insert.                                                                 *)
(***************************************************************************)

\* setRule changes its entry and no other: the refresh it starts stops there.
LEMMA SetRuleAlone ==
  ASSUME NEW c \in Seq(Masks), NEW e \in [Ids -> Entries], NEW i \in 1..Len(c),
         NEW r \in Rules, c[i] = r.mask, NEW y \in Ids, y # <<r.mask, r.key>>
  PROVE  SetRule(c, e, i, r)[y] = e[y]
<1> DEFINE x == <<r.mask, r.key>>
           set == [e EXCEPT ![x].bits = @ \cup {RULE}, ![x].rule = r]
           R == [k \in {r.key} |-> r]
<1>1. SetRule(c, e, i, r) = Refresh(c, set, i, {r.key}, R)
  BY DEF SetRule
<1>2. x \in Ids
  BY RuleIdType
<1>3. set[y] = e[y]
  OBVIOUS
<1>4. ~Pure(set[x])
  <2>1. RULE \in set[x].bits
    <3>1. e[x] \in Entries
      BY <1>2
    <3> HIDE DEF x
    <3> QED BY <1>2, <3>1 DEF Entries
  <2> HIDE DEF set
  <2> QED BY <2>1 DEF Pure, RULE, MARKER
<1>5. ~(Key(c[i], y[2]) \in {r.key} /\ Reaches(c, set, i, y))
  <2> SUFFICES ASSUME Key(c[i], y[2]) = r.key, Reaches(c, set, i, y) PROVE FALSE
    OBVIOUS
  <2>1. Pure(set[Id(c, i, y[2])])
    <3> HIDE DEF set
    <3> QED BY DEF Reaches
  <2>2. Id(c, i, y[2]) = x
    BY DEF Id
  <2> HIDE DEF set, x
  <2> QED BY <1>4, <2>1, <2>2
<1> HIDE DEF set, R
<1>6. Refresh(c, set, i, {r.key}, R)[y] = set[y]
  BY <1>5 DEF Refresh
<1> QED BY <1>1, <1>3, <1>6

LEMMA NewEntryConsistent ==
  ASSUME NEW e \in [Ids -> Entries], NEW r \in Rules, NEW y \in Ids, Consistent(e, y),
         ~e[<<r.mask, r.key>>].inTable
  PROVE  Consistent(NewEntry(e, r), y)
<1> DEFINE x == <<r.mask, r.key>>
           f == NewEntry(e, r)[y]
<1>1. y # x => f = e[y]
  BY NewEntryEntry
<1>2. y = x => /\ f.bits = {RULE} /\ f.rule = r /\ f.inTable
               /\ f.owners = e[y].owners /\ f.dead = e[y].dead
  BY NewEntryEntry
<1>3. y = x => e[y].owners = {}
  BY DEF Consistent
<1> HIDE DEF f
<1> QED BY <1>1, <1>2, <1>3 DEF Consistent, RULE, MARKER, f

\* What is listed has its markers in every table below.
LEMMA ListedDown ==
  ASSUME NEW c \in Seq(Masks), NEW e, Complete(c, e, Len(c)),
         NEW j \in 1..Len(c), NEW k \in SUBSET c[j], Listed(e[<<c[j], k>>]),
         NEW g \in 1..(j - 1)
  PROVE  Marked(e, Id(c, g, k))
<1>1. k \in ListedKeys(e, c[j])
  BY DEF ListedKeys
<1> QED BY <1>1 DEF Complete, MarkedBelow, Marked

\* The levels from i on stay fresh when level i leaves markers.
LEMMA InsertMarkersFreshAbove ==
  ASSUME NEW c \in Seq(Masks), Nested(c), NEW e \in [Ids -> Entries], NEW P,
         NEW i \in 1..Len(c), NEW K \in SUBSET SUBSET Bits,
         \A x \in Ids : Consistent(e, x),
         NEW j \in i..Len(c), FreshAt(c, e, P, j)
  PROVE  FreshAt(c, InsertMarkers(c, e, i, K), P, j)
<1> DEFINE f == InsertMarkers(c, e, i, K)
<1> SUFFICES ASSUME NEW k \in SUBSET c[j], NEW h \in 0..(j - 1), Pure(f[<<c[j], k>>]),
                    Settled(c, f, P, k, h), Bare(c, f, k, h, j)
             PROVE  f[<<c[j], k>>].rule = RuleAt(c, f, k, h)
  BY DEF FreshAt, FreshFrom
<1>1. f[<<c[j], k>>] = e[<<c[j], k>>]
  BY InsertMarkersAbove
<1>2. \A y \in Ids : /\ e[y].inTable => f[y].rule = e[y].rule
                     /\ RULE \in f[y].bits <=> RULE \in e[y].bits
  BY InsertMarkersRule
<1> HIDE DEF f
<1>3. \A g \in 1..(j - 1) : Id(c, g, k) \in Ids
  <2> SUFFICES ASSUME NEW g \in 1..(j - 1) PROVE Id(c, g, k) \in Ids
    OBVIOUS
  <2>1. j \in 1..Len(c) /\ g \in 1..j
    OBVIOUS
  <2> QED BY <2>1, IdDown
<1>4. h = 0 \/ h \in 1..(j - 1)
  OBVIOUS
<1>5. Settled(c, e, P, k, h)
  BY <1>2, <1>3, <1>4 DEF Settled
<1>6. RuleAt(c, f, k, h) = RuleAt(c, e, k, h)
  BY <1>2, <1>3, <1>4, <1>5 DEF RuleAt, Settled, Consistent
<1>7. Bare(c, e, k, h, j)
  <2>1. \A g \in (h + 1)..(j - 1) : g \in 1..(j - 1)
    OBVIOUS
  <2> QED BY <1>2, <1>3, <2>1 DEF Bare
<1> QED BY <1>1, <1>5, <1>6, <1>7 DEF FreshAt, FreshFrom

\* A new entry, which nothing above needs, leaves all that is above alone.
LEMMA NewEntryFresh ==
  ASSUME NEW c \in Seq(Masks), Nested(c), NEW e \in [Ids -> Entries], NEW P,
         NEW i \in 1..Len(c), NEW r \in Rules, c[i] = r.mask,
         ~e[<<r.mask, r.key>>].inTable,
         \A x \in Ids : Consistent(e, x), Complete(c, e, Len(c)), Skips(c, e, P),
         \A j \in 1..Len(c) : FreshAt(c, e, P, j)
  PROVE  /\ Skips(c, NewEntry(e, r), P)
         /\ \A j \in 1..Len(c) : FreshAt(c, NewEntry(e, r), P, j)
<1> DEFINE x == <<r.mask, r.key>>
           n == NewEntry(e, r)
<1>1. x \in Ids
  BY RuleIdType
<1>2. \A y \in Ids : /\ y # x => n[y] = e[y]
                     /\ n[y].owners = e[y].owners
                     /\ Listed(e[y]) => Listed(n[y])
  <2> SUFFICES ASSUME NEW y \in Ids
               PROVE  /\ y # x => n[y] = e[y]
                      /\ n[y].owners = e[y].owners
                      /\ Listed(e[y]) => Listed(n[y])
    OBVIOUS
  <2>1. y # x => n[y] = e[y]
    BY NewEntryEntry
  <2>2. y = x => n[y].inTable /\ n[y].owners = e[y].owners
    BY NewEntryEntry
  <2> HIDE DEF n, x
  <2> QED BY <2>1, <2>2 DEF Listed
<1>3. ~Pure(n[x])
  <2>1. n[x].bits = {RULE}
    BY <1>1, NewEntryEntry
  <2> HIDE DEF n
  <2> QED BY <2>1 DEF Pure, RULE, MARKER
<1>4. ASSUME NEW j \in 1..Len(c), NEW k \in SUBSET c[j], Listed(e[<<c[j], k>>]),
             NEW g \in 1..(j - 1)
      PROVE  Id(c, g, k) # x
  <2>1. Marked(e, Id(c, g, k))
    BY <1>4, ListedDown
  <2> QED BY <2>1 DEF Marked
<1> HIDE DEF x, n
<1>5. Skips(c, n, P)
  <2> SUFFICES ASSUME NEW a \in 1..Len(c), NEW k \in SUBSET c[a],
                      NEW y \in n[<<c[a], k>>].owners
               PROVE  /\ y \in Ids /\ Listed(n[y])
                      /\ \E b \in (a + 1)..Len(c) :
                           /\ y[1] = c[b] /\ Id(c, a, y[2]) = <<c[a], k>>
                           /\ \A l \in (a + 1)..(b - 1) :
                                RULE \in n[Id(c, l, y[2])].bits => Id(c, l, y[2]) \in P
    BY DEF Skips
  <2>1. <<c[a], k>> \in Ids
    BY KeyEntry
  <2>2. y \in e[<<c[a], k>>].owners
    BY <1>2, <2>1
  <2>3. y \in Ids /\ Listed(e[y]) /\ Listed(n[y])
    BY <1>2, <2>2 DEF Skips
  <2>4. PICK b \in (a + 1)..Len(c) :
          /\ y[1] = c[b] /\ Id(c, a, y[2]) = <<c[a], k>>
          /\ \A l \in (a + 1)..(b - 1) :
               RULE \in e[Id(c, l, y[2])].bits => Id(c, l, y[2]) \in P
    BY <2>2 DEF Skips
  <2>5. b \in 1..Len(c) /\ y[2] \in SUBSET c[b] /\ y = <<c[b], y[2]>>
    <3>1. b \in 1..Len(c)
      OBVIOUS
    <3>2. y = <<y[1], y[2]>> /\ y[2] \in SUBSET y[1]
      BY <2>3, IdsBits
    <3> QED BY <2>4, <3>1, <3>2
  <2>6. ASSUME NEW l \in (a + 1)..(b - 1), RULE \in n[Id(c, l, y[2])].bits
        PROVE  Id(c, l, y[2]) \in P
    <3>1. l \in 1..b /\ l \in 1..(b - 1)
      BY <2>5
    <3>2. Id(c, l, y[2]) \in Ids
      BY <2>5, <3>1, IdDown
    <3>3. Id(c, l, y[2]) # x
      BY <1>4, <2>3, <2>5, <3>1
    <3> QED BY <1>2, <2>4, <2>6, <3>2, <3>3
  <2> QED BY <2>3, <2>4, <2>6
<1>6. ASSUME NEW j \in 1..Len(c) PROVE FreshAt(c, n, P, j)
  <2> SUFFICES ASSUME NEW k \in SUBSET c[j], NEW h \in 0..(j - 1), Pure(n[<<c[j], k>>]),
                      Settled(c, n, P, k, h), Bare(c, n, k, h, j)
               PROVE  n[<<c[j], k>>].rule = RuleAt(c, n, k, h)
    BY DEF FreshAt, FreshFrom
  <2>1. <<c[j], k>> \in Ids /\ <<c[j], k>> # x
    BY <1>3, KeyEntry
  <2>2. n[<<c[j], k>>] = e[<<c[j], k>>]
    BY <1>2, <2>1
  <2>3. Listed(e[<<c[j], k>>])
    BY <2>1, <2>2 DEF Pure, Consistent, Listed
  <2>4. \A g \in 1..(j - 1) : n[Id(c, g, k)] = e[Id(c, g, k)]
    <3> SUFFICES ASSUME NEW g \in 1..(j - 1) PROVE n[Id(c, g, k)] = e[Id(c, g, k)]
      OBVIOUS
    <3>1. g \in 1..j /\ Id(c, g, k) # x
      BY <1>4, <2>3
    <3>2. Id(c, g, k) \in Ids
      BY <3>1, IdDown
    <3> QED BY <1>2, <3>1, <3>2
  <2>5. h = 0 \/ h \in 1..(j - 1)
    OBVIOUS
  <2>6. Settled(c, e, P, k, h) /\ RuleAt(c, n, k, h) = RuleAt(c, e, k, h)
    BY <2>4, <2>5 DEF Settled, RuleAt
  <2>7. Bare(c, e, k, h, j)
    <3>1. \A g \in (h + 1)..(j - 1) : g \in 1..(j - 1)
      OBVIOUS
    <3> QED BY <2>4, <3>1 DEF Bare
  <2> QED BY <2>2, <2>6, <2>7 DEF FreshAt, FreshFrom
<1> QED BY <1>5, <1>6 DEF n

\* insert keeps all markers fresh, once an entry that it gives a rule in
\* place of a marker is in Q: setRule tells no owner.
LEMMA InsertAtFresh ==
  ASSUME NEW c \in Seq(Masks), Nested(c), NEW e \in [Ids -> Entries], NEW P, NEW Q,
         NEW i \in 1..Len(c), NEW r \in Rules, c[i] = r.mask,
         \A x \in Ids : Consistent(e, x), Complete(c, e, Len(c)), Skips(c, e, P),
         \A j \in 1..Len(c) : FreshAt(c, e, P, j),
         Q = IF e[<<r.mask, r.key>>].inTable THEN P \cup {<<r.mask, r.key>>} ELSE P
  PROVE  /\ Skips(c, InsertAt(c, e, i, r), Q)
         /\ \A j \in 1..Len(c) : FreshAt(c, InsertAt(c, e, i, r), Q, j)
<1> DEFINE x == <<r.mask, r.key>>
<1>1. x \in Ids /\ r.key \in SUBSET Bits /\ r.key \in SUBSET c[i] /\ Id(c, i, r.key) = x
  <2>1. x \in Ids /\ r.key \in SUBSET Bits /\ r.key \in SUBSET c[i]
    BY RuleIdType
  <2>2. Id(c, i, r.key) = <<c[i], r.key>>
    BY <2>1, IdSelf
  <2> QED BY <2>1, <2>2
<1>2. CASE e[x].inTable
  <2> DEFINE f == SetRule(c, e, i, r)
  <2>1. f = InsertAt(c, e, i, r) /\ Q = P \cup {x}
    BY <1>2 DEF InsertAt
  <2>2. \A y \in Ids : y # x => f[y] = e[y]
    BY SetRuleAlone
  <2>3. \A y \in Ids : /\ f[y].owners = e[y].owners /\ f[y].inTable = e[y].inTable
                       /\ f[y].dead = e[y].dead
                       /\ y = x => f[y].bits = e[y].bits \cup {RULE}
    BY SetRuleEntry
  <2> HIDE DEF f, x
  <2>4. ~Pure(f[x])
    <3>1. RULE \in f[x].bits
      BY <1>1, <2>3
    <3> QED BY <3>1 DEF Pure, RULE, MARKER
  <2>5. Skips(c, f, Q)
    <3>1. \A y \in Ids : Listed(e[y]) => Listed(f[y])
      BY <2>3 DEF Listed
    <3>2. \A y \in Ids : (RULE \in f[y].bits /\ y \notin Q) => (RULE \in e[y].bits /\ y \notin P)
      BY <2>1, <2>2
    <3> QED BY <2>3, <3>1, <3>2, SkipsMonotone
  <2>6. ASSUME NEW j \in 1..Len(c) PROVE FreshAt(c, f, Q, j)
    <3> SUFFICES ASSUME NEW k \in SUBSET c[j], NEW h \in 0..(j - 1), Pure(f[<<c[j], k>>]),
                        Settled(c, f, Q, k, h), Bare(c, f, k, h, j)
                 PROVE  f[<<c[j], k>>].rule = RuleAt(c, f, k, h)
      BY DEF FreshAt, FreshFrom
    <3>1. f[<<c[j], k>>] = e[<<c[j], k>>]
      <4>1. <<c[j], k>> \in Ids
        BY KeyEntry
      <4>2. <<c[j], k>> # x
        BY <2>4
      <4> QED BY <2>2, <4>1, <4>2
    <3>2. \A g \in 1..(j - 1) : Id(c, g, k) \in Ids
      <4> SUFFICES ASSUME NEW g \in 1..(j - 1) PROVE Id(c, g, k) \in Ids
        OBVIOUS
      <4>1. g \in 1..j
        OBVIOUS
      <4> QED BY <4>1, IdDown
    <3>3. h = 0 \/ h \in 1..(j - 1)
      OBVIOUS
    <3>4. Settled(c, e, P, k, h) /\ RuleAt(c, f, k, h) = RuleAt(c, e, k, h)
      BY <2>1, <2>2, <3>2, <3>3 DEF Settled, RuleAt
    <3>5. Bare(c, e, k, h, j)
      <4>1. \A g \in (h + 1)..(j - 1) : g \in 1..(j - 1)
        OBVIOUS
      <4>2. \A g \in 1..(j - 1) : RULE \in e[Id(c, g, k)].bits => RULE \in f[Id(c, g, k)].bits
        BY <2>2, <2>3, <3>2
      <4> QED BY <4>1, <4>2 DEF Bare
    <3> QED BY <3>1, <3>4, <3>5 DEF FreshAt, FreshFrom
  <2> QED BY <2>1, <2>5, <2>6
<1>3. CASE ~e[x].inTable
  <2> DEFINE n == NewEntry(e, r)
             K == {r.key}
             f == InsertMarkers(c, n, i, K)
  <2>1. InsertAt(c, e, i, r) = (IF i = 1 THEN n ELSE f) /\ Q = P
    BY <1>3 DEF InsertAt
  <2>2. n \in [Ids -> Entries]
    BY NewEntryType
  <2>3. Skips(c, n, P) /\ \A j \in 1..Len(c) : FreshAt(c, n, P, j)
    BY <1>3, NewEntryFresh
  <2>4. \A y \in Ids : Consistent(n, y)
    BY <1>3, NewEntryConsistent
  <2>5. K \in SUBSET SUBSET Bits
    BY <1>1
  <2>6. \A k \in K : Listed(n[Id(c, i, k)])
    <3>1. n[x].inTable
      BY <1>1, NewEntryEntry
    <3> HIDE DEF n, x
    <3> QED BY <1>1, <3>1 DEF Listed
  <2>7. MarkedBelow(c, n, i - 1)
    <3>1. i - 1 \in 0..Len(c) /\ Complete(c, e, i - 1)
      BY DEF Complete, MarkedBelow, LinkedBelow
    <3>2. ASSUME NEW j \in 1..(i - 1), NEW k \in SUBSET c[j]
          PROVE  n[<<c[j], k>>] = e[<<c[j], k>>]
      <4>1. j \in 1..Len(c) /\ c[j] # c[i]
        BY DEF Nested
      <4>2. <<c[j], k>> \in Ids /\ <<c[j], k>> # x
        BY <4>1, KeyEntry
      <4> QED BY <4>2, NewEntryEntry
    <3> HIDE DEF n
    <3>3. Complete(c, n, i - 1)
      BY <3>1, <3>2, CompleteSame
    <3> QED BY <3>3 DEF Complete
  <2> HIDE DEF n, K
  <2>8. Skips(c, f, P)
    BY <2>2, <2>3, <2>5, <2>6, <2>7, InsertMarkersSkips
  <2>9. ASSUME NEW j \in 1..Len(c) PROVE FreshAt(c, f, P, j)
    <3>1. CASE j < i
      <4>1. j \in 1..(i - 1) /\ \A g \in 1..(i - 1) : FreshAt(c, n, P, g)
        BY <2>3, <3>1
      <4> QED BY <2>2, <2>4, <2>5, <4>1, InsertMarkersFresh
    <3>2. CASE ~(j < i)
      <4>1. j \in i..Len(c)
        BY <3>2
      <4> QED BY <2>2, <2>3, <2>4, <2>5, <4>1, InsertMarkersFreshAbove
    <3> QED BY <3>1, <3>2
  <2> QED BY <2>1, <2>3, <2>8, <2>9
<1> QED BY <1>2, <1>3

-----------------------------------------------------------------------------
(***************************************************************************)
(* erase.                                                                  *)
(***************************************************************************)

LEMMA TopOfComplete ==
  ASSUME NEW c \in Seq(Masks), NEW e, NEW i \in 1..Len(c), Complete(c, e, Len(c))
  PROVE  TopComplete(c, e, i)
<1> SUFFICES ASSUME NEW j \in (i + 1)..Len(c), NEW k \in ListedKeys(e, c[j])
             PROVE  /\ <<c[j], k>> \in e[Id(c, j - 1, k)].owners
                    /\ \A h \in i..(j - 1) : Marked(e, Id(c, h, k))
  BY DEF TopComplete
<1>1. j \in 2..Len(c) /\ j \in 1..Len(c) /\ \A h \in i..(j - 1) : h \in 1..(j - 1)
  OBVIOUS
<1>2. <<c[j], k>> \in e[Id(c, j - 1, k)].owners
  BY <1>1 DEF Complete, LinkedBelow
<1>3. \A h \in 1..(j - 1) : Marked(e, Id(c, h, k))
  BY <1>1 DEF Complete, MarkedBelow, Marked
<1> QED BY <1>1, <1>2, <1>3

\* erase keeps all markers fresh: those above the entry that had learned its
\* rule are reached by its refresh, and so are those that had not.
LEMMA EraseAtFresh ==
  ASSUME NEW c \in Seq(Masks), Nested(c), NEW e \in [Ids -> Entries], NEW P,
         NEW i \in 1..Len(c), NEW r \in Rules, c[i] = r.mask,
         e[<<r.mask, r.key>>].inTable,
         \A x \in Ids : Consistent(e, x), Complete(c, e, Len(c)), Skips(c, e, P),
         \A j \in 1..Len(c) : FreshAt(c, e, P, j)
  PROVE  /\ Skips(c, EraseAt(c, e, i, r), P \ {<<r.mask, r.key>>})
         /\ \A j \in 1..Len(c) : FreshAt(c, EraseAt(c, e, i, r), P \ {<<r.mask, r.key>>}, j)
<1> DEFINE x      == <<r.mask, r.key>>
           Q      == P \ {x}
           cl     == [e EXCEPT ![x].bits = @ \ {RULE}, ![x].rule = NoRule]
           marker == IF i = 1 THEN x ELSE Id(c, i - 1, r.key)
           R      == [k \in {r.key} |-> cl[marker].rule]
           g      == Refresh(c, cl, i, {r.key}, R)
           f      == EraseAt(c, e, i, r)
<1>1. /\ x \in Ids /\ r.key \in SUBSET Bits /\ r.key \in SUBSET c[i]
      /\ x = <<c[i], r.key>> /\ Id(c, i, r.key) = x
  <2>1. x \in Ids /\ r.key \in SUBSET Bits /\ r.key \in SUBSET c[i]
    BY RuleIdType
  <2>2. Id(c, i, r.key) = <<c[i], r.key>>
    BY <2>1, IdSelf
  <2> QED BY <2>1, <2>2
<1>2. e[x] \in Entries
  BY <1>1
<1>3. cl \in [Ids -> Entries]
  BY <1>1, <1>2 DEF Entries
<1>4. /\ cl[x].bits = e[x].bits \ {RULE} /\ cl[x].owners = e[x].owners
      /\ cl[x].inTable = e[x].inTable /\ cl[x].dead = e[x].dead /\ cl[x].rule = NoRule
  BY <1>1, <1>2 DEF Entries
<1>5. \A y \in Ids : y # x => cl[y] = e[y]
  BY <1>1
<1>6. f = IF g[x].owners = {} THEN [g EXCEPT ![x].inTable = FALSE, ![x].dead = @ + 1] ELSE g
  BY DEF EraseAt
<1>7. R[r.key] = cl[marker].rule
  OBVIOUS
<1>8. \A y \in Ids : Listed(e[y]) => Listed(f[y])
  BY EraseAtListed
<1>9. \A y \in Ids : f[y].owners = e[y].owners
  BY EraseAtEntry
<1>10. x = <<r.mask, r.key>>
  OBVIOUS
<1> HIDE DEF x, cl, R, f
<1>11. \A y \in Ids : /\ g[y].bits = cl[y].bits
                      /\ ~Pure(cl[y]) => g[y].rule = cl[y].rule
  BY <1>3, RefreshEntry
<1>12. g \in [Ids -> Entries]
  <2>1. cl[marker].rule \in Rules \cup {NoRule}
    <3>1. marker \in Ids
      <4>1. CASE i = 1
        BY <1>1, <4>1
      <4>2. CASE i # 1
        <5>1. i - 1 \in 1..Len(c)
          BY <4>2
        <5> QED BY <1>1, <4>2, <5>1, IdType
      <4> QED BY <4>1, <4>2
    <3> HIDE DEF marker
    <3> QED BY <1>3, <3>1 DEF Entries
  <2>2. \A k \in {r.key} : R[k] \in Rules \cup {NoRule}
    BY <1>7, <2>1
  <2> QED BY <1>3, <2>2, RefreshType
<1> HIDE DEF g
<1>13. \A y \in Ids : f[y].bits = g[y].bits /\ f[y].rule = g[y].rule
  <2> SUFFICES ASSUME NEW y \in Ids PROVE f[y].bits = g[y].bits /\ f[y].rule = g[y].rule
    OBVIOUS
  <2>1. CASE y # x \/ g[x].owners # {}
    BY <1>1, <1>6, <1>12, <2>1
  <2>2. CASE y = x /\ g[x].owners = {}
    <3>1. f[x] = [g[x] EXCEPT !.inTable = FALSE, !.dead = @ + 1] /\ g[x] \in Entries
      BY <1>1, <1>6, <1>12, <2>2 DEF Entries
    <3> QED BY <2>2, <3>1 DEF Entries
  <2> QED BY <2>1, <2>2
<1>14. RULE \notin cl[x].bits
  BY <1>4
<1>15. Skips(c, f, Q)
  <2>1. \A y \in Ids : (RULE \in f[y].bits /\ y \notin Q) => (RULE \in e[y].bits /\ y \notin P)
    BY <1>5, <1>11, <1>13, <1>14
  <2> QED BY <1>8, <1>9, <2>1, SkipsMonotone
<1>16. Skips(c, cl, Q)
  <2>1. \A y \in Ids : (RULE \in cl[y].bits /\ y \notin Q) => (RULE \in e[y].bits /\ y \notin P)
    BY <1>5, <1>14
  <2>2. \A y \in Ids : cl[y].owners = e[y].owners
    BY <1>4, <1>5
  <2>3. \A y \in Ids : Listed(e[y]) => Listed(cl[y])
    BY <1>4, <1>5 DEF Listed
  <2> QED BY <2>1, <2>2, <2>3, SkipsMonotone
<1>17. TopComplete(c, cl, i)
  <2>1. \A y \in Ids : Listed(cl[y]) => Listed(e[y])
    BY <1>4, <1>5 DEF Listed
  <2>2. \A y \in Ids : Marked(e, y) => Marked(cl, y)
    BY <1>4, <1>5 DEF Marked, RULE, MARKER
  <2>3. \A y \in Ids : e[y].owners \subseteq cl[y].owners
    BY <1>4, <1>5
  <2>4. Len(c) \in 0..Len(c)
    OBVIOUS
  <2>5. Complete(c, cl, Len(c))
    BY <2>1, <2>2, <2>3, <2>4, CompleteMonotone
  <2> QED BY <2>5, TopOfComplete
<1>18. \A y \in Ids : Pure(cl[y]) => cl[y].inTable
  <2> SUFFICES ASSUME NEW y \in Ids, Pure(cl[y]) PROVE cl[y].inTable
    OBVIOUS
  <2>1. y # x => e[y].inTable
    BY <1>5 DEF Consistent, Pure
  <2> QED BY <1>4, <1>5, <1>10, <2>1
<1>19. \A j \in 1..(i - 1) : \A k \in SUBSET c[j] :
         g[<<c[j], k>>] = e[<<c[j], k>>] /\ <<c[j], k>> # x
  <2> SUFFICES ASSUME NEW j \in 1..(i - 1), NEW k \in SUBSET c[j]
               PROVE  g[<<c[j], k>>] = e[<<c[j], k>>] /\ <<c[j], k>> # x
    OBVIOUS
  <2>1. j \in 1..Len(c) /\ c[j] # c[i]
    BY DEF Nested
  <2>2. <<c[j], k>> \in Ids /\ <<c[j], k>> # x
    <3>1. <<c[j], k>> \in Ids
      BY <2>1, KeyEntry
    <3>2. <<c[j], k>> # <<c[i], r.key>>
      BY <2>1
    <3> QED BY <1>1, <3>1, <3>2
  <2>3. g[<<c[j], k>>] = cl[<<c[j], k>>]
    <3>1. Refresh(c, cl, i, {r.key}, R)[<<c[j], k>>] = cl[<<c[j], k>>]
      BY <1>3, RefreshBelow
    <3> QED BY <3>1 DEF g
  <2> QED BY <1>5, <2>2, <2>3
<1>20. ASSUME NEW j \in 1..Len(c) PROVE FreshAt(c, f, Q, j)
  <2> SUFFICES ASSUME NEW k \in SUBSET c[j], NEW h \in 0..(j - 1), Pure(f[<<c[j], k>>]),
                      Settled(c, f, Q, k, h), Bare(c, f, k, h, j)
               PROVE  f[<<c[j], k>>].rule = RuleAt(c, f, k, h)
    BY DEF FreshAt, FreshFrom
  <2> DEFINE y == <<c[j], k>>
  <2>1. \A l \in 1..j : /\ Id(c, l, k) \in Ids /\ l \in 1..Len(c)
                        /\ Id(c, l, k) = <<c[l], Key(c[l], k)>>
                        /\ Key(c[l], k) \in SUBSET c[l]
                        /\ \A n \in 1..l : Id(c, n, Key(c[l], k)) = Id(c, n, k)
    BY IdDown
  <2>2. y \in Ids /\ Id(c, j, k) = y /\ j \in 1..j
    BY KeyEntry
  <2>3. h = 0 \/ (h \in 1..(j - 1) /\ h \in 1..j)
    OBVIOUS
  <2>4. RuleAt(c, f, k, h) = RuleAt(c, g, k, h) /\ f[y].rule = g[y].rule
    <3> HIDE DEF y
    <3> QED BY <1>13, <2>1, <2>2, <2>3 DEF RuleAt
  <2>5. Pure(cl[y])
    <3>1. Pure(f[y])
      OBVIOUS
    <3> HIDE DEF y
    <3> QED BY <1>11, <1>13, <2>2, <3>1 DEF Pure
  <2>6. \A n \in (h + 1)..(j - 1) : RULE \notin cl[Id(c, n, k)].bits /\ n \in 1..j
    <3> SUFFICES ASSUME NEW n \in (h + 1)..(j - 1)
                 PROVE  RULE \notin cl[Id(c, n, k)].bits /\ n \in 1..j
      OBVIOUS
    <3>1. n \in 1..j
      BY <2>3
    <3>2. RULE \notin f[Id(c, n, k)].bits
      BY DEF Bare
    <3> QED BY <1>11, <1>13, <2>1, <3>1, <3>2
  <2>7. h # 0 => RULE \in cl[Id(c, h, k)].bits /\ Id(c, h, k) \notin Q /\ Id(c, h, k) # x
    BY <1>11, <1>13, <1>14, <2>1, <2>3 DEF Settled
  <2>8. h # 0 => RULE \in e[Id(c, h, k)].bits /\ Id(c, h, k) \notin P
    BY <1>5, <2>1, <2>3, <2>7
  <2>9. Settled(c, e, P, k, h) /\ Settled(c, cl, Q, k, h)
    BY <2>7, <2>8 DEF Settled
  <2>10. RuleAt(c, g, k, h) = RuleAt(c, e, k, h)
    <3>1. h # 0 => ~Pure(cl[Id(c, h, k)])
      BY <2>7 DEF Pure, RULE, MARKER
    <3>2. h # 0 => g[Id(c, h, k)].rule = e[Id(c, h, k)].rule
      BY <1>5, <1>11, <2>1, <2>3, <2>7, <3>1
    <3> QED BY <3>2 DEF RuleAt
  <2>11. CASE Id(c, i, k) # x \/ j < i
    <3>1. \A l \in 1..j : Id(c, l, k) # x
      <4> SUFFICES ASSUME NEW l \in 1..j, Id(c, l, k) = x PROVE FALSE
        OBVIOUS
      <4>1. c[l] = c[i]
        BY <1>1 DEF Id
      <4>2. l = i
        BY <2>1, <4>1, LevelUnique
      <4> QED BY <2>11, <4>2
    <3>2. Bare(c, e, k, h, j)
      BY <1>5, <2>1, <2>6, <3>1 DEF Bare
    <3>3. g[y] = cl[y]
      <4>1. CASE j < i
        <5>1. j \in 1..(i - 1)
          BY <4>1
        <5> QED BY SMTT(30), <1>3, <5>1, RefreshBelow DEF g
      <4>2. CASE Id(c, i, k) # x
        <5>1. Key(c[i], k) # r.key
          BY <1>1, <4>2 DEF Id
        <5>2. y[2] = k
          OBVIOUS
        <5> HIDE DEF y
        <5> QED BY <2>2, <5>1, <5>2 DEF g, Refresh
      <4> QED BY <2>11, <4>1, <4>2
    <3>4. y # x
      BY <2>2, <3>1
    <3>5. g[y] = e[y]
      <4> HIDE DEF y
      <4> QED BY <1>5, <2>2, <3>3, <3>4
    <3>6. e[y].rule = RuleAt(c, e, k, h)
      <4>1. Pure(e[y])
        <5> HIDE DEF y
        <5> QED BY <1>5, <2>2, <2>5, <3>4
      <4> QED BY <2>9, <3>2, <4>1 DEF FreshAt, FreshFrom
    <3> QED BY <2>4, <2>10, <3>5, <3>6
  <2>12. CASE Id(c, i, k) = x /\ i <= j /\ h >= i
    <3>1. h # i /\ h # 0 /\ h \in i..(j - 1)
      BY <2>7, <2>12
    <3>2. g[y] = cl[y]
      <4>1. j \in i..Len(c)
        BY <2>12
      <4>2. RULE \in cl[Id(c, h, k)].bits /\ Id(c, h, k) \notin Q
        BY <2>7, <3>1
      <4> HIDE DEF Q
      <4>3. Refresh(c, cl, i, {r.key}, R)[<<c[j], k>>] = cl[<<c[j], k>>]
        <5>1. h \in i..(j - 1)
          BY <3>1
        <5>2. RULE \in cl[Id(c, h, k)].bits
          BY <4>2
        <5>3. Id(c, h, k) \notin Q
          BY <4>2
        <5> QED BY SMTT(30), <1>3, <1>16, <4>1, <5>1, <5>2, <5>3, RefreshStopped
      <4> QED BY <4>3 DEF g
    <3>3. \A l \in (h + 1)..j : Id(c, l, k) # x
      <4> SUFFICES ASSUME NEW l \in (h + 1)..j, Id(c, l, k) = x PROVE FALSE
        OBVIOUS
      <4>1. l \in 1..j /\ l # i
        BY <3>1
      <4>2. c[l] = c[i]
        BY <1>1 DEF Id
      <4> QED BY <2>1, <4>1, <4>2, LevelUnique
    <3>4. Bare(c, e, k, h, j)
      <4> SUFFICES ASSUME NEW l \in (h + 1)..(j - 1) PROVE RULE \notin e[Id(c, l, k)].bits
        BY DEF Bare
      <4>1. l \in (h + 1)..j
        OBVIOUS
      <4> QED BY <1>5, <2>1, <2>6, <3>3, <4>1
    <3>5. y # x
      <4>1. j \in (h + 1)..j
        OBVIOUS
      <4> QED BY <2>2, <3>3, <4>1
    <3>6. Pure(e[y]) /\ g[y] = e[y]
      <4> HIDE DEF y
      <4> QED BY <1>5, <2>2, <2>5, <3>2, <3>5
    <3>7. e[y].rule = RuleAt(c, e, k, h)
      BY <2>9, <3>4, <3>6 DEF FreshAt, FreshFrom
    <3> QED BY <2>4, <2>10, <3>6, <3>7
  <2>13. CASE Id(c, i, k) = x /\ i <= j /\ h < i
    <3>1. j \in i..Len(c) /\ i \in 1..j
      BY <2>13
    <3>2. \A l \in i..j : Pure(cl[Id(c, l, k)])
      <4> SUFFICES ASSUME NEW l \in i..j, l # j PROVE Pure(cl[Id(c, l, k)])
        BY <2>2, <2>5
      <4>1. l \in i..(j - 1) /\ l \in 1..j /\ j \in (i + 1)..Len(c) /\ l \in (h + 1)..(j - 1)
        BY <2>13
      <4>2. k \in ListedKeys(cl, c[j])
        BY <1>18, <2>2, <2>5 DEF ListedKeys, Listed
      <4>3. MARKER \in cl[Id(c, l, k)].bits
        BY <1>17, <4>1, <4>2 DEF TopComplete, Marked
      <4>4. RULE \notin cl[Id(c, l, k)].bits
        BY <2>6, <4>1
      <4> QED BY <1>3, <2>1, <4>1, <4>3, <4>4, PureMarked
    <3>3. Key(c[i], k) = r.key
      BY <1>1, <2>13 DEF Id
    <3>4. g[y].rule = cl[marker].rule
      <4>1. Key(c[i], k) \in {r.key}
        BY <3>3
      <4>2. g[y].rule = R[Key(c[i], k)]
        <5>1. Refresh(c, cl, i, {r.key}, R)[<<c[j], k>>].rule = R[Key(c[i], k)]
          BY SMTT(30), <1>3, <1>17, <1>18, <3>1, <3>2, <4>1, RefreshReached
        <5> QED BY <5>1 DEF g
      <4> QED BY <1>7, <3>3, <4>2
    <3>5. CASE i = 1
      <4>1. h = 0 /\ marker = x
        BY <2>13, <3>5
      <4> QED BY <1>4, <2>4, <3>4, <4>1 DEF RuleAt
    <3>6. CASE i # 1
      <4> DEFINE s == Key(c[i - 1], k)
      <4>1. i - 1 \in 1..(i - 1) /\ i - 1 \in 1..j /\ i - 1 \in 1..i /\ i - 1 \in 1..Len(c)
        BY <3>1, <3>6
      <4>2. marker = Id(c, i - 1, k)
        BY <3>1, <3>3, <3>6, <4>1, IdThrough
      <4>3. /\ s \in SUBSET c[i - 1] /\ Id(c, i - 1, k) = <<c[i - 1], s>> /\ Id(c, i - 1, k) \in Ids
            /\ \A n \in 1..(i - 1) : Id(c, n, s) = Id(c, n, k)
        BY <2>1, <4>1
      <4> HIDE DEF s
      <4>4. /\ g[Id(c, i - 1, k)] = e[Id(c, i - 1, k)] /\ Id(c, i - 1, k) # x
            /\ cl[Id(c, i - 1, k)] = e[Id(c, i - 1, k)]
        BY <1>5, <1>19, <4>1, <4>3
      <4>5. g[y].rule = e[Id(c, i - 1, k)].rule
        BY <3>4, <4>2, <4>4
      <4>6. CASE h = i - 1
        <5>1. h # 0
          BY <3>6, <4>6
        <5> QED BY <2>4, <2>10, <4>5, <4>6, <5>1 DEF RuleAt
      <4>7. CASE h < i - 1
        <5>1. h \in 0..((i - 1) - 1) /\ i - 1 \in (h + 1)..(j - 1)
          BY <3>1, <4>1, <4>7
        <5>2. Marked(e, Id(c, i - 1, k))
          <6>1. Listed(e[<<c[i], r.key>>])
            BY <1>1, <1>10 DEF Listed
          <6>2. Marked(e, Id(c, i - 1, r.key))
            BY <1>1, <4>1, <6>1, ListedDown
          <6> QED BY <3>6, <4>2, <6>2
        <5>3. RULE \notin e[Id(c, i - 1, k)].bits
          BY <2>6, <4>4, <5>1
        <5>4. Pure(e[<<c[i - 1], s>>])
          BY <4>3, <5>2, <5>3, PureMarked DEF Marked
        <5>5. h = 0 \/ (h \in 1..(i - 1) /\ Id(c, h, s) = Id(c, h, k))
          BY <4>3, <5>1
        <5>6. Settled(c, e, P, s, h) /\ RuleAt(c, e, s, h) = RuleAt(c, e, k, h)
          BY <2>9, <5>5 DEF Settled, RuleAt
        <5>7. Bare(c, e, s, h, i - 1)
          <6> SUFFICES ASSUME NEW l \in (h + 1)..((i - 1) - 1)
                       PROVE  RULE \notin e[Id(c, l, s)].bits
            BY DEF Bare
          <6>1. l \in (h + 1)..(j - 1) /\ l \in 1..(i - 1) /\ l \in 1..j
            BY <3>1, <5>1
          <6>2. g[Id(c, l, k)] = e[Id(c, l, k)] /\ Id(c, l, k) # x
            <7>1. Id(c, l, k) = <<c[l], Key(c[l], k)>> /\ Key(c[l], k) \in SUBSET c[l]
              BY <2>1, <6>1
            <7>2. g[<<c[l], Key(c[l], k)>>] = e[<<c[l], Key(c[l], k)>>] /\ <<c[l], Key(c[l], k)>> # x
              BY <1>19, <6>1, <7>1
            <7> QED BY <7>1, <7>2
          <6>3. cl[Id(c, l, k)] = e[Id(c, l, k)]
            BY <1>5, <2>1, <6>1, <6>2
          <6> QED BY <2>6, <4>3, <6>1, <6>3
        <5>8. e[<<c[i - 1], s>>].rule = RuleAt(c, e, s, h)
          BY <4>1, <4>3, <5>1, <5>4, <5>6, <5>7 DEF FreshAt, FreshFrom
        <5> QED BY <2>4, <2>10, <4>3, <4>5, <5>6, <5>8
      <4> QED BY <2>13, <4>1, <4>6, <4>7
    <3> QED BY <3>5, <3>6
  <2> QED BY <2>11, <2>12, <2>13
<1> QED BY <1>10, <1>15, <1>20 DEF f

-----------------------------------------------------------------------------
(***************************************************************************)
(* The best of the rules a packet meets.                                   *)
(***************************************************************************)

\* A matching rule with a higher priority than all others is the answer.
LEMMA BestMatchUnique ==
  ASSUME NEW S \in SUBSET Rules, NEW p, NEW t \in S, Matches(t, p),
         \A s \in S : (Matches(s, p) /\ s # t) => s.priority < t.priority
  PROVE  BestMatch(S, p) = t
<1> DEFINE hits == {r \in S : Matches(r, p)}
           top  == CHOOSE r \in hits : \A s \in hits : s.priority <= r.priority
<1>1. t \in hits /\ hits \subseteq Rules
  OBVIOUS
<1>2. \A s \in hits : s.priority \in Nat
  BY <1>1, RulesAssumption
<1>3. \A s \in hits : s # t => s.priority < t.priority
  OBVIOUS
<1>4. BestMatch(S, p) = top
  <2>1. hits # {}
    BY <1>1
  <2> QED BY <2>1 DEF BestMatch
<1> HIDE DEF hits
<1>5. \A s \in hits : s.priority <= t.priority
  BY <1>1, <1>2, <1>3
<1>6. top \in hits /\ \A s \in hits : s.priority <= top.priority
  BY <1>1, <1>5
<1> HIDE DEF top
<1>7. top = t
  BY <1>1, <1>2, <1>3, <1>6
<1> QED BY <1>4, <1>7

\* Of the levels up to n with some property there is a highest, or none.
LEMMA HighestLevel ==
  ASSUME NEW n \in Nat, NEW T \in SUBSET (1..n)
  PROVE  \E h \in 0..n : (h = 0 \/ h \in T) /\ \A g \in (h + 1)..n : g \notin T
<1>1. CASE T = {}
  <2>1. 0 \in 0..n
    OBVIOUS
  <2> QED BY <1>1, <2>1
<1>2. CASE T # {}
  <2>1. T \in SUBSET (0..n)
    OBVIOUS
  <2>2. PICK h \in T : \A g \in T : g <= h
    BY <1>2, <2>1, GreatestNat
  <2>3. h \in 0..n
    BY <2>1
  <2>4. \A g \in (h + 1)..n : g \notin T
    BY <2>2, <2>3
  <2> QED BY <2>2, <2>3, <2>4
<1> QED BY <1>1, <1>2

\* The highest entry with a rule, of those for packet p up to level n, holds
\* the best rule if S has those rules and no others that match.
LEMMA ColumnBest ==
  ASSUME NEW c \in Seq(Masks), Nested(c), NEW e \in [Ids -> Entries],
         \A x \in Ids : Consistent(e, x), NEW p \in SUBSET Bits, NEW n \in 0..Len(c),
         NEW S \in SUBSET Rules,
         \A g \in 1..n : RULE \in e[Id(c, g, p)].bits => e[Id(c, g, p)].rule \in S,
         \A r \in S : Matches(r, p) =>
           \E g \in 1..n : RULE \in e[Id(c, g, p)].bits /\ r = e[Id(c, g, p)].rule,
         NEW h \in 0..n, h = 0 \/ RULE \in e[Id(c, h, p)].bits, Bare(c, e, p, h, n + 1)
  PROVE  BestMatch(S, p) = RuleAt(c, e, p, h)
<1>1. \A g \in 1..n : RULE \in e[Id(c, g, p)].bits => g <= h
  <2> SUFFICES ASSUME NEW g \in 1..n, RULE \in e[Id(c, g, p)].bits, ~(g <= h) PROVE FALSE
    OBVIOUS
  <2>1. g \in (h + 1)..((n + 1) - 1)
    OBVIOUS
  <2> QED BY <2>1 DEF Bare
<1>2. CASE h = 0
  <2>1. {r \in S : Matches(r, p)} = {}
    BY <1>1, <1>2
  <2> QED BY <1>2, <2>1 DEF BestMatch, RuleAt
<1>3. CASE h # 0
  <2> DEFINE t == e[Id(c, h, p)].rule
  <2>1. h \in 1..n /\ h \in 1..Len(c) /\ RULE \in e[Id(c, h, p)].bits
    BY <1>3
  <2>2. ASSUME NEW g \in 1..n, RULE \in e[Id(c, g, p)].bits
        PROVE  LET s == e[Id(c, g, p)].rule
               IN  s \in Rules /\ s.mask = c[g] /\ s.key = Key(c[g], p)
    <3>1. g \in 1..Len(c)
      OBVIOUS
    <3>2. Id(c, g, p) \in Ids
      BY <3>1, IdType
    <3>3. /\ e[Id(c, g, p)].rule \in Rules
          /\ <<e[Id(c, g, p)].rule.mask, e[Id(c, g, p)].rule.key>> = Id(c, g, p)
      BY <2>2, <3>2 DEF Consistent
    <3> QED BY <3>3 DEF Id
  <2>3. t \in S /\ t \in Rules /\ t.mask = c[h] /\ t.key = Key(c[h], p)
    BY <2>1, <2>2
  <2>4. Matches(t, p)
    <3> HIDE DEF t
    <3> QED BY <2>3 DEF Matches
  <2>5. ASSUME NEW s \in S, Matches(s, p), s # t PROVE s.priority < t.priority
    <3>1. PICK g \in 1..n : RULE \in e[Id(c, g, p)].bits /\ s = e[Id(c, g, p)].rule
      BY <2>5
    <3>2. s \in Rules /\ s.mask = c[g] /\ s.key = Key(c[g], p)
      BY <2>2, <3>1
    <3>3. g # h
      BY <2>5, <3>1
    <3>4. g < h
      BY <1>1, <3>1, <3>3
    <3>5. Cover(c[g], c[h])
      <4>1. g \in 1..Len(c)
        OBVIOUS
      <4> QED BY <2>1, <3>4, <4>1 DEF Nested
    <3>6. Matches(s, t.key)
      <4> HIDE DEF t
      <4>1. Key(c[g], Key(c[h], p)) = Key(c[g], p)
        BY <3>5, Zenon DEF Cover, Key
      <4> QED BY <2>3, <3>2, <4>1 DEF Matches
    <3>7. Cover(s.mask, t.mask)
      <4> HIDE DEF t
      <4> QED BY <2>3, <3>2, <3>5
    <3> HIDE DEF t
    <3> QED BY <2>3, <2>5, <3>2, <3>6, <3>7, NestedPriority DEF NestedIn
  <2>6. RuleAt(c, e, p, h) = t
    BY <1>3 DEF RuleAt
  <2> HIDE DEF t
  <2>7. BestMatch(S, p) = t
    BY <2>3, <2>4, <2>5, BestMatchUnique
  <2> QED BY <2>6, <2>7
<1> QED BY <1>2, <1>3

\* The entries for packet p: of these tuples only the first n have one, none
\* is in P, and their rules are those of S that match p.
EndsAt(c, e, p, n) == \A g \in 1..Len(c) : e[Id(c, g, p)].inTable <=> g <= n

Avoids(c, p, P) == \A g \in 1..Len(c) : Id(c, g, p) \notin P

HasRules(c, e, p, S) ==
  /\ \A g \in 1..Len(c) : RULE \in e[Id(c, g, p)].bits => e[Id(c, g, p)].rule \in S
  /\ \A r \in S : Matches(r, p) =>
       \E g \in 1..Len(c) : RULE \in e[Id(c, g, p)].bits /\ r = e[Id(c, g, p)].rule

\* In a column that meets no entry in P, the longest tuple with an entry has
\* the best of the rules of the column.
LEMMA TopBest ==
  ASSUME NEW c \in Seq(Masks), Nested(c), NEW e \in [Ids -> Entries],
         \A x \in Ids : Consistent(e, x), NEW P, \A j \in 1..Len(c) : FreshAt(c, e, P, j),
         NEW p \in SUBSET Bits, NEW n \in 0..Len(c), NEW S \in SUBSET Rules,
         Avoids(c, p, P), EndsAt(c, e, p, n), HasRules(c, e, p, S)
  PROVE  BestMatch(S, p) = IF n = 0 THEN NoRule ELSE e[Id(c, n, p)].rule
<1> USE DEF Avoids, EndsAt, HasRules
<1>1. Len(c) \in Nat
  OBVIOUS
<1>2. \A g \in 1..Len(c) : Id(c, g, p) \in Ids
  BY IdType
<1>3. \A g \in 1..n : g \in 1..Len(c)
  BY <1>1
<1> DEFINE T == {g \in 1..n : RULE \in e[Id(c, g, p)].bits}
<1>4. PICK h \in 0..n : (h = 0 \/ h \in T) /\ \A g \in (h + 1)..n : g \notin T
  <2>1. n \in Nat /\ T \in SUBSET (1..n)
    BY <1>1
  <2> HIDE DEF T
  <2> QED BY <2>1, HighestLevel
<1>5. h # 0 => RULE \in e[Id(c, h, p)].bits /\ h \in 1..n
  BY <1>4
<1>6. \A g \in (h + 1)..n : RULE \notin e[Id(c, g, p)].bits
  <2>1. \A g \in (h + 1)..n : g \in 1..n
    BY <1>1
  <2> QED BY <1>4, <2>1
<1> HIDE DEF T
<1>7. BestMatch(S, p) = RuleAt(c, e, p, h)
  <2>1. \A g \in 1..n : RULE \in e[Id(c, g, p)].bits => e[Id(c, g, p)].rule \in S
    BY <1>3
  <2>2. ASSUME NEW r \in S, Matches(r, p)
        PROVE  \E g \in 1..n : RULE \in e[Id(c, g, p)].bits /\ r = e[Id(c, g, p)].rule
    <3>1. PICK g \in 1..Len(c) : RULE \in e[Id(c, g, p)].bits /\ r = e[Id(c, g, p)].rule
      BY <2>2
    <3>2. e[Id(c, g, p)].inTable
      BY <1>2, <3>1 DEF Consistent
    <3>3. g \in 1..n
      BY <1>1, <3>2
    <3> QED BY <3>1, <3>3
  <2>3. h = 0 \/ RULE \in e[Id(c, h, p)].bits
    BY <1>5
  <2>4. Bare(c, e, p, h, n + 1)
    <3>1. (n + 1) - 1 = n
      BY <1>1
    <3> QED BY <1>6, <3>1 DEF Bare
  <2> QED BY <1>1, <2>1, <2>2, <2>3, <2>4, ColumnBest
<1>8. CASE h = n
  BY <1>7, <1>8 DEF RuleAt
<1>9. CASE h # n
  <2> DEFINE k == Key(c[n], p)
  <2>1. n \in 1..Len(c) /\ n \in 1..n /\ n # 0 /\ h \in 0..(n - 1) /\ n \in (h + 1)..n
    BY <1>1, <1>9
  <2>2. Pure(e[Id(c, n, p)])
    <3>1. /\ e[Id(c, n, p)].bits # {} /\ RULE \notin e[Id(c, n, p)].bits
          /\ e[Id(c, n, p)].bits \in SUBSET {RULE, MARKER}
      BY <1>2, <1>6, <2>1 DEF Consistent, Entries
    <3> QED BY <3>1 DEF Pure
  <2>3. k \in SUBSET c[n] /\ Id(c, n, p) = <<c[n], k>>
    BY DEF Id, Key
  <2>4. \A g \in 1..n : Id(c, g, k) = Id(c, g, p)
    BY <2>1, IdThrough
  <2> HIDE DEF k
  <2>5. h = 0 \/ Id(c, h, k) = Id(c, h, p)
    BY <1>5, <2>4
  <2>6. Settled(c, e, P, k, h) /\ RuleAt(c, e, k, h) = RuleAt(c, e, p, h)
    BY <1>3, <1>5, <2>5 DEF Settled, RuleAt
  <2>7. Bare(c, e, k, h, n)
    <3> SUFFICES ASSUME NEW g \in (h + 1)..(n - 1) PROVE RULE \notin e[Id(c, g, k)].bits
      BY DEF Bare
    <3>1. g \in (h + 1)..n /\ g \in 1..n
      BY <1>1
    <3> QED BY <1>6, <2>4, <3>1
  <2>8. e[<<c[n], k>>].rule = RuleAt(c, e, k, h)
    BY <2>1, <2>2, <2>3, <2>6, <2>7 DEF FreshAt, FreshFrom
  <2> QED BY <1>7, <2>1, <2>3, <2>6, <2>8
<1> QED BY <1>8, <1>9

\* An entry that has no rule yet is in its table if and only if it is pure.
LEMMA PureIfInTable ==
  ASSUME NEW e \in [Ids -> Entries], \A x \in Ids : Consistent(e, x),
         NEW r \in Rules, ~HoldsRule(e, r)
  PROVE  /\ Pure(e[<<r.mask, r.key>>]) <=> e[<<r.mask, r.key>>].inTable
         /\ RULE \notin e[<<r.mask, r.key>>].bits
<1> DEFINE x == <<r.mask, r.key>>
<1>1. x \in Ids /\ Consistent(e, x)
  BY RuleIdType
<1>2. RULE \notin e[x].bits
  <2> SUFFICES ASSUME RULE \in e[x].bits PROVE FALSE
    OBVIOUS
  <2>1. e[x].rule \in Rules /\ e[x].rule.mask = r.mask /\ e[x].rule.key = r.key
    BY <1>1 DEF Consistent
  <2>2. e[x].rule = r
    BY <2>1, DistinctRules DEF DistinctIn
  <2>3. e[x].inTable
    BY <1>1 DEF Consistent
  <2> QED BY <2>2, <2>3 DEF HoldsRule
<1>3. Pure(e[x]) => e[x].inTable
  BY <1>1 DEF Consistent, Pure
<1>4. e[x].inTable => Pure(e[x])
  <2> SUFFICES ASSUME e[x].inTable PROVE Pure(e[x])
    OBVIOUS
  <2>1. e[x].bits # {} /\ e[x].bits \in SUBSET {RULE, MARKER}
    BY <1>1 DEF Consistent, Entries
  <2>2. MARKER \in e[x].bits
    BY <1>2, <2>1
  <2> HIDE DEF x
  <2> QED BY <1>1, <1>2, <2>2, PureMarked
<1> QED BY <1>2, <1>3, <1>4

\* Skips depends on the entries of the chain's tuples only.
LEMMA SkipsSame ==
  ASSUME NEW c \in Seq(Masks), Nested(c), NEW e, NEW f, NEW P, Skips(c, e, P),
         \A j \in 1..Len(c) : \A k \in SUBSET c[j] : f[<<c[j], k>>] = e[<<c[j], k>>]
  PROVE  Skips(c, f, P)
<1> SUFFICES ASSUME NEW a \in 1..Len(c), NEW k \in SUBSET c[a],
                    NEW y \in f[<<c[a], k>>].owners
             PROVE  /\ y \in Ids /\ Listed(f[y])
                    /\ \E b \in (a + 1)..Len(c) :
                         /\ y[1] = c[b] /\ Id(c, a, y[2]) = <<c[a], k>>
                         /\ \A l \in (a + 1)..(b - 1) :
                              RULE \in f[Id(c, l, y[2])].bits => Id(c, l, y[2]) \in P
  BY DEF Skips
<1>1. y \in e[<<c[a], k>>].owners
  OBVIOUS
<1>2. y \in Ids /\ Listed(e[y])
  BY <1>1 DEF Skips
<1>3. PICK b \in (a + 1)..Len(c) :
        /\ y[1] = c[b] /\ Id(c, a, y[2]) = <<c[a], k>>
        /\ \A l \in (a + 1)..(b - 1) :
             RULE \in e[Id(c, l, y[2])].bits => Id(c, l, y[2]) \in P
  BY <1>1 DEF Skips
<1>4. \A l \in 1..Len(c) : f[Id(c, l, y[2])] = e[Id(c, l, y[2])]
  BY DEF Id, Key
<1>5. \A l \in (a + 1)..(b - 1) : l \in 1..Len(c)
  OBVIOUS
<1>6. f[y] = e[y]
  <2>1. y = <<y[1], y[2]>> /\ y[2] \in SUBSET y[1]
    BY <1>2, IdsBits
  <2>2. b \in 1..Len(c)
    OBVIOUS
  <2>3. y = <<c[b], y[2]>> /\ y[2] \in SUBSET c[b]
    BY <1>3, <2>1
  <2> QED BY <2>2, <2>3
<1> QED BY <1>2, <1>3, <1>4, <1>5, <1>6

-----------------------------------------------------------------------------
(***************************************************************************)
(* What has a rule of its own, and which.                                  *)
(***************************************************************************)

\* Entry y has the same rule of its own in e and f, or none in either.
SameRule(e, f, y) ==
  /\ RULE \in f[y].bits <=> RULE \in e[y].bits
  /\ RULE \in e[y].bits => f[y].rule = e[y].rule

\* Leaving markers gives and takes no rule.
LEMMA LeaveMarkersSameRule ==
  ASSUME NEW c \in Seq(Masks), NEW e \in [Ids -> Entries], NEW i \in 1..Len(c),
         NEW y \in Ids, Consistent(e, y)
  PROVE  SameRule(e, LeaveMarkers(c, e, i), y)
<1> DEFINE K  == ListedKeys(e, c[i])
           e1 == InsertMarkers(c, e, i, K)
           R  == [k \in K |-> e1[Id(c, i - 1, k)].rule]
<1>1. CASE i = 1
  BY <1>1 DEF LeaveMarkers, SameRule
<1>2. CASE i # 1
  <2>1. LeaveMarkers(c, e, i) = Refresh(c, e1, i, K, R)
    BY <1>2 DEF LeaveMarkers
  <2>2. K \in SUBSET SUBSET Bits
    BY ListedKeysType
  <2> HIDE DEF K
  <2>3. e1 \in [Ids -> Entries]
    BY <2>2, InsertMarkersType
  <2>4. /\ RULE \in e1[y].bits <=> RULE \in e[y].bits
        /\ e[y].inTable => e1[y].rule = e[y].rule
    BY <2>2, InsertMarkersRule
  <2> HIDE DEF e1, R
  <2>5. LET f == Refresh(c, e1, i, K, R)[y]
        IN  f.bits = e1[y].bits /\ (~Pure(e1[y]) => f.rule = e1[y].rule)
    BY <2>3, RefreshEntry
  <2>6. RULE \in e1[y].bits => ~Pure(e1[y])
    BY DEF Pure, RULE, MARKER
  <2> QED BY <2>1, <2>4, <2>5, <2>6 DEF SameRule, Consistent
<1> QED BY <1>1, <1>2

LEMMA LinkSameRule ==
  ASSUME NEW c \in Seq(Masks), NEW e \in [Ids -> Entries], NEW i \in 1..Len(c),
         NEW y \in Ids, Consistent(e, y)
  PROVE  SameRule(e, Link(c, e, i), y)
<1> DEFINE e1 == LeaveMarkers(c, e, i)
<1>1. SameRule(e, e1, y) /\ Consistent(e1, y) /\ e1 \in [Ids -> Entries]
  BY LeaveMarkersSameRule, LeaveMarkersConsistent, LeaveMarkersType
<1>2. Link(c, e, i) = IF i < Len(c) THEN LeaveMarkers(c, e1, i + 1) ELSE e1
  BY DEF Link
<1> HIDE DEF e1
<1>3. CASE i < Len(c)
  <2>1. i + 1 \in 1..Len(c)
    BY <1>3
  <2>2. SameRule(e1, LeaveMarkers(c, e1, i + 1), y)
    BY <1>1, <2>1, LeaveMarkersSameRule
  <2> QED BY <1>1, <1>2, <1>3, <2>2 DEF SameRule
<1>4. CASE ~(i < Len(c))
  BY <1>1, <1>2, <1>4
<1> QED BY <1>3, <1>4

\* insert gives its entry the rule, and no other entry another one.
LEMMA InsertAtRule ==
  ASSUME NEW c \in Seq(Masks), NEW e \in [Ids -> Entries], NEW i \in 1..Len(c),
         NEW r \in Rules, c[i] = r.mask, \A x \in Ids : Consistent(e, x), NEW y \in Ids
  PROVE  LET x == <<r.mask, r.key>>
             f == InsertAt(c, e, i, r)
         IN  /\ y # x => SameRule(e, f, y)
             /\ y = x => RULE \in f[y].bits /\ f[y].rule = r
<1> DEFINE x == <<r.mask, r.key>>
<1>1. x \in Ids /\ r.key \in SUBSET Bits
  BY RuleIdType
<1>2. CASE e[x].inTable
  <2> DEFINE f == SetRule(c, e, i, r)
  <2>1. InsertAt(c, e, i, r) = f
    BY <1>2 DEF InsertAt
  <2>2. y # x => f[y] = e[y]
    BY SetRuleAlone
  <2>3. y = x => f[y].bits = e[y].bits \cup {RULE} /\ f[y].rule = r
    BY SetRuleEntry
  <2> HIDE DEF f, x
  <2> QED BY <2>1, <2>2, <2>3 DEF SameRule, x
<1>3. CASE ~e[x].inTable
  <2> DEFINE n == NewEntry(e, r)
             f == InsertMarkers(c, n, i, {r.key})
  <2>1. InsertAt(c, e, i, r) = IF i = 1 THEN n ELSE f
    BY <1>3 DEF InsertAt
  <2>2. n \in [Ids -> Entries] /\ Consistent(n, y)
    BY <1>3, NewEntryType, NewEntryConsistent
  <2>3. y # x => n[y] = e[y]
    BY NewEntryEntry
  <2>4. y = x => n[y].bits = {RULE} /\ n[y].rule = r
    BY NewEntryEntry
  <2>5. {r.key} \in SUBSET SUBSET Bits
    BY <1>1
  <2> HIDE DEF n, x
  <2>6. /\ RULE \in f[y].bits <=> RULE \in n[y].bits
        /\ n[y].inTable => f[y].rule = n[y].rule
    BY <2>2, <2>5, InsertMarkersRule
  <2> HIDE DEF f
  <2>7. SameRule(n, f, y)
    BY <2>2, <2>6 DEF SameRule, Consistent
  <2> QED BY <2>1, <2>3, <2>4, <2>7 DEF SameRule, x
<1> QED BY <1>2, <1>3

\* erase takes its entry's rule, and no other entry's.
LEMMA EraseAtRule ==
  ASSUME NEW c \in Seq(Masks), NEW e \in [Ids -> Entries], NEW i \in 1..Len(c),
         NEW r \in Rules, NEW y \in Ids
  PROVE  LET x == <<r.mask, r.key>>
             f == EraseAt(c, e, i, r)
         IN  /\ y # x => SameRule(e, f, y)
             /\ y = x => RULE \notin f[y].bits
<1> DEFINE x == <<r.mask, r.key>>
           f == EraseAt(c, e, i, r)
<1>1. y # x => f[y].bits = e[y].bits /\ (~Pure(e[y]) => f[y].rule = e[y].rule)
  BY EraseAtEntry
<1>2. y = x => f[y].bits = e[y].bits \ {RULE}
  BY EraseAtEntry
<1>3. RULE \in e[y].bits => ~Pure(e[y])
  BY DEF Pure, RULE, MARKER
<1> HIDE DEF f, x
<1> QED BY <1>1, <1>2, <1>3 DEF SameRule, f, x

=============================================================================
