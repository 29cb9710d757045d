-------------------------- MODULE ChainedTSSProofs --------------------------
(***************************************************************************)
(* Proofs about ChainedTSS: first lemmas about several chains as a value,  *)
(* then the theorems about the classifier.                                 *)
(***************************************************************************)
EXTENDS ChainedTSS, ChainLinksProofs

-----------------------------------------------------------------------------
(***************************************************************************)
(* Lemmas about the operators of ChainedTuples: what the construction      *)
(* leaves behind, where a new tuple goes, and what a search of one chain   *)
(* answers.                                                                *)
(***************************************************************************)

-----------------------------------------------------------------------------
(***************************************************************************)
(* Chains that do not share entries.                                       *)
(***************************************************************************)

\* The invariant of one chain: every entry has its markers, and the markers
\* have the rules that TupleChainProofs shows them to have.
Good(c, e, P) ==
  /\ Complete(c, e, Len(c))
  /\ Skips(c, e, P)
  /\ \A j \in 1..Len(c) : FreshAt(c, e, P, j)

\* A tuple on a chain has a level.
LEMMA OnLevel ==
  ASSUME NEW c, NEW m
  PROVE  On(c, m) <=> \E j \in 1..Len(c) : c[j] = m
BY DEF On

\* An operation on a chain does not touch the entries of tuples elsewhere.
LEMMA InsertMarkersAlone ==
  ASSUME NEW c \in Seq(Masks), NEW e \in [Ids -> Entries], NEW i \in 1..Len(c),
         NEW K, NEW x \in Ids, ~On(c, x[1])
  PROVE  InsertMarkers(c, e, i, K)[x] = e[x]
<1>1. NewOwners(c, e, i, K, x) = {}
  <2> SUFFICES ASSUME NEW y \in NewOwners(c, e, i, K, x) PROVE FALSE
    OBVIOUS
  <2>1. PICK j \in 1..(i - 1) : \E q \in K : Id(c, j, q) = x
    BY DEF NewOwners
  <2>2. c[j] = x[1] /\ j \in 1..Len(c)
    BY <2>1 DEF Id
  <2> QED BY <2>2 DEF On
<1> QED BY <1>1 DEF InsertMarkers

LEMMA RefreshAlone ==
  ASSUME NEW c \in Seq(Masks), NEW e \in [Ids -> Entries], NEW i \in 1..Len(c),
         NEW K, NEW newRule, NEW x \in Ids, ~On(c, x[1])
  PROVE  Refresh(c, e, i, K, newRule)[x] = e[x]
<1>1. ~Reaches(c, e, i, x)
  <2>1. \A h \in i..Len(c) : h \in 1..Len(c)
    OBVIOUS
  <2> QED BY <2>1 DEF Reaches, On
<1> QED BY <1>1 DEF Refresh

LEMMA LinkAlone ==
  ASSUME NEW c \in Seq(Masks), NEW e \in [Ids -> Entries], NEW i \in 1..Len(c),
         NEW x \in Ids, ~On(c, x[1])
  PROVE  Link(c, e, i)[x] = e[x]
<1>1. ASSUME NEW f \in [Ids -> Entries], NEW j \in 1..Len(c)
      PROVE  LeaveMarkers(c, f, j)[x] = f[x]
  <2> DEFINE K == ListedKeys(f, c[j])
             g == InsertMarkers(c, f, j, K)
             n == [k \in K |-> g[Id(c, j - 1, k)].rule]
  <2>1. g[x] = f[x]
    BY InsertMarkersAlone
  <2>2. g \in [Ids -> Entries]
    <3>1. K \in SUBSET SUBSET Bits
      BY ListedKeysType
    <3> HIDE DEF K
    <3> QED BY <3>1, InsertMarkersType
  <2>3. LeaveMarkers(c, f, j) = IF j = 1 THEN f ELSE Refresh(c, g, j, K, n)
    BY DEF LeaveMarkers
  <2> HIDE DEF g, K, n
  <2> QED BY <2>1, <2>2, <2>3, RefreshAlone
<1>2. LeaveMarkers(c, e, i) \in [Ids -> Entries]
  BY LeaveMarkersType
<1> QED BY <1>1, <1>2 DEF Link

LEMMA InsertAtAlone ==
  ASSUME NEW c \in Seq(Masks), NEW e \in [Ids -> Entries], NEW i \in 1..Len(c),
         NEW r \in Rules, c[i] = r.mask, NEW x \in Ids, ~On(c, x[1])
  PROVE  InsertAt(c, e, i, r)[x] = e[x]
<1>1. x # <<r.mask, r.key>>
  BY DEF On
<1>2. SetRule(c, e, i, r)[x] = e[x]
  BY <1>1, SetRuleAlone
<1>3. NewEntry(e, r) \in [Ids -> Entries] /\ NewEntry(e, r)[x] = e[x]
  <2>1. NewEntry(e, r) \in [Ids -> Entries]
    BY NewEntryType
  <2>2. NewEntry(e, r)[x] = e[x]
    BY <1>1, NewEntryEntry
  <2> QED BY <2>1, <2>2
<1>4. InsertMarkers(c, NewEntry(e, r), i, {r.key})[x] = NewEntry(e, r)[x]
  BY <1>3, InsertMarkersAlone
<1> QED BY <1>2, <1>3, <1>4 DEF InsertAt

LEMMA EraseAtAlone ==
  ASSUME NEW c \in Seq(Masks), NEW e \in [Ids -> Entries], NEW i \in 1..Len(c),
         NEW r \in Rules, c[i] = r.mask, NEW x \in Ids, ~On(c, x[1])
  PROVE  EraseAt(c, e, i, r)[x] = e[x]
<1> DEFINE y       == <<r.mask, r.key>>
           cleared == [e EXCEPT ![y].bits = @ \ {RULE}, ![y].rule = NoRule]
           marker  == IF i = 1 THEN y ELSE Id(c, i - 1, r.key)
           n       == [k \in {r.key} |-> cleared[marker].rule]
           fresh   == Refresh(c, cleared, i, {r.key}, n)
<1>1. x # y
  BY DEF On
<1>2. cleared \in [Ids -> Entries] /\ cleared[x] = e[x]
  BY ZenonT(60), <1>1, RuleIdType DEF Entries
<1>3. EraseAt(c, e, i, r) = IF fresh[y].owners = {}
                            THEN [fresh EXCEPT ![y].inTable = FALSE, ![y].dead = @ + 1]
                            ELSE fresh
  BY DEF EraseAt
<1> HIDE DEF cleared, n
<1>4. fresh[x] = cleared[x]
  BY <1>2, RefreshAlone
<1>5. DOMAIN fresh = Ids
  BY DEF Refresh
<1> HIDE DEF fresh, y
<1> QED BY <1>1, <1>2, <1>3, <1>4, <1>5

\* What is good of a chain depends on its own entries only.
LEMMA GoodSame ==
  ASSUME NEW c \in Seq(Masks), Nested(c), NEW e \in [Ids -> Entries], NEW f \in [Ids -> Entries],
         NEW P, NEW Q, Good(c, e, P),
         \A x \in Ids : On(c, x[1]) => f[x] = e[x] /\ (x \in Q <=> x \in P)
  PROVE  Good(c, f, Q)
<1>1. \A j \in 1..Len(c) : \A k \in SUBSET c[j] :
        /\ <<c[j], k>> \in Ids /\ f[<<c[j], k>>] = e[<<c[j], k>>]
        /\ <<c[j], k>> \in Q <=> <<c[j], k>> \in P
  <2> SUFFICES ASSUME NEW j \in 1..Len(c), NEW k \in SUBSET c[j]
               PROVE  /\ <<c[j], k>> \in Ids /\ f[<<c[j], k>>] = e[<<c[j], k>>]
                      /\ <<c[j], k>> \in Q <=> <<c[j], k>> \in P
    OBVIOUS
  <2>1. <<c[j], k>> \in Ids
    BY KeyEntry
  <2>2. On(c, <<c[j], k>>[1])
    BY DEF On
  <2> QED BY <2>1, <2>2
<1>2. \A j \in 1..Len(c) : \A k : Id(c, j, k) \in Q <=> Id(c, j, k) \in P
  <2> SUFFICES ASSUME NEW j \in 1..Len(c), NEW k
               PROVE  Id(c, j, k) \in Q <=> Id(c, j, k) \in P
    OBVIOUS
  <2>1. Key(c[j], k) \in SUBSET c[j]
    BY DEF Key
  <2> QED BY <1>1, <2>1 DEF Id
<1>3. Complete(c, f, Len(c))
  <2>1. Len(c) \in 0..Len(c)
    OBVIOUS
  <2> QED BY <1>1, <2>1, CompleteSame DEF Good
<1>4. Skips(c, f, P)
  BY <1>1, SkipsSame DEF Good
<1>5. Skips(c, f, Q)
  <2> SUFFICES ASSUME NEW a \in 1..Len(c), NEW k \in SUBSET c[a],
                      NEW y \in f[<<c[a], k>>].owners
               PROVE  /\ y \in Ids /\ Listed(f[y])
                      /\ \E b \in (a + 1)..Len(c) :
                           /\ y[1] = c[b] /\ Id(c, a, y[2]) = <<c[a], k>>
                           /\ \A l \in (a + 1)..(b - 1) :
                                RULE \in f[Id(c, l, y[2])].bits => Id(c, l, y[2]) \in Q
    BY DEF Skips
  <2>1. y \in Ids /\ Listed(f[y])
    BY <1>4 DEF Skips
  <2>2. PICK b \in (a + 1)..Len(c) :
          /\ y[1] = c[b] /\ Id(c, a, y[2]) = <<c[a], k>>
          /\ \A l \in (a + 1)..(b - 1) :
               RULE \in f[Id(c, l, y[2])].bits => Id(c, l, y[2]) \in P
    BY <1>4 DEF Skips
  <2>3. \A l \in (a + 1)..(b - 1) : l \in 1..Len(c)
    OBVIOUS
  <2> QED BY <1>2, <2>1, <2>2, <2>3
<1>6. ASSUME NEW j \in 1..Len(c) PROVE FreshAt(c, f, Q, j)
  <2>1. FreshAt(c, f, P, j)
    <3>1. \A g \in 1..j : g \in 1..Len(c)
      OBVIOUS
    <3>2. \A g \in 1..j : \A k \in SUBSET c[g] : f[<<c[g], k>>] = e[<<c[g], k>>]
      BY <1>1, <3>1
    <3>3. FreshFrom(c, e, P, 0, j)
      BY DEF Good, FreshAt
    <3> QED BY <3>2, <3>3, FreshSame DEF FreshAt
  <2> SUFFICES ASSUME NEW k \in SUBSET c[j], NEW h \in 0..(j - 1), Pure(f[<<c[j], k>>]),
                      Settled(c, f, Q, k, h), Bare(c, f, k, h, j)
               PROVE  f[<<c[j], k>>].rule = RuleAt(c, f, k, h)
    BY DEF FreshAt, FreshFrom
  <2>2. h # 0 => h \in 1..Len(c)
    OBVIOUS
  <2>3. Settled(c, f, P, k, h)
    BY <1>2, <2>2 DEF Settled
  <2> QED BY <2>1, <2>3 DEF FreshAt, FreshFrom
<1> QED BY <1>3, <1>5, <1>6 DEF Good

-----------------------------------------------------------------------------
(***************************************************************************)
(* The construction.                                                       *)
(***************************************************************************)

\* The functions on 1..(n + 1) that start from a at the end and take a step
\* of S at each place before it.
Downward(n, V, a, S) ==
  {f \in [1..(n + 1) -> V] : f[n + 1] = a /\ \A j \in 1..n : f[j] = S[j][f[j + 1]]}

LEMMA DownwardRecursion ==
  ASSUME NEW n \in Nat, NEW V, NEW a \in V, NEW S, \A j \in 1..n : \A v \in V : S[j][v] \in V
  PROVE  \E f : f \in Downward(n, V, a, S)
<1> DEFINE Is(f, m) == /\ f \in [m..(n + 1) -> V] /\ f[n + 1] = a
                       /\ \A j \in m..n : f[j] = S[j][f[j + 1]]
           T == {m \in 1..(n + 1) : \E f : Is(f, m)}
<1>1. n + 1 \in T
  <2>1. Is([j \in (n + 1)..(n + 1) |-> a], n + 1)
    OBVIOUS
  <2>2. n + 1 \in 1..(n + 1)
    OBVIOUS
  <2> HIDE DEF Is
  <2> QED BY <2>1, <2>2
<1>2. T \in SUBSET Nat /\ T # {}
  <2> HIDE DEF Is
  <2>1. \A m \in T : m \in 1..(n + 1)
    OBVIOUS
  <2>2. \A m \in T : m \in Nat
    BY <2>1
  <2> QED BY <1>1, <2>2, Zenon
<1>3. PICK m \in T : \A l \in T : m <= l
  <2> HIDE DEF T
  <2> QED BY <1>2, LeastNat
<1>4. m \in 1..(n + 1)
  OBVIOUS
<1>5. PICK f : Is(f, m)
  OBVIOUS
<1>6. ASSUME m # 1 PROVE FALSE
  <2> DEFINE g == [j \in (m - 1)..(n + 1) |-> IF j = m - 1 THEN S[m - 1][f[m]] ELSE f[j]]
  <2>1. m - 1 \in 1..n /\ m \in m..(n + 1)
    BY <1>4, <1>6
  <2>2. f[m] \in V
    BY <1>5, <2>1
  <2>3. S[m - 1][f[m]] \in V
    BY <2>1, <2>2
  <2>4. \A j \in m..(n + 1) : j # m - 1 /\ j \in (m - 1)..(n + 1) /\ f[j] \in V
    BY <1>4, <1>5
  <2>5. g \in [(m - 1)..(n + 1) -> V]
    <3>1. \A j \in (m - 1)..(n + 1) : j = m - 1 \/ j \in m..(n + 1)
      BY <1>4
    <3> QED BY <2>3, <2>4, <3>1
  <2>6. \A j \in m..(n + 1) : g[j] = f[j]
    BY <2>4
  <2>7. g[m - 1] = S[m - 1][g[m]]
    <3>1. m - 1 \in (m - 1)..(n + 1)
      BY <2>1
    <3> QED BY <2>1, <2>6, <3>1
  <2> HIDE DEF g
  <2>8. \A j \in (m - 1)..n : g[j] = S[j][g[j + 1]]
    <3> SUFFICES ASSUME NEW j \in (m - 1)..n PROVE g[j] = S[j][g[j + 1]]
      OBVIOUS
    <3>1. CASE j = m - 1
      <4>1. j + 1 = m
        BY <1>4, <3>1
      <4> QED BY <2>7, <3>1, <4>1
    <3>2. CASE j # m - 1
      <4>1. j \in m..n /\ j \in m..(n + 1) /\ j + 1 \in m..(n + 1)
        BY <1>4, <3>2
      <4> QED BY <1>5, <2>6, <4>1
    <3> QED BY <3>1, <3>2
  <2>9. g[n + 1] = a
    <3>1. n + 1 \in m..(n + 1)
      BY <1>4
    <3> QED BY <1>5, <2>6, <3>1
  <2>10. Is(g, m - 1)
    BY <2>5, <2>8, <2>9
  <2>11. m - 1 \in T
    <3>1. m - 1 \in 1..(n + 1)
      BY <2>1
    <3> HIDE DEF Is
    <3> QED BY <2>10, <3>1
  <2>12. m <= m - 1
    BY <1>3, <2>11
  <2> QED BY <1>4, <2>12
<1>7. Is(f, 1)
  BY <1>5, <1>6
<1> QED BY <1>7 DEF Downward

\* The suffix of a chain from level j on: a tuple put in front of the rest.
LEMMA Suffix ==
  ASSUME NEW c \in Seq(Masks), NEW j \in 1..(Len(c) + 1)
  PROVE  /\ SubSeq(c, j, Len(c)) \in Seq(Masks)
         /\ Len(SubSeq(c, j, Len(c))) = Len(c) - j + 1
         /\ \A l \in 1..(Len(c) - j + 1) : SubSeq(c, j, Len(c))[l] = c[j + l - 1]
         /\ Nested(c) => Nested(SubSeq(c, j, Len(c)))
         /\ \A m : On(SubSeq(c, j, Len(c)), m) <=> \E l \in j..Len(c) : c[l] = m
<1> DEFINE n == Len(c)
           d == SubSeq(c, j, Len(c))
<1>1. n \in Nat /\ j \in 1..(n + 1) /\ n - j + 1 \in Nat /\ j \in Nat
  OBVIOUS
<1>2. d = [l \in 1..(n - j + 1) |-> c[j + l - 1]]
  BY DEF SubSeq
<1>3. \A l \in 1..(n - j + 1) : j + l - 1 \in 1..n
  BY <1>1
<1>4. \A l \in 1..(n - j + 1) : c[j + l - 1] \in Masks
  BY <1>3
<1> HIDE DEF n, d
<1>5. d \in Seq(Masks) /\ Len(d) = n - j + 1
  BY <1>1, <1>2, <1>4
<1>6. \A l \in 1..(n - j + 1) : d[l] = c[j + l - 1]
  BY <1>2
<1>7. ASSUME Nested(c) PROVE Nested(d)
  <2> SUFFICES ASSUME NEW a \in 1..Len(d), NEW b \in 1..Len(d), a < b
               PROVE  Cover(d[a], d[b]) /\ d[a] # d[b]
    BY DEF Nested
  <2>1. /\ d[a] = c[j + a - 1] /\ d[b] = c[j + b - 1]
        /\ j + a - 1 \in 1..n /\ j + b - 1 \in 1..n
    BY <1>3, <1>5, <1>6
  <2>2. j + a - 1 < j + b - 1
    BY <1>1, <1>5
  <2> QED BY <1>7, <2>1, <2>2 DEF Nested, n
<1>8. ASSUME NEW m PROVE On(d, m) <=> \E l \in j..n : c[l] = m
  <2>1. ASSUME NEW l \in 1..Len(d), d[l] = m PROVE \E g \in j..n : c[g] = m
    <3>1. l \in 1..(n - j + 1) /\ c[j + l - 1] = m
      BY <1>5, <1>6, <2>1
    <3>2. j + l - 1 \in j..n
      BY <1>1, <3>1
    <3> QED BY <3>1, <3>2
  <2>2. ASSUME NEW g \in j..n, c[g] = m PROVE \E l \in 1..Len(d) : d[l] = m
    <3>1. g - j + 1 \in 1..(n - j + 1) /\ j + (g - j + 1) - 1 = g
      BY <1>1
    <3>2. d[g - j + 1] = m
      BY <1>6, <2>2, <3>1
    <3> QED BY <1>5, <3>1, <3>2
  <2> QED BY <2>1, <2>2 DEF On
<1> QED BY <1>5, <1>6, <1>7, <1>8 DEF n, d

LEMMA SuffixShift ==
  ASSUME NEW c \in Seq(Masks), NEW j \in 1..Len(c)
  PROVE  SubSeq(c, j, Len(c)) = Shift(SubSeq(c, j + 1, Len(c)), c[j], 1)
<1> DEFINE n == Len(c)
           d == SubSeq(c, j, Len(c))
           b == SubSeq(c, j + 1, Len(c))
<1>1. n \in Nat /\ j \in 1..n /\ j + 1 \in 1..(n + 1) /\ j \in 1..(n + 1)
  OBVIOUS
<1>2. d \in Seq(Masks) /\ Len(d) = n - j + 1 /\ \A l \in 1..(n - j + 1) : d[l] = c[j + l - 1]
  BY <1>1, Suffix
<1>3. b \in Seq(Masks) /\ Len(b) = n - (j + 1) + 1 /\ \A l \in 1..(n - (j + 1) + 1) : b[l] = c[(j + 1) + l - 1]
  BY <1>1, Suffix
<1> HIDE DEF n, d, b
<1>4. Len(b) + 1 = n - j + 1
  BY <1>1, <1>3
<1>5. Shift(b, c[j], 1) = [l \in 1..(n - j + 1) |-> IF l = 1 THEN c[j] ELSE b[l - 1]]
  <2>1. \A l \in 1..(n - j + 1) : ~(l < 1)
    BY <1>1
  <2> QED BY <1>4, <2>1 DEF Shift
<1>6. ASSUME NEW l \in 1..(n - j + 1)
      PROVE  d[l] = IF l = 1 THEN c[j] ELSE b[l - 1]
  <2>1. CASE l = 1
    <3>1. d[l] = c[j + 1 - 1] /\ j + 1 - 1 = j
      BY <1>1, <1>2, <2>1
    <3> QED BY <2>1, <3>1
  <2>2. CASE l # 1
    <3>1. l - 1 \in 1..(n - (j + 1) + 1) /\ (j + 1) + (l - 1) - 1 = j + l - 1
      BY <1>1, <2>2
    <3> QED BY <1>2, <1>3, <2>2, <3>1
  <2> QED BY <2>1, <2>2
<1>7. d = [l \in 1..(n - j + 1) |-> d[l]]
  BY <1>2
<1> QED BY <1>5, <1>6, <1>7 DEF d, b

\* What a chain that is built of a path does to the entries, tuple by tuple.
LEMMA BuildChainSteps ==
  ASSUME NEW c \in Seq(Masks), NEW e \in [Ids -> Entries]
  PROVE  \E f \in [1..(Len(c) + 1) -> [Ids -> Entries]] :
           /\ f[Len(c) + 1] = e
           /\ \A j \in 1..Len(c) : f[j] = Link(SubSeq(c, j, Len(c)), f[j + 1], 1)
           /\ BuildChain(c, e) = f[1]
<1> DEFINE n  == Len(c)
           V  == [Ids -> Entries]
           St == [j \in 1..n |-> [v \in V |-> Link(SubSeq(c, j, n), v, 1)]]
           Is(f) == f = [j \in 1..(Len(c) + 1) |->
                           IF j > Len(c) THEN e ELSE Link(SubSeq(c, j, Len(c)), f[j + 1], 1)]
           G  == CHOOSE f : Is(f)
<1>1. n \in Nat
  OBVIOUS
<1>2. ASSUME NEW j \in 1..n, NEW v \in V
      PROVE  Link(SubSeq(c, j, n), v, 1) \in V
  <2>1. SubSeq(c, j, n) \in Seq(Masks) /\ Len(SubSeq(c, j, n)) = n - j + 1
    BY Suffix
  <2>2. 1 \in 1..(n - j + 1)
    OBVIOUS
  <2> QED BY <2>1, <2>2, LinkType
<1>3. \A j \in 1..n : \A v \in V : St[j][v] \in V
  BY <1>2
<1>4. PICK f : f \in Downward(n, V, e, St)
  <2>1. e \in V
    OBVIOUS
  <2> HIDE DEF St, V, n
  <2> QED BY <1>1, <1>3, <2>1, DownwardRecursion
<1>5. f[n + 1] = e /\ \A j \in 1..n : f[j] = Link(SubSeq(c, j, n), f[j + 1], 1)
  <2> HIDE DEF V, n, St
  <2>1. f \in [1..(n + 1) -> V] /\ f[n + 1] = e /\ \A j \in 1..n : f[j] = St[j][f[j + 1]]
    BY <1>4 DEF Downward
  <2>2. \A j \in 1..n : j + 1 \in 1..(n + 1)
    BY <1>1
  <2>3. \A j \in 1..n : f[j + 1] \in V
    BY <2>1, <2>2
  <2>4. \A j \in 1..n : \A v \in V : St[j][v] = Link(SubSeq(c, j, n), v, 1)
    BY DEF St
  <2> QED BY <2>1, <2>3, <2>4
<1>6. Is(f)
  <2>1. f = [j \in 1..(n + 1) |-> f[j]]
    BY <1>4 DEF Downward
  <2>2. \A j \in 1..(n + 1) : (j > n => j = n + 1) /\ (~(j > n) => j \in 1..n)
    BY <1>1
  <2>3. \A j \in 1..(n + 1) : f[j] = IF j > n THEN e ELSE Link(SubSeq(c, j, n), f[j + 1], 1)
    BY <1>5, <2>2
  <2> QED BY <2>1, <2>3
<1>7. Is(G)
  BY <1>6, Zenon
<1>8. BuildChain(c, e) = G[1]
  BY Zenon DEF BuildChain
<1> HIDE DEF G
<1>9. G[n + 1] = e
  <2>1. n + 1 \in 1..(n + 1) /\ n + 1 > n
    BY <1>1
  <2> QED BY <1>7, <2>1
<1>10. \A j \in 1..n : G[j] = Link(SubSeq(c, j, n), G[j + 1], 1)
  <2>1. \A j \in 1..n : j \in 1..(n + 1) /\ ~(j > n)
    BY <1>1
  <2> QED BY <1>7, <2>1
<1>11. G \in [1..(n + 1) -> V]
  <2> DEFINE B == {i \in 0..(n + 1) : i # 0 /\ G[i] \notin V}
  <2>1. ASSUME B # {} PROVE FALSE
    <3>1. n + 1 \in Nat /\ B \in SUBSET (0..(n + 1))
      BY <1>1
    <3> HIDE DEF B
    <3>2. PICK b \in B : \A i \in B : i <= b
      BY <2>1, <3>1, GreatestNat
    <3> USE DEF B
    <3>3. b \in 1..(n + 1) /\ G[b] \notin V
      OBVIOUS
    <3> HIDE DEF B
    <3>4. b # n + 1
      BY <1>9, <3>3
    <3>5. b \in 1..n /\ b + 1 \in 0..(n + 1) /\ b + 1 # 0 /\ ~(b + 1 <= b)
      BY <1>1, <3>3, <3>4
    <3>6. b + 1 \notin B
      BY <3>2, <3>5
    <3>7. G[b + 1] \in V
      BY <3>5, <3>6 DEF B
    <3>8. G[b] \in V
      BY <1>2, <1>10, <3>5, <3>7
    <3> QED BY <3>3, <3>8
  <2>2. \A i \in 1..(n + 1) : i \in 0..(n + 1) /\ i # 0
    BY <1>1
  <2>3. \A i \in 1..(n + 1) : G[i] \in V
    BY <2>1, <2>2
  <2>4. G = [i \in 1..(n + 1) |-> G[i]]
    <3>1. DOMAIN G = 1..(n + 1)
      BY <1>7
    <3> QED BY <1>7, <3>1
  <2> HIDE DEF V
  <2> QED BY <2>3, <2>4
<1> QED BY <1>8, <1>9, <1>10, <1>11

LEMMA SameRuleTrans ==
  ASSUME NEW e, NEW f, NEW g, NEW x, SameRule(e, f, x), SameRule(f, g, x)
  PROVE  SameRule(e, g, x)
BY DEF SameRule

LEMMA GoodEmpty ==
  ASSUME NEW c \in Seq(Masks), Len(c) = 0, NEW e, NEW P
  PROVE  Good(c, e, P)
BY DEF Good, Complete, MarkedBelow, LinkedBelow, Skips

\* A tuple that is linked with a good chain leaves it good.
LEMMA LinkGood ==
  ASSUME NEW c \in Seq(Masks), NEW e \in [Ids -> Entries], NEW P, NEW m \in Masks,
         NEW i \in 1..(Len(c) + 1), Nested(Shift(c, m, i)),
         \A x \in Ids : Consistent(e, x), Good(c, e, P),
         Unmarked(e, m), i # 1 => Unlisted(e, m)
  PROVE  Good(Shift(c, m, i), Link(Shift(c, m, i), e, i), P)
<1> DEFINE s == Shift(c, m, i)
           f == Link(s, e, i)
<1>1. Complete(c, e, Len(c)) /\ Skips(c, e, P) /\ \A j \in 1..Len(c) : FreshAt(c, e, P, j)
  BY DEF Good
<1>2. Len(s) = Len(c) + 1
  BY ShiftProperties
<1>3. Complete(s, f, Len(c) + 1)
  BY <1>1, LinkComplete
<1>4. Skips(s, f, P)
  BY <1>1, LinkFresh
<1>5. \A j \in 1..Len(s) : FreshAt(s, f, P, j)
  BY <1>1, LinkFresh
<1> HIDE DEF s, f
<1>6. Good(s, f, P)
  BY <1>2, <1>3, <1>4, <1>5 DEF Good
<1> QED BY <1>6 DEF s, f

\* A chain built of a path is good, and only its own entries have changed.
LEMMA BuildChainGood ==
  ASSUME NEW c \in Seq(Masks), Nested(c), NEW e \in [Ids -> Entries],
         \A x \in Ids : Consistent(e, x), \A j \in 1..Len(c) : Unmarked(e, c[j])
  PROVE  /\ BuildChain(c, e) \in [Ids -> Entries]
         /\ \A x \in Ids : Consistent(BuildChain(c, e), x)
         /\ Good(c, BuildChain(c, e), {})
         /\ \A x \in Ids : ~On(c, x[1]) => BuildChain(c, e)[x] = e[x]
         /\ \A x \in Ids : SameRule(e, BuildChain(c, e), x)
<1> DEFINE n == Len(c)
           d(j) == SubSeq(c, j, Len(c))
<1>1. PICK f \in [1..(n + 1) -> [Ids -> Entries]] :
           /\ f[n + 1] = e
           /\ \A j \in 1..n : f[j] = Link(d(j), f[j + 1], 1)
           /\ BuildChain(c, e) = f[1]
  BY BuildChainSteps
<1> DEFINE Holds(j) == /\ \A x \in Ids : Consistent(f[j], x)
                       /\ Good(d(j), f[j], {})
                       /\ \A x \in Ids : ~On(d(j), x[1]) => f[j][x] = e[x]
                       /\ \A x \in Ids : SameRule(e, f[j], x)
           B == {i \in 0..(n + 1) : i # 0 /\ ~Holds(i)}
<1>2. n \in Nat
  OBVIOUS
<1>3. Holds(n + 1)
  <2>1. n + 1 \in 1..(n + 1)
    BY <1>2
  <2>2. d(n + 1) \in Seq(Masks) /\ Len(d(n + 1)) = n - (n + 1) + 1
    BY <2>1, Suffix
  <2>3. Len(d(n + 1)) = 0
    BY <1>2, <2>2
  <2>4. Good(d(n + 1), e, {})
    BY <2>2, <2>3, GoodEmpty
  <2> HIDE DEF d
  <2> QED BY <1>1, <2>4 DEF SameRule
<1>4. ASSUME NEW j \in 1..n, Holds(j + 1) PROVE Holds(j)
  <2> DEFINE b == d(j + 1)
             g == f[j + 1]
  <2>1. j + 1 \in 1..(n + 1) /\ j \in 1..(n + 1)
    BY <1>2
  <2>2. g \in [Ids -> Entries]
    BY <2>1
  <2>3. b \in Seq(Masks) /\ \A m : On(b, m) <=> \E l \in (j + 1)..n : c[l] = m
    BY <2>1, Suffix
  <2>4. d(j) = Shift(b, c[j], 1)
    BY SuffixShift
  <2>5. d(j) \in Seq(Masks) /\ Nested(d(j)) /\ \A m : On(d(j), m) <=> \E l \in j..n : c[l] = m
    BY <2>1, Suffix
  <2>6. c[j] \in Masks /\ c[j] \in SUBSET Bits
    BY MasksAssumption
  <2>7. ~On(b, c[j])
    <3>1. \A l \in (j + 1)..n : l \in 1..n /\ l # j
      BY <1>2
    <3>2. \A l \in (j + 1)..n : c[l] # c[j]
      BY <3>1, LevelUnique
    <3> QED BY <2>3, <3>2
  <2>8. Unmarked(g, c[j])
    <3> SUFFICES ASSUME NEW k \in SUBSET c[j] PROVE MARKER \notin g[<<c[j], k>>].bits
      BY DEF Unmarked
    <3>1. <<c[j], k>> \in Ids
      BY KeyEntry
    <3>2. g[<<c[j], k>>] = e[<<c[j], k>>]
      BY <1>4, <2>7, <3>1
    <3> QED BY <3>2 DEF Unmarked
  <2>9. 1 \in 1..(Len(b) + 1) /\ 1 \in 1..Len(d(j))
    <3>1. Len(d(j)) = n - j + 1
      BY <2>1, Suffix
    <3> QED BY <1>2, <2>3, <3>1
  <2>10. f[j] = Link(d(j), g, 1)
    BY <1>1
  <2>11. \A x \in Ids : Consistent(g, x)
    BY <1>4
  <2>12. Good(b, g, {})
    BY <1>4
  <2> HIDE DEF b, d, g
  <2>13. Good(d(j), f[j], {})
    BY <2>2, <2>3, <2>4, <2>5, <2>6, <2>8, <2>9, <2>10, <2>11, <2>12, LinkGood
  <2>14. \A x \in Ids : Consistent(f[j], x)
    BY SMTT(30), <2>2, <2>5, <2>9, <2>10, <2>11, LinkConsistent
  <2>15. ASSUME NEW x \in Ids, ~On(d(j), x[1]) PROVE f[j][x] = e[x]
    <3>1. ~On(b, x[1])
      <4>1. \A l \in (j + 1)..n : l \in j..n
        BY <1>2
      <4> QED BY <2>3, <2>5, <2>15, <4>1
    <3>2. g[x] = e[x]
      BY <1>4, <3>1 DEF b, g
    <3>3. f[j][x] = g[x]
      BY <2>2, <2>5, <2>9, <2>10, <2>15, LinkAlone
    <3> QED BY <3>2, <3>3
  <2>16. ASSUME NEW x \in Ids PROVE SameRule(e, f[j], x)
    <3>1. SameRule(e, g, x)
      BY <1>4 DEF g
    <3>2. SameRule(g, f[j], x)
      BY <2>2, <2>5, <2>9, <2>10, <2>11, LinkSameRule
    <3> QED BY <3>1, <3>2, SameRuleTrans
  <2> QED BY <2>13, <2>14, <2>15, <2>16
<1> HIDE DEF Holds
<1>5. ASSUME B # {} PROVE FALSE
  <2>1. n + 1 \in Nat /\ B \in SUBSET (0..(n + 1))
    BY <1>2
  <2> HIDE DEF B
  <2>2. PICK b \in B : \A i \in B : i <= b
    BY <1>5, <2>1, GreatestNat
  <2>3. b \in 1..(n + 1) /\ ~Holds(b)
    BY DEF B
  <2>4. b # n + 1
    BY <1>3, <2>3
  <2>5. b \in 1..n /\ b + 1 \in 0..(n + 1) /\ b + 1 # 0 /\ ~(b + 1 <= b)
    BY <1>2, <2>3, <2>4
  <2>6. Holds(b + 1)
    BY <2>2, <2>5 DEF B
  <2> QED BY <1>4, <2>3, <2>5, <2>6
<1>6. Holds(1)
  <2>1. 1 \in 0..(n + 1) /\ 1 # 0
    BY <1>2
  <2> QED BY <1>5, <2>1
<1>7. d(1) = c
  <2>1. 1 \in 1..(n + 1) /\ n - 1 + 1 = n
    BY <1>2
  <2>2. d(1) \in Seq(Masks) /\ Len(d(1)) = n /\ \A l \in 1..n : d(1)[l] = c[1 + l - 1]
    BY <2>1, Suffix
  <2>3. \A l \in 1..n : 1 + l - 1 = l
    OBVIOUS
  <2> HIDE DEF d
  <2> QED BY <2>2, <2>3
<1>8. f[1] \in [Ids -> Entries]
  BY <1>2
<1> HIDE DEF d
<1> QED BY <1>1, <1>6, <1>7, <1>8 DEF Holds

\* What the construction of all chains does, chain by chain.
LEMMA BuildChainsSteps ==
  ASSUME NEW cs \in Seq(Seq(Masks)), NEW e \in [Ids -> Entries]
  PROVE  \E f \in [1..(Len(cs) + 1) -> [Ids -> Entries]] :
           /\ f[Len(cs) + 1] = e
           /\ \A i \in 1..Len(cs) : f[i] = BuildChain(cs[i], f[i + 1])
           /\ BuildChains(cs, e) = f[1]
<1> DEFINE n  == Len(cs)
           V  == [Ids -> Entries]
           St == [i \in 1..n |-> [v \in V |-> BuildChain(cs[i], v)]]
           Is(f) == f = [i \in 1..(Len(cs) + 1) |->
                           IF i > Len(cs) THEN e ELSE BuildChain(cs[i], f[i + 1])]
           G  == CHOOSE f : Is(f)
<1>1. n \in Nat
  OBVIOUS
<1>2. ASSUME NEW i \in 1..n, NEW v \in V
      PROVE  BuildChain(cs[i], v) \in V
  <2>1. cs[i] \in Seq(Masks)
    OBVIOUS
  <2>2. PICK f \in [1..(Len(cs[i]) + 1) -> [Ids -> Entries]] : BuildChain(cs[i], v) = f[1]
    BY <2>1, BuildChainSteps
  <2>3. 1 \in 1..(Len(cs[i]) + 1)
    BY <2>1
  <2> QED BY <2>2, <2>3
<1>3. \A i \in 1..n : \A v \in V : St[i][v] \in V
  BY <1>2
<1>4. PICK f : f \in Downward(n, V, e, St)
  <2>1. e \in V
    OBVIOUS
  <2> HIDE DEF St, V, n
  <2> QED BY <1>1, <1>3, <2>1, DownwardRecursion
<1>5. f[n + 1] = e /\ \A i \in 1..n : f[i] = BuildChain(cs[i], f[i + 1])
  <2> HIDE DEF V, n, St
  <2>1. f \in [1..(n + 1) -> V] /\ f[n + 1] = e /\ \A i \in 1..n : f[i] = St[i][f[i + 1]]
    BY <1>4 DEF Downward
  <2>2. \A i \in 1..n : i + 1 \in 1..(n + 1)
    BY <1>1
  <2>3. \A i \in 1..n : f[i + 1] \in V
    BY <2>1, <2>2
  <2>4. \A i \in 1..n : \A v \in V : St[i][v] = BuildChain(cs[i], v)
    BY DEF St
  <2> QED BY <2>1, <2>3, <2>4
<1>6. Is(f)
  <2>1. f = [i \in 1..(n + 1) |-> f[i]]
    BY <1>4 DEF Downward
  <2>2. \A i \in 1..(n + 1) : (i > n => i = n + 1) /\ (~(i > n) => i \in 1..n)
    BY <1>1
  <2>3. \A i \in 1..(n + 1) : f[i] = IF i > n THEN e ELSE BuildChain(cs[i], f[i + 1])
    BY <1>5, <2>2
  <2> QED BY <2>1, <2>3
<1>7. Is(G)
  BY <1>6, Zenon
<1>8. BuildChains(cs, e) = G[1]
  BY Zenon DEF BuildChains
<1> HIDE DEF G
<1>9. G[n + 1] = e
  <2>1. n + 1 \in 1..(n + 1) /\ n + 1 > n
    BY <1>1
  <2> QED BY <1>7, <2>1
<1>10. \A i \in 1..n : G[i] = BuildChain(cs[i], G[i + 1])
  <2>1. \A i \in 1..n : i \in 1..(n + 1) /\ ~(i > n)
    BY <1>1
  <2> QED BY <1>7, <2>1
<1>11. G \in [1..(n + 1) -> V]
  <2> DEFINE B == {i \in 0..(n + 1) : i # 0 /\ G[i] \notin V}
  <2>1. ASSUME B # {} PROVE FALSE
    <3>1. n + 1 \in Nat /\ B \in SUBSET (0..(n + 1))
      BY <1>1
    <3> HIDE DEF B
    <3>2. PICK b \in B : \A i \in B : i <= b
      BY <2>1, <3>1, GreatestNat
    <3> USE DEF B
    <3>3. b \in 1..(n + 1) /\ G[b] \notin V
      OBVIOUS
    <3> HIDE DEF B
    <3>4. b # n + 1
      BY <1>9, <3>3
    <3>5. b \in 1..n /\ b + 1 \in 0..(n + 1) /\ b + 1 # 0 /\ ~(b + 1 <= b)
      BY <1>1, <3>3, <3>4
    <3>6. b + 1 \notin B
      BY <3>2, <3>5
    <3>7. G[b + 1] \in V
      BY <3>5, <3>6 DEF B
    <3>8. G[b] \in V
      BY <1>2, <1>10, <3>5, <3>7
    <3> QED BY <3>3, <3>8
  <2>2. \A i \in 1..(n + 1) : i \in 0..(n + 1) /\ i # 0
    BY <1>1
  <2>3. \A i \in 1..(n + 1) : G[i] \in V
    BY <2>1, <2>2
  <2>4. G = [i \in 1..(n + 1) |-> G[i]]
    <3>1. DOMAIN G = 1..(n + 1)
      BY <1>7
    <3> QED BY <1>7, <3>1
  <2> HIDE DEF V
  <2> QED BY <2>3, <2>4
<1> QED BY <1>8, <1>9, <1>10, <1>11

\* No tuple is in two chains.
Separate(cs) == \A i, j \in 1..Len(cs) : \A m : (On(cs[i], m) /\ On(cs[j], m)) => i = j

\* The chains built of a cover are good, all of them.
LEMMA BuildChainsGood ==
  ASSUME NEW cs \in Seq(Seq(Masks)), \A i \in 1..Len(cs) : Nested(cs[i]), Separate(cs),
         NEW e \in [Ids -> Entries], \A x \in Ids : Consistent(e, x),
         \A i \in 1..Len(cs) : \A j \in 1..Len(cs[i]) : Unmarked(e, cs[i][j])
  PROVE  /\ BuildChains(cs, e) \in [Ids -> Entries]
         /\ \A x \in Ids : Consistent(BuildChains(cs, e), x)
         /\ \A i \in 1..Len(cs) : Good(cs[i], BuildChains(cs, e), {})
         /\ \A x \in Ids : (\A i \in 1..Len(cs) : ~On(cs[i], x[1])) => BuildChains(cs, e)[x] = e[x]
         /\ \A x \in Ids : SameRule(e, BuildChains(cs, e), x)
<1> DEFINE n == Len(cs)
<1>1. PICK f \in [1..(n + 1) -> [Ids -> Entries]] :
           /\ f[n + 1] = e
           /\ \A i \in 1..n : f[i] = BuildChain(cs[i], f[i + 1])
           /\ BuildChains(cs, e) = f[1]
  BY BuildChainsSteps
<1> DEFINE Holds(j) == /\ \A x \in Ids : Consistent(f[j], x)
                       /\ \A i \in j..n : Good(cs[i], f[j], {})
                       /\ \A x \in Ids : (\A i \in j..n : ~On(cs[i], x[1])) => f[j][x] = e[x]
                       /\ \A x \in Ids : SameRule(e, f[j], x)
           B == {i \in 0..(n + 1) : i # 0 /\ ~Holds(i)}
<1>2. n \in Nat
  OBVIOUS
<1>3. Holds(n + 1)
  <2>1. (n + 1)..n = {}
    BY <1>2
  <2> QED BY <1>1, <2>1 DEF SameRule
<1>4. ASSUME NEW j \in 1..n, Holds(j + 1) PROVE Holds(j)
  <2> DEFINE c == cs[j]
             g == f[j + 1]
  <2>1. j + 1 \in 1..(n + 1) /\ \A i \in (j + 1)..n : i \in 1..n /\ i # j /\ i \in j..n
    BY <1>2
  <2>2. g \in [Ids -> Entries]
    BY <2>1
  <2>3. c \in Seq(Masks) /\ Nested(c)
    OBVIOUS
  <2>4. \A x \in Ids : On(c, x[1]) => g[x] = e[x]
    <3> SUFFICES ASSUME NEW x \in Ids, On(c, x[1]) PROVE g[x] = e[x]
      OBVIOUS
    <3>1. \A i \in (j + 1)..n : ~On(cs[i], x[1])
      BY <2>1 DEF Separate
    <3> QED BY <1>4, <3>1
  <2>5. \A l \in 1..Len(c) : Unmarked(g, c[l])
    <3> SUFFICES ASSUME NEW l \in 1..Len(c), NEW k \in SUBSET c[l]
                 PROVE  MARKER \notin g[<<c[l], k>>].bits
      BY DEF Unmarked
    <3>1. <<c[l], k>> \in Ids
      BY <2>3, KeyEntry
    <3>2. On(c, <<c[l], k>>[1])
      BY DEF On
    <3>3. g[<<c[l], k>>] = e[<<c[l], k>>]
      BY <2>4, <3>1, <3>2
    <3> QED BY <3>3 DEF Unmarked
  <2>6. \A x \in Ids : Consistent(g, x)
    BY <1>4
  <2>7. f[j] = BuildChain(c, g)
    BY <1>1
  <2>8. \A i \in (j + 1)..n : Good(cs[i], g, {})
    BY <1>4
  <2>9. \A x \in Ids : SameRule(e, g, x)
    BY <1>4
  <2>10. \A x \in Ids : (\A i \in (j + 1)..n : ~On(cs[i], x[1])) => g[x] = e[x]
    BY <1>4
  <2> HIDE DEF c, g, Holds
  <2>11. /\ f[j] \in [Ids -> Entries]
         /\ \A x \in Ids : Consistent(f[j], x)
         /\ Good(c, f[j], {})
         /\ \A x \in Ids : ~On(c, x[1]) => f[j][x] = g[x]
         /\ \A x \in Ids : SameRule(g, f[j], x)
    <3>1. BuildChain(c, g) \in [Ids -> Entries]
      BY <2>2, <2>3, <2>5, <2>6, BuildChainGood
    <3>2. \A x \in Ids : Consistent(BuildChain(c, g), x)
      BY <2>2, <2>3, <2>5, <2>6, BuildChainGood
    <3>3. Good(c, BuildChain(c, g), {})
      BY <2>2, <2>3, <2>5, <2>6, BuildChainGood
    <3>4. \A x \in Ids : ~On(c, x[1]) => BuildChain(c, g)[x] = g[x]
      BY <2>2, <2>3, <2>5, <2>6, BuildChainGood
    <3>5. \A x \in Ids : SameRule(g, BuildChain(c, g), x)
      BY <2>2, <2>3, <2>5, <2>6, BuildChainGood
    <3> QED BY <2>7, <3>1, <3>2, <3>3, <3>4, <3>5
  <2>12. ASSUME NEW i \in j..n PROVE Good(cs[i], f[j], {})
    <3>1. CASE i = j
      BY <2>11, <3>1 DEF c
    <3>2. CASE i # j
      <4>1. i \in (j + 1)..n /\ i \in 1..n
        BY <1>2, <3>2
      <4>2. cs[i] \in Seq(Masks) /\ Nested(cs[i])
        BY <4>1
      <4>3. \A x \in Ids : On(cs[i], x[1]) => f[j][x] = g[x]
        BY <2>11, <3>2, <4>1 DEF Separate, c
      <4>4. Good(cs[i], g, {}) /\ f[j] \in [Ids -> Entries]
        BY <2>8, <2>11, <4>1
      <4> DEFINE h == f[j]
                 a == cs[i]
                 None == {}
      <4>5. /\ a \in Seq(Masks) /\ Nested(a) /\ Good(a, g, None) /\ h \in [Ids -> Entries]
            /\ \A x \in Ids : On(a, x[1]) => h[x] = g[x] /\ (x \in None <=> x \in None)
        BY <4>2, <4>3, <4>4
      <4> HIDE DEF h, a, None
      <4>6. Good(a, h, None)
        BY <2>2, <4>5, GoodSame
      <4> QED BY <4>6 DEF h, a, None
    <3> QED BY <3>1, <3>2
  <2>13. ASSUME NEW x \in Ids, \A i \in j..n : ~On(cs[i], x[1]) PROVE f[j][x] = e[x]
    <3>1. ~On(c, x[1])
      BY <1>2, <2>13 DEF c
    <3>2. g[x] = e[x]
      BY <2>1, <2>10, <2>13
    <3> QED BY <2>11, <3>1, <3>2
  <2>14. ASSUME NEW x \in Ids PROVE SameRule(e, f[j], x)
    BY <2>9, <2>11, SameRuleTrans
  <2> QED BY <2>11, <2>12, <2>13, <2>14 DEF Holds
<1> HIDE DEF Holds
<1>5. ASSUME B # {} PROVE FALSE
  <2>1. n + 1 \in Nat /\ B \in SUBSET (0..(n + 1))
    BY <1>2
  <2> HIDE DEF B
  <2>2. PICK b \in B : \A i \in B : i <= b
    BY <1>5, <2>1, GreatestNat
  <2>3. b \in 1..(n + 1) /\ ~Holds(b)
    BY DEF B
  <2>4. b # n + 1
    BY <1>3, <2>3
  <2>5. b \in 1..n /\ b + 1 \in 0..(n + 1) /\ b + 1 # 0 /\ ~(b + 1 <= b)
    BY <1>2, <2>3, <2>4
  <2>6. Holds(b + 1)
    BY <2>2, <2>5 DEF B
  <2> QED BY <1>4, <2>3, <2>5, <2>6
<1>6. Holds(1)
  <2>1. 1 \in 0..(n + 1) /\ 1 # 0
    BY <1>2
  <2> QED BY <1>5, <2>1
<1>7. f[1] \in [Ids -> Entries]
  BY <1>2
<1> QED BY <1>1, <1>6, <1>7 DEF Holds

-----------------------------------------------------------------------------
(***************************************************************************)
(* Path covers.                                                            *)
(***************************************************************************)

\* The paths of M are nested chains of its masks.
LEMMA PathIsChain ==
  ASSUME NEW M \in SUBSET Masks, IsFiniteSet(M), NEW s \in Paths(M)
  PROVE  s \in Seq(Masks) /\ Nested(s) /\ \A m : On(s, m) => m \in M
<1>1. Cardinality(M) \in Nat
  BY FS_CardinalityType
<1>2. /\ \E n \in 1..Cardinality(M) : s \in [1..n -> M]
      /\ \A i, j \in DOMAIN s : i < j => Cover(s[i], s[j]) /\ s[i] # s[j]
  BY DEF Paths
<1>3. PICK n \in 1..Cardinality(M) : s \in [1..n -> M]
  BY <1>2
<1>4. n \in Nat
  BY <1>1
<1>5. s \in Seq(M) /\ Len(s) = n /\ DOMAIN s = 1..n
  BY <1>3, <1>4
<1>6. s \in Seq(Masks)
  <2>1. \A i \in 1..n : s[i] \in Masks
    BY <1>3
  <2> QED BY <1>4, <1>5, <2>1
<1>7. Nested(s)
  BY <1>2, <1>5 DEF Nested
<1>8. \A m : On(s, m) => m \in M
  BY <1>3, <1>5 DEF On
<1> QED BY <1>6, <1>7, <1>8

\* There is a cover: every tuple in a path of its own.
LEMMA CoverExists ==
  ASSUME NEW M \in SUBSET Masks, IsFiniteSet(M)
  PROVE  CoversWith(M, Cardinality(M)) # {}
<1> DEFINE n == Cardinality(M)
<1>1. n \in Nat /\ ExistsBijection(1..n, M)
  BY FS_CardinalityType
<1>2. PICK g \in Bijection(1..n, M) : TRUE
  BY <1>1 DEF ExistsBijection
<1>3. /\ g \in [1..n -> M]
      /\ \A i, j \in 1..n : g[i] = g[j] => i = j
      /\ \A m \in M : \E i \in 1..n : g[i] = m
  BY <1>2 DEF Bijection, Injection, Surjection, IsInjective
<1> DEFINE ps == [i \in 1..n |-> [l \in 1..1 |-> g[i]]]
<1>4. ps \in [1..n -> Paths(M)]
  <2> SUFFICES ASSUME NEW i \in 1..n PROVE [l \in 1..1 |-> g[i]] \in Paths(M)
    OBVIOUS
  <2> DEFINE s == [l \in 1..1 |-> g[i]]
  <2>1. s \in [1..1 -> M] /\ DOMAIN s = 1..1 /\ 1 \in 1..n
    BY <1>1, <1>3
  <2>2. \A a, b \in DOMAIN s : ~(a < b)
    BY <2>1
  <2> HIDE DEF s
  <2>3. s \in Paths(M)
    BY <2>1, <2>2 DEF Paths
  <2> QED BY <2>3 DEF s
<1>5. ASSUME NEW m \in M PROVE Cardinality({i \in 1..n : On(ps[i], m)}) = 1
  <2>1. PICK h \in 1..n : g[h] = m
    BY <1>3
  <2>2. ASSUME NEW i \in 1..n PROVE On(ps[i], m) <=> i = h
    <3>1. ps[i] = [l \in 1..1 |-> g[i]] /\ Len(ps[i]) = 1 /\ 1 \in 1..1
      OBVIOUS
    <3>2. \A l \in 1..Len(ps[i]) : ps[i][l] = g[i]
      BY <3>1
    <3>3. 1 \in 1..Len(ps[i])
      BY <3>1
    <3>4. On(ps[i], m) <=> g[i] = m
      BY <3>2, <3>3 DEF On
    <3> QED BY <1>3, <2>1, <3>4
  <2>3. {i \in 1..n : On(ps[i], m)} = {h}
    BY <2>2
  <2> QED BY <2>3, FS_Singleton
<1>6. ps \in CoversWith(M, n)
  <2> HIDE DEF ps
  <2> QED BY <1>4, <1>5 DEF CoversWith
<1> QED BY <1>6

\* Each tuple is in exactly one chain of a least cover.
LEMMA PathCoverSplits ==
  ASSUME NEW M \in SUBSET Masks, IsFiniteSet(M), NEW cs \in PathCovers(M)
  PROVE  /\ cs \in Seq(Seq(Masks)) /\ Separate(cs)
         /\ \A i \in 1..Len(cs) : Nested(cs[i]) /\ \A m : On(cs[i], m) => m \in M
         /\ \A m \in M : \E i \in 1..Len(cs) : On(cs[i], m)
<1> DEFINE Least(k) == /\ CoversWith(M, k) # {}
                       /\ \A j \in 0..(k - 1) : CoversWith(M, j) = {}
           n == CHOOSE k \in 0..Cardinality(M) : Least(k)
<1>1. Cardinality(M) \in Nat
  BY FS_CardinalityType
<1>2. \E k \in 0..Cardinality(M) : Least(k)
  <2> DEFINE T == {k \in 0..Cardinality(M) : CoversWith(M, k) # {}}
  <2>1. T \in SUBSET Nat
    <3>1. \A k \in T : k \in 0..Cardinality(M)
      OBVIOUS
    <3>2. \A k \in T : k \in Nat
      BY <1>1, <3>1
    <3> QED BY <3>2
  <2>2. Cardinality(M) \in T
    BY <1>1, CoverExists
  <2>3. PICK k \in T : \A l \in T : k <= l
    <3> HIDE DEF T
    <3> QED BY <2>1, <2>2, LeastNat
  <2>4. k \in 0..Cardinality(M) /\ CoversWith(M, k) # {}
    OBVIOUS
  <2>5. ASSUME NEW j \in 0..(k - 1), CoversWith(M, j) # {} PROVE FALSE
    <3>1. j \in 0..Cardinality(M) /\ ~(k <= j)
      BY <1>1, <2>4
    <3>2. j \in T
      BY <2>5, <3>1
    <3> HIDE DEF T
    <3> QED BY <2>3, <3>1, <3>2
  <2> QED BY <2>4, <2>5
<1>3. n \in 0..Cardinality(M)
  BY <1>2, Zenon
<1>4. cs \in CoversWith(M, n)
  BY Zenon DEF PathCovers
<1>5. n \in Nat
  BY <1>1, <1>3
<1> HIDE DEF n
<1>6. /\ cs \in [1..n -> Paths(M)]
      /\ \A m \in M : Cardinality({i \in 1..n : On(cs[i], m)}) = 1
  BY <1>4 DEF CoversWith
<1>7. Len(cs) = n /\ cs \in Seq(Paths(M)) /\ \A i \in 1..n : cs[i] \in Paths(M)
  BY <1>5, <1>6
<1>8. \A i \in 1..n : cs[i] \in Seq(Masks) /\ Nested(cs[i]) /\ \A m : On(cs[i], m) => m \in M
  BY <1>7, PathIsChain
<1>9. cs \in Seq(Seq(Masks))
  BY <1>5, <1>7, <1>8
<1>10. ASSUME NEW m \in M PROVE \E h \in 1..n : \A i \in 1..n : On(cs[i], m) <=> i = h
  <2> DEFINE I == {i \in 1..n : On(cs[i], m)}
  <2>1. IsFiniteSet(I)
    <3>1. IsFiniteSet(1..n)
      BY <1>5, FS_Interval
    <3> QED BY <3>1, FS_Subset
  <2>2. Cardinality(I) = 1
    BY <1>6
  <2>3. PICK h : I = {h}
    <3> HIDE DEF I
    <3> QED BY <2>1, <2>2, FS_Singleton
  <2>4. h \in I
    BY <2>3
  <2>5. h \in 1..n /\ \A i \in 1..n : On(cs[i], m) <=> i = h
    BY <2>3, <2>4
  <2> QED BY <2>5
<1>11. Separate(cs)
  BY <1>7, <1>8, <1>10 DEF Separate
<1>12. \A m \in M : \E i \in 1..n : On(cs[i], m)
  BY <1>10
<1> QED BY <1>7, <1>8, <1>9, <1>11, <1>12

\* There are finitely many masks and rules, as bit vectors have a fixed size.
LEMMA FiniteRules == IsFiniteSet(Masks) /\ IsFiniteSet(Rules)
<1>1. IsFiniteSet(SUBSET Bits)
  BY BitsAssumption, FS_SUBSET, Zenon
<1>2. IsFiniteSet(Masks)
  BY <1>1, MasksAssumption, FS_Subset
<1>3. IsFiniteSet(Masks \X SUBSET Bits)
  BY <1>1, <1>2, FS_Product
<1> DEFINE f == [r \in Rules |-> <<r.mask, r.key>>]
<1>4. f \in Injection(Rules, Masks \X SUBSET Bits)
  <2>1. f \in [Rules -> Masks \X SUBSET Bits]
    <3>1. \A r \in Rules : r.mask \in Masks /\ r.key \in SUBSET Bits
      BY RuleIdType
    <3> QED BY <3>1
  <2>2. ASSUME NEW r \in Rules, NEW s \in Rules, f[r] = f[s] PROVE r = s
    <3>1. r.mask = s.mask /\ r.key = s.key
      BY <2>2
    <3> QED BY <3>1, DistinctRules DEF DistinctIn
  <2>3. DOMAIN f = Rules
    OBVIOUS
  <2> HIDE DEF f
  <2> QED BY <2>1, <2>2, <2>3 DEF Injection, IsInjective
<1> HIDE DEF f
<1>5. IsFiniteSet(Rules)
  BY <1>3, <1>4, FS_Injection
<1> QED BY <1>2, <1>5

-----------------------------------------------------------------------------
(***************************************************************************)
(* Where a new tuple goes.                                                 *)
(***************************************************************************)

\* The first loop of insertTuple stops at exactly one level.
LEMMA OneSlot ==
  ASSUME NEW c \in Seq(Masks), NEW m
  PROVE  /\ SlotOf(c, m) \in 1..(Len(c) + 1) /\ IsSlot(c, m, SlotOf(c, m))
         /\ \A i \in 1..(Len(c) + 1) : IsSlot(c, m, i) => i = SlotOf(c, m)
<1> DEFINE n == Len(c)
           T == {i \in 1..(n + 1) : i <= n => ~Cover(c[i], m)}
<1>1. n \in Nat
  OBVIOUS
<1>2. T \in SUBSET Nat /\ n + 1 \in T
  <2>1. \A i \in T : i \in Nat
    OBVIOUS
  <2> QED BY <1>1, <2>1
<1>3. PICK t \in T : \A l \in T : t <= l
  <2> HIDE DEF T
  <2> QED BY <1>2, LeastNat
<1>4. t \in 1..(n + 1) /\ (t <= n => ~Cover(c[t], m))
  OBVIOUS
<1>5. \A j \in 1..(t - 1) : Cover(c[j], m)
  <2> SUFFICES ASSUME NEW j \in 1..(t - 1), ~Cover(c[j], m) PROVE FALSE
    OBVIOUS
  <2>1. j \in 1..(n + 1) /\ ~(t <= j)
    BY <1>1, <1>4
  <2>2. j \in T
    BY <2>1
  <2> QED BY <1>3, <2>1, <2>2
<1>6. IsSlot(c, m, t)
  BY <1>4, <1>5 DEF IsSlot
<1>7. SlotOf(c, m) \in 1..(n + 1) /\ IsSlot(c, m, SlotOf(c, m))
  BY <1>4, <1>6, Zenon DEF SlotOf
<1>8. ASSUME NEW i \in 1..(n + 1), NEW j \in 1..(n + 1), IsSlot(c, m, i), IsSlot(c, m, j), i < j
      PROVE  FALSE
  <2>1. i \in 1..(j - 1) /\ i <= Len(c)
    BY <1>1, <1>8
  <2> QED BY <1>8, <2>1 DEF IsSlot
<1>9. \A i \in 1..(n + 1) : IsSlot(c, m, i) => i = SlotOf(c, m)
  <2> SUFFICES ASSUME NEW i \in 1..(n + 1), IsSlot(c, m, i), i # SlotOf(c, m) PROVE FALSE
    OBVIOUS
  <2> DEFINE j == SlotOf(c, m)
  <2>1. j \in 1..(n + 1) /\ IsSlot(c, m, j)
    BY <1>7
  <2> HIDE DEF j
  <2>2. ~(i < j) /\ ~(j < i)
    BY <1>8, <2>1
  <2>3. i = j
    BY <1>1, <2>1, <2>2
  <2> QED BY <2>3 DEF j
<1> QED BY <1>7, <1>9

\* The tuple's chain is a chain that accepts it, or a new one, with the tuple
\* put into its slot; the other chains stay.
LEMMA TupleHosted ==
  ASSUME NEW cs \in Seq(Seq(Masks)), \A i \in 1..Len(cs) : Nested(cs[i]), NEW m \in Masks,
         \A i \in 1..Len(cs) : ~On(cs[i], m)
  PROVE  LET t == WithTuple(cs, m)
         IN  \E h \in 1..(Len(cs) + 1), c \in Seq(Masks) :
               /\ c = IF h <= Len(cs) THEN cs[h] ELSE <<>>
               /\ t.level \in 1..(Len(c) + 1)
               /\ t.chain = Shift(c, m, t.level) /\ Nested(t.chain)
               /\ t.all \in Seq(Seq(Masks)) /\ Len(t.all) = (IF h <= Len(cs) THEN Len(cs) ELSE Len(cs) + 1)
               /\ t.all[h] = t.chain /\ h \in 1..Len(t.all)
               /\ \A i \in 1..Len(cs) : i # h => t.all[i] = cs[i]
<1> DEFINE n  == Len(cs)
           ok == {i \in 1..n : Accepts(cs[i], m)}
           h  == HostFor(cs, m)
           c  == IF h <= n THEN cs[h] ELSE <<>>
           l  == SlotOf(c, m)
           d  == Shift(c, m, l)
           a  == IF h <= n THEN [cs EXCEPT ![h] = d] ELSE Append(cs, d)
<1>1. n \in Nat
  OBVIOUS
<1>2. h \in 1..(n + 1) /\ (h <= n => Accepts(cs[h], m))
  <2>1. CASE ok = {}
    <3>1. h = n + 1
      BY <2>1 DEF HostFor
    <3> QED BY <1>1, <3>1
  <2>2. CASE ok # {}
    <3>1. h = Min(ok)
      BY <2>2 DEF HostFor
    <3>2. \E x \in ok : \A y \in ok : x <= y
      <4>1. \A x \in ok : x \in Nat
        OBVIOUS
      <4>2. ok \in SUBSET Nat
        BY <4>1
      <4> HIDE DEF ok
      <4> QED BY <2>2, <4>2, LeastNat
    <3>3. Min(ok) \in ok
      <4> HIDE DEF ok
      <4> QED BY <3>2, Zenon DEF Min
    <3>4. h \in ok
      BY <3>1, <3>3
    <3>5. h \in 1..n /\ Accepts(cs[h], m)
      BY <3>4
    <3> HIDE DEF h
    <3> QED BY <1>1, <3>5
  <2> QED BY <2>1, <2>2
<1>3. /\ WithTuple(cs, m).all = a /\ WithTuple(cs, m).chain = d /\ WithTuple(cs, m).level = l
  BY DEF WithTuple
<1> HIDE DEF h
<1>4. c \in Seq(Masks) /\ Nested(c) /\ \A j \in 1..Len(c) : c[j] # m
  <2>1. CASE h <= n
    <3>1. h \in 1..n
      BY <1>1, <1>2, <2>1
    <3> QED BY <2>1, <3>1 DEF On
  <2>2. CASE ~(h <= n)
    BY <2>2 DEF Nested
  <2> QED BY <2>1, <2>2
<1>5. Fits(c, m, l) /\ IsSlot(c, m, l) /\ l \in 1..(Len(c) + 1)
  <2>1. IsSlot(c, m, l) /\ l \in 1..(Len(c) + 1)
    BY <1>4, OneSlot
  <2>2. Fits(c, m, l)
    <3>1. CASE h <= n
      <4>1. c = cs[h]
        BY <3>1
      <4>2. PICK i \in 1..(Len(c) + 1) : IsSlot(c, m, i) /\ Fits(c, m, i)
        BY <1>2, <3>1, <4>1 DEF Accepts
      <4>3. i = l
        BY <1>4, <4>2, OneSlot
      <4> QED BY <4>2, <4>3
    <3>2. CASE ~(h <= n)
      <4>1. Len(c) = 0
        BY <3>2
      <4>2. ~(l <= Len(c))
        BY <2>1, <4>1
      <4> QED BY <4>2 DEF Fits
    <3> QED BY <3>1, <3>2
  <2> QED BY <2>1, <2>2
<1> HIDE DEF c, l
<1>6. d \in Seq(Masks) /\ Nested(d)
  BY <1>4, <1>5, ShiftProperties, ShiftNested
<1> HIDE DEF d
<1>7. /\ a \in Seq(Seq(Masks)) /\ Len(a) = (IF h <= n THEN n ELSE n + 1)
      /\ a[h] = d /\ h \in 1..Len(a) /\ \A i \in 1..n : i # h => a[i] = cs[i]
  <2>1. CASE h <= n
    <3>1. h \in 1..n /\ a = [cs EXCEPT ![h] = d]
      BY <1>1, <1>2, <2>1
    <3>2. a \in Seq(Seq(Masks)) /\ Len(a) = n /\ a[h] = d /\ \A i \in 1..n : i # h => a[i] = cs[i]
      BY <1>6, <3>1
    <3> QED BY <2>1, <3>1, <3>2
  <2>2. CASE ~(h <= n)
    <3>1. h = n + 1 /\ a = Append(cs, d)
      BY <1>1, <1>2, <2>2
    <3>2. a \in Seq(Seq(Masks)) /\ Len(a) = n + 1 /\ a[n + 1] = d /\ \A i \in 1..n : a[i] = cs[i]
      BY <1>6, <3>1
    <3> QED BY <1>1, <2>2, <3>1, <3>2
  <2> QED BY <2>1, <2>2
<1> HIDE DEF a
<1>8. c = IF h <= n THEN cs[h] ELSE <<>>
  BY DEF c
<1>9. d = Shift(c, m, l)
  BY DEF d
<1> QED BY <1>2, <1>3, <1>4, <1>5, <1>6, <1>7, <1>8, <1>9

LEMMA ChainOfOn ==
  ASSUME NEW cs, Separate(cs), NEW i \in 1..Len(cs), NEW m, On(cs[i], m)
  PROVE  ChainOf(cs, m) = cs[i]
<1> DEFINE h == CHOOSE j \in 1..Len(cs) : On(cs[j], m)
<1>1. h \in 1..Len(cs) /\ On(cs[h], m)
  BY Zenon
<1>2. ChainOf(cs, m) = cs[h]
  BY DEF ChainOf
<1> HIDE DEF h
<1>3. h = i
  BY <1>1 DEF Separate
<1> QED BY <1>2, <1>3

LEMMA ChainOfOff ==
  ASSUME NEW cs, NEW m, \A i \in 1..Len(cs) : ~On(cs[i], m)
  PROVE  ChainOf(cs, m) = <<m>>
BY DEF ChainOf

LEMMA LevelOf ==
  ASSUME NEW c, NEW m, On(c, m)
  PROVE  Level(c, m) \in 1..Len(c) /\ c[Level(c, m)] = m
BY Zenon DEF Level, On

\* A tuple alone is a chain.
LEMMA Single ==
  ASSUME NEW m \in Masks
  PROVE  <<m>> \in Seq(Masks) /\ Len(<<m>>) = 1 /\ Nested(<<m>>) /\ \A l : On(<<m>>, l) <=> l = m
<1>1. <<m>> \in Seq(Masks) /\ Len(<<m>>) = 1 /\ <<m>>[1] = m
  OBVIOUS
<1>2. \A i, j \in 1..1 : ~(i < j)
  OBVIOUS
<1>3. \A i \in 1..1 : i = 1
  OBVIOUS
<1> DEFINE s == <<m>>
<1>4. s \in Seq(Masks) /\ Len(s) = 1 /\ s[1] = m
  BY <1>1
<1> HIDE DEF s
<1>5. Nested(s)
  BY <1>2, <1>4 DEF Nested
<1>6. \A l : On(s, l) <=> l = m
  BY <1>3, <1>4 DEF On
<1> QED BY <1>4, <1>5, <1>6 DEF s

LEMMA ChainOfType ==
  ASSUME NEW cs \in Seq(Seq(Masks)), \A i \in 1..Len(cs) : Nested(cs[i]), Separate(cs), NEW m \in Masks
  PROVE  ChainOf(cs, m) \in Seq(Masks) /\ Nested(ChainOf(cs, m)) /\ On(ChainOf(cs, m), m)
<1>1. CASE \E i \in 1..Len(cs) : On(cs[i], m)
  <2>1. PICK i \in 1..Len(cs) : On(cs[i], m)
    BY <1>1
  <2>2. ChainOf(cs, m) = cs[i] /\ cs[i] \in Seq(Masks) /\ Nested(cs[i])
    BY <2>1, ChainOfOn
  <2> QED BY <2>1, <2>2
<1>2. CASE \A i \in 1..Len(cs) : ~On(cs[i], m)
  BY <1>2, ChainOfOff, Single
<1> QED BY <1>1, <1>2

-----------------------------------------------------------------------------
(***************************************************************************)
(* The answer of one chain.                                                *)
(***************************************************************************)

\* One test of the search of ChainAnswer: the tuples s[1] .. s[2] - 1 are
\* left, and f has the answers of shorter intervals.
SearchStep(e, c, p, f, s) ==
  LET mid == Root(s[1], s[2])
      x   == Id(c, mid, p)
  IN  IF s[1] >= s[2] THEN <<>>
      ELSE IF ~Hit(e, x) THEN f[<<s[1], mid>>]
      ELSE IF HitMarker(e, x) /\ f[<<mid + 1, s[2]>>] # <<>> THEN f[<<mid + 1, s[2]>>]
      ELSE <<HitRule(e, x)>>

Intervals(n) == (1..(n + 1)) \X (1..(n + 1))

\* An answer in the making: none yet, or a rule.
Found == {<<>>} \cup {<<r>> : r \in Rules \cup {NoRule}}

LEMMA IntervalParts ==
  ASSUME NEW n \in Nat, NEW s \in Intervals(n)
  PROVE  /\ s[1] \in 1..(n + 1) /\ s[2] \in 1..(n + 1) /\ s = <<s[1], s[2]>>
         /\ s[1] < s[2] =>
              /\ Root(s[1], s[2]) \in 1..n /\ Root(s[1], s[2]) \in s[1]..(s[2] - 1)
              /\ <<s[1], Root(s[1], s[2])>> \in Intervals(n)
              /\ <<Root(s[1], s[2]) + 1, s[2]>> \in Intervals(n)
<1>1. s[1] \in 1..(n + 1) /\ s[2] \in 1..(n + 1) /\ s = <<s[1], s[2]>>
  BY DEF Intervals
<1>2. ASSUME s[1] < s[2]
      PROVE  /\ Root(s[1], s[2]) \in 1..n /\ Root(s[1], s[2]) \in s[1]..(s[2] - 1)
             /\ <<s[1], Root(s[1], s[2])>> \in Intervals(n)
             /\ <<Root(s[1], s[2]) + 1, s[2]>> \in Intervals(n)
  <2> DEFINE mid == Root(s[1], s[2])
  <2>1. mid \in s[1]..(s[2] - 1)
    BY <1>1, <1>2, RootInside
  <2> HIDE DEF mid
  <2>2. mid \in 1..n /\ mid \in 1..(n + 1) /\ mid + 1 \in 1..(n + 1)
    BY <1>1, <2>1
  <2>3. <<s[1], mid>> \in Intervals(n) /\ <<mid + 1, s[2]>> \in Intervals(n)
    BY <1>1, <2>2 DEF Intervals
  <2> QED BY <2>1, <2>2, <2>3 DEF mid
<1> QED BY <1>1, <1>2

\* A test looks at shorter intervals only.
LEMMA SearchStepLocal ==
  ASSUME NEW n \in Nat, NEW e, NEW c, NEW p, NEW f, NEW g, NEW s \in Intervals(n),
         \A t \in Intervals(n) : t[2] - t[1] < s[2] - s[1] => f[t] = g[t]
  PROVE  SearchStep(e, c, p, f, s) = SearchStep(e, c, p, g, s)
<1> DEFINE mid == Root(s[1], s[2])
<1>1. s[1] \in 1..(n + 1) /\ s[2] \in 1..(n + 1)
  BY IntervalParts
<1>2. CASE s[1] < s[2]
  <2>1. /\ mid \in s[1]..(s[2] - 1)
        /\ <<s[1], mid>> \in Intervals(n) /\ <<mid + 1, s[2]>> \in Intervals(n)
    BY <1>2, IntervalParts
  <2> DEFINE a == <<s[1], mid>>
             b == <<mid + 1, s[2]>>
  <2> HIDE DEF mid
  <2>2. a[2] - a[1] < s[2] - s[1] /\ b[2] - b[1] < s[2] - s[1]
    BY <1>1, <2>1
  <2>3. f[a] = g[a] /\ f[b] = g[b]
    BY <2>1, <2>2
  <2> QED BY <2>3 DEF SearchStep, mid
<1>3. CASE ~(s[1] < s[2])
  BY <1>1, <1>3 DEF SearchStep
<1> QED BY <1>2, <1>3

LEMMA SearchStepType ==
  ASSUME NEW c \in Seq(Masks), NEW e \in [Ids -> Entries], NEW p \in SUBSET Bits,
         NEW f \in [Intervals(Len(c)) -> Found], NEW s \in Intervals(Len(c))
  PROVE  SearchStep(e, c, p, f, s) \in Found
<1> DEFINE n == Len(c)
           mid == Root(s[1], s[2])
<1>1. n \in Nat /\ <<>> \in Found
  BY DEF Found
<1>2. s[1] \in 1..(n + 1) /\ s[2] \in 1..(n + 1)
  BY <1>1, IntervalParts
<1>3. CASE s[1] < s[2]
  <2>1. /\ mid \in 1..n
        /\ <<s[1], mid>> \in Intervals(n) /\ <<mid + 1, s[2]>> \in Intervals(n)
    BY <1>1, <1>3, IntervalParts
  <2>2. f[<<s[1], mid>>] \in Found /\ f[<<mid + 1, s[2]>>] \in Found
    BY <2>1
  <2>3. <<HitRule(e, Id(c, mid, p))>> \in Found
    <3>1. HitRule(e, Id(c, mid, p)) \in Rules \cup {NoRule}
      BY <2>1, IdType, HitRuleType
    <3> QED BY <3>1 DEF Found
  <2> HIDE DEF mid, n
  <2> QED BY <1>1, <2>2, <2>3 DEF SearchStep, mid
<1>4. CASE ~(s[1] < s[2])
  BY <1>1, <1>2, <1>4 DEF SearchStep
<1> QED BY <1>3, <1>4

\* The answers of all intervals, as a search of ChainAnswer finds them.
Answers(e, c, p) ==
  {f \in [Intervals(Len(c)) -> Found] :
     \A s \in Intervals(Len(c)) : f[s] = SearchStep(e, c, p, f, s)}

LEMMA AnswersExist ==
  ASSUME NEW c \in Seq(Masks), NEW e \in [Ids -> Entries], NEW p \in SUBSET Bits
  PROVE  \E f : f \in Answers(e, c, p)
<1> DEFINE n == Len(c)
           Approx(f, k) == /\ f \in [Intervals(n) -> Found]
                           /\ \A s \in Intervals(n) : s[2] - s[1] <= k => f[s] = SearchStep(e, c, p, f, s)
           T == {k \in 0..(n + 1) : \E f : Approx(f, k)}
<1>1. n \in Nat /\ \A s \in Intervals(n) : s[1] \in 1..(n + 1) /\ s[2] \in 1..(n + 1)
  <2>1. n \in Nat
    OBVIOUS
  <2> HIDE DEF n
  <2> QED BY <2>1, IntervalParts
<1>2. ASSUME NEW f \in [Intervals(n) -> Found], NEW k \in Int,
             \A s \in Intervals(n) : s[2] - s[1] <= k => f[s] = SearchStep(e, c, p, f, s)
      PROVE  \E g : Approx(g, k + 1)
  <2> DEFINE g == [s \in Intervals(n) |-> SearchStep(e, c, p, f, s)]
  <2>1. g \in [Intervals(n) -> Found]
    BY SearchStepType
  <2>2. ASSUME NEW s \in Intervals(n), s[2] - s[1] <= k + 1
        PROVE  g[s] = SearchStep(e, c, p, g, s)
    <3>1. \A t \in Intervals(n) : t[2] - t[1] < s[2] - s[1] => f[t] = g[t]
      <4> SUFFICES ASSUME NEW t \in Intervals(n), t[2] - t[1] < s[2] - s[1] PROVE f[t] = g[t]
        OBVIOUS
      <4>1. t[2] - t[1] <= k
        BY <1>1, <2>2
      <4> QED BY <1>2, <4>1
    <3>2. SearchStep(e, c, p, f, s) = SearchStep(e, c, p, g, s)
      <4> HIDE DEF g
      <4> QED BY <1>1, <3>1, SearchStepLocal
    <3> QED BY <3>2
  <2> HIDE DEF g
  <2>3. Approx(g, k + 1)
    BY <2>1, <2>2
  <2> HIDE DEF Approx
  <2> QED BY <2>3
<1>3. 0 \in T
  <2> DEFINE f == [s \in Intervals(n) |-> <<>>]
             start == 0 - (n + 1)
  <2>1. f \in [Intervals(n) -> Found]
    BY DEF Found
  <2> DEFINE z == [s \in Intervals(n) |-> SearchStep(e, c, p, f, s)]
  <2>2. z \in [Intervals(n) -> Found]
    BY <2>1, SearchStepType
  <2>3. ASSUME NEW s \in Intervals(n), s[2] - s[1] <= 0
        PROVE  z[s] = SearchStep(e, c, p, z, s)
    <3>1. s[1] >= s[2]
      BY <1>1, <2>3
    <3>2. SearchStep(e, c, p, f, s) = <<>> /\ SearchStep(e, c, p, z, s) = <<>>
      BY <3>1 DEF SearchStep
    <3> QED BY <3>2
  <2> HIDE DEF z
  <2>4. Approx(z, 0)
    BY <2>2, <2>3
  <2>5. 0 \in 0..(n + 1)
    BY <1>1
  <2> HIDE DEF Approx
  <2> QED BY <2>4, <2>5
<1>4. PICK k \in T : \A l \in T : l <= k
  <2>1. n + 1 \in Nat /\ T \in SUBSET (0..(n + 1)) /\ T # {}
    BY <1>1, <1>3
  <2> HIDE DEF T
  <2> QED BY <2>1, GreatestNat
<1>5. k \in 0..(n + 1)
  OBVIOUS
<1>6. PICK f : Approx(f, k)
  OBVIOUS
<1>7. k = n + 1
  <2> SUFFICES ASSUME k # n + 1 PROVE FALSE
    OBVIOUS
  <2>1. \E g : Approx(g, k + 1)
    <3>1. f \in [Intervals(n) -> Found] /\ k \in Int
      BY <1>5, <1>6
    <3>2. \A s \in Intervals(n) : s[2] - s[1] <= k => f[s] = SearchStep(e, c, p, f, s)
      BY <1>6
    <3> HIDE DEF Approx
    <3> QED BY <1>2, <3>1, <3>2
  <2>2. k + 1 \in 0..(n + 1) /\ ~(k + 1 <= k)
    BY <1>1, <1>5
  <2> HIDE DEF Approx
  <2>3. k + 1 \in T
    BY <2>1, <2>2
  <2> HIDE DEF T
  <2> QED BY <1>4, <2>2, <2>3
<1>8. \A s \in Intervals(n) : s[2] - s[1] <= k
  BY <1>1, <1>7
<1>9. f \in Answers(e, c, p)
  BY <1>6, <1>8 DEF Answers
<1> QED BY <1>9

\* What holds of an interval when it holds of all shorter ones holds of all.
LEMMA ByLength ==
  ASSUME NEW n \in Nat, NEW S,
         \A s \in Intervals(n) :
           (\A t \in Intervals(n) : t[2] - t[1] < s[2] - s[1] => t \in S) => s \in S
  PROVE  \A s \in Intervals(n) : s \in S
<1> SUFFICES ASSUME NEW s0 \in Intervals(n), s0 \notin S PROVE FALSE
  OBVIOUS
<1> DEFINE T == {k \in Nat : \E s \in Intervals(n) : s \notin S /\ k = s[2] - s[1] + n}
<1>1. \A s \in Intervals(n) : s[1] \in 1..(n + 1) /\ s[2] \in 1..(n + 1)
  BY IntervalParts
<1>2. \A s \in Intervals(n) : s[2] - s[1] + n \in Nat
  BY <1>1
<1>3. s0[2] - s0[1] + n \in T
  BY <1>2
<1>4. PICK k \in T : \A l \in T : k <= l
  <2>1. T \in SUBSET Nat /\ T # {}
    BY <1>3
  <2> HIDE DEF T
  <2> QED BY <2>1, LeastNat
<1>5. PICK s \in Intervals(n) : s \notin S /\ k = s[2] - s[1] + n
  OBVIOUS
<1>6. ASSUME NEW t \in Intervals(n), t[2] - t[1] < s[2] - s[1] PROVE t \in S
  <2> SUFFICES ASSUME t \notin S PROVE FALSE
    OBVIOUS
  <2>1. t[2] - t[1] + n \in T
    BY <1>2
  <2> HIDE DEF T
  <2>2. k <= t[2] - t[1] + n
    BY <1>4, <2>1
  <2> QED BY <1>1, <1>5, <1>6, <2>2
<1> QED BY <1>5, <1>6

\* ChainAnswer is the answer of the interval of all tuples.
LEMMA ChainAnswerSteps ==
  ASSUME NEW c \in Seq(Masks), NEW e \in [Ids -> Entries], NEW p \in SUBSET Bits
  PROVE  \E f : /\ f \in Answers(e, c, p)
                /\ ChainAnswer(e, c, p) = IF f[<<1, Len(c) + 1>>] = <<>> THEN NoRule
                                          ELSE f[<<1, Len(c) + 1>>][1]
<1> DEFINE n == Len(c)
           Is(h) == h = [s \in (1..(Len(c) + 1)) \X (1..(Len(c) + 1)) |->
                      IF s[1] >= s[2] THEN <<>>
                      ELSE IF ~Hit(e, Id(c, Root(s[1], s[2]), p)) THEN h[<<s[1], Root(s[1], s[2])>>]
                      ELSE IF HitMarker(e, Id(c, Root(s[1], s[2]), p)) /\ h[<<Root(s[1], s[2]) + 1, s[2]>>] # <<>>
                           THEN h[<<Root(s[1], s[2]) + 1, s[2]>>]
                      ELSE <<HitRule(e, Id(c, Root(s[1], s[2]), p))>>]
           G == CHOOSE h : Is(h)
<1>1. \A h : Is(h) <=> h = [s \in Intervals(n) |-> SearchStep(e, c, p, h, s)]
  BY Zenon DEF SearchStep, Intervals
<1>2. PICK f : f \in Answers(e, c, p)
  BY AnswersExist
<1>3. f = [s \in Intervals(n) |-> SearchStep(e, c, p, f, s)]
  <2>1. f \in [Intervals(n) -> Found] /\ \A s \in Intervals(n) : f[s] = SearchStep(e, c, p, f, s)
    BY <1>2 DEF Answers
  <2>2. f = [s \in Intervals(n) |-> f[s]]
    BY <2>1
  <2> QED BY <2>1, <2>2
<1>4. Is(G)
  <2>1. Is(f)
    BY <1>1, <1>3
  <2> HIDE DEF Is
  <2> QED BY <2>1, Zenon
<1>5. ChainAnswer(e, c, p) = IF G[<<1, n + 1>>] = <<>> THEN NoRule ELSE G[<<1, n + 1>>][1]
  BY Zenon DEF ChainAnswer
<1> HIDE DEF Is
<1>6. G = [s \in Intervals(n) |-> SearchStep(e, c, p, G, s)]
  BY <1>1, <1>4
<1> HIDE DEF G
<1>7. \A s \in Intervals(n) : G[s] = SearchStep(e, c, p, G, s)
  <2> DEFINE g == [s \in Intervals(n) |-> SearchStep(e, c, p, G, s)]
  <2>1. \A s \in Intervals(n) : g[s] = SearchStep(e, c, p, G, s)
    OBVIOUS
  <2>2. G = g
    BY <1>6
  <2> HIDE DEF g
  <2> QED BY <2>1, <2>2
<1>8. n \in Nat
  OBVIOUS
<1> DEFINE S == {s \in Intervals(n) : G[s] = f[s]}
<1>9. ASSUME NEW s \in Intervals(n), \A t \in Intervals(n) : t[2] - t[1] < s[2] - s[1] => t \in S
      PROVE  s \in S
  <2>1. \A t \in Intervals(n) : t[2] - t[1] < s[2] - s[1] => G[t] = f[t]
    BY <1>9
  <2>2. SearchStep(e, c, p, G, s) = SearchStep(e, c, p, f, s)
    BY <1>8, <2>1, SearchStepLocal
  <2>3. f[s] = SearchStep(e, c, p, f, s)
    BY <1>2 DEF Answers
  <2> QED BY <1>7, <2>2, <2>3
<1>10. \A s \in Intervals(n) : s \in S
  <2> HIDE DEF S
  <2> QED BY <1>8, <1>9, ByLength
<1>11. <<1, n + 1>> \in Intervals(n)
  BY <1>8 DEF Intervals
<1>12. G[<<1, n + 1>>] = f[<<1, n + 1>>]
  BY <1>10, <1>11
<1> QED BY <1>2, <1>5, <1>12

LEMMA ChainAnswerType ==
  ASSUME NEW c \in Seq(Masks), NEW e \in [Ids -> Entries], NEW p \in SUBSET Bits
  PROVE  ChainAnswer(e, c, p) \in Rules \cup {NoRule}
<1> DEFINE n == Len(c)
           all == <<1, n + 1>>
<1>1. PICK f : /\ f \in Answers(e, c, p)
               /\ ChainAnswer(e, c, p) = IF f[all] = <<>> THEN NoRule ELSE f[all][1]
  BY ChainAnswerSteps
<1>2. all \in Intervals(n)
  BY DEF Intervals
<1>3. f[all] \in Found
  BY <1>1, <1>2 DEF Answers
<1> HIDE DEF all
<1> QED BY <1>1, <1>3 DEF Found

\* With complete markers and no dead entry in the way, a search of a chain
\* ends at its longest tuple with an entry for the packet.
LEMMA ChainAnswerTop ==
  ASSUME NEW c \in Seq(Masks), Nested(c), NEW e \in [Ids -> Entries],
         MarkedBelow(c, e, Len(c)), NEW p \in SUBSET Bits,
         \A g \in 1..Len(c) : ~HitsDead(e, Id(c, g, p))
  PROVE  \E top \in 0..Len(c) :
           /\ \A j \in 1..Len(c) : Hit(e, Id(c, j, p)) <=> j <= top
           /\ ChainAnswer(e, c, p) = IF top = 0 THEN NoRule ELSE e[Id(c, top, p)].rule
<1> DEFINE n == Len(c)
           T == {j \in 1..n : Hit(e, Id(c, j, p))}
<1>1. n \in Nat
  OBVIOUS
<1>2. PICK top \in 0..n : (top = 0 \/ top \in T) /\ \A g \in (top + 1)..n : g \notin T
  <2>1. T \in SUBSET (1..n)
    OBVIOUS
  <2> HIDE DEF T
  <2> QED BY <1>1, <2>1, HighestLevel
<1>3. ASSUME NEW j \in 1..n, Hit(e, Id(c, j, p)), NEW i \in 1..(j - 1)
      PROVE  Hit(e, Id(c, i, p)) /\ HitMarker(e, Id(c, i, p))
  BY <1>3, HitsGoDown
<1>4. ASSUME NEW j \in 1..n PROVE Hit(e, Id(c, j, p)) <=> j <= top
  <2>1. CASE j <= top
    <3>1. top \in 1..n /\ Hit(e, Id(c, top, p))
      BY <1>2, <2>1
    <3>2. j = top \/ j \in 1..(top - 1)
      BY <2>1, <3>1
    <3> QED BY <1>3, <2>1, <3>1, <3>2
  <2>2. CASE ~(j <= top)
    <3>1. j \in (top + 1)..n
      BY <1>1, <2>2
    <3>2. j \notin T
      BY <1>2, <3>1
    <3> QED BY <2>2, <3>2
  <2> QED BY <2>1, <2>2
<1>5. PICK f : /\ f \in Answers(e, c, p)
               /\ ChainAnswer(e, c, p) = IF f[<<1, n + 1>>] = <<>> THEN NoRule
                                         ELSE f[<<1, n + 1>>][1]
  BY ChainAnswerSteps
<1> DEFINE at(h)  == IF top < h THEN top ELSE h - 1
           val(s) == IF s[1] < s[2] /\ s[1] <= top THEN <<e[Id(c, at(s[2]), p)].rule>> ELSE <<>>
           S == {s \in Intervals(n) : f[s] = val(s)}
<1>6. ASSUME NEW s \in Intervals(n), \A t \in Intervals(n) : t[2] - t[1] < s[2] - s[1] => t \in S
      PROVE  s \in S
  <2> DEFINE mid == Root(s[1], s[2])
             x   == Id(c, mid, p)
             a   == <<s[1], mid>>
             b   == <<mid + 1, s[2]>>
  <2>1. s[1] \in 1..(n + 1) /\ s[2] \in 1..(n + 1) /\ top \in 0..n
    BY <1>1, IntervalParts
  <2>2. f[s] = SearchStep(e, c, p, f, s)
    BY <1>5 DEF Answers
  <2>3. CASE ~(s[1] < s[2])
    <3>1. SearchStep(e, c, p, f, s) = <<>>
      BY <2>1, <2>3 DEF SearchStep
    <3>2. val(s) = <<>>
      BY <2>3
    <3> QED BY <2>2, <3>1, <3>2
  <2>4. CASE s[1] < s[2]
    <3>1. /\ mid \in s[1]..(s[2] - 1) /\ mid \in 1..n
          /\ a \in Intervals(n) /\ b \in Intervals(n)
      BY <1>1, <2>4, IntervalParts
    <3>2. f[s] = IF ~Hit(e, x) THEN f[a]
                 ELSE IF HitMarker(e, x) /\ f[b] # <<>> THEN f[b]
                 ELSE <<HitRule(e, x)>>
      <4>1. ~(s[1] >= s[2])
        BY <2>1, <2>4
      <4> HIDE DEF mid
      <4> QED BY <2>2, <4>1 DEF SearchStep, mid
    <3>3. x \in Ids
      BY <3>1, IdType
    <3>4. Hit(e, x) <=> mid <= top
      BY <1>4, <3>1
    <3>5. HitRule(e, x) = e[x].rule
      BY <3>1 DEF HitRule
    <3>6. mid + 1 <= top => HitMarker(e, x)
      <4> SUFFICES ASSUME mid + 1 <= top PROVE HitMarker(e, x)
        OBVIOUS
      <4>1. top \in 1..n /\ mid \in 1..(top - 1) /\ Hit(e, Id(c, top, p))
        <5>1. top \in 1..n /\ mid \in 1..(top - 1)
          BY <2>1, <3>1
        <5> QED BY <1>4, <5>1
      <4> HIDE DEF mid
      <4> QED BY <1>3, <4>1
    <3> HIDE DEF mid
    <3>7. a[2] - a[1] < s[2] - s[1] /\ b[2] - b[1] < s[2] - s[1]
      BY <2>1, <3>1
    <3>8. f[a] = val(a) /\ f[b] = val(b)
      <4>1. a \in S /\ b \in S
        BY <1>6, <3>1, <3>7
      <4> QED BY <4>1
    <3>9. CASE ~(mid <= top)
      <4>1. f[s] = val(a)
        BY <3>2, <3>4, <3>8, <3>9
      <4>2. CASE s[1] <= top
        <5>1. s[1] < mid /\ at(mid) = top /\ at(s[2]) = top
          BY <2>1, <3>1, <3>9, <4>2
        <5> HIDE DEF at
        <5> QED BY <2>4, <4>1, <4>2, <5>1
      <4>3. CASE ~(s[1] <= top)
        BY <4>1, <4>3
      <4> QED BY <4>2, <4>3
    <3>10. CASE mid <= top
      <4>1. s[1] <= top
        BY <2>1, <3>1, <3>10
      <4>2. val(s) = <<e[Id(c, at(s[2]), p)].rule>>
        BY <2>4, <4>1
      <4>3. CASE mid + 1 < s[2] /\ mid + 1 <= top
        <5>1. f[b] = <<e[Id(c, at(s[2]), p)].rule>>
          <6> HIDE DEF at
          <6> QED BY <3>8, <4>3
        <5>2. f[b] # <<>>
          BY <5>1
        <5> HIDE DEF val, at, b, x
        <5> QED BY <3>2, <3>4, <3>6, <3>10, <4>2, <4>3, <5>1, <5>2
      <4>4. CASE ~(mid + 1 < s[2] /\ mid + 1 <= top)
        <5>1. f[b] = <<>>
          BY <3>8, <4>4
        <5>2. at(s[2]) = mid
          BY SMTT(30), <2>1, <3>1, <3>10, <4>4
        <5>3. f[s] = <<e[x].rule>>
          <6> HIDE DEF b, x
          <6> QED BY <3>2, <3>4, <3>5, <3>10, <5>1
        <5> HIDE DEF at, val
        <5> QED BY <4>2, <5>2, <5>3
      <4> QED BY <4>3, <4>4
    <3> QED BY <3>9, <3>10
  <2> QED BY <2>3, <2>4
<1>7. \A s \in Intervals(n) : s \in S
  <2> HIDE DEF S
  <2> QED BY <1>1, <1>6, ByLength
<1>8. <<1, n + 1>> \in Intervals(n)
  BY <1>1 DEF Intervals
<1>9. f[<<1, n + 1>>] = IF 1 <= top THEN <<e[Id(c, top, p)].rule>> ELSE <<>>
  <2>1. f[<<1, n + 1>>] = val(<<1, n + 1>>)
    BY <1>7, <1>8
  <2>2. at(n + 1) = top
    BY <1>1
  <2>3. 1 <= top => 1 < n + 1
    BY <1>1
  <2> HIDE DEF at
  <2> QED BY <2>1, <2>2, <2>3
<1>10. ChainAnswer(e, c, p) = IF top = 0 THEN NoRule ELSE e[Id(c, top, p)].rule
  <2>1. CASE top = 0
    <3>1. f[<<1, n + 1>>] = <<>>
      BY <1>9, <2>1
    <3> QED BY <1>5, <2>1, <3>1
  <2>2. CASE top # 0
    <3>1. 1 <= top
      BY <1>1, <2>2
    <3>2. f[<<1, n + 1>>] = <<e[Id(c, top, p)].rule>>
      BY <1>9, <3>1
    <3> QED BY <1>5, <2>2, <3>2
  <2> QED BY <2>1, <2>2
<1> HIDE DEF n
<1> QED BY <1>4, <1>10 DEF n

\* Of a packet that meets no entry in P, and with no dead entry in the way, a
\* good chain answers the best of the rules in its entries.
LEMMA ChainAnswerBest ==
  ASSUME NEW c \in Seq(Masks), Nested(c), NEW e \in [Ids -> Entries],
         \A x \in Ids : Consistent(e, x), NEW P, Good(c, e, P),
         NEW p \in SUBSET Bits, \A g \in 1..Len(c) : ~HitsDead(e, Id(c, g, p)),
         NEW S \in SUBSET Rules, Avoids(c, p, P), HasRules(c, e, p, S)
  PROVE  ChainAnswer(e, c, p) = BestMatch(S, p)
<1>1. Len(c) \in Nat /\ MarkedBelow(c, e, Len(c)) /\ \A j \in 1..Len(c) : FreshAt(c, e, P, j)
  BY DEF Good, Complete
<1>2. PICK n \in 0..Len(c) :
        /\ \A j \in 1..Len(c) : Hit(e, Id(c, j, p)) <=> j <= n
        /\ ChainAnswer(e, c, p) = IF n = 0 THEN NoRule ELSE e[Id(c, n, p)].rule
  BY <1>1, ChainAnswerTop
<1>3. EndsAt(c, e, p, n)
  BY <1>2 DEF Hit, EndsAt
<1>4. BestMatch(S, p) = IF n = 0 THEN NoRule ELSE e[Id(c, n, p)].rule
  BY <1>1, <1>3, TopBest
<1> QED BY <1>2, <1>4

-----------------------------------------------------------------------------
(***************************************************************************)
(* Updates of one of several chains.                                       *)
(***************************************************************************)

\* The chains of two tuples are the same or have no tuple in common.
LEMMA ChainsApart ==
  ASSUME NEW cs, Separate(cs), NEW a \in Masks, NEW b \in Masks,
         NEW l, On(ChainOf(cs, a), l), On(ChainOf(cs, b), l)
  PROVE  ChainOf(cs, a) = ChainOf(cs, b)
<1>1. ASSUME NEW m \in Masks, On(ChainOf(cs, m), l)
      PROVE  IF \E i \in 1..Len(cs) : On(cs[i], l)
             THEN \E i \in 1..Len(cs) : On(cs[i], l) /\ ChainOf(cs, m) = cs[i]
             ELSE ChainOf(cs, m) = <<l>>
  <2>1. CASE \E i \in 1..Len(cs) : On(cs[i], m)
    <3>1. PICK i \in 1..Len(cs) : On(cs[i], m)
      BY <2>1
    <3>2. ChainOf(cs, m) = cs[i]
      BY <3>1, ChainOfOn
    <3> QED BY <1>1, <3>2
  <2>2. CASE \A i \in 1..Len(cs) : ~On(cs[i], m)
    <3>1. ChainOf(cs, m) = <<m>>
      BY <2>2, ChainOfOff
    <3>2. l = m
      BY <1>1, <3>1, Single
    <3> QED BY <2>2, <3>1, <3>2
  <2> QED BY <2>1, <2>2
<1>2. CASE \E i \in 1..Len(cs) : On(cs[i], l)
  <2>1. PICK i \in 1..Len(cs) : On(cs[i], l) /\ ChainOf(cs, a) = cs[i]
    BY <1>1, <1>2
  <2>2. PICK j \in 1..Len(cs) : On(cs[j], l) /\ ChainOf(cs, b) = cs[j]
    BY <1>1, <1>2
  <2>3. i = j
    BY <2>1, <2>2 DEF Separate
  <2> QED BY <2>1, <2>2, <2>3
<1>3. CASE ~ \E i \in 1..Len(cs) : On(cs[i], l)
  BY <1>1, <1>3
<1> QED BY <1>2, <1>3

\* All chains stay good when one of them is changed and stays good itself.
LEMMA OthersGood ==
  ASSUME NEW cs \in Seq(Seq(Masks)), \A i \in 1..Len(cs) : Nested(cs[i]), Separate(cs),
         NEW e \in [Ids -> Entries], NEW P, \A m \in Masks : Good(ChainOf(cs, m), e, P),
         NEW f \in [Ids -> Entries], NEW Q, NEW a \in Masks,
         Good(ChainOf(cs, a), f, Q),
         \A x \in Ids : ~On(ChainOf(cs, a), x[1]) => f[x] = e[x] /\ (x \in Q <=> x \in P),
         NEW m \in Masks
  PROVE  Good(ChainOf(cs, m), f, Q)
<1>1. CASE \E l : On(ChainOf(cs, a), l) /\ On(ChainOf(cs, m), l)
  <2>1. ChainOf(cs, a) = ChainOf(cs, m)
    BY <1>1, ChainsApart
  <2> QED BY <2>1
<1>2. CASE \A l : ~(On(ChainOf(cs, a), l) /\ On(ChainOf(cs, m), l))
  <2> DEFINE c == ChainOf(cs, m)
  <2>1. c \in Seq(Masks) /\ Nested(c) /\ Good(c, e, P)
    BY ChainOfType
  <2>2. \A x \in Ids : On(c, x[1]) => f[x] = e[x] /\ (x \in Q <=> x \in P)
    BY <1>2
  <2> HIDE DEF c
  <2>3. Good(c, f, Q)
    BY <2>1, <2>2, GoodSame
  <2> QED BY <2>3 DEF c
<1> QED BY <1>1, <1>2

LEMMA InsertAtGood ==
  ASSUME NEW c \in Seq(Masks), Nested(c), NEW e \in [Ids -> Entries], NEW P, NEW Q,
         NEW i \in 1..Len(c), NEW r \in Rules, c[i] = r.mask,
         \A x \in Ids : Consistent(e, x), Good(c, e, P),
         Q = IF e[<<r.mask, r.key>>].inTable THEN P \cup {<<r.mask, r.key>>} ELSE P
  PROVE  Good(c, InsertAt(c, e, i, r), Q)
<1>1. Complete(c, e, Len(c)) /\ Skips(c, e, P) /\ \A j \in 1..Len(c) : FreshAt(c, e, P, j)
  BY DEF Good
<1>2. Complete(c, InsertAt(c, e, i, r), Len(c))
  BY <1>1, InsertAtComplete
<1>3. Skips(c, InsertAt(c, e, i, r), Q)
  BY <1>1, InsertAtFresh
<1>4. \A j \in 1..Len(c) : FreshAt(c, InsertAt(c, e, i, r), Q, j)
  BY <1>1, InsertAtFresh
<1> QED BY <1>2, <1>3, <1>4 DEF Good

LEMMA EraseAtGood ==
  ASSUME NEW c \in Seq(Masks), Nested(c), NEW e \in [Ids -> Entries], NEW P,
         NEW i \in 1..Len(c), NEW r \in Rules, c[i] = r.mask,
         e[<<r.mask, r.key>>].inTable,
         \A x \in Ids : Consistent(e, x), Good(c, e, P)
  PROVE  Good(c, EraseAt(c, e, i, r), P \ {<<r.mask, r.key>>})
<1>1. Complete(c, e, Len(c)) /\ Skips(c, e, P) /\ \A j \in 1..Len(c) : FreshAt(c, e, P, j)
  BY DEF Good
<1>2. Complete(c, EraseAt(c, e, i, r), Len(c))
  BY <1>1, EraseAtComplete
<1>3. Skips(c, EraseAt(c, e, i, r), P \ {<<r.mask, r.key>>})
  BY <1>1, EraseAtFresh
<1>4. \A j \in 1..Len(c) : FreshAt(c, EraseAt(c, e, i, r), P \ {<<r.mask, r.key>>}, j)
  BY <1>1, EraseAtFresh
<1> QED BY <1>2, <1>3, <1>4 DEF Good

\* The tuples of a chain that tuple m has joined.
LEMMA ShiftOn ==
  ASSUME NEW c \in Seq(Masks), NEW m \in Masks, NEW i \in 1..(Len(c) + 1), NEW l
  PROVE  On(Shift(c, m, i), l) <=> l = m \/ On(c, l)
<1> DEFINE s == Shift(c, m, i)
<1>1. /\ Len(s) = Len(c) + 1 /\ Len(c) \in Nat
      /\ \A j \in 1..(i - 1) : s[j] = c[j]
      /\ s[i] = m
      /\ \A j \in (i + 1)..(Len(c) + 1) : s[j] = c[j - 1]
  BY ShiftProperties
<1> HIDE DEF s
<1>2. ASSUME On(s, l) PROVE l = m \/ On(c, l)
  <2>1. PICK j \in 1..Len(s) : s[j] = l
    BY <1>2 DEF On
  <2>2. CASE j < i
    <3>1. j \in 1..(i - 1) /\ j \in 1..Len(c)
      BY <1>1, <2>1, <2>2
    <3> QED BY <1>1, <2>1, <3>1 DEF On
  <2>3. CASE j = i
    BY <1>1, <2>1, <2>3
  <2>4. CASE j > i
    <3>1. j \in (i + 1)..(Len(c) + 1) /\ j - 1 \in 1..Len(c)
      BY <1>1, <2>1, <2>4
    <3> QED BY <1>1, <2>1, <3>1 DEF On
  <2> QED BY <1>1, <2>1, <2>2, <2>3, <2>4
<1>3. ASSUME l = m PROVE On(s, l)
  <2>1. i \in 1..Len(s)
    BY <1>1
  <2> QED BY <1>1, <1>3, <2>1 DEF On
<1>4. ASSUME On(c, l) PROVE On(s, l)
  <2>1. PICK j \in 1..Len(c) : c[j] = l
    BY <1>4 DEF On
  <2>2. CASE j < i
    <3>1. j \in 1..(i - 1) /\ j \in 1..Len(s)
      BY <1>1, <2>1, <2>2
    <3> QED BY <1>1, <2>1, <3>1 DEF On
  <2>3. CASE ~(j < i)
    <3>1. j + 1 \in (i + 1)..(Len(c) + 1) /\ j + 1 \in 1..Len(s) /\ (j + 1) - 1 = j
      BY <1>1, <2>1, <2>3
    <3>2. s[j + 1] = c[j]
      BY <1>1, <3>1
    <3> QED BY <2>1, <3>1, <3>2 DEF On
  <2> QED BY <2>2, <2>3
<1> QED BY <1>2, <1>3, <1>4 DEF s

\* A new tuple joins one chain or makes one, and the chains still divide the
\* tuples; the other chains stay.
LEMMA HostedDivides ==
  ASSUME NEW cs \in Seq(Seq(Masks)), \A i \in 1..Len(cs) : Nested(cs[i]), Separate(cs),
         NEW m \in Masks, \A i \in 1..Len(cs) : ~On(cs[i], m)
  PROVE  LET t == WithTuple(cs, m)
         IN  /\ t.all \in Seq(Seq(Masks)) /\ Separate(t.all) /\ Len(cs) <= Len(t.all)
             /\ \A i \in 1..Len(t.all) : Nested(t.all[i])
             /\ \A l : (\E i \in 1..Len(t.all) : On(t.all[i], l)) <=>
                         (l = m \/ \E i \in 1..Len(cs) : On(cs[i], l))
             /\ \E i \in 1..Len(t.all) : t.chain = t.all[i]
             /\ \E c \in Seq(Masks) : /\ Len(c) = 0 \/ \E i \in 1..Len(cs) : c = cs[i]
                                      /\ t.level \in 1..(Len(c) + 1)
                                      /\ t.chain = Shift(c, m, t.level) /\ Nested(t.chain)
             /\ \A l : ~On(t.chain, l) => ChainOf(t.all, l) = ChainOf(cs, l)
<1> DEFINE t == WithTuple(cs, m)
           a == t.all
           d == t.chain
           v == t.level
<1>1. PICK h \in 1..(Len(cs) + 1), c \in Seq(Masks) :
        /\ c = IF h <= Len(cs) THEN cs[h] ELSE <<>>
        /\ v \in 1..(Len(c) + 1)
        /\ d = Shift(c, m, v) /\ Nested(d)
        /\ a \in Seq(Seq(Masks)) /\ Len(a) = (IF h <= Len(cs) THEN Len(cs) ELSE Len(cs) + 1)
        /\ a[h] = d /\ h \in 1..Len(a)
        /\ \A i \in 1..Len(cs) : i # h => a[i] = cs[i]
  BY TupleHosted
<1> HIDE DEF a, d, v
<1>2. Len(cs) \in Nat /\ Len(cs) <= Len(a)
  BY <1>1
<1>3. \A i \in 1..Len(a) : i # h => i \in 1..Len(cs) /\ a[i] = cs[i]
  BY <1>1, <1>2
<1>4. \A l : On(d, l) <=> l = m \/ On(c, l)
  <2> TAKE l
  <2>1. v \in 1..(Len(c) + 1) /\ d = Shift(c, m, v)
    BY <1>1
  <2>2. On(Shift(c, m, v), l) <=> l = m \/ On(c, l)
    BY <2>1, ShiftOn
  <2> QED BY <2>1, <2>2
<1>5. Len(c) = 0 \/ (h \in 1..Len(cs) /\ c = cs[h])
  BY <1>1, <1>2
<1>6. \A l : On(c, l) => h \in 1..Len(cs) /\ c = cs[h]
  BY <1>5 DEF On
<1>7. \A i \in 1..Len(a) : Nested(a[i])
  BY <1>1, <1>3
<1>8. Separate(a)
  <2> SUFFICES ASSUME NEW i \in 1..Len(a), NEW j \in 1..Len(a), NEW l, On(a[i], l), On(a[j], l)
               PROVE  i = j
    BY DEF Separate
  <2>1. CASE i # h /\ j # h
    BY <1>3, <2>1 DEF Separate
  <2>2. CASE i = h /\ j # h
    BY <1>1, <1>3, <1>4, <1>6, <2>2 DEF Separate
  <2>3. CASE i # h /\ j = h
    BY <1>1, <1>3, <1>4, <1>6, <2>3 DEF Separate
  <2> QED BY <2>1, <2>2, <2>3
<1>9. ASSUME NEW l, NEW i \in 1..Len(a), On(a[i], l)
      PROVE  l = m \/ \E j \in 1..Len(cs) : On(cs[j], l)
  <2>1. CASE i = h
    BY <1>1, <1>4, <1>6, <1>9, <2>1
  <2>2. CASE i # h
    BY <1>3, <1>9, <2>2
  <2> QED BY <2>1, <2>2
<1>10. ASSUME NEW l, l = m \/ \E j \in 1..Len(cs) : On(cs[j], l)
       PROVE  \E i \in 1..Len(a) : On(a[i], l)
  <2>1. CASE On(d, l)
    BY <1>1, <2>1
  <2>2. CASE ~On(d, l)
    <3>1. PICK j \in 1..Len(cs) : On(cs[j], l)
      BY <1>4, <1>10, <2>2
    <3>2. j # h
      <4> SUFFICES ASSUME j = h PROVE FALSE
        OBVIOUS
      <4>1. c = cs[h]
        BY <1>1
      <4> QED BY <1>4, <2>2, <3>1, <4>1
    <3>3. a[j] = cs[j] /\ j \in 1..Len(a)
      BY <1>1, <1>2, <3>2
    <3> QED BY <3>1, <3>3
  <2> QED BY <2>1, <2>2
<1>11. ASSUME NEW l, ~On(d, l) PROVE ChainOf(a, l) = ChainOf(cs, l)
  <2>1. l # m
    BY <1>4, <1>11
  <2>2. CASE \E j \in 1..Len(cs) : On(cs[j], l)
    <3>1. PICK j \in 1..Len(cs) : On(cs[j], l)
      BY <2>2
    <3>2. j # h
      <4> SUFFICES ASSUME j = h PROVE FALSE
        OBVIOUS
      <4>1. c = cs[h]
        BY <1>1
      <4> QED BY <1>4, <1>11, <3>1, <4>1
    <3>3. a[j] = cs[j] /\ j \in 1..Len(a) /\ On(a[j], l)
      BY <1>1, <1>2, <3>1, <3>2
    <3>4. ChainOf(a, l) = a[j]
      BY <1>8, <3>3, ChainOfOn
    <3>5. ChainOf(cs, l) = cs[j]
      BY <3>1, ChainOfOn
    <3> QED BY <3>3, <3>4, <3>5
  <2>3. CASE \A j \in 1..Len(cs) : ~On(cs[j], l)
    <3>1. \A i \in 1..Len(a) : ~On(a[i], l)
      BY <1>9, <2>1, <2>3
    <3>2. ChainOf(a, l) = <<l>>
      BY <3>1, ChainOfOff
    <3>3. ChainOf(cs, l) = <<l>>
      BY <2>3, ChainOfOff
    <3> QED BY <3>2, <3>3
  <2> QED BY <2>2, <2>3
<1>12. \E i \in 1..Len(a) : d = a[i]
  BY <1>1
<1>13. \A l : (\E i \in 1..Len(a) : On(a[i], l)) <=> (l = m \/ \E i \in 1..Len(cs) : On(cs[i], l))
  BY <1>9, <1>10
<1>14. /\ Len(c) = 0 \/ \E i \in 1..Len(cs) : c = cs[i]
       /\ v \in 1..(Len(c) + 1) /\ d = Shift(c, m, v) /\ Nested(d)
  BY <1>1, <1>5
<1>15. a \in Seq(Seq(Masks)) /\ Len(cs) <= Len(a)
  BY <1>1, <1>2
<1> USE DEF a, d, v
<1> QED BY <1>7, <1>8, <1>11, <1>12, <1>13, <1>14, <1>15

\* A new tuple's first rule: with all chains good before, all are good after.
LEMMA TupleJoins ==
  ASSUME NEW cs \in Seq(Seq(Masks)), \A i \in 1..Len(cs) : Nested(cs[i]), Separate(cs),
         NEW e \in [Ids -> Entries], \A x \in Ids : Consistent(e, x),
         NEW P, \A m \in Masks : Good(ChainOf(cs, m), e, P),
         NEW m \in Masks, \A i \in 1..Len(cs) : ~On(cs[i], m),
         \A k \in SUBSET m : ~Listed(e[<<m, k>>])
  PROVE  LET t == WithTuple(cs, m)
             f == Link(t.chain, e, t.level)
         IN  /\ t.chain \in Seq(Masks) /\ Nested(t.chain)
             /\ t.level \in 1..Len(t.chain) /\ t.chain[t.level] = m
             /\ f \in [Ids -> Entries] /\ \A x \in Ids : Consistent(f, x)
             /\ \A x \in Ids : SameRule(e, f, x)
             /\ \A l \in Masks : ChainOf(t.all, l) = (IF On(t.chain, l) THEN t.chain ELSE ChainOf(cs, l))
             /\ \A l \in Masks : Good(ChainOf(t.all, l), f, P)
             /\ On(t.chain, m)
<1> DEFINE t == WithTuple(cs, m)
           a == t.all
           d == t.chain
           v == t.level
           f == Link(d, e, v)
<1>1. /\ a \in Seq(Seq(Masks)) /\ Separate(a)
      /\ \A i \in 1..Len(a) : Nested(a[i])
      /\ \E i \in 1..Len(a) : d = a[i]
      /\ \E c \in Seq(Masks) : /\ Len(c) = 0 \/ \E i \in 1..Len(cs) : c = cs[i]
                               /\ v \in 1..(Len(c) + 1)
                               /\ d = Shift(c, m, v) /\ Nested(d)
      /\ \A l : ~On(d, l) => ChainOf(a, l) = ChainOf(cs, l)
  BY HostedDivides
<1> HIDE DEF a, d, v
<1>2. PICK c \in Seq(Masks) : /\ Len(c) = 0 \/ \E i \in 1..Len(cs) : c = cs[i]
                              /\ v \in 1..(Len(c) + 1)
                              /\ d = Shift(c, m, v) /\ Nested(d)
  BY <1>1
<1>3. d \in Seq(Masks) /\ v \in 1..Len(d) /\ d[v] = m
  <2>1. d \in Seq(Masks) /\ Len(d) = Len(c) + 1 /\ d[v] = m
    BY <1>2, ShiftProperties
  <2> QED BY <1>2, <2>1
<1>4. Good(c, e, P)
  <2>1. CASE Len(c) = 0
    BY <2>1, GoodEmpty
  <2>2. CASE Len(c) # 0
    <3>1. PICK i \in 1..Len(cs) : c = cs[i]
      BY <1>2, <2>2
    <3>2. 1 \in 1..Len(c) /\ c[1] \in Masks
      BY <2>2
    <3>3. On(cs[i], c[1])
      BY <3>1, <3>2 DEF On
    <3>4. ChainOf(cs, c[1]) = c
      BY <3>1, <3>3, ChainOfOn
    <3> QED BY <3>2, <3>4
  <2> QED BY <2>1, <2>2
<1>5. Unmarked(e, m) /\ Unlisted(e, m)
  <2> SUFFICES ASSUME NEW k \in SUBSET m
               PROVE  MARKER \notin e[<<m, k>>].bits /\ ~Listed(e[<<m, k>>])
    BY DEF Unmarked, Unlisted
  <2>1. <<m, k>> \in Ids
    BY MasksAssumption DEF Ids
  <2>2. ~e[<<m, k>>].inTable
    BY DEF Listed
  <2> QED BY <2>1, <2>2 DEF Consistent
<1>6. Good(d, f, P)
  BY <1>2, <1>4, <1>5, LinkGood
<1>7. f \in [Ids -> Entries]
  BY <1>3, LinkType
<1>8. \A x \in Ids : Consistent(f, x)
  BY <1>3, LinkConsistent
<1>9. \A x \in Ids : SameRule(e, f, x)
  BY <1>3, LinkSameRule
<1>10. \A x \in Ids : ~On(d, x[1]) => f[x] = e[x]
  BY <1>3, LinkAlone
<1> HIDE DEF f
<1>11. ASSUME NEW l \in Masks, On(d, l) PROVE ChainOf(a, l) = d
  BY <1>1, <1>11, ChainOfOn
<1>12. On(d, m)
  BY <1>3 DEF On
<1>13. ASSUME NEW l \in Masks PROVE Good(ChainOf(a, l), f, P)
  <2>1. CASE On(d, l)
    BY <1>6, <1>11, <2>1
  <2>2. CASE ~On(d, l)
    <3> DEFINE b == ChainOf(cs, l)
    <3>1. b \in Seq(Masks) /\ Nested(b) /\ On(b, l) /\ Good(b, e, P)
      BY ChainOfType
    <3>2. ChainOf(a, l) = b
      BY <1>1, <2>2
    <3> HIDE DEF b
    <3>3. ASSUME NEW x \in Ids, On(b, x[1]) PROVE f[x] = e[x]
      <4>1. ~On(d, x[1])
        <5> SUFFICES ASSUME On(d, x[1]) PROVE FALSE
          OBVIOUS
        <5>1. ChainOf(a, m) = d /\ On(ChainOf(a, l), x[1]) /\ On(ChainOf(a, m), x[1])
          BY <1>11, <1>12, <3>2, <3>3
        <5>2. ChainOf(a, l) = ChainOf(a, m)
          BY <1>1, <5>1, ChainsApart
        <5> QED BY <2>2, <3>1, <3>2, <5>1, <5>2
      <4> QED BY <1>10, <4>1
    <3>4. \A x \in Ids : On(b, x[1]) => f[x] = e[x] /\ (x \in P <=> x \in P)
      BY <3>3
    <3>5. Good(b, f, P)
      BY <1>7, <3>1, <3>4, GoodSame
    <3> QED BY <3>2, <3>5
  <2> QED BY <2>1, <2>2
<1>14. \A l \in Masks : ChainOf(a, l) = (IF On(d, l) THEN d ELSE ChainOf(cs, l))
  BY <1>1, <1>11
<1>15. Nested(d)
  BY <1>2
<1> USE DEF a, d, v, f
<1> QED BY <1>3, <1>7, <1>8, <1>9, <1>12, <1>13, <1>14, <1>15

-----------------------------------------------------------------------------
(***************************************************************************)
(* The rules in the entries.                                               *)
(***************************************************************************)

RulesIn(e) == {e[x].rule : x \in {y \in Ids : RULE \in e[y].bits}}

\* Each rule is at home in its own entry.
LEMMA RuleAtHome ==
  ASSUME NEW e \in [Ids -> Entries], \A x \in Ids : Consistent(e, x)
  PROVE  /\ RulesIn(e) \in SUBSET Rules
         /\ \A r \in Rules : r \in RulesIn(e) <=> RULE \in e[<<r.mask, r.key>>].bits
         /\ \A r \in RulesIn(e) : e[<<r.mask, r.key>>].rule = r
<1>1. ASSUME NEW r \in RulesIn(e)
      PROVE  /\ r \in Rules /\ RULE \in e[<<r.mask, r.key>>].bits
             /\ e[<<r.mask, r.key>>].rule = r
  <2>1. PICK y \in Ids : RULE \in e[y].bits /\ r = e[y].rule
    BY DEF RulesIn
  <2>2. r \in Rules /\ <<r.mask, r.key>> = y
    BY <2>1 DEF Consistent
  <2> QED BY <2>1, <2>2
<1>2. ASSUME NEW r \in Rules, RULE \in e[<<r.mask, r.key>>].bits
      PROVE  r \in RulesIn(e)
  <2> DEFINE x == <<r.mask, r.key>>
             s == e[x].rule
  <2>1. x \in Ids /\ s \in Rules /\ <<s.mask, s.key>> = x
    BY <1>2, RuleIdType DEF Consistent
  <2> HIDE DEF s
  <2>2. s.mask = r.mask /\ s.key = r.key
    BY <2>1
  <2>3. s = r
    BY <2>1, <2>2, DistinctRules DEF DistinctIn
  <2> QED BY <1>2, <2>1, <2>3 DEF RulesIn, s
<1> QED BY <1>1, <1>2

LEMMA RuleAdded ==
  ASSUME NEW e \in [Ids -> Entries], \A x \in Ids : Consistent(e, x),
         NEW f \in [Ids -> Entries], \A x \in Ids : Consistent(f, x), NEW r \in Rules,
         \A y \in Ids : y # <<r.mask, r.key>> => SameRule(e, f, y),
         RULE \in f[<<r.mask, r.key>>].bits
  PROVE  RulesIn(f) = RulesIn(e) \cup {r}
<1>1. RulesIn(e) \in SUBSET Rules /\ RulesIn(f) \in SUBSET Rules
  BY RuleAtHome
<1>2. ASSUME NEW s \in Rules, s # r PROVE s \in RulesIn(f) <=> s \in RulesIn(e)
  <2>1. <<s.mask, s.key>> # <<r.mask, r.key>> /\ <<s.mask, s.key>> \in Ids
    BY <1>2, RuleIdType, DistinctRules DEF DistinctIn
  <2>2. SameRule(e, f, <<s.mask, s.key>>)
    BY <2>1
  <2> QED BY <2>2, RuleAtHome DEF SameRule
<1>3. r \in RulesIn(f)
  BY RuleAtHome
<1> QED BY <1>1, <1>2, <1>3

LEMMA RuleRemoved ==
  ASSUME NEW e \in [Ids -> Entries], \A x \in Ids : Consistent(e, x),
         NEW f \in [Ids -> Entries], \A x \in Ids : Consistent(f, x), NEW r \in Rules,
         \A y \in Ids : y # <<r.mask, r.key>> => SameRule(e, f, y),
         RULE \notin f[<<r.mask, r.key>>].bits
  PROVE  RulesIn(f) = RulesIn(e) \ {r}
<1>1. RulesIn(e) \in SUBSET Rules /\ RulesIn(f) \in SUBSET Rules
  BY RuleAtHome
<1>2. ASSUME NEW s \in Rules, s # r PROVE s \in RulesIn(f) <=> s \in RulesIn(e)
  <2>1. <<s.mask, s.key>> # <<r.mask, r.key>> /\ <<s.mask, s.key>> \in Ids
    BY <1>2, RuleIdType, DistinctRules DEF DistinctIn
  <2>2. SameRule(e, f, <<s.mask, s.key>>)
    BY <2>1
  <2> QED BY <2>2, RuleAtHome DEF SameRule
<1>3. r \notin RulesIn(f)
  BY RuleAtHome
<1> QED BY <1>1, <1>2, <1>3

\* A tuple that nothing was linked to is good alone.
LEMMA SingleGood ==
  ASSUME NEW m \in Masks, NEW e \in [Ids -> Entries], \A x \in Ids : Consistent(e, x),
         Unmarked(e, m), NEW P
  PROVE  Good(<<m>>, e, P)
<1> DEFINE c == <<m>>
<1>1. c \in Seq(Masks) /\ Len(c) = 1 /\ c[1] = m
  OBVIOUS
<1>2. \A j \in 1..1 : j = 1
  OBVIOUS
<1>3. \A k \in SUBSET m : /\ <<m, k>> \in Ids /\ MARKER \notin e[<<m, k>>].bits
                          /\ e[<<m, k>>].owners = {}
  <2> SUFFICES ASSUME NEW k \in SUBSET m
               PROVE  /\ <<m, k>> \in Ids /\ MARKER \notin e[<<m, k>>].bits
                      /\ e[<<m, k>>].owners = {}
    OBVIOUS
  <2>1. <<m, k>> \in Ids
    BY MasksAssumption DEF Ids
  <2>2. MARKER \notin e[<<m, k>>].bits
    BY DEF Unmarked
  <2> QED BY <2>1, <2>2 DEF Consistent
<1> HIDE DEF c
<1>4. Complete(c, e, Len(c))
  <2>1. 2..1 = {} /\ \A j \in 1..1 : 1..(j - 1) = {}
    OBVIOUS
  <2> QED BY <1>1, <2>1 DEF Complete, MarkedBelow, LinkedBelow
<1>5. Skips(c, e, P)
  BY <1>1, <1>2, <1>3 DEF Skips
<1>6. \A j \in 1..Len(c) : FreshAt(c, e, P, j)
  BY <1>1, <1>2, <1>3 DEF FreshAt, FreshFrom, Pure
<1>7. Good(c, e, P)
  BY <1>4, <1>5, <1>6 DEF Good
<1> QED BY <1>7 DEF c

-----------------------------------------------------------------------------
(***************************************************************************)
(* The best of several chains.                                             *)
(***************************************************************************)

\* A set of rules that has one that matches has a best one.
LEMMA BestExists ==
  ASSUME NEW S \in SUBSET Rules, NEW p
  PROVE  IF \E r \in S : Matches(r, p)
         THEN /\ BestMatch(S, p) \in S /\ Matches(BestMatch(S, p), p)
              /\ \A r \in S : Matches(r, p) => r.priority <= BestMatch(S, p).priority
         ELSE BestMatch(S, p) = NoRule
<1> DEFINE hits == {r \in S : Matches(r, p)}
<1>1. CASE hits = {}
  BY <1>1 DEF BestMatch
<1>2. CASE hits # {}
  <2> DEFINE up(r) == {s \in hits : r.priority <= s.priority}
             F == {up(r) : r \in hits}
  <2>1. \A r \in hits : r.priority \in Nat
    BY RulesAssumption
  <2>2. F \subseteq FiniteSubsetsOf(hits) /\ F # {}
    <3>1. IsFiniteSet(hits)
      <4>1. hits \subseteq Rules
        OBVIOUS
      <4> QED BY <4>1, FiniteRules, FS_Subset
    <3>2. ASSUME NEW r \in hits PROVE up(r) \in FiniteSubsetsOf(hits)
      <4>1. up(r) \subseteq hits
        OBVIOUS
      <4> HIDE DEF up, hits
      <4>2. IsFiniteSet(up(r))
        BY <3>1, <4>1, FS_Subset
      <4> QED BY <4>1, <4>2 DEF FiniteSubsetsOf
    <3> HIDE DEF up, hits
    <3> QED BY <1>2, <3>2
  <2>3. PICK A \in F : \A B \in F : ~(B \subseteq A /\ B # A)
    <3> HIDE DEF F, hits
    <3> QED BY <2>2, MinimalSet
  <2>4. PICK t \in hits : A = up(t)
    OBVIOUS
  <2>5. \A s \in hits : s.priority <= t.priority
    <3> SUFFICES ASSUME NEW s \in hits, ~(s.priority <= t.priority) PROVE FALSE
      OBVIOUS
    <3>1. up(s) \subseteq A /\ t \in A /\ t \notin up(s)
      BY <2>1, <2>4
    <3> QED BY <2>3, <3>1
  <2> DEFINE b == CHOOSE r \in hits : \A s \in hits : s.priority <= r.priority
  <2>6. b \in hits /\ \A s \in hits : s.priority <= b.priority
    <3> HIDE DEF hits
    <3> QED BY <2>5, Zenon
  <2>7. BestMatch(S, p) = b
    BY <1>2 DEF BestMatch
  <2> HIDE DEF b
  <2> QED BY <2>6, <2>7
<1> QED BY <1>1, <1>2

-----------------------------------------------------------------------------
(***************************************************************************)
(* Proofs about ChainedTSS, for every rule space, threshold and number of  *)
(* erasures, and with updates in any order: the chains divide the tuples,  *)
(* every chain stays good by itself, and the answers of the chains make    *)
(* the answer of the classifier.                                           *)
(***************************************************************************)

-----------------------------------------------------------------------------
(***************************************************************************)
(* The inductive invariant.                                                *)
(***************************************************************************)

\* The chains are nested and share no tuple; when they are searched, every
\* tuple is on one.
ChainsDivide ==
  /\ \A i \in 1..Len(chains) : Nested(chains[i])
  /\ Separate(chains)
  /\ \A i \in 1..Len(chains) : \A m : On(chains[i], m) => m \in tuples
  /\ latched => \A m \in tuples : \E i \in 1..Len(chains) : On(chains[i], m)

\* Only tuples have entries, and the chain of each is good; a tuple on no
\* chain is good alone.
EntriesGood ==
  /\ \A x \in Ids : Consistent(ent, x)
  /\ \A x \in Ids : Listed(ent[x]) => x[1] \in tuples
  /\ \A m \in Masks : Good(ChainOf(chains, m), ent, promoted)

\* m_rules forgets no rule (tss.cpp:97-104).
RulesKept == rules = Installed \cup gone

\* Nothing is there before the construction.
EmptyAtFirst ==
  pc = "new" => /\ chains = <<>> /\ tuples = {} /\ promoted = {} /\ gone = {}
                /\ turn = 1 /\ ent = [x \in Ids |-> Absent]

\* The installed rules of the first n chains.
RulesUpTo(n) == {r \in Installed : \E i \in 1..n : On(chains[i], r.mask)}

\* bestRule is the best rule of the chains that were searched.
SearchSoFar ==
  (pc = "search" /\ latched /\ ~PacketDead /\ ~PacketPromoted) =>
    best = BestMatch(RulesUpTo(turn - 1), pkt)

TSSInv ==
  /\ TypeOK /\ ChainsDivide /\ EntriesGood /\ RulesKept /\ EmptyAtFirst

-----------------------------------------------------------------------------
(***************************************************************************)
(* Best matches.                                                           *)
(***************************************************************************)

LEMMA BestIs ==
  ASSUME NEW S \in SUBSET Rules, NEW p, NEW t \in S, Matches(t, p),
         \A s \in S : Matches(s, p) => s.priority <= t.priority
  PROVE  BestMatch(S, p) = t
<1> DEFINE b == BestMatch(S, p)
<1>1. b \in S /\ Matches(b, p) /\ \A r \in S : Matches(r, p) => r.priority <= b.priority
  BY BestExists
<1> HIDE DEF b
<1>2. b.priority \in Nat /\ t.priority \in Nat
  BY <1>1, RulesAssumption
<1>3. b.priority = t.priority
  BY <1>1, <1>2
<1>4. b = t
  BY <1>1, <1>3, DistinctPriorities
<1> QED BY <1>4 DEF b

\* The better of the best of two sets is the best of both.
LEMMA BestOfBoth ==
  ASSUME NEW S \in SUBSET Rules, NEW T \in SUBSET Rules, NEW p
  PROVE  BestMatch(S \cup T, p) = Better(BestMatch(S, p), BestMatch(T, p))
<1> DEFINE a == BestMatch(S, p)
           b == BestMatch(T, p)
<1>1. S \cup T \in SUBSET Rules /\ NoRule \notin Rules /\ \A r \in Rules : r.priority \in Nat
  BY RulesAssumption
<1>2. IF \E r \in S : Matches(r, p)
      THEN a \in S /\ Matches(a, p) /\ \A r \in S : Matches(r, p) => r.priority <= a.priority
      ELSE a = NoRule
  BY BestExists
<1>3. IF \E r \in T : Matches(r, p)
      THEN b \in T /\ Matches(b, p) /\ \A r \in T : Matches(r, p) => r.priority <= b.priority
      ELSE b = NoRule
  BY BestExists
<1> HIDE DEF a, b
<1>4. CASE ~ \E r \in S \cup T : Matches(r, p)
  <2>1. a = NoRule /\ b = NoRule
    BY <1>2, <1>3, <1>4
  <2>2. BestMatch(S \cup T, p) = NoRule
    BY <1>1, <1>4, BestExists
  <2> QED BY <2>1, <2>2 DEF Better, a, b
<1>5. CASE \E r \in S \cup T : Matches(r, p)
  <2> DEFINE t == Better(a, b)
  <2>1. t \in S \cup T /\ Matches(t, p) /\ \A s \in S \cup T : Matches(s, p) => s.priority <= t.priority
    <3>1. CASE b # NoRule /\ (a = NoRule \/ a.priority < b.priority)
      <4>1. t = b
        BY <3>1 DEF Better
      <4>2. b \in T /\ Matches(b, p) /\ \A r \in T : Matches(r, p) => r.priority <= b.priority
        BY <1>3, <3>1
      <4>3. ASSUME NEW s \in S, Matches(s, p) PROVE s.priority <= b.priority
        <5>1. a \in S /\ s.priority <= a.priority
          BY <1>2, <4>3
        <5>2. a # NoRule /\ a.priority \in Nat /\ b.priority \in Nat /\ s.priority \in Nat
          BY <1>1, <4>2, <5>1
        <5> QED BY <3>1, <5>1, <5>2
      <4> HIDE DEF t
      <4> QED BY <4>1, <4>2, <4>3
    <3>2. CASE ~(b # NoRule /\ (a = NoRule \/ a.priority < b.priority))
      <4>1. t = a
        BY <3>2 DEF Better
      <4>2. a \in S /\ Matches(a, p) /\ \A r \in S : Matches(r, p) => r.priority <= a.priority
        <5>1. CASE \E r \in S : Matches(r, p)
          BY <1>2, <5>1
        <5>2. CASE ~ \E r \in S : Matches(r, p)
          <6>1. a = NoRule /\ b \in T
            BY <1>2, <1>3, <1>5, <5>2
          <6> QED BY <1>1, <3>2, <6>1
        <5> QED BY <5>1, <5>2
      <4>3. ASSUME NEW s \in T, Matches(s, p) PROVE s.priority <= a.priority
        <5>1. b \in T /\ s.priority <= b.priority
          BY <1>3, <4>3
        <5>2. b # NoRule /\ a.priority \in Nat /\ b.priority \in Nat /\ s.priority \in Nat
          BY <1>1, <4>2, <5>1
        <5> QED BY <3>2, <5>1, <5>2
      <4> HIDE DEF t
      <4> QED BY <4>1, <4>2, <4>3
    <3> QED BY <3>1, <3>2
  <2> HIDE DEF t
  <2>2. BestMatch(S \cup T, p) = t
    BY <1>1, <2>1, BestIs
  <2> QED BY <2>2 DEF t, a, b
<1> QED BY <1>4, <1>5

LEMMA BestMatchType ==
  ASSUME NEW S \in SUBSET Rules, NEW p
  PROVE  BestMatch(S, p) \in Rules \cup {NoRule}
BY BestExists

-----------------------------------------------------------------------------
(***************************************************************************)
(* The invariant is inductive.                                             *)
(***************************************************************************)

LEMMA InstalledIs == Installed = RulesIn(ent)
BY DEF Installed, RulesIn

\* What the invariant says, in the form the lemmas need.
LEMMA Facts ==
  ASSUME TSSInv
  PROVE  /\ chains \in Seq(Seq(Masks)) /\ ent \in [Ids -> Entries]
         /\ \A i \in 1..Len(chains) : Nested(chains[i])
         /\ Separate(chains)
         /\ \A x \in Ids : Consistent(ent, x)
         /\ \A m \in Masks : Good(ChainOf(chains, m), ent, promoted)
BY DEF TSSInv, TypeOK, ChainsDivide, EntriesGood

\* The tuple of a rule is on its chain, at its level.
LEMMA Placed ==
  ASSUME TSSInv, NEW m \in Masks
  PROVE  /\ ChainOf(chains, m) \in Seq(Masks) /\ Nested(ChainOf(chains, m))
         /\ Level(ChainOf(chains, m), m) \in 1..Len(ChainOf(chains, m))
         /\ ChainOf(chains, m)[Level(ChainOf(chains, m), m)] = m
         /\ On(ChainOf(chains, m), m)
<1>1. chains \in Seq(Seq(Masks)) /\ (\A i \in 1..Len(chains) : Nested(chains[i])) /\ Separate(chains)
  BY Facts
<1>2. ChainOf(chains, m) \in Seq(Masks) /\ Nested(ChainOf(chains, m)) /\ On(ChainOf(chains, m), m)
  BY <1>1, ChainOfType
<1> QED BY <1>2, LevelOf

\* A tuple that is on a chain with a tuple is a tuple.
LEMMA ChainOfTuples ==
  ASSUME TSSInv, NEW m \in tuples, NEW l, On(ChainOf(chains, m), l)
  PROVE  l \in tuples
<1>1. CASE \E i \in 1..Len(chains) : On(chains[i], m)
  <2>1. PICK i \in 1..Len(chains) : On(chains[i], m)
    BY <1>1
  <2>2. ChainOf(chains, m) = chains[i]
    BY <2>1, Facts, ChainOfOn
  <2> QED BY <2>2 DEF TSSInv, ChainsDivide
<1>2. CASE \A i \in 1..Len(chains) : ~On(chains[i], m)
  <2>1. ChainOf(chains, m) = <<m>>
    BY <1>2, ChainOfOff
  <2>2. m \in Masks
    BY DEF TSSInv, TypeOK
  <2>3. l = m
    BY <2>1, <2>2, Single
  <2> QED BY <2>3
<1> QED BY <1>1, <1>2

\* Construct: the chains of a least cover are good, and so is every tuple
\* when none was chained.
LEMMA ConstructKeeps ==
  ASSUME TSSInv, Construct
  PROVE  TSSInv'
<1>1. /\ pc = "new" /\ pc' = "idle" /\ chains = <<>> /\ promoted = {} /\ gone = {} /\ turn = 1
      /\ ent = [x \in Ids |-> Absent]
      /\ turn' = turn /\ best' = best /\ pkt' = pkt /\ gone' = gone /\ promoted' = promoted
  BY DEF Construct, TSSInv, EmptyAtFirst, searchVars, history
<1>2. PICK F \in (SUBSET Rules) \ {{}} :
        LET M    == {r.mask : r \in F}
            many == Cardinality(F) > Threshold
            e    == Filled(ent, F)
        IN  /\ tuples' = M /\ rules' = F /\ latched' = many
            /\ \E cs \in IF many THEN PathCovers(M) ELSE {<<>>} :
                 chains' = cs /\ ent' = BuildChains(cs, e)
  BY DEF Construct
<1> DEFINE M == {r.mask : r \in F}
           e == Filled(ent, F)
<1>3. tuples' = M /\ rules' = F /\ latched' \in BOOLEAN
  BY <1>2
<1>4. PICK cs \in IF Cardinality(F) > Threshold THEN PathCovers(M) ELSE {<<>>} :
        chains' = cs /\ ent' = BuildChains(cs, e)
  BY <1>2
<1>5. latched' <=> Cardinality(F) > Threshold
  BY <1>2
<1>6. M \in SUBSET Masks /\ IsFiniteSet(M)
  <2>1. M \in SUBSET Masks
    BY RulesAssumption
  <2> HIDE DEF M
  <2> QED BY <2>1, FiniteRules, FS_Subset
<1>7. F \in SUBSET Rules /\ ent \in [Ids -> Entries] /\ \A x \in Ids : Consistent(ent, x)
  BY Facts
<1>8. e \in [Ids -> Entries] /\ \A x \in Ids : Consistent(e, x)
  <2>1. e \in [Ids -> Entries]
    BY <1>7, FilledType
  <2>2. \A x \in Ids : Consistent(e, x)
    BY <1>7, FilledConsistent
  <2> QED BY <2>1, <2>2
<1>9. ASSUME NEW x \in Ids
      PROVE  /\ MARKER \notin e[x].bits
             /\ RULE \in e[x].bits => e[x].rule \in F
             /\ Listed(e[x]) => x[1] \in M
  <2>1. \/ /\ e[x].rule \in F /\ <<e[x].rule.mask, e[x].rule.key>> = x
           /\ e[x].bits = {RULE}
        \/ e[x] = ent[x]
    BY <1>7, FilledEntry
  <2>2. ent[x].bits = {} /\ ~Listed(ent[x])
    BY <1>1 DEF Absent, Listed
  <2>3. CASE e[x] = ent[x]
    BY <2>2, <2>3
  <2>4. CASE /\ e[x].rule \in F /\ <<e[x].rule.mask, e[x].rule.key>> = x
             /\ e[x].bits = {RULE}
    <3>1. e[x].rule.mask = x[1]
      BY <2>4
    <3>2. x[1] \in M
      BY <2>4, <3>1
    <3>3. MARKER \notin e[x].bits
      BY <2>4 DEF RULE, MARKER
    <3> QED BY <2>4, <3>2, <3>3
  <2> QED BY <2>1, <2>3, <2>4
<1>10. RulesIn(e) = F
  <2>1. ASSUME NEW r \in F PROVE r \in RulesIn(e)
    <3>1. <<r.mask, r.key>> \in Ids
      BY <1>7, RuleIdType
    <3>2. RULE \in e[<<r.mask, r.key>>].bits
      <4> DEFINE x == <<r.mask, r.key>>
      <4>1. x \in Ids /\ \E s \in F : x = <<s.mask, s.key>>
        BY <3>1
      <4> HIDE DEF x
      <4>2. e[x].bits = {RULE}
        BY <1>7, <4>1, FilledEntry
      <4> QED BY <4>2 DEF x
    <3> QED BY <1>7, <1>8, <3>2, RuleAtHome
  <2>2. \A r \in RulesIn(e) : r \in F
    BY <1>9 DEF RulesIn
  <2> QED BY <2>1, <2>2
<1> HIDE DEF M, e
<1>11. /\ cs \in Seq(Seq(Masks)) /\ Separate(cs)
       /\ \A i \in 1..Len(cs) : Nested(cs[i]) /\ \A m : On(cs[i], m) => m \in M
       /\ latched' => \A m \in M : \E i \in 1..Len(cs) : On(cs[i], m)
  <2>1. CASE latched'
    <3>1. cs \in PathCovers(M)
      BY <1>4, <1>5, <2>1
    <3> QED BY <1>6, <2>1, <3>1, PathCoverSplits
  <2>2. CASE ~latched'
    <3>1. cs = <<>>
      BY <1>4, <1>5, <2>2
    <3>2. Len(cs) = 0 /\ cs \in Seq(Seq(Masks)) /\ 1..0 = {}
      BY <3>1
    <3> QED BY <2>2, <3>2 DEF Separate
  <2> QED BY <2>1, <2>2, <1>3
<1>12. \A i \in 1..Len(cs) : \A j \in 1..Len(cs[i]) : Unmarked(e, cs[i][j])
  <2> SUFFICES ASSUME NEW i \in 1..Len(cs), NEW j \in 1..Len(cs[i]), NEW k \in SUBSET cs[i][j]
               PROVE  MARKER \notin e[<<cs[i][j], k>>].bits
    BY DEF Unmarked
  <2>1. cs[i] \in Seq(Masks)
    BY <1>11
  <2>2. <<cs[i][j], k>> \in Ids
    BY <2>1, KeyEntry
  <2> QED BY <1>9, <2>2
<1> DEFINE g == BuildChains(cs, e)
<1>13. g \in [Ids -> Entries]
  BY <1>8, <1>11, <1>12, BuildChainsGood
<1>14. \A x \in Ids : Consistent(g, x)
  BY <1>8, <1>11, <1>12, BuildChainsGood
<1>15. \A i \in 1..Len(cs) : Good(cs[i], g, {})
  BY <1>8, <1>11, <1>12, BuildChainsGood
<1>16. \A x \in Ids : (\A i \in 1..Len(cs) : ~On(cs[i], x[1])) => g[x] = e[x]
  BY <1>8, <1>11, <1>12, BuildChainsGood
<1>17. \A x \in Ids : SameRule(e, g, x)
  BY <1>8, <1>11, <1>12, BuildChainsGood
<1> HIDE DEF g
<1>18. ent' = g /\ chains' = cs
  BY <1>4 DEF g
<1>19. ASSUME NEW x \in Ids, Listed(g[x]) PROVE x[1] \in M
  <2>1. CASE \E i \in 1..Len(cs) : On(cs[i], x[1])
    BY <1>11, <2>1
  <2>2. CASE \A i \in 1..Len(cs) : ~On(cs[i], x[1])
    BY <1>9, <1>16, <1>19, <2>2
  <2> QED BY <2>1, <2>2
<1>20. ASSUME NEW m \in Masks PROVE Good(ChainOf(cs, m), g, {})
  <2>1. CASE \E i \in 1..Len(cs) : On(cs[i], m)
    <3>1. PICK i \in 1..Len(cs) : On(cs[i], m)
      BY <2>1
    <3>2. ChainOf(cs, m) = cs[i]
      BY <1>11, <3>1, ChainOfOn
    <3> QED BY <1>15, <3>2
  <2>2. CASE \A i \in 1..Len(cs) : ~On(cs[i], m)
    <3>1. ChainOf(cs, m) = <<m>>
      BY <2>2, ChainOfOff
    <3>2. Unmarked(g, m)
      <4> SUFFICES ASSUME NEW k \in SUBSET m PROVE MARKER \notin g[<<m, k>>].bits
        BY DEF Unmarked
      <4>1. <<m, k>> \in Ids
        BY MasksAssumption DEF Ids
      <4>2. g[<<m, k>>] = e[<<m, k>>]
        BY <1>16, <2>2, <4>1
      <4> QED BY <1>9, <4>1, <4>2
    <3> QED BY <1>13, <1>14, <3>1, <3>2, SingleGood
  <2> QED BY <2>1, <2>2
<1>21. RulesIn(g) = F
  <2>1. RulesIn(e) \in SUBSET Rules /\ RulesIn(g) \in SUBSET Rules
    BY <1>8, <1>13, <1>14, RuleAtHome
  <2>2. ASSUME NEW r \in Rules PROVE r \in RulesIn(g) <=> r \in RulesIn(e)
    <3>1. SameRule(e, g, <<r.mask, r.key>>)
      BY <1>17, RuleIdType
    <3> QED BY <1>8, <1>13, <1>14, <3>1, RuleAtHome DEF SameRule
  <2> QED BY <1>10, <2>1, <2>2
<1>22. Installed' = F
  BY <1>18, <1>21 DEF Installed, RulesIn
<1>23. TypeOK'
  <2>1. Len(cs) \in Nat /\ turn' = 1
    BY <1>1, <1>11
  <2>2. turn' \in 1..(Len(chains') + 1)
    BY <1>18, <2>1
  <2>3. pkt \in Packets /\ best \in Rules \cup {NoRule} /\ gone \subseteq Rules /\ promoted \subseteq Ids
    BY DEF TSSInv, TypeOK
  <2> QED BY <1>1, <1>3, <1>6, <1>7, <1>11, <1>13, <1>18, <2>2, <2>3 DEF TypeOK
<1>24. ChainsDivide'
  BY <1>3, <1>11, <1>18 DEF ChainsDivide
<1>25. EntriesGood'
  BY <1>1, <1>3, <1>14, <1>18, <1>19, <1>20 DEF EntriesGood
<1>26. RulesKept'
  BY <1>1, <1>3, <1>22 DEF RulesKept
<1>27. EmptyAtFirst'
  BY <1>1 DEF EmptyAtFirst
<1> QED BY <1>23, <1>24, <1>25, <1>26, <1>27 DEF TSSInv


\* An update of one chain leaves the others good, if it leaves their entries.
LEMMA EntriesKept ==
  ASSUME TSSInv, NEW a \in tuples, chains' = chains, tuples' = tuples,
         ent' \in [Ids -> Entries], \A x \in Ids : Consistent(ent', x),
         Good(ChainOf(chains, a), ent', promoted'),
         \A x \in Ids : ~On(ChainOf(chains, a), x[1]) =>
                          ent'[x] = ent[x] /\ (x \in promoted' <=> x \in promoted)
  PROVE  EntriesGood'
<1> DEFINE f == ent'
           Q == promoted'
<1>1. f \in [Ids -> Entries] /\ Good(ChainOf(chains, a), f, Q)
      /\ (\A x \in Ids : ~On(ChainOf(chains, a), x[1]) => f[x] = ent[x] /\ (x \in Q <=> x \in promoted))
  OBVIOUS
<1>2. a \in Masks
  BY DEF TSSInv, TypeOK
<1>3. ASSUME NEW m \in Masks PROVE Good(ChainOf(chains', m), ent', promoted')
  <2> HIDE DEF f, Q
  <2> DEFINE cs == chains
  <2>1. /\ cs \in Seq(Seq(Masks)) /\ (\A i \in 1..Len(cs) : Nested(cs[i])) /\ Separate(cs)
        /\ \A l \in Masks : Good(ChainOf(cs, l), ent, promoted)
    BY Facts
  <2>2. /\ Good(ChainOf(cs, a), f, Q) /\ ent \in [Ids -> Entries]
        /\ \A x \in Ids : ~On(ChainOf(cs, a), x[1]) => f[x] = ent[x] /\ (x \in Q <=> x \in promoted)
    BY <1>1, Facts
  <2> HIDE DEF cs
  <2>3. Good(ChainOf(cs, m), f, Q)
    BY ZenonT(60), <1>1, <1>2, <2>1, <2>2, OthersGood
  <2> QED BY <1>1, <2>3 DEF f, Q, cs
<1>4. ASSUME NEW x \in Ids, Listed(ent'[x]) PROVE x[1] \in tuples'
  <2>1. CASE On(ChainOf(chains, a), x[1])
    BY <2>1, ChainOfTuples
  <2>2. CASE ~On(ChainOf(chains, a), x[1])
    <3>1. Listed(ent[x])
      BY <1>4, <2>2
    <3> QED BY <3>1 DEF TSSInv, EntriesGood
  <2> QED BY <2>1, <2>2
<1> QED BY <1>3, <1>4 DEF EntriesGood

LEMMA InsertRuleKeeps ==
  ASSUME TSSInv, NEW r \in Rules, InsertRule(r)
  PROVE  TSSInv' /\ Installed' = Installed \cup {r}
<1> DEFINE c == ChainOf(chains, r.mask)
           i == Level(c, r.mask)
           x == <<r.mask, r.key>>
<1>1. /\ pc = "idle" /\ r.mask \in tuples /\ ~HoldsRule(ent, r)
      /\ ent' = InsertAt(c, ent, i, r)
      /\ promoted' = IF Pure(ent[x]) THEN promoted \cup {x} ELSE promoted
      /\ rules' = rules \cup {r} /\ gone' = gone \ {r}
      /\ tuples' = tuples /\ chains' = chains /\ latched' = latched /\ pc' = pc
      /\ pkt' = pkt /\ turn' = turn /\ best' = best
  BY DEF InsertRule, searchVars
<1>2. x \in Ids /\ r.mask \in Masks /\ x[1] = r.mask
  BY RuleIdType
<1>3. c \in Seq(Masks) /\ Nested(c) /\ i \in 1..Len(c) /\ c[i] = r.mask /\ On(c, r.mask)
  BY <1>2, Placed
<1>4. ent \in [Ids -> Entries] /\ (\A y \in Ids : Consistent(ent, y)) /\ Good(c, ent, promoted)
  BY <1>2, Facts
<1>5. Pure(ent[x]) <=> ent[x].inTable
  BY <1>1, <1>4, PureIfInTable
<1> HIDE DEF c, i
<1>6. ent' \in [Ids -> Entries]
  BY <1>1, <1>3, <1>4, InsertAtType
<1>7. \A y \in Ids : Consistent(ent', y)
  BY <1>1, <1>3, <1>4, InsertAtConsistent
<1>8. Good(c, ent', promoted')
  <2> DEFINE Q == promoted'
  <2>1. Q = IF ent[<<r.mask, r.key>>].inTable THEN promoted \cup {<<r.mask, r.key>>} ELSE promoted
    BY <1>1, <1>5
  <2> HIDE DEF Q
  <2>2. Good(c, InsertAt(c, ent, i, r), Q)
    BY <1>3, <1>4, <2>1, InsertAtGood
  <2> QED BY <1>1, <2>2 DEF Q
<1>9. ASSUME NEW y \in Ids, ~On(c, y[1])
      PROVE  ent'[y] = ent[y] /\ (y \in promoted' <=> y \in promoted)
  <2>1. ent'[y] = ent[y]
    BY <1>1, <1>3, <1>4, <1>9, InsertAtAlone
  <2>2. y # x
    BY <1>2, <1>3, <1>9
  <2> HIDE DEF x
  <2> QED BY <1>1, <2>1, <2>2
<1>10. EntriesGood'
  BY <1>1, <1>6, <1>7, <1>8, <1>9, EntriesKept DEF c
<1>11. Installed' = Installed \cup {r}
  <2>1. \A y \in Ids : y # <<r.mask, r.key>> => SameRule(ent, ent', y)
    BY <1>1, <1>3, <1>4, InsertAtRule
  <2>2. RULE \in ent'[<<r.mask, r.key>>].bits
    BY <1>1, <1>2, <1>3, <1>4, InsertAtRule
  <2> DEFINE f == ent'
  <2>3. f \in [Ids -> Entries] /\ (\A y \in Ids : Consistent(f, y))
        /\ (\A y \in Ids : y # <<r.mask, r.key>> => SameRule(ent, f, y))
        /\ RULE \in f[<<r.mask, r.key>>].bits
    BY <1>6, <1>7, <2>1, <2>2
  <2> HIDE DEF f
  <2>4. RulesIn(f) = RulesIn(ent) \cup {r}
    BY <1>4, <2>3, RuleAdded
  <2> QED BY <2>4 DEF Installed, RulesIn, f
<1>12. TypeOK'
  <2>1. promoted' \subseteq Ids
    BY <1>1, <1>2 DEF TSSInv, TypeOK
  <2> QED BY <1>1, <1>6, <2>1 DEF TSSInv, TypeOK
<1>13. ChainsDivide'
  BY <1>1 DEF TSSInv, ChainsDivide
<1>14. RulesKept'
  BY <1>1, <1>11 DEF TSSInv, RulesKept
<1>15. EmptyAtFirst'
  BY <1>1 DEF EmptyAtFirst
<1> QED BY <1>10, <1>11, <1>12, <1>13, <1>14, <1>15 DEF TSSInv

LEMMA DeleteRuleKeeps ==
  ASSUME TSSInv, NEW r \in Rules, DeleteRule(r)
  PROVE  TSSInv' /\ Installed' = Installed \ {r}
<1> DEFINE c == ChainOf(chains, r.mask)
           i == Level(c, r.mask)
           x == <<r.mask, r.key>>
<1>1. /\ pc = "idle" /\ r.mask \in tuples /\ HoldsRule(ent, r)
      /\ ent' = EraseAt(c, ent, i, r)
      /\ promoted' = promoted \ {x}
      /\ rules' = rules /\ gone' = gone \cup {r}
      /\ tuples' = tuples /\ chains' = chains /\ latched' = latched /\ pc' = pc
      /\ pkt' = pkt /\ turn' = turn /\ best' = best
  BY DEF DeleteRule, searchVars
<1>2. x \in Ids /\ r.mask \in Masks /\ x[1] = r.mask
  BY RuleIdType
<1>3. c \in Seq(Masks) /\ Nested(c) /\ i \in 1..Len(c) /\ c[i] = r.mask /\ On(c, r.mask)
  BY <1>2, Placed
<1>4. ent \in [Ids -> Entries] /\ (\A y \in Ids : Consistent(ent, y)) /\ Good(c, ent, promoted)
  BY <1>2, Facts
<1>5. ent[<<r.mask, r.key>>].inTable /\ RULE \in ent[<<r.mask, r.key>>].bits
  BY <1>1 DEF HoldsRule
<1> HIDE DEF c, i
<1>6. ent' \in [Ids -> Entries]
  BY <1>1, <1>3, <1>4, EraseAtType
<1>7. \A y \in Ids : Consistent(ent', y)
  BY <1>1, <1>3, <1>4, EraseAtConsistent
<1>8. Good(c, ent', promoted')
  <2>1. Good(c, EraseAt(c, ent, i, r), promoted \ {<<r.mask, r.key>>})
    BY <1>3, <1>4, <1>5, EraseAtGood
  <2> QED BY <1>1, <2>1
<1>9. ASSUME NEW y \in Ids, ~On(c, y[1])
      PROVE  ent'[y] = ent[y] /\ (y \in promoted' <=> y \in promoted)
  <2>1. ent'[y] = ent[y]
    BY <1>1, <1>3, <1>4, <1>9, EraseAtAlone
  <2>2. y # x
    BY <1>2, <1>3, <1>9
  <2> HIDE DEF x
  <2> QED BY <1>1, <2>1, <2>2
<1>10. EntriesGood'
  BY <1>1, <1>6, <1>7, <1>8, <1>9, EntriesKept DEF c
<1>11. Installed' = Installed \ {r} /\ r \in Installed
  <2>1. \A y \in Ids : y # <<r.mask, r.key>> => SameRule(ent, ent', y)
    BY <1>1, <1>3, <1>4, EraseAtRule
  <2>2. RULE \notin ent'[<<r.mask, r.key>>].bits
    BY <1>1, <1>2, <1>3, <1>4, EraseAtRule
  <2> DEFINE f == ent'
  <2>3. f \in [Ids -> Entries] /\ (\A y \in Ids : Consistent(f, y))
        /\ (\A y \in Ids : y # <<r.mask, r.key>> => SameRule(ent, f, y))
        /\ RULE \notin f[<<r.mask, r.key>>].bits
    BY <1>6, <1>7, <2>1, <2>2
  <2> HIDE DEF f
  <2>4. RulesIn(f) = RulesIn(ent) \ {r}
    BY <1>4, <2>3, RuleRemoved
  <2>5. r \in RulesIn(ent)
    BY <1>4, <1>5, RuleAtHome
  <2> QED BY <2>4, <2>5 DEF Installed, RulesIn, f
<1>12. TypeOK'
  <2>1. promoted' \subseteq Ids
    BY <1>1 DEF TSSInv, TypeOK
  <2> QED BY <1>1, <1>6, <2>1 DEF TSSInv, TypeOK
<1>13. ChainsDivide'
  BY <1>1 DEF TSSInv, ChainsDivide
<1>14. RulesKept'
  BY <1>1, <1>11 DEF TSSInv, RulesKept
<1>15. EmptyAtFirst'
  BY <1>1 DEF EmptyAtFirst
<1> QED BY <1>10, <1>11, <1>12, <1>13, <1>14, <1>15 DEF TSSInv


\* A new tuple joins a chain, or starts one: every chain is good with it, and
\* no rule changed.
LEMMA NewTupleJoins ==
  ASSUME TSSInv, NEW m \in Masks, m \notin tuples
  PROVE  LET t == WithTuple(chains, m)
             f == Link(t.chain, ent, t.level)
         IN  /\ \A j \in 1..Len(chains) : ~On(chains[j], m)
             /\ t.chain \in Seq(Masks) /\ Nested(t.chain)
             /\ t.level \in 1..Len(t.chain) /\ t.chain[t.level] = m
             /\ f \in [Ids -> Entries] /\ \A x \in Ids : Consistent(f, x)
             /\ \A x \in Ids : SameRule(ent, f, x)
             /\ \A l \in Masks : ChainOf(t.all, l) = (IF On(t.chain, l) THEN t.chain ELSE ChainOf(chains, l))
             /\ \A l \in Masks : Good(ChainOf(t.all, l), f, promoted)
             /\ On(t.chain, m)
<1> DEFINE cs == chains
           e  == ent
<1>1. \A j \in 1..Len(cs) : ~On(cs[j], m)
  BY DEF TSSInv, ChainsDivide
<1>2. \A k \in SUBSET m : ~Listed(e[<<m, k>>])
  <2> SUFFICES ASSUME NEW k \in SUBSET m, Listed(ent[<<m, k>>]) PROVE FALSE
    OBVIOUS
  <2>1. <<m, k>> \in Ids
    BY MasksAssumption DEF Ids
  <2>2. <<m, k>>[1] \in tuples
    BY <2>1 DEF TSSInv, EntriesGood
  <2> QED BY <2>2
<1>3. cs \in Seq(Seq(Masks)) /\ (\A j \in 1..Len(cs) : Nested(cs[j])) /\ Separate(cs)
      /\ e \in [Ids -> Entries] /\ (\A y \in Ids : Consistent(e, y))
      /\ (\A l \in Masks : Good(ChainOf(cs, l), e, promoted))
  BY Facts
<1> HIDE DEF cs, e
<1>4. LET t == WithTuple(cs, m)
          f == Link(t.chain, e, t.level)
      IN  /\ t.chain \in Seq(Masks) /\ Nested(t.chain)
          /\ t.level \in 1..Len(t.chain) /\ t.chain[t.level] = m
          /\ f \in [Ids -> Entries] /\ \A x \in Ids : Consistent(f, x)
          /\ \A x \in Ids : SameRule(e, f, x)
          /\ \A l \in Masks : ChainOf(t.all, l) = (IF On(t.chain, l) THEN t.chain ELSE ChainOf(cs, l))
          /\ \A l \in Masks : Good(ChainOf(t.all, l), f, promoted)
          /\ On(t.chain, m)
  BY <1>1, <1>2, <1>3, TupleJoins
<1> QED BY <1>1, <1>4 DEF cs, e

LEMMA InsertTupleKeeps ==
  ASSUME TSSInv, NEW r \in Rules, InsertTuple(r)
  PROVE  TSSInv' /\ Installed' = Installed \cup {r}
<1> DEFINE m == r.mask
           t == WithTuple(chains, m)
           d == t.chain
           i == t.level
           all == t.all
           f == Link(d, ent, i)
           g == InsertAt(d, f, i, r)
           x == <<r.mask, r.key>>
           Q == IF f[x].inTable THEN promoted \cup {x} ELSE promoted
<1>1. /\ pc = "idle" /\ m \notin tuples
      /\ chains' = all /\ ent' = g /\ promoted' = Q
      /\ rules' = rules \cup {r} /\ gone' = gone \ {r}
      /\ tuples' = tuples \cup {m} /\ latched' = latched /\ pc' = pc
      /\ pkt' = pkt /\ turn' = turn /\ best' = best
  BY DEF InsertTuple, searchVars
<1>2. x \in Ids /\ m \in Masks /\ x[1] = m
  BY RuleIdType
<1>5. x = <<r.mask, r.key>> /\ m = r.mask
  OBVIOUS
<1> HIDE DEF x, m
<1>6. ent \in [Ids -> Entries] /\ (\A y \in Ids : Consistent(ent, y))
      /\ chains \in Seq(Seq(Masks)) /\ (\A j \in 1..Len(chains) : Nested(chains[j])) /\ Separate(chains)
      /\ (\A l \in Masks : Good(ChainOf(chains, l), ent, promoted))
  BY Facts
<1>7. /\ \A j \in 1..Len(chains) : ~On(chains[j], m)
      /\ d \in Seq(Masks) /\ Nested(d) /\ i \in 1..Len(d) /\ d[i] = m
      /\ f \in [Ids -> Entries] /\ (\A y \in Ids : Consistent(f, y))
      /\ (\A y \in Ids : SameRule(ent, f, y))
      /\ (\A l \in Masks : ChainOf(all, l) = (IF On(d, l) THEN d ELSE ChainOf(chains, l)))
      /\ (\A l \in Masks : Good(ChainOf(all, l), f, promoted))
      /\ On(d, m)
  BY <1>1, <1>2, NewTupleJoins
<1>8. /\ all \in Seq(Seq(Masks)) /\ Separate(all) /\ Len(chains) <= Len(all)
      /\ \A j \in 1..Len(all) : Nested(all[j])
      /\ \A l : (\E j \in 1..Len(all) : On(all[j], l)) <=>
                  (l = m \/ \E j \in 1..Len(chains) : On(chains[j], l))
      /\ \E j \in 1..Len(all) : d = all[j]
  BY ZenonT(60), <1>2, <1>6, <1>7, HostedDivides
<1>9. \A y \in Ids : ~On(d, y[1]) => f[y] = ent[y]
  BY <1>6, <1>7, LinkAlone
<1> HIDE DEF t, d, i, all, f
<1>10. Q = IF f[<<r.mask, r.key>>].inTable THEN promoted \cup {<<r.mask, r.key>>} ELSE promoted
  BY <1>5
<1>11. d[i] = r.mask /\ ChainOf(all, m) = d /\ Good(d, f, promoted)
  BY <1>2, <1>5, <1>7
<1> HIDE DEF Q
<1>12. g \in [Ids -> Entries]
  BY <1>7, InsertAtType
<1>13. \A y \in Ids : Consistent(g, y)
  BY <1>7, InsertAtConsistent
<1>14. Good(d, g, Q)
  BY <1>7, <1>10, <1>11, InsertAtGood
<1>15. \A y \in Ids : ~On(d, y[1]) => g[y] = f[y]
  BY <1>7, <1>11, InsertAtAlone
<1>16. \A y \in Ids : y # <<r.mask, r.key>> => SameRule(f, g, y)
  BY <1>7, <1>11, InsertAtRule
<1>17. RULE \in g[<<r.mask, r.key>>].bits
  BY <1>2, <1>5, <1>7, <1>11, InsertAtRule
<1> HIDE DEF g
<1>18. \A y \in Ids : ~On(d, y[1]) => (y \in Q <=> y \in promoted)
  <2> SUFFICES ASSUME NEW y \in Ids, ~On(d, y[1]) PROVE y \in Q <=> y \in promoted
    OBVIOUS
  <2>1. y # <<r.mask, r.key>>
    BY <1>2, <1>5, <1>7
  <2> QED BY <1>10, <2>1
<1>19. ASSUME NEW l \in Masks PROVE Good(ChainOf(all, l), g, Q)
  <2>1. Good(ChainOf(all, m), g, Q)
    BY <1>11, <1>14
  <2>2. \A y \in Ids : ~On(ChainOf(all, m), y[1]) => g[y] = f[y] /\ (y \in Q <=> y \in promoted)
    BY <1>11, <1>15, <1>18
  <2> QED BY <1>2, <1>7, <1>8, <1>12, <2>1, <2>2, OthersGood
<1>20. ASSUME NEW y \in Ids, Listed(g[y]) PROVE y[1] \in tuples \cup {m}
  <2>1. CASE On(d, y[1])
    BY <1>8, <2>1 DEF TSSInv, ChainsDivide
  <2>2. CASE ~On(d, y[1])
    <3>1. Listed(ent[y])
      BY <1>9, <1>15, <1>20, <2>2
    <3> QED BY <3>1 DEF TSSInv, EntriesGood
  <2> QED BY <2>1, <2>2
<1>21. Installed' = Installed \cup {r}
  <2>1. \A y \in Ids : y # <<r.mask, r.key>> => SameRule(ent, g, y)
    BY <1>7, <1>16, SameRuleTrans
  <2>2. RulesIn(g) = RulesIn(ent) \cup {r}
    BY <1>6, <1>12, <1>13, <1>17, <2>1, RuleAdded
  <2> QED BY <1>1, <2>2 DEF Installed, RulesIn
<1>22. TypeOK'
  <2>1. Q \subseteq Ids
    BY <1>2, <1>5, <1>10 DEF TSSInv, TypeOK
  <2>2. turn \in 1..(Len(all) + 1)
    BY <1>6, <1>8 DEF TSSInv, TypeOK
  <2> QED BY <1>1, <1>2, <1>8, <1>12, <2>1, <2>2 DEF TSSInv, TypeOK
<1>23. ChainsDivide'
  <2>1. \A j \in 1..Len(all) : \A l : On(all[j], l) => l \in tuples \cup {m}
    BY <1>8 DEF TSSInv, ChainsDivide
  <2>2. latched => \A l \in tuples \cup {m} : \E j \in 1..Len(all) : On(all[j], l)
    BY <1>8 DEF TSSInv, ChainsDivide
  <2> QED BY <1>1, <1>8, <2>1, <2>2 DEF ChainsDivide
<1>24. EntriesGood'
  BY <1>1, <1>13, <1>19, <1>20 DEF EntriesGood
<1>25. RulesKept'
  BY <1>1, <1>21 DEF TSSInv, RulesKept
<1>26. EmptyAtFirst'
  BY <1>1 DEF EmptyAtFirst
<1> QED BY <1>21, <1>22, <1>23, <1>24, <1>25, <1>26 DEF TSSInv


\* A search changes no table.
LEMMA SearchingKeeps ==
  ASSUME TSSInv, UNCHANGED <<tableVars, history>>, pc' \in {"idle", "search", "done"},
         pkt' \in Packets, turn' \in 1..(Len(chains) + 1), best' \in Rules \cup {NoRule}
  PROVE  TSSInv'
<1>1. /\ tuples' = tuples /\ chains' = chains /\ ent' = ent /\ rules' = rules /\ latched' = latched
      /\ gone' = gone /\ promoted' = promoted /\ pc' # "new"
  BY DEF tableVars, history
<1>2. TypeOK'
  BY <1>1 DEF TSSInv, TypeOK
<1>3. ChainsDivide'
  BY <1>1 DEF TSSInv, ChainsDivide
<1>4. EntriesGood'
  BY <1>1 DEF TSSInv, EntriesGood
<1>5. RulesKept'
  BY <1>1 DEF TSSInv, RulesKept, Installed
<1>6. EmptyAtFirst'
  BY <1>1 DEF EmptyAtFirst
<1> QED BY <1>2, <1>3, <1>4, <1>5, <1>6 DEF TSSInv

LEMMA InitTSSInv ==
  ASSUME Init
  PROVE  TSSInv
<1>1. /\ tuples = {} /\ chains = <<>> /\ rules = {} /\ latched = FALSE
      /\ ent = [x \in Ids |-> Absent] /\ pc = "new" /\ pkt = {} /\ turn = 1 /\ best = NoRule
      /\ gone = {} /\ promoted = {}
  BY DEF Init
<1>2. Len(chains) = 0 /\ chains \in Seq(Seq(Masks)) /\ 1..0 = {}
  BY <1>1
<1>3. Absent \in Entries /\ Absent.bits = {} /\ Absent.owners = {} /\ ~Absent.inTable /\ ~Listed(Absent)
  BY DEF Absent, Entries, Listed
<1> HIDE DEF Absent, Entries
<1>4. ent \in [Ids -> Entries]
  BY <1>1, <1>3
<1>5. ASSUME NEW x \in Ids PROVE ent[x] = Absent /\ Consistent(ent, x) /\ ~Listed(ent[x])
  <2>1. ent[x] = Absent
    BY <1>1
  <2> QED BY <1>3, <2>1 DEF Consistent
<1>6. ASSUME NEW m \in Masks PROVE Good(ChainOf(chains, m), ent, promoted)
  <2>1. ChainOf(chains, m) = <<m>>
    BY <1>2, ChainOfOff
  <2>2. Unmarked(ent, m)
    <3> SUFFICES ASSUME NEW k \in SUBSET m PROVE MARKER \notin ent[<<m, k>>].bits
      BY DEF Unmarked
    <3>1. <<m, k>> \in Ids
      BY MasksAssumption DEF Ids
    <3> QED BY <1>3, <1>5, <3>1
  <2> QED BY <1>4, <1>5, <2>1, <2>2, SingleGood
<1>7. TypeOK
  <2>1. turn \in 1..(Len(chains) + 1)
    BY <1>1, <1>2
  <2>2. pkt \in Packets /\ tuples \subseteq Masks /\ promoted \subseteq Ids
    BY <1>1 DEF Packets
  <2>3. rules \subseteq Rules /\ gone \subseteq Rules /\ best \in Rules \cup {NoRule}
        /\ latched \in BOOLEAN /\ pc \in {"new", "idle", "search", "done"}
    BY <1>1
  <2> QED BY <1>2, <1>4, <2>1, <2>2, <2>3 DEF TypeOK
<1>8. ChainsDivide
  BY <1>1, <1>2 DEF ChainsDivide, Separate
<1>9. EntriesGood
  BY <1>5, <1>6 DEF EntriesGood
<1>10. RulesKept
  <2>1. \A x \in Ids : RULE \notin ent[x].bits
    BY <1>3, <1>5
  <2> QED BY <1>1, <2>1 DEF RulesKept, Installed
<1>11. EmptyAtFirst
  BY <1>1 DEF EmptyAtFirst
<1> QED BY <1>7, <1>8, <1>9, <1>10, <1>11 DEF TSSInv

\* What a search finds is of its type.
LEMMA SearchTypes ==
  ASSUME TSSInv
  PROVE  /\ pkt \in SUBSET Bits /\ pkt \in Packets /\ {} \in Packets
         /\ BestMatch(rules, pkt) \in Rules \cup {NoRule}
         /\ NoRule \in Rules \cup {NoRule}
         /\ turn <= Len(chains) =>
              /\ turn \in 1..Len(chains) /\ chains[turn] \in Seq(Masks)
              /\ turn + 1 \in 1..(Len(chains) + 1)
              /\ Better(best, ChainAnswer(ent, chains[turn], pkt)) \in Rules \cup {NoRule}
         /\ turn \in 1..(Len(chains) + 1) /\ best \in Rules \cup {NoRule} /\ 1 \in 1..(Len(chains) + 1)
<1>1. /\ chains \in Seq(Seq(Masks)) /\ ent \in [Ids -> Entries] /\ rules \subseteq Rules
      /\ pkt \in Packets /\ turn \in 1..(Len(chains) + 1) /\ best \in Rules \cup {NoRule}
  BY DEF TSSInv, TypeOK
<1>2. pkt \in SUBSET Bits /\ {} \in Packets
  BY <1>1 DEF Packets
<1>3. BestMatch(rules, pkt) \in Rules \cup {NoRule}
  BY <1>1, BestMatchType
<1>4. ASSUME turn <= Len(chains)
      PROVE  /\ turn \in 1..Len(chains) /\ chains[turn] \in Seq(Masks)
             /\ turn + 1 \in 1..(Len(chains) + 1)
             /\ Better(best, ChainAnswer(ent, chains[turn], pkt)) \in Rules \cup {NoRule}
  <2>1. turn \in 1..Len(chains) /\ turn + 1 \in 1..(Len(chains) + 1)
    BY <1>1, <1>4
  <2>2. chains[turn] \in Seq(Masks)
    BY <1>1, <2>1
  <2>3. ChainAnswer(ent, chains[turn], pkt) \in Rules \cup {NoRule}
    BY <1>1, <1>2, <2>2, ChainAnswerType
  <2> QED BY <1>1, <2>1, <2>2, <2>3 DEF Better
<1>5. 1 \in 1..(Len(chains) + 1)
  BY <1>1
<1> QED BY <1>1, <1>2, <1>3, <1>4, <1>5

LEMMA NextTSSInv ==
  ASSUME TSSInv, [Next]_vars
  PROVE  TSSInv'
<1> USE SearchTypes
<1>1. CASE Construct
  BY <1>1, ConstructKeeps
<1>2. ASSUME NEW r \in Rules, InsertTuple(r) PROVE TSSInv'
  BY <1>2, InsertTupleKeeps
<1>3. ASSUME NEW r \in Rules, InsertRule(r) PROVE TSSInv'
  BY <1>3, InsertRuleKeeps
<1>4. ASSUME NEW r \in Rules, DeleteRule(r) PROVE TSSInv'
  BY <1>4, DeleteRuleKeeps
<1>5. ASSUME NEW p \in Packets, StartSearch(p) PROVE TSSInv'
  <2>1. /\ UNCHANGED <<tableVars, history>> /\ pc' = "search" /\ pkt' \in Packets
        /\ turn' = 1 /\ best' = NoRule
    BY <1>5 DEF StartSearch
  <2> QED BY <2>1, SearchingKeeps
<1>6. CASE SearchList
  <2>1. /\ UNCHANGED <<tableVars, history>> /\ pc' = "done" /\ pkt' = pkt
        /\ turn' = turn /\ best' = BestMatch(rules, pkt)
    BY <1>6 DEF SearchList
  <2> QED BY <2>1, SearchingKeeps
<1>7. CASE SearchChain
  <2>1. /\ UNCHANGED <<tableVars, history>> /\ pc' = "search" /\ pkt' = pkt /\ turn <= Len(chains)
        /\ turn' = turn + 1 /\ best' = Better(best, ChainAnswer(ent, chains[turn], pkt))
    BY <1>7 DEF SearchChain
  <2> QED BY <2>1, SearchingKeeps
<1>8. CASE EndSearch
  <2>1. /\ UNCHANGED <<tableVars, history>> /\ pc' = "done" /\ pkt' = pkt
        /\ turn' = turn /\ best' = best
    BY <1>8 DEF EndSearch, searchVars
  <2> QED BY <2>1, SearchingKeeps
<1>9. CASE Return
  <2>1. /\ UNCHANGED <<tableVars, history>> /\ pc' = "idle" /\ pkt' = {}
        /\ turn' = 1 /\ best' = NoRule
    BY <1>9 DEF Return
  <2> QED BY <2>1, SearchingKeeps
<1>10. CASE UNCHANGED vars
  <2>1. TypeOK'
    BY <1>10 DEF TSSInv, TypeOK, vars, tableVars, searchVars, history
  <2>2. ChainsDivide'
    BY <1>10 DEF TSSInv, ChainsDivide, vars, tableVars
  <2>3. EntriesGood'
    BY <1>10 DEF TSSInv, EntriesGood, vars, tableVars, history
  <2>4. RulesKept'
    BY <1>10 DEF TSSInv, RulesKept, Installed, vars, tableVars, history
  <2>5. EmptyAtFirst'
    BY <1>10 DEF TSSInv, EmptyAtFirst, vars, tableVars, searchVars, history
  <2> QED BY <2>1, <2>2, <2>3, <2>4, <2>5 DEF TSSInv
<1> QED BY <1>1, <1>2, <1>3, <1>4, <1>5, <1>6, <1>7, <1>8, <1>9, <1>10 DEF Next, Search


-----------------------------------------------------------------------------
(***************************************************************************)
(* A search.                                                               *)
(***************************************************************************)

\* A chain that no promoted and no dead entry spoils answers with the best of
\* its rules.
LEMMA ChainAnswersBest ==
  ASSUME TSSInv, ~PacketDead, ~PacketPromoted, NEW i \in 1..Len(chains)
  PROVE  ChainAnswer(ent, chains[i], pkt) = BestMatch({r \in Installed : On(chains[i], r.mask)}, pkt)
<1> DEFINE c == chains[i]
           S == {r \in Installed : On(c, r.mask)}
<1>1. /\ ent \in [Ids -> Entries] /\ (\A x \in Ids : Consistent(ent, x))
      /\ c \in Seq(Masks) /\ Nested(c) /\ pkt \in SUBSET Bits /\ promoted \subseteq Ids
  <2>1. chains \in Seq(Seq(Masks)) /\ pkt \in Packets /\ promoted \subseteq Ids
    BY DEF TSSInv, TypeOK
  <2>2. c \in Seq(Masks) /\ pkt \in SUBSET Bits
    BY <2>1 DEF Packets
  <2> QED BY <2>1, <2>2, Facts
<1>2. \A g \in 1..Len(c) : ~HitsDead(ent, Id(c, g, pkt))
  BY <1>1, IdType DEF PacketDead, Id
<1>3. Installed \in SUBSET Rules
      /\ (\A r \in Rules : r \in Installed <=> RULE \in ent[<<r.mask, r.key>>].bits)
      /\ (\A r \in Installed : ent[<<r.mask, r.key>>].rule = r)
  BY <1>1, InstalledIs, RuleAtHome
<1>4. S \in SUBSET Rules
  BY <1>3
<1>5. Good(c, ent, promoted)
  <2>1. CASE Len(c) = 0
    BY <1>1, <2>1, GoodEmpty
  <2>2. CASE Len(c) # 0
    <3>1. Len(c) \in Nat /\ 1 \in 1..Len(c) /\ c[1] \in Masks /\ On(c, c[1])
      <4>1. Len(c) \in Nat /\ 1 \in 1..Len(c)
        BY <1>1, <2>2
      <4>2. c[1] \in Masks
        BY <1>1, <4>1
      <4> QED BY <4>1, <4>2 DEF On
    <3>2. ChainOf(chains, c[1]) = c
      <4>1. Separate(chains)
        BY Facts
      <4> QED BY <3>1, <4>1, ChainOfOn
    <3> QED BY <3>1, <3>2, Facts
  <2> QED BY <2>1, <2>2
<1>6. Avoids(c, pkt, promoted)
  <2> SUFFICES ASSUME NEW g \in 1..Len(c), Id(c, g, pkt) \in promoted PROVE FALSE
    BY DEF Avoids
  <2>1. Key(c[g], pkt) = Id(c, g, pkt)[2] /\ Id(c, g, pkt)[1] = c[g]
    BY DEF Id
  <2> QED BY <2>1 DEF PacketPromoted
<1>7. HasRules(c, ent, pkt, S)
  <2>1. ASSUME NEW g \in 1..Len(c), RULE \in ent[Id(c, g, pkt)].bits
        PROVE  ent[Id(c, g, pkt)].rule \in S
    <3> DEFINE x == Id(c, g, pkt)
               r == ent[x].rule
    <3>1. x \in Ids /\ x[1] = c[g]
      BY <1>1, IdType DEF Id
    <3>2. r \in Rules /\ <<r.mask, r.key>> = x
      BY <1>1, <2>1, <3>1 DEF Consistent
    <3>3. r \in Installed
      BY <2>1, <3>1 DEF Installed
    <3>4. r.mask = c[g]
      BY <3>1, <3>2
    <3> HIDE DEF c
    <3> QED BY <3>3, <3>4 DEF On
  <2>2. ASSUME NEW r \in S, Matches(r, pkt)
        PROVE  \E g \in 1..Len(c) : RULE \in ent[Id(c, g, pkt)].bits /\ r = ent[Id(c, g, pkt)].rule
    <3>1. r \in Installed /\ r \in Rules /\ On(c, r.mask)
      BY <1>3, <2>2
    <3>2. PICK g \in 1..Len(c) : c[g] = r.mask
      BY <3>1 DEF On
    <3>3. Id(c, g, pkt) = <<r.mask, r.key>>
      BY <2>2, <3>2 DEF Id, Matches
    <3> HIDE DEF c
    <3> QED BY <1>3, <3>1, <3>3
  <2> QED BY <2>1, <2>2 DEF HasRules
<1> HIDE DEF c, S
<1>8. ChainAnswer(ent, c, pkt) = BestMatch(S, pkt)
  BY <1>1, <1>2, <1>4, <1>5, <1>6, <1>7, ChainAnswerBest
<1> QED BY <1>8 DEF c, S

LEMMA NextSearchSoFar ==
  ASSUME TSSInv, SearchSoFar, [Next]_vars
  PROVE  SearchSoFar'
<1>1. ASSUME pc' = "search", latched', ~PacketDead', ~PacketPromoted', UNCHANGED <<tableVars, history>>,
             SearchChain
      PROVE  best' = BestMatch(RulesUpTo(turn - 1)', pkt')
  <2>1. /\ chains' = chains /\ ent' = ent /\ promoted' = promoted
        /\ pkt' = pkt /\ pc = "search" /\ latched /\ turn <= Len(chains) /\ turn' = turn + 1
        /\ best' = Better(best, ChainAnswer(ent, chains[turn], pkt))
    BY <1>1 DEF SearchChain, tableVars, history
  <2>2. ~PacketDead /\ ~PacketPromoted
    BY <1>1, <2>1 DEF PacketDead, PacketPromoted
  <2>3. best = BestMatch(RulesUpTo(turn - 1), pkt)
    BY <2>1, <2>2 DEF SearchSoFar
  <2>4. turn \in 1..Len(chains)
    BY <2>1, SearchTypes
  <2> DEFINE T == {r \in Installed : On(chains[turn], r.mask)}
             S == RulesUpTo(turn - 1)
  <2>5. ChainAnswer(ent, chains[turn], pkt) = BestMatch(T, pkt)
    BY <2>2, <2>4, ChainAnswersBest
  <2>6. Installed \in SUBSET Rules
    BY Facts, InstalledIs, RuleAtHome
  <2>7. S \in SUBSET Rules /\ T \in SUBSET Rules
    BY <2>6 DEF RulesUpTo
  <2>8. RulesUpTo(turn - 1)' = S \cup T
    <3>1. Installed' = Installed
      BY <2>1 DEF Installed
    <3>2. RulesUpTo(turn - 1)' = {r \in Installed : \E i \in 1..turn : On(chains[i], r.mask)}
      <4>1. turn' - 1 = turn
        BY <2>1, <2>4
      <4> QED BY <2>1, <3>1, <4>1 DEF RulesUpTo
    <3>3. 1..turn = (1..(turn - 1)) \cup {turn}
      BY <2>4
    <3> QED BY <3>2, <3>3 DEF RulesUpTo
  <2> HIDE DEF S, T
  <2>9. BestMatch(S \cup T, pkt) = Better(BestMatch(S, pkt), BestMatch(T, pkt))
    BY <2>7, BestOfBoth
  <2> QED BY <2>1, <2>3, <2>5, <2>8, <2>9 DEF S
<1>2. CASE Construct
  BY <1>2 DEF Construct, SearchSoFar
<1>3. ASSUME NEW r \in Rules, InsertTuple(r) \/ InsertRule(r) \/ DeleteRule(r) PROVE SearchSoFar'
  BY <1>3 DEF InsertTuple, InsertRule, DeleteRule, SearchSoFar
<1>4. ASSUME NEW p \in Packets, StartSearch(p) PROVE SearchSoFar'
  <2>1. turn' = 1 /\ best' = NoRule
    BY <1>4 DEF StartSearch
  <2>2. RulesUpTo(turn - 1)' = {}
    <3>1. turn' - 1 = 0 /\ 1..0 = {}
      BY <2>1
    <3> QED BY <3>1 DEF RulesUpTo
  <2>3. BestMatch({}, pkt') = NoRule
    BY DEF BestMatch
  <2> QED BY <2>1, <2>2, <2>3 DEF SearchSoFar
<1>5. CASE SearchList
  BY <1>5 DEF SearchList, SearchSoFar
<1>6. CASE SearchChain
  <2>1. UNCHANGED <<tableVars, history>>
    BY <1>6 DEF SearchChain
  <2> QED BY <1>1, <1>6, <2>1 DEF SearchSoFar
<1>7. CASE EndSearch
  BY <1>7 DEF EndSearch, SearchSoFar
<1>8. CASE Return
  BY <1>8 DEF Return, SearchSoFar
<1>9. CASE UNCHANGED vars
  BY <1>9 DEF SearchSoFar, RulesUpTo, Installed, PacketDead, PacketPromoted,
              vars, tableVars, searchVars, history
<1> QED BY <1>2, <1>3, <1>4, <1>5, <1>6, <1>7, <1>8, <1>9 DEF Next, Search


\* A rule is installed only in a tuple, and when chains are searched, only in
\* a chain.
LEMMA InstalledOnChains ==
  ASSUME TSSInv
  PROVE  /\ Installed \in SUBSET Rules /\ \A r \in Installed : r.mask \in tuples
         /\ latched => RulesUpTo(Len(chains)) = Installed
<1>1. ent \in [Ids -> Entries] /\ \A x \in Ids : Consistent(ent, x)
  BY Facts
<1>2. Installed \in SUBSET Rules
  BY <1>1, InstalledIs, RuleAtHome
<1>3. ASSUME NEW r \in Installed PROVE r.mask \in tuples
  <2>1. r \in Rules /\ RULE \in ent[<<r.mask, r.key>>].bits
    BY <1>1, <1>2, InstalledIs, RuleAtHome
  <2> DEFINE x == <<r.mask, r.key>>
  <2>2. x \in Ids /\ x[1] = r.mask
    BY <2>1, RuleIdType
  <2>3. Listed(ent[x])
    BY <1>1, <2>1, <2>2 DEF Consistent, Listed
  <2> HIDE DEF x
  <2>4. x[1] \in tuples
    BY <2>2, <2>3 DEF TSSInv, EntriesGood
  <2> QED BY <2>2, <2>4
<1>4. ASSUME latched PROVE RulesUpTo(Len(chains)) = Installed
  BY <1>3, <1>4 DEF TSSInv, ChainsDivide, RulesUpTo
<1> QED BY <1>2, <1>3, <1>4

LEMMA NextAnswerExplained ==
  ASSUME TSSInv, SearchSoFar, AnswerExplained, [Next]_vars
  PROVE  AnswerExplained'
<1>1. CASE Construct
  BY <1>1 DEF Construct, AnswerExplained
<1>2. ASSUME NEW r \in Rules, InsertTuple(r) \/ InsertRule(r) \/ DeleteRule(r) PROVE AnswerExplained'
  BY <1>2 DEF InsertTuple, InsertRule, DeleteRule, AnswerExplained
<1>3. ASSUME NEW p \in Packets, StartSearch(p) PROVE AnswerExplained'
  BY <1>3 DEF StartSearch, AnswerExplained
<1>4. CASE SearchList
  <2>1. /\ ent' = ent /\ gone' = gone /\ pkt' = pkt /\ ~latched' /\ best' = BestMatch(rules, pkt)
    BY <1>4 DEF SearchList, tableVars, history
  <2>2. Installed' = Installed
    BY <2>1 DEF Installed
  <2>3. rules = Installed \cup gone
    BY DEF TSSInv, RulesKept
  <2> QED BY <2>1, <2>2, <2>3 DEF AnswerExplained
<1>5. CASE SearchChain
  BY <1>5 DEF SearchChain, AnswerExplained
<1>6. CASE EndSearch
  <2>1. /\ ent' = ent /\ promoted' = promoted /\ gone' = gone /\ pkt' = pkt /\ best' = best
        /\ latched' /\ latched /\ pc = "search" /\ turn > Len(chains)
    BY <1>6 DEF EndSearch, tableVars, searchVars, history
  <2>2. Installed' = Installed
    BY <2>1 DEF Installed
  <2>3. (PacketDead' <=> PacketDead) /\ (PacketPromoted' <=> PacketPromoted)
    BY <2>1 DEF PacketDead, PacketPromoted
  <2>4. turn - 1 = Len(chains)
    BY <2>1 DEF TSSInv, TypeOK
  <2>5. RulesUpTo(turn - 1) = Installed
    BY <2>1, <2>4, InstalledOnChains
  <2> QED BY <2>1, <2>2, <2>3, <2>5 DEF SearchSoFar, AnswerExplained
<1>7. CASE Return
  BY <1>7 DEF Return, AnswerExplained
<1>8. CASE UNCHANGED vars
  BY <1>8 DEF AnswerExplained, Installed, PacketDead, PacketPromoted,
              vars, tableVars, searchVars, history
<1> QED BY <1>1, <1>2, <1>3, <1>4, <1>5, <1>6, <1>7, <1>8 DEF Next, Search

\* No tuple is on two chains or twice on one, and a chain has at most as many
\* levels as there are masks.
LEMMA TupleOnce ==
  ASSUME TSSInv
  PROVE  TuplesChained
<1> SUFFICES ASSUME latched, NEW m \in tuples
             PROVE  Cardinality({at \in (1..Len(chains)) \X (1..Cardinality(Masks)) :
                       at[2] <= Len(chains[at[1]]) /\ chains[at[1]][at[2]] = m}) = 1
  BY DEF TuplesChained
<1>1. PICK i \in 1..Len(chains) : On(chains[i], m)
  BY DEF TSSInv, ChainsDivide
<1>2. chains \in Seq(Seq(Masks)) /\ Separate(chains) /\ \A l \in 1..Len(chains) : Nested(chains[l])
  BY Facts
<1>3. chains[i] \in Seq(Masks) /\ Len(chains[i]) \in Nat /\ Nested(chains[i])
  BY <1>2
<1>4. PICK j \in 1..Len(chains[i]) : chains[i][j] = m
  BY <1>1 DEF On
<1>5. IsFiniteSet(Masks) /\ Cardinality(Masks) \in Nat
  BY FiniteRules, FS_CardinalityType
<1>6. Len(chains[i]) <= Cardinality(Masks)
  <2> DEFINE n == Len(chains[i])
             f == [l \in 1..n |-> chains[i][l]]
  <2>1. n \in Nat /\ f \in [1..n -> Masks]
    BY <1>3
  <2>2. \A a, b \in 1..n : f[a] = f[b] => a = b
    BY <1>3, LevelUnique
  <2> HIDE DEF n, f
  <2>3. f \in Injection(1..n, Masks)
    BY <2>1, <2>2, Zenon DEF Injection, IsInjective
  <2>4. Cardinality(1..n) <= Cardinality(Masks)
    BY <1>5, <2>3, FS_Injection
  <2>5. Cardinality(1..n) = n
    <3>1. Cardinality(1..n) = IF 1 > n THEN 0 ELSE n - 1 + 1
      BY <2>1, FS_Interval
    <3> QED BY <2>1, <3>1
  <2> QED BY <2>4, <2>5 DEF n
<1> DEFINE S == {at \in (1..Len(chains)) \X (1..Cardinality(Masks)) :
                   at[2] <= Len(chains[at[1]]) /\ chains[at[1]][at[2]] = m}
<1>7. S = {<<i, j>>}
  <2>1. j \in 1..Cardinality(Masks) /\ j <= Len(chains[i])
    BY <1>3, <1>5, <1>6
  <2>2. <<i, j>> \in S
    BY <1>4, <2>1
  <2>3. ASSUME NEW at \in S PROVE at = <<i, j>>
    <3>1. /\ at[1] \in 1..Len(chains) /\ at[2] \in 1..Len(chains[at[1]])
          /\ chains[at[1]][at[2]] = m /\ at = <<at[1], at[2]>>
      <4>1. at[1] \in 1..Len(chains) /\ at[2] \in 1..Cardinality(Masks)
            /\ at[2] <= Len(chains[at[1]]) /\ chains[at[1]][at[2]] = m /\ at = <<at[1], at[2]>>
        OBVIOUS
      <4>2. Len(chains[at[1]]) \in Nat
        BY <1>2, <4>1
      <4> QED BY <1>5, <4>1, <4>2
    <3>2. On(chains[at[1]], m)
      BY <3>1 DEF On
    <3>3. at[1] = i
      BY <1>1, <1>2, <3>1, <3>2 DEF Separate
    <3>4. at[2] = j
      BY <1>3, <1>4, <3>1, <3>3, LevelUnique
    <3> QED BY <3>1, <3>3, <3>4
  <2> QED BY <2>2, <2>3
<1> HIDE DEF S
<1>8. Cardinality(S) = 1
  BY <1>7, FS_Singleton
<1> QED BY <1>8 DEF S

\* An owner is on the chain of the entry it owns.
LEMMA OwnersOnChain ==
  ASSUME TSSInv
  PROVE  OwnersInChain
<1> SUFFICES ASSUME NEW x \in Ids, NEW y \in ent[x].owners
             PROVE  \E i \in 1..Len(chains) : On(chains[i], x[1]) /\ On(chains[i], y[1])
  BY DEF OwnersInChain
<1> DEFINE m == x[1]
           c == ChainOf(chains, m)
           a == Level(c, m)
<1>1. x = <<m, x[2]>> /\ m \in Masks /\ x[2] \in SUBSET m
  BY IdsBits
<1>2. c \in Seq(Masks) /\ Nested(c) /\ a \in 1..Len(c) /\ c[a] = m /\ On(c, m)
  BY <1>1, Placed
<1>3. Skips(c, ent, promoted)
  BY <1>1, Facts DEF Good
<1>4. PICK b \in (a + 1)..Len(c) : y[1] = c[b]
  <2> HIDE DEF m, c, a
  <2> QED BY <1>1, <1>2, <1>3 DEF Skips
<1>5. On(c, y[1]) /\ Len(c) > 1
  <2>1. b \in 1..Len(c) /\ Len(c) > 1
    BY <1>2
  <2> HIDE DEF c
  <2> QED BY <1>4, <2>1 DEF On
<1>6. CASE \E i \in 1..Len(chains) : On(chains[i], m)
  <2>1. PICK i \in 1..Len(chains) : On(chains[i], m)
    BY <1>6
  <2>2. c = chains[i]
    BY <2>1, Facts, ChainOfOn
  <2> QED BY <1>2, <1>5, <2>2
<1>7. CASE \A i \in 1..Len(chains) : ~On(chains[i], m)
  <2>1. c = <<m>>
    BY <1>7, ChainOfOff
  <2>2. Len(<<m>>) = 1
    OBVIOUS
  <2> QED BY <1>5, <2>1, <2>2
<1> QED BY <1>6, <1>7


-----------------------------------------------------------------------------
(***************************************************************************)
(* The theorems.                                                           *)
(***************************************************************************)

THEOREM InvariantHolds == Spec => [](TSSInv /\ SearchSoFar /\ AnswerExplained)
<1>1. Init => TSSInv /\ SearchSoFar /\ AnswerExplained
  <2>1. Init => pc = "new"
    BY DEF Init
  <2> QED BY <2>1, InitTSSInv DEF SearchSoFar, AnswerExplained
<1>2. TSSInv /\ SearchSoFar /\ AnswerExplained /\ [Next]_vars
        => (TSSInv /\ SearchSoFar /\ AnswerExplained)'
  BY NextTSSInv, NextSearchSoFar, NextAnswerExplained
<1> QED BY <1>1, <1>2, PTL DEF Spec

\* The variables of a classifier keep their types.
THEOREM TypesKept == Spec => []TypeOK
<1>1. TSSInv => TypeOK
  BY DEF TSSInv
<1> QED BY <1>1, InvariantHolds, PTL

\* Once chains are searched, insertTuple and minimumPathCovering leave every
\* tuple in exactly one chain.
THEOREM TuplesInOneChain == Spec => []TuplesChained
<1>1. TSSInv => TuplesChained
  BY TupleOnce
<1> QED BY <1>1, InvariantHolds, PTL

\* No update lets a marker of one chain be owned from another.
THEOREM OwnersStayInChain == Spec => []OwnersInChain
<1>1. TSSInv => OwnersInChain
  BY OwnersOnChain
<1> QED BY <1>1, InvariantHolds, PTL

\* CTSS::search returns the best of the installed rules, unless the packet
\* meets an entry that insert put onto a marker or one that erase left dead.
THEOREM AnswersExplained == Spec => []AnswerExplained
BY InvariantHolds, PTL


-----------------------------------------------------------------------------
(***************************************************************************)
(* m_entries.size(): with a threshold of zero every tuple that has an      *)
(* entry is hashed, so that no scan meets a dead one.                      *)
(***************************************************************************)

\* The sum of g over s, from the sums h over smaller sets.
SumStep(g, h, s) ==
  IF s = {} THEN 0 ELSE g[CHOOSE x \in s : TRUE] + h[s \ {CHOOSE x \in s : TRUE}]

LEMMA SumExists ==
  ASSUME NEW S, IsFiniteSet(S), NEW g \in [S -> Nat]
  PROVE  \E h \in [SUBSET S -> Nat] : \A s \in SUBSET S : h[s] = SumStep(g, h, s)
<1> DEFINE n == Cardinality(S)
           Approx(h, k) == /\ h \in [SUBSET S -> Nat]
                           /\ \A s \in SUBSET S : Cardinality(s) <= k => h[s] = SumStep(g, h, s)
           T == {k \in 0..n : \E h : Approx(h, k)}
           rest(s) == s \ {CHOOSE x \in s : TRUE}
<1>1. n \in Nat /\ \A s \in SUBSET S : IsFiniteSet(s) /\ Cardinality(s) \in Nat /\ Cardinality(s) <= n
  BY FS_Subset, FS_CardinalityType
<1>2. ASSUME NEW s \in SUBSET S, s # {}
      PROVE  /\ (CHOOSE x \in s : TRUE) \in S /\ rest(s) \in SUBSET S
             /\ Cardinality(rest(s)) = Cardinality(s) - 1
  <2> DEFINE x == CHOOSE x \in s : TRUE
  <2>1. x \in s
    BY <1>2, Zenon
  <2> HIDE DEF x
  <2>2. IsFiniteSet(s)
    BY <1>1
  <2>3. Cardinality(s \ {x}) = Cardinality(s) - 1
    BY <2>1, <2>2, FS_RemoveElement
  <2> QED BY <2>1, <2>3 DEF x
<1>3. ASSUME NEW h \in [SUBSET S -> Nat], NEW s \in SUBSET S PROVE SumStep(g, h, s) \in Nat
  <2>1. CASE s = {}
    BY <2>1 DEF SumStep
  <2>2. CASE s # {}
    <3>1. (CHOOSE x \in s : TRUE) \in S /\ rest(s) \in SUBSET S
      BY <1>2, <2>2
    <3>2. g[CHOOSE x \in s : TRUE] \in Nat /\ h[rest(s)] \in Nat
      BY <3>1
    <3>3. SumStep(g, h, s) = g[CHOOSE x \in s : TRUE] + h[rest(s)]
      BY <2>2 DEF SumStep
    <3> HIDE DEF rest
    <3> QED BY <3>2, <3>3
  <2> QED BY <2>1, <2>2
<1>4. ASSUME NEW h, NEW k \in Nat, Approx(h, k)
      PROVE  \E f : Approx(f, k + 1)
  <2> DEFINE f == [s \in SUBSET S |-> SumStep(g, h, s)]
  <2>1. f \in [SUBSET S -> Nat]
    BY <1>3, <1>4
  <2>2. ASSUME NEW s \in SUBSET S, Cardinality(s) <= k + 1
        PROVE  f[s] = SumStep(g, f, s)
    <3>1. CASE s = {}
      BY <3>1 DEF SumStep
    <3>2. CASE s # {}
      <4>1. rest(s) \in SUBSET S /\ Cardinality(rest(s)) <= k
        <5>1. rest(s) \in SUBSET S /\ Cardinality(rest(s)) = Cardinality(s) - 1
          BY <1>2, <3>2
        <5>2. Cardinality(s) \in Nat
          BY <1>1
        <5> HIDE DEF rest
        <5> QED BY <2>2, <5>1, <5>2
      <4>2. f[rest(s)] = h[rest(s)]
        <5> HIDE DEF rest
        <5>1. f[rest(s)] = SumStep(g, h, rest(s))
          BY <4>1
        <5> QED BY <1>4, <4>1, <5>1
      <4>3. f[s] = SumStep(g, h, s)
        OBVIOUS
      <4> HIDE DEF f
      <4> QED BY <3>2, <4>2, <4>3 DEF SumStep
    <3> QED BY <3>1, <3>2
  <2> HIDE DEF f
  <2>3. Approx(f, k + 1)
    BY <2>1, <2>2
  <2> HIDE DEF Approx
  <2> QED BY <2>3
<1>5. 0 \in T
  <2> DEFINE h == [s \in SUBSET S |-> 0]
  <2>1. ASSUME NEW s \in SUBSET S, Cardinality(s) <= 0 PROVE h[s] = SumStep(g, h, s)
    <3>1. s = {}
      BY <1>1, <2>1, FS_EmptySet
    <3> QED BY <3>1 DEF SumStep
  <2>2. Approx(h, 0)
    BY <2>1
  <2> HIDE DEF Approx
  <2> QED BY <1>1, <2>2
<1>6. PICK k \in T : \A l \in T : l <= k
  <2>1. T \in SUBSET (0..n) /\ T # {}
    BY <1>5
  <2> HIDE DEF T, n
  <2> QED BY <1>1, <2>1, GreatestNat
<1>7. PICK h : Approx(h, k)
  OBVIOUS
<1>8. k = n
  <2> SUFFICES ASSUME k # n PROVE FALSE
    OBVIOUS
  <2> HIDE DEF n, Approx
  <2>1. k \in Nat /\ k + 1 \in 0..n /\ ~(k + 1 <= k)
    BY <1>1
  <2>2. \E f : Approx(f, k + 1)
    BY <1>4, <1>7, <2>1
  <2>3. k + 1 \in T
    BY <2>1, <2>2
  <2> HIDE DEF T
  <2> QED BY <1>6, <2>1, <2>3
<1> QED BY <1>1, <1>7, <1>8

\* No summand is more than the sum.
LEMMA SumAtLeast ==
  ASSUME NEW S, IsFiniteSet(S), NEW g \in [S -> Nat], NEW h,
         \A s \in SUBSET S : h[s] = SumStep(g, h, s), NEW y \in S
  PROVE  h[S] \in Nat /\ g[y] <= h[S]
<1> DEFINE Fine(s) == h[s] \in Nat /\ \A x \in s : g[x] <= h[s]
           F == {s \in SUBSET S : ~Fine(s)}
<1>1. F = {}
  <2> SUFFICES ASSUME F # {} PROVE FALSE
    OBVIOUS
  <2>1. F \subseteq FiniteSubsetsOf(S)
    BY FS_Subset DEF FiniteSubsetsOf
  <2>2. PICK s \in F : \A t \in F : ~(t \subseteq s /\ t # s)
    <3> HIDE DEF F
    <3> QED BY <2>1, MinimalSet
  <2>3. s \in SUBSET S /\ ~Fine(s)
    OBVIOUS
  <2>4. CASE s = {}
    <3>1. h[s] = 0
      BY <2>3, <2>4 DEF SumStep
    <3> QED BY <2>3, <2>4, <3>1
  <2>5. CASE s # {}
    <3> DEFINE x == CHOOSE x \in s : TRUE
               t == s \ {x}
    <3>1. x \in s
      BY <2>5, Zenon
    <3>2. h[s] = g[x] + h[t]
      BY <2>3, <2>5 DEF SumStep
    <3> HIDE DEF x
    <3>3. t \in SUBSET S /\ t \subseteq s /\ t # s
      BY <2>3, <3>1
    <3>4. s = t \cup {x}
      BY <3>1
    <3> HIDE DEF t
    <3>5. Fine(t)
      BY <2>2, <3>3
    <3>6. g[x] \in Nat /\ \A z \in s : g[z] \in Nat
      BY <2>3, <3>1
    <3>7. Fine(s)
      BY <3>2, <3>4, <3>5, <3>6
    <3> HIDE DEF Fine
    <3> QED BY <2>3, <3>7
  <2> QED BY <2>4, <2>5
<1> QED BY <1>1

\* Without a threshold a scan meets no dead entry.
LEMMA NoneScanned ==
  ASSUME Threshold = 0, NEW e \in [Ids -> Entries], NEW x \in Ids
  PROVE  ~HitsDead(e, x)
<1> DEFINE m == x[1]
           K == SUBSET m
           g == [k \in K |-> e[<<m, k>>].dead + (IF e[<<m, k>>].inTable THEN 1 ELSE 0)]
           Is(h) == h = [s \in SUBSET K |->
                      IF s = {} THEN 0
                      ELSE (e[<<m, CHOOSE k \in s : TRUE>>].dead
                              + (IF e[<<m, CHOOSE k \in s : TRUE>>].inTable THEN 1 ELSE 0))
                           + h[s \ {CHOOSE k \in s : TRUE}]]
           G == CHOOSE h : Is(h)
<1>1. x = <<m, x[2]>> /\ m \in Masks /\ x[2] \in K /\ \A k \in K : <<m, k>> \in Ids
  BY IdsBits, MasksAssumption DEF Ids
<1>2. IsFiniteSet(K)
  <2>1. IsFiniteSet(m)
    BY <1>1, MasksAssumption, BitsAssumption, FS_Subset
  <2> QED BY <2>1, FS_SUBSET, Zenon
<1>3. g \in [K -> Nat]
  <2>1. \A k \in K : e[<<m, k>>].dead \in Nat
    BY <1>1 DEF Entries
  <2> HIDE DEF m
  <2> QED BY <2>1
<1>4. ASSUME NEW h PROVE Is(h) <=> h = [s \in SUBSET K |-> SumStep(g, h, s)]
  <2> DEFINE Term(s) == IF s = {} THEN 0
                        ELSE (e[<<m, CHOOSE k \in s : TRUE>>].dead
                                + (IF e[<<m, CHOOSE k \in s : TRUE>>].inTable THEN 1 ELSE 0))
                             + h[s \ {CHOOSE k \in s : TRUE}]
  <2>1. ASSUME NEW s \in SUBSET K PROVE SumStep(g, h, s) = Term(s)
    <3>1. CASE s = {}
      BY <3>1 DEF SumStep
    <3>2. CASE s # {}
      <4>1. (CHOOSE k \in s : TRUE) \in K
        BY <3>2
      <4> QED BY <3>2, <4>1 DEF SumStep
    <3> QED BY <3>1, <3>2
  <2>2. Is(h) <=> h = [s \in SUBSET K |-> Term(s)]
    OBVIOUS
  <2> HIDE DEF Is, Term, K, g
  <2>3. [s \in SUBSET K |-> Term(s)] = [s \in SUBSET K |-> SumStep(g, h, s)]
    BY <2>1
  <2> QED BY <2>2, <2>3
<1>5. NumEntries(e, m) = G[K]
  BY Zenon DEF NumEntries, MapThenSumSet, MapThenFoldSet
<1> HIDE DEF Is, g, K
<1>6. Is(G)
  <2>1. PICK h \in [SUBSET K -> Nat] : \A s \in SUBSET K : h[s] = SumStep(g, h, s)
    BY <1>2, <1>3, SumExists
  <2>2. Is(h)
    <3>1. h = [s \in SUBSET K |-> h[s]]
      OBVIOUS
    <3>2. h = [s \in SUBSET K |-> SumStep(g, h, s)]
      BY <2>1, <3>1
    <3> QED BY <1>4, <3>2
  <2> QED BY <2>2, Zenon
<1> HIDE DEF G
<1>7. \A s \in SUBSET K : G[s] = SumStep(g, G, s)
  <2>1. G = [s \in SUBSET K |-> SumStep(g, G, s)]
    BY <1>4, <1>6
  <2> DEFINE f == [s \in SUBSET K |-> SumStep(g, G, s)]
  <2>2. \A s \in SUBSET K : f[s] = SumStep(g, G, s)
    OBVIOUS
  <2>3. G = f
    BY <2>1
  <2> HIDE DEF f
  <2> QED BY <2>2, <2>3
<1>8. G[K] \in Nat /\ g[x[2]] <= G[K]
  BY <1>1, <1>2, <1>3, <1>7, SumAtLeast
<1>9. g[x[2]] \in Nat /\ (e[x].dead > 0 => g[x[2]] > 0)
  <2>1. e[x].dead \in Nat /\ e[x].dead = e[<<m, x[2]>>].dead
    BY <1>1 DEF Entries
  <2> HIDE DEF m
  <2>2. g[x[2]] = e[<<m, x[2]>>].dead + (IF e[<<m, x[2]>>].inTable THEN 1 ELSE 0)
    BY <1>1 DEF g
  <2> QED BY <2>1, <2>2
<1>10. e[x].dead > 0 => SearchTable(e, m)
  BY <1>5, <1>8, <1>9 DEF SearchTable
<1> QED BY <1>10 DEF HitsDead


-----------------------------------------------------------------------------
(***************************************************************************)
(* Updates in order: every entry is there for a rule that was given, and a *)
(* rule with a higher priority than those is not above any of them, so     *)
(* that insert never meets a marker.                                       *)
(***************************************************************************)

LEMMA LinkDead ==
  ASSUME NEW c \in Seq(Masks), NEW e \in [Ids -> Entries], NEW i \in 1..Len(c), NEW x \in Ids
  PROVE  Link(c, e, i)[x].dead = e[x].dead
<1> DEFINE f == LeaveMarkers(c, e, i)
<1>1. f \in [Ids -> Entries] /\ f[x].dead = e[x].dead
  BY LeaveMarkersType, LeaveMarkersGrows
<1>2. CASE i < Len(c)
  <2>1. i + 1 \in 1..Len(c)
    BY <1>2
  <2> HIDE DEF f
  <2>2. LeaveMarkers(c, f, i + 1)[x].dead = f[x].dead
    BY <1>1, <2>1, LeaveMarkersGrows
  <2> QED BY <1>1, <1>2, <2>2 DEF Link, f
<1>3. CASE ~(i < Len(c))
  BY <1>1, <1>3 DEF Link
<1> QED BY <1>2, <1>3

LEMMA BuildChainDead ==
  ASSUME NEW c \in Seq(Masks), NEW e \in [Ids -> Entries], NEW x \in Ids
  PROVE  BuildChain(c, e) \in [Ids -> Entries] /\ BuildChain(c, e)[x].dead = e[x].dead
<1> DEFINE n == Len(c)
<1>1. PICK f \in [1..(n + 1) -> [Ids -> Entries]] :
           /\ f[n + 1] = e
           /\ \A j \in 1..n : f[j] = Link(SubSeq(c, j, n), f[j + 1], 1)
           /\ BuildChain(c, e) = f[1]
  BY BuildChainSteps
<1> DEFINE B == {j \in 1..(n + 1) : f[j][x].dead # e[x].dead}
<1>2. n \in Nat
  OBVIOUS
<1>3. ASSUME NEW j \in 1..n PROVE f[j][x].dead = f[j + 1][x].dead
  <2> DEFINE d == SubSeq(c, j, n)
             g == f[j + 1]
  <2>1. j + 1 \in 1..(n + 1) /\ j \in 1..(n + 1)
    BY <1>2
  <2>2. g \in [Ids -> Entries]
    BY <2>1
  <2>3. d \in Seq(Masks) /\ Len(d) = n - j + 1
    BY <2>1, Suffix
  <2>4. 1 \in 1..Len(d)
    BY <1>2, <2>3
  <2>5. f[j] = Link(d, g, 1)
    BY <1>1
  <2> HIDE DEF d, g
  <2>6. Link(d, g, 1)[x].dead = g[x].dead
    BY <2>2, <2>3, <2>4, LinkDead
  <2> QED BY <2>5, <2>6 DEF g
<1>4. B = {}
  <2> SUFFICES ASSUME B # {} PROVE FALSE
    OBVIOUS
  <2>1. PICK j \in B : \A l \in B : l <= j
    <3>1. B \in SUBSET (0..(n + 1)) /\ n + 1 \in Nat
      BY <1>2
    <3> HIDE DEF B
    <3> QED BY <3>1, GreatestNat
  <2>2. j # n + 1
    BY <1>1
  <2>3. j \in 1..n /\ j + 1 \in 1..(n + 1) /\ ~(j + 1 <= j)
    BY <1>2, <2>2
  <2>4. j + 1 \notin B
    <3> HIDE DEF B
    <3> QED BY <2>1, <2>3
  <2> QED BY <1>3, <2>3, <2>4
<1>5. 1 \in 1..(n + 1)
  BY <1>2
<1> HIDE DEF n
<1> QED BY <1>1, <1>4, <1>5

LEMMA BuildChainsDead ==
  ASSUME NEW cs \in Seq(Seq(Masks)), NEW e \in [Ids -> Entries], NEW x \in Ids
  PROVE  BuildChains(cs, e)[x].dead = e[x].dead
<1> DEFINE n == Len(cs)
<1>1. PICK f \in [1..(n + 1) -> [Ids -> Entries]] :
           /\ f[n + 1] = e
           /\ \A i \in 1..n : f[i] = BuildChain(cs[i], f[i + 1])
           /\ BuildChains(cs, e) = f[1]
  BY BuildChainsSteps
<1> DEFINE B == {j \in 1..(n + 1) : f[j][x].dead # e[x].dead}
<1>2. n \in Nat
  OBVIOUS
<1>3. ASSUME NEW j \in 1..n PROVE f[j][x].dead = f[j + 1][x].dead
  <2> DEFINE g == f[j + 1]
             c == cs[j]
  <2>1. j + 1 \in 1..(n + 1)
    BY <1>2
  <2>2. g \in [Ids -> Entries] /\ c \in Seq(Masks) /\ f[j] = BuildChain(c, g)
    <3>1. g \in [Ids -> Entries]
      BY <2>1
    <3>2. c \in Seq(Masks)
      OBVIOUS
    <3> QED BY <1>1, <3>1, <3>2
  <2> HIDE DEF g, c
  <2>3. BuildChain(c, g)[x].dead = g[x].dead
    BY <2>2, BuildChainDead
  <2> QED BY <2>2, <2>3 DEF g
<1>4. B = {}
  <2> SUFFICES ASSUME B # {} PROVE FALSE
    OBVIOUS
  <2>1. PICK j \in B : \A l \in B : l <= j
    <3>1. B \in SUBSET (0..(n + 1)) /\ n + 1 \in Nat
      BY <1>2
    <3> HIDE DEF B
    <3> QED BY <3>1, GreatestNat
  <2>2. j # n + 1
    BY <1>1
  <2>3. j \in 1..n /\ j + 1 \in 1..(n + 1) /\ ~(j + 1 <= j)
    BY <1>2, <2>2
  <2>4. j + 1 \notin B
    <3> HIDE DEF B
    <3> QED BY <2>1, <2>3
  <2> QED BY <1>3, <2>3, <2>4
<1>5. 1 \in 1..(n + 1)
  BY <1>2
<1> HIDE DEF n
<1> QED BY <1>1, <1>4, <1>5

LEMMA InsertAtDead ==
  ASSUME NEW c \in Seq(Masks), NEW e \in [Ids -> Entries], NEW i \in 1..Len(c),
         NEW r \in Rules, NEW y \in Ids
  PROVE  InsertAt(c, e, i, r)[y].dead = e[y].dead
<1>1. CASE e[<<r.mask, r.key>>].inTable
  <2>1. SetRule(c, e, i, r)[y].dead = e[y].dead
    BY SetRuleEntry
  <2> QED BY <1>1, <2>1 DEF InsertAt
<1>2. CASE ~e[<<r.mask, r.key>>].inTable
  <2> DEFINE g == NewEntry(e, r)
             K == {r.key}
  <2>1. g \in [Ids -> Entries]
    BY NewEntryType
  <2>2. g[y].dead = e[y].dead
    BY NewEntryEntry
  <2>3. K \in SUBSET SUBSET Bits
    BY RuleIdType
  <2> HIDE DEF g, K
  <2>4. InsertMarkers(c, g, i, K)[y].dead = g[y].dead
    BY <2>1, <2>3, InsertMarkersGrows
  <2> QED BY <1>2, <2>2, <2>4 DEF InsertAt, g, K
<1> QED BY <1>1, <1>2

\* Every listed entry of a good chain is there for a rule of S, at its level
\* or above, if what is installed or was erased is in S.
LEMMA ListedForRule ==
  ASSUME NEW c \in Seq(Masks), Nested(c), NEW e \in [Ids -> Entries],
         \A x \in Ids : Consistent(e, x), NEW P, Skips(c, e, P), NEW S \in SUBSET Rules,
         RulesIn(e) \subseteq S,
         \A x \in Ids : e[x].dead > 0 => \E s \in S : <<s.mask, s.key>> = x,
         NEW y \in Ids, On(c, y[1]), Listed(e[y])
  PROVE  \E s \in S : Cover(y[1], s.mask) /\ Key(y[1], s.key) = y[2]
<1> DEFINE n == Len(c)
           Has(j, k) == \E s \in S : Cover(c[j], s.mask) /\ Key(c[j], s.key) = k
           T == {j \in 1..n : \E k \in SUBSET c[j] : Listed(e[<<c[j], k>>]) /\ ~Has(j, k)}
<1>1. n \in Nat
  OBVIOUS
<1>2. T = {}
  <2> SUFFICES ASSUME T # {} PROVE FALSE
    OBVIOUS
  <2>1. PICK j \in T : \A l \in T : l <= j
    <3>1. T \in SUBSET (0..n)
      BY <1>1
    <3> HIDE DEF T, n
    <3> QED BY <1>1, <3>1, GreatestNat
  <2>2. j \in 1..n
    OBVIOUS
  <2>3. PICK k \in SUBSET c[j] : Listed(e[<<c[j], k>>]) /\ ~Has(j, k)
    OBVIOUS
  <2> DEFINE x == <<c[j], k>>
  <2>4. x \in Ids /\ k \in SUBSET Bits
    BY <2>2, KeyEntry
  <2>5. ASSUME NEW s \in S, <<s.mask, s.key>> = x PROVE FALSE
    <3>1. s.mask = c[j] /\ s.key = k
      BY <2>5
    <3>2. Cover(c[j], s.mask) /\ Key(c[j], s.key) = k
      BY <3>1 DEF Cover, Key
    <3> QED BY <2>3, <3>2
  <2>6. ~(e[x].dead > 0)
    <3> HIDE DEF x
    <3> QED BY <2>4, <2>5
  <2>7. RULE \notin e[x].bits
    <3> SUFFICES ASSUME RULE \in e[x].bits PROVE FALSE
      OBVIOUS
    <3>1. e[x].rule \in S /\ <<e[x].rule.mask, e[x].rule.key>> = x
      <4> HIDE DEF x
      <4> QED BY <2>4 DEF RulesIn, Consistent
    <3> HIDE DEF x
    <3> QED BY <2>5, <3>1
  <2>8. e[x].inTable /\ e[x].bits # {} /\ e[x].bits \in SUBSET {RULE, MARKER}
    <3>1. e[x] \in Entries /\ e[x].inTable
      BY <2>3, <2>4, <2>6 DEF Listed
    <3> HIDE DEF x
    <3> QED BY <2>4, <3>1 DEF Consistent, Entries
  <2>9. e[x].owners # {}
    <3>1. MARKER \in e[x].bits
      BY <2>7, <2>8
    <3> HIDE DEF x
    <3> QED BY <2>4, <3>1 DEF Consistent
  <2>10. PICK z \in e[x].owners : TRUE
    BY <2>9
  <2>11. /\ z \in Ids /\ Listed(e[z])
         /\ \E b \in (j + 1)..n : z[1] = c[b] /\ Id(c, j, z[2]) = <<c[j], k>>
    BY <2>2, <2>10 DEF Skips
  <2>12. PICK b \in (j + 1)..n : z[1] = c[b] /\ Id(c, j, z[2]) = <<c[j], k>>
    BY <2>11
  <2>13. b \in 1..n /\ j < b /\ ~(b <= j)
    BY <1>1, <2>2
  <2>14. b \notin T
    <3> HIDE DEF T
    <3> QED BY <2>1, <2>13
  <2>15. z = <<c[b], z[2]>> /\ z[2] \in SUBSET c[b]
    BY <2>11, <2>12, IdsBits
  <2>16. Has(b, z[2])
    <3>1. Listed(e[<<c[b], z[2]>>])
      BY <2>11, <2>15
    <3> HIDE DEF Has
    <3> QED BY <2>13, <2>14, <2>15, <3>1
  <2>17. PICK s \in S : Cover(c[b], s.mask) /\ Key(c[b], s.key) = z[2]
    BY <2>16
  <2>18. Cover(c[j], c[b])
    BY <2>2, <2>13 DEF Nested
  <2>19. Key(c[j], z[2]) = k
    BY <2>12 DEF Id
  <2>20. Cover(c[j], s.mask) /\ Key(c[j], s.key) = k
    BY <2>17, <2>18, <2>19 DEF Cover, Key
  <2> QED BY <2>3, <2>20
<1>3. PICK j \in 1..n : c[j] = y[1]
  BY DEF On
<1>4. y = <<c[j], y[2]>> /\ y[2] \in SUBSET c[j]
  BY <1>3, IdsBits
<1>5. Has(j, y[2])
  <2>1. Listed(e[<<c[j], y[2]>>])
    BY <1>4
  <2>2. j \notin T
    BY <1>2
  <2> HIDE DEF Has
  <2> QED BY <1>4, <2>1, <2>2
<1> QED BY <1>3, <1>5


\* Only an entry that had a rule is dead, no marker was promoted by updates
\* in order, and without a threshold there are always chains.
DeadHadRule == \A x \in Ids : ent[x].dead > 0 => \E s \in rules : <<s.mask, s.key>> = x
NonePromoted == InOrder => promoted = {}
AlwaysChains == (Threshold = 0 /\ pc # "new") => latched
InOrderInv == DeadHadRule /\ NonePromoted /\ AlwaysChains

LEMMA InitInOrder ==
  ASSUME Init
  PROVE  InOrderInv
<1>1. \A x \in Ids : ent[x].dead = 0
  BY DEF Init, Absent
<1> QED BY <1>1 DEF Init, InOrderInv, DeadHadRule, NonePromoted, AlwaysChains

\* No rule that follows all others meets an entry that was there for them.
LEMMA NothingToPromote ==
  ASSUME TSSInv, NEW r \in Rules, \A s \in rules : s.priority < r.priority,
         NEW c \in Seq(Masks), Nested(c), On(c, r.mask), NEW e \in [Ids -> Entries],
         \A x \in Ids : Consistent(e, x), Skips(c, e, promoted), RulesIn(e) \subseteq rules,
         \A x \in Ids : e[x].dead > 0 => \E s \in rules : <<s.mask, s.key>> = x
  PROVE  ~e[<<r.mask, r.key>>].inTable
<1> SUFFICES ASSUME e[<<r.mask, r.key>>].inTable PROVE FALSE
  OBVIOUS
<1> DEFINE x == <<r.mask, r.key>>
           P == promoted
           S == rules
<1>1. x \in Ids /\ x[1] = r.mask /\ x[2] = r.key /\ Listed(e[x]) /\ S \in SUBSET Rules
  BY RuleIdType DEF Listed, TSSInv, TypeOK
<1>2. On(c, x[1]) /\ Skips(c, e, P) /\ RulesIn(e) \subseteq S
      /\ \A y \in Ids : e[y].dead > 0 => \E s \in S : <<s.mask, s.key>> = y
  BY <1>1
<1> HIDE DEF x, P
<1>3. PICK s \in S : Cover(x[1], s.mask) /\ Key(x[1], s.key) = x[2]
  <2> HIDE DEF S
  <2> QED BY SMTT(30), <1>1, <1>2, ListedForRule
<1>4. s \in Rules /\ s.priority < r.priority /\ Cover(r.mask, s.mask) /\ Matches(r, s.key)
  BY <1>1, <1>3 DEF Matches
<1>5. s.priority \in Nat /\ r.priority \in Nat
  BY <1>4, RulesAssumption
<1>6. r # s
  BY <1>4, <1>5
<1>7. r.priority < s.priority
  BY <1>4, <1>6, NestedPriority DEF NestedIn
<1> QED BY <1>4, <1>5, <1>7

LEMMA NextInOrder ==
  ASSUME TSSInv, InOrderInv, [Next]_vars
  PROVE  InOrderInv'
<1>1. /\ ent \in [Ids -> Entries] /\ (\A x \in Ids : Consistent(ent, x))
      /\ chains \in Seq(Seq(Masks)) /\ (\A i \in 1..Len(chains) : Nested(chains[i])) /\ Separate(chains)
      /\ (\A m \in Masks : Good(ChainOf(chains, m), ent, promoted))
      /\ rules = Installed \cup gone /\ RulesIn(ent) = Installed
  BY Facts, InstalledIs DEF TSSInv, RulesKept
<1>2. (\A x \in Ids : ent[x].dead > 0 => \E s \in rules : <<s.mask, s.key>> = x)
      /\ NonePromoted /\ AlwaysChains
  BY DEF InOrderInv, DeadHadRule
<1>3. CASE Construct
  <2>1. /\ pc = "new" /\ chains = <<>> /\ promoted = {} /\ gone = {} /\ promoted' = promoted
        /\ ent = [x \in Ids |-> Absent]
    BY <1>3 DEF Construct, TSSInv, EmptyAtFirst, searchVars, history
  <2>2. PICK F \in (SUBSET Rules) \ {{}} :
          LET M    == {r.mask : r \in F}
              many == Cardinality(F) > Threshold
              e    == Filled(ent, F)
          IN  /\ tuples' = M /\ rules' = F /\ latched' = many
              /\ \E cs \in IF many THEN PathCovers(M) ELSE {<<>>} :
                   chains' = cs /\ ent' = BuildChains(cs, e)
    BY <1>3 DEF Construct
  <2> DEFINE e == Filled(ent, F)
  <2>3. PICK cs : chains' = cs /\ ent' = BuildChains(cs, e)
    BY <2>2
  <2>4. latched' = (Cardinality(F) > Threshold)
    BY <2>2
  <2>5. F \in SUBSET Rules /\ F # {}
    OBVIOUS
  <2>6. Cardinality(F) > 0
    <3>1. IsFiniteSet(F)
      BY <2>5, FiniteRules, FS_Subset
    <3>2. Cardinality(F) \in Nat /\ Cardinality(F) # 0
      BY <2>5, <3>1, FS_CardinalityType, FS_EmptySet
    <3> QED BY <3>2
  <2>7. e \in [Ids -> Entries] /\ \A x \in Ids : e[x].dead = 0
    <3>1. e \in [Ids -> Entries]
      BY <1>1, <2>5, FilledType
    <3>2. ASSUME NEW x \in Ids PROVE e[x].dead = 0
      <4>1. e[x].dead = 0 \/ e[x] = ent[x]
        BY <1>1, <2>5, FilledEntry
      <4>2. ent[x].dead = 0
        BY <2>1 DEF Absent
      <4> HIDE DEF e
      <4> QED BY <4>1, <4>2
    <3> QED BY <3>1, <3>2
  <2> HIDE DEF e
  <2>8. cs \in Seq(Seq(Masks))
    <3>1. TSSInv'
      BY <1>3, ConstructKeeps
    <3> QED BY <2>3, <3>1 DEF TSSInv, TypeOK
  <2>9. \A x \in Ids : BuildChains(cs, e)[x].dead = 0
    BY <2>7, <2>8, BuildChainsDead
  <2>10. DeadHadRule'
    BY <2>3, <2>9 DEF DeadHadRule
  <2>11. AlwaysChains'
    BY <2>4, <2>6 DEF AlwaysChains
  <2> QED BY <2>1, <2>10, <2>11 DEF InOrderInv, NonePromoted
<1>4. ASSUME NEW r \in Rules, InsertTuple(r) PROVE InOrderInv'
  <2> DEFINE m == r.mask
             t == WithTuple(chains, m)
             d == t.chain
             i == t.level
             f == Link(d, ent, i)
             x == <<r.mask, r.key>>
  <2>1. /\ pc = "idle" /\ MayInsert(r) /\ m \notin tuples
        /\ ent' = InsertAt(d, f, i, r)
        /\ promoted' = IF f[x].inTable THEN promoted \cup {x} ELSE promoted
        /\ rules' = rules \cup {r} /\ latched' = latched /\ pc' = pc
    BY <1>4 DEF InsertTuple
  <2>2. m \in Masks
    BY RuleIdType
  <2>6. /\ d \in Seq(Masks) /\ Nested(d) /\ i \in 1..Len(d) /\ d[i] = m
        /\ f \in [Ids -> Entries] /\ (\A y \in Ids : Consistent(f, y))
        /\ (\A y \in Ids : SameRule(ent, f, y))
        /\ (\A l \in Masks : ChainOf(t.all, l) = (IF On(d, l) THEN d ELSE ChainOf(chains, l)))
        /\ (\A l \in Masks : Good(ChainOf(t.all, l), f, promoted))
        /\ On(d, m)
    <3> HIDE DEF m
    <3> QED BY <2>1, <2>2, NewTupleJoins
  <2>7. \A y \in Ids : f[y].dead = ent[y].dead
    BY <1>1, <2>6, LinkDead
  <2>8. Skips(d, f, promoted)
    BY <2>2, <2>6 DEF Good
  <2> HIDE DEF t, d, i, f, x
  <2>9. RulesIn(f) \subseteq rules
    <3>1. \A y \in Ids : RULE \in f[y].bits => RULE \in ent[y].bits /\ f[y].rule = ent[y].rule
      BY <2>6 DEF SameRule
    <3>2. RulesIn(f) \subseteq RulesIn(ent)
      BY <3>1 DEF RulesIn
    <3> QED BY <1>1, <3>2
  <2>10. NonePromoted'
    <3> SUFFICES ASSUME InOrder PROVE promoted' = {}
      BY DEF NonePromoted
    <3>1. \A s \in rules : s.priority < r.priority
      BY <1>1, <2>1 DEF MayInsert
    <3>2. \A y \in Ids : f[y].dead > 0 => \E s \in rules : <<s.mask, s.key>> = y
      BY <1>2, <2>7
    <3>3. ~f[<<r.mask, r.key>>].inTable
      BY <2>6, <2>8, <2>9, <3>1, <3>2, NothingToPromote
    <3> QED BY <1>2, <2>1, <3>3 DEF NonePromoted, x
  <2>11. DeadHadRule'
    <3>1. \A y \in Ids : ent'[y].dead = f[y].dead
      BY <2>1, <2>6, InsertAtDead
    <3> QED BY <1>2, <2>1, <2>7, <3>1 DEF DeadHadRule
  <2> QED BY <1>2, <2>1, <2>10, <2>11 DEF InOrderInv, AlwaysChains
<1>5. ASSUME NEW r \in Rules, InsertRule(r) PROVE InOrderInv'
  <2> DEFINE c == ChainOf(chains, r.mask)
             i == Level(c, r.mask)
             x == <<r.mask, r.key>>
  <2>1. /\ pc = "idle" /\ MayInsert(r) /\ ~HoldsRule(ent, r)
        /\ ent' = InsertAt(c, ent, i, r)
        /\ promoted' = IF Pure(ent[x]) THEN promoted \cup {x} ELSE promoted
        /\ rules' = rules \cup {r} /\ latched' = latched /\ pc' = pc
    BY <1>5 DEF InsertRule
  <2>2. r.mask \in Masks
    BY RuleIdType
  <2>3. c \in Seq(Masks) /\ Nested(c) /\ i \in 1..Len(c) /\ On(c, r.mask)
    BY <2>2, Placed
  <2>4. Skips(c, ent, promoted) /\ RulesIn(ent) \subseteq rules
    BY <1>1, <2>2 DEF Good
  <2> HIDE DEF c, i, x
  <2>5. NonePromoted'
    <3> SUFFICES ASSUME InOrder PROVE promoted' = {}
      BY DEF NonePromoted
    <3>1. \A s \in rules : s.priority < r.priority
      BY <1>1, <2>1 DEF MayInsert
    <3>2. ~ent[<<r.mask, r.key>>].inTable
      BY <1>1, <1>2, <2>3, <2>4, <3>1, NothingToPromote
    <3>3. ~Pure(ent[x])
      BY <1>1, <2>1, <3>2, PureIfInTable DEF x
    <3> QED BY <1>2, <2>1, <3>3 DEF NonePromoted
  <2>6. DeadHadRule'
    <3>1. \A y \in Ids : ent'[y].dead = ent[y].dead
      BY <1>1, <2>1, <2>3, InsertAtDead
    <3> QED BY <1>2, <2>1, <3>1 DEF DeadHadRule
  <2> QED BY <1>2, <2>1, <2>5, <2>6 DEF InOrderInv, AlwaysChains
<1>6. ASSUME NEW r \in Rules, DeleteRule(r) PROVE InOrderInv'
  <2> DEFINE c == ChainOf(chains, r.mask)
             i == Level(c, r.mask)
             x == <<r.mask, r.key>>
  <2>1. /\ pc = "idle" /\ HoldsRule(ent, r)
        /\ ent' = EraseAt(c, ent, i, r)
        /\ promoted' = promoted \ {x}
        /\ rules' = rules /\ latched' = latched /\ pc' = pc
    BY <1>6 DEF DeleteRule
  <2>2. r.mask \in Masks
    BY RuleIdType
  <2>3. c \in Seq(Masks) /\ i \in 1..Len(c)
    BY <2>2, Placed
  <2> HIDE DEF c, i
  <2>4. r \in rules
    <3>1. r \in Installed
      BY <1>1, <2>1, RuleAtHome DEF HoldsRule
    <3> QED BY <1>1, <3>1
  <2>5. \A y \in Ids : y # <<r.mask, r.key>> => ent'[y].dead = ent[y].dead
    BY <1>1, <2>1, <2>3, EraseAtEntry
  <2>6. DeadHadRule'
    BY <1>2, <2>1, <2>4, <2>5 DEF DeadHadRule
  <2>7. NonePromoted'
    BY <1>2, <2>1 DEF NonePromoted
  <2> QED BY <1>2, <2>1, <2>6, <2>7 DEF InOrderInv, AlwaysChains
<1>7. ASSUME UNCHANGED <<tableVars, history>>, pc = "new" => pc' = "new" PROVE InOrderInv'
  BY <1>7 DEF InOrderInv, DeadHadRule, NonePromoted, AlwaysChains, tableVars, history
<1>8. ASSUME NEW p \in Packets, StartSearch(p) PROVE InOrderInv'
  BY <1>7, <1>8 DEF StartSearch
<1>9. CASE Search
  BY <1>7, <1>9 DEF Search, SearchList, SearchChain, EndSearch, Return
<1>10. CASE UNCHANGED vars
  BY <1>7, <1>10 DEF vars
<1> QED BY <1>3, <1>4, <1>5, <1>6, <1>8, <1>9, <1>10 DEF Next


-----------------------------------------------------------------------------
(***************************************************************************)
(* The classifier implements the linear list.                              *)
(***************************************************************************)

\* With updates in order and without a threshold nothing is in the way of an
\* answer.
LEMMA NothingInTheWay ==
  ASSUME InOrder, Threshold = 0, TSSInv, InOrderInv
  PROVE  ~PacketDead /\ ~PacketPromoted /\ (pc # "new" => latched)
<1>1. ent \in [Ids -> Entries]
  BY Facts
<1>2. ~PacketDead
  BY <1>1, NoneScanned DEF PacketDead
<1> QED BY <1>2 DEF PacketPromoted, InOrderInv, NonePromoted, AlwaysChains

LEMMA InitImplements ==
  ASSUME Init
  PROVE  Abstract!Init
<1>1. pc = "new" /\ pkt = {} /\ \A x \in Ids : ent[x].bits = {}
  BY DEF Init, Absent
<1>2. Installed = {}
  BY <1>1 DEF Installed
<1> QED BY <1>1, <1>2 DEF Abstract!Init

\* Every step of the chains is one of the list, or changes nothing of it.
LEMMA StepImplements ==
  ASSUME InOrder, Threshold = 0, TSSInv, InOrderInv,
         TSSInv', InOrderInv', AnswerExplained', [Next]_vars
  PROVE  [Abstract!Next]_(Abstract!vars)
<1>1. CASE Construct
  <2>1. pc = "new" /\ pc' = "idle" /\ pkt' = pkt
    BY <1>1 DEF Construct, searchVars
  <2>2. Installed' \in SUBSET Rules
    <3>1. ent' \in [Ids -> Entries] /\ \A x \in Ids : Consistent(ent', x)
      BY DEF TSSInv, TypeOK, EntriesGood
    <3> QED BY <3>1 DEF Installed, Consistent
  <2>3. Abstract!Construct
    BY <2>1, <2>2 DEF Abstract!Construct
  <2> QED BY <2>3 DEF Abstract!Next
<1>2. ASSUME NEW r \in Rules, InsertTuple(r) \/ InsertRule(r) PROVE Abstract!InsertRule(r)
  <2>1. pc = "idle" /\ pc' = "idle" /\ pkt' = pkt
    BY <1>2 DEF InsertTuple, InsertRule, searchVars
  <2>2. Installed' = Installed \cup {r}
    BY <1>2, InsertTupleKeeps, InsertRuleKeeps
  <2> QED BY <2>1, <2>2 DEF Abstract!InsertRule
<1>3. ASSUME NEW r \in Rules, DeleteRule(r) PROVE Abstract!DeleteRule(r)
  <2>1. pc = "idle" /\ pc' = "idle" /\ pkt' = pkt
    BY <1>3 DEF DeleteRule, searchVars
  <2>2. Installed' = Installed \ {r}
    BY <1>3, DeleteRuleKeeps
  <2> QED BY <2>1, <2>2 DEF Abstract!DeleteRule
<1>4. ASSUME UNCHANGED tableVars PROVE Installed' = Installed
  BY <1>4 DEF Installed, tableVars
<1>5. ASSUME NEW p \in Packets, StartSearch(p) PROVE Abstract!Ask(p)
  <2>1. pc = "idle" /\ pc' = "search" /\ pkt' = p /\ Installed' = Installed
    BY <1>4, <1>5 DEF StartSearch
  <2> QED BY <2>1 DEF Abstract!Ask
<1>6. CASE SearchList
  BY <1>6, NothingInTheWay DEF SearchList
<1>7. CASE SearchChain
  <2>1. pc = "search" /\ pc' = "search" /\ pkt' = pkt /\ Installed' = Installed
    BY <1>4, <1>7 DEF SearchChain
  <2> QED BY <2>1 DEF Abstract!vars
<1>8. CASE EndSearch
  <2>1. /\ pc = "search" /\ pc' = "done" /\ pkt' = pkt /\ latched /\ Installed' = Installed
        /\ ent' = ent /\ promoted' = promoted /\ latched' = latched
    BY <1>4, <1>8 DEF EndSearch, searchVars, tableVars, history
  <2>2. ~PacketDead' /\ ~PacketPromoted'
    <3>1. ~PacketDead /\ ~PacketPromoted
      BY NothingInTheWay
    <3> QED BY <2>1, <3>1 DEF PacketDead, PacketPromoted
  <2>3. best' = BestMatch(Installed, pkt)
    BY <2>1, <2>2 DEF AnswerExplained
  <2>4. Abstract!BestMatch(Installed, pkt) = BestMatch(Installed, pkt)
    BY DEF BestMatch, Abstract!BestMatch, Matches, Abstract!Matches, Key, Abstract!Key
  <2>5. Abstract!Answer
    BY <2>1, <2>3, <2>4 DEF Abstract!Answer
  <2> QED BY <2>5 DEF Abstract!Next
<1>9. CASE Return
  <2>1. pc = "done" /\ pc' = "idle" /\ pkt' = {} /\ Installed' = Installed
    BY <1>4, <1>9 DEF Return
  <2>2. Abstract!Return
    BY <2>1 DEF Abstract!Return
  <2> QED BY <2>2 DEF Abstract!Next
<1>10. CASE UNCHANGED vars
  <2>1. pc' = pc /\ pkt' = pkt /\ best' = best /\ Installed' = Installed
    BY <1>4, <1>10 DEF vars, searchVars
  <2> QED BY <2>1 DEF Abstract!vars
<1> QED BY <1>1, <1>2, <1>3, <1>5, <1>6, <1>7, <1>8, <1>9, <1>10
       DEF Next, Search, Abstract!Next, Packets, Abstract!Packets

\* With updates in the order of the update files and tuples that are hashed
\* from the first entry, CTSS gives the answers of the linear list: what it
\* does is what Classifier allows.  That every call returns as well is left to
\* the runs.
THEOREM ImplementsTheList ==
  ASSUME InOrder, Threshold = 0
  PROVE  Spec => Abstract!Init /\ [][Abstract!Next]_(Abstract!vars)
<1>1. Init => InOrderInv /\ Abstract!Init
  BY InitInOrder, InitImplements
<1>2. TSSInv /\ InOrderInv /\ [Next]_vars => InOrderInv'
  BY NextInOrder
<1>3. TSSInv /\ InOrderInv /\ TSSInv' /\ InOrderInv' /\ AnswerExplained' /\ [Next]_vars
        => [Abstract!Next]_(Abstract!vars)
  BY StepImplements
<1> QED BY <1>1, <1>2, <1>3, InvariantHolds, PTL DEF Spec

=============================================================================
