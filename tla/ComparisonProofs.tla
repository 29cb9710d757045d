--------------------------- MODULE ComparisonProofs ---------------------------
(***************************************************************************)
(* Proofs about Comparison.                                                *)
(***************************************************************************)
EXTENDS Comparison, NatExtrema, SequenceTheorems

-----------------------------------------------------------------------------
(***************************************************************************)
(* What every run keeps: the rules that are given, and the best match.     *)
(***************************************************************************)

\* What is known of every run, whichever classifier it has.
Given ==
  /\ setup \in Setups
  /\ updates \in Int
  /\ given \subseteq Rules /\ gone \subseteq Rules /\ lost \subseteq Rules
  /\ IsFiniteSet(given) /\ IsFiniteSet(gone)
  /\ updates = -1 => given = {} /\ gone = {} /\ lost = {}
  /\ given \cap gone = {} /\ lost \subseteq given \cup gone

\* The rules of a file are rules.
LEMMA SetupTypes ==
  ASSUME setup \in Setups
  PROVE  /\ setup.built \in Seq(Rules) /\ setup.fed \subseteq Rules
         /\ FileRules \subseteq Rules /\ IsFiniteSet(FileRules)
         /\ \A i \in 1..Len(setup.built) : setup.built[i] \in Rules
<1>1. setup.built \in Seq(Rules) /\ setup.fed \subseteq Rules
  BY SetupsAssumption
<1>2. \A i \in 1..Len(setup.built) : setup.built[i] \in Rules
  BY <1>1
<1>3. IsFiniteSet(FileRules)
  <2> DEFINE n == Len(setup.built)
             f == [i \in 1..n |-> setup.built[i]]
  <2>1. n \in Nat /\ IsFiniteSet(1..n)
    BY <1>1, FS_Interval
  <2>2. f \in Surjection(1..n, FileRules)
    BY DEF Surjection, FileRules
  <2> HIDE DEF f, n
  <2> QED BY <2>1, <2>2, FS_Surjection
<1> QED BY <1>1, <1>2, <1>3 DEF FileRules

LEMMA RuleTypes ==
  ASSUME NEW r \in Rules
  PROVE  /\ r.mask \in Masks /\ r.mask \subseteq Bits /\ r.key \subseteq r.mask
         /\ r.priority \in Nat /\ r.priority > 0 /\ r # NoRule
BY RulesAssumption, MasksAssumption, SetupsAssumption

LEMMA GivenInit == Init => Given
<1> SUFFICES ASSUME Init PROVE Given
  OBVIOUS
<1>1. IsFiniteSet({})
  BY FS_EmptySet
<1> QED BY <1>1 DEF Init, Given

LEMMA GivenNext == Given /\ [Next]_vars => Given'
<1> SUFFICES ASSUME Given, [Next]_vars PROVE Given'
  OBVIOUS
<1>1. CASE Construct
  <2>1. given' = FileRules /\ UNCHANGED <<setup, gone, lost>> /\ updates' = 0 /\ gone = {} /\ lost = {}
    BY <1>1 DEF Construct, Given
  <2> QED BY <2>1, SetupTypes DEF Given
<1>2. ASSUME NEW r \in Rules, Insert(r) PROVE Given'
  <2>1. /\ setup' = setup /\ gone' = gone /\ given' = given \cup {r}
        /\ updates \in Int /\ updates >= 0 /\ updates' = updates + 1
        /\ lost' \subseteq lost \cup {r} /\ r \notin gone /\ lost \subseteq given \cup gone
    BY <1>2 DEF Insert, Given
  <2>2. IsFiniteSet(given \cup {r})
    BY FS_AddElement DEF Given
  <2> QED BY <2>1, <2>2 DEF Given
<1>3. ASSUME NEW r \in Rules, Delete(r) PROVE Given'
  <2>1. /\ setup' = setup /\ gone' = gone \cup {r} /\ given' = given \ {r}
        /\ updates \in Int /\ updates >= 0 /\ updates' = updates + 1 /\ lost' = lost
    BY <1>3 DEF Delete, Given
  <2>2. IsFiniteSet(given \ {r}) /\ IsFiniteSet(gone \cup {r})
    BY FS_AddElement, FS_RemoveElement DEF Given
  <2> QED BY <2>1, <2>2 DEF Given
<1>4. CASE UNCHANGED vars
  BY <1>4 DEF vars, Given
<1> QED BY <1>1, <1>2, <1>3, <1>4 DEF Next

\* The best match is the one matching rule that no other beats.
LEMMA BestIs ==
  ASSUME NEW S \in SUBSET Rules, NEW p, NEW r \in S, Matches(r, p),
         \A q \in S : Matches(q, p) => q.priority <= r.priority
  PROVE  BestMatch(S, p) = r
<1> DEFINE hits == {q \in S : Matches(q, p)}
<1>1. r \in hits /\ \A s \in hits : s.priority <= r.priority
  OBVIOUS
<1>2. ASSUME NEW q \in hits, \A s \in hits : s.priority <= q.priority PROVE q = r
  <2>1. q \in Rules /\ r \in Rules /\ q.priority <= r.priority /\ r.priority <= q.priority
    BY <1>1, <1>2
  <2>2. q.priority \in Nat /\ r.priority \in Nat
    BY <2>1, RuleTypes
  <2>3. q.priority = r.priority
    BY <2>1, <2>2
  <2> QED BY <2>1, <2>3, SetupsAssumption
<1>3. (CHOOSE q \in hits : \A s \in hits : s.priority <= q.priority) = r
  <2> HIDE DEF hits
  <2> QED BY <1>1, <1>2
<1> QED BY <1>1, <1>3 DEF BestMatch

\* Without a matching rule there is none.
LEMMA NoBest ==
  ASSUME NEW S, NEW p, \A q \in S : ~Matches(q, p)
  PROVE  BestMatch(S, p) = NoRule
BY DEF BestMatch

\* Of matching rules, one is best.
LEMMA SomeBest ==
  ASSUME NEW S \in SUBSET Rules, NEW p, IsFiniteSet(S), NEW q \in S, Matches(q, p)
  PROVE  \E r \in S : Matches(r, p) /\ \A s \in S : Matches(s, p) => s.priority <= r.priority
<1> DEFINE hits     == {s \in S : Matches(s, p)}
           above(r) == {s \in hits : s.priority > r.priority}
           F        == {above(r) : r \in hits}
<1>1. F # {}
  OBVIOUS
<1>2. F \subseteq FiniteSubsetsOf(hits)
  <2>1. ASSUME NEW r \in hits PROVE above(r) \subseteq hits /\ IsFiniteSet(above(r))
    <3>1. above(r) \subseteq S
      OBVIOUS
    <3> HIDE DEF hits
    <3> QED BY <3>1, FS_Subset
  <2> HIDE DEF above, hits
  <2> QED BY <2>1 DEF FiniteSubsetsOf
<1>3. \E A \in F : \A B \in F : ~(B \subseteq A /\ B # A)
  <2> HIDE DEF F, hits
  <2> QED BY <1>1, <1>2, MinimalSet
<1>4. PICK r \in hits : \A s \in hits : ~(above(s) \subseteq above(r) /\ above(s) # above(r))
  <2> HIDE DEF above, hits
  <2> QED BY <1>3
<1>5. ASSUME NEW s \in hits PROVE s.priority <= r.priority
  <2>1. r.priority \in Nat /\ \A x \in hits : x.priority \in Nat
    BY RuleTypes
  <2>2. CASE s.priority > r.priority
    <3>1. s \in above(r) /\ s \notin above(s)
      BY <2>1, <2>2
    <3>2. above(s) \subseteq above(r)
      BY <2>1, <2>2
    <3> HIDE DEF above, hits
    <3> QED BY <1>4, <3>1, <3>2
  <2> HIDE DEF hits
  <2> QED BY <2>1, <2>2
<1> QED BY <1>5

\* The best match of a finite set of rules: none, or the best of them.
LEMMA BestCases ==
  ASSUME NEW S \in SUBSET Rules, NEW p, IsFiniteSet(S)
  PROVE  \/ BestMatch(S, p) = NoRule /\ \A q \in S : ~Matches(q, p)
         \/ /\ BestMatch(S, p) \in S /\ Matches(BestMatch(S, p), p)
            /\ \A q \in S : Matches(q, p) => q.priority <= BestMatch(S, p).priority
<1>1. CASE \A q \in S : ~Matches(q, p)
  BY <1>1, NoBest
<1>2. ASSUME NEW q \in S, Matches(q, p) PROVE BestMatch(S, p) \in S /\ Matches(BestMatch(S, p), p)
            /\ \A s \in S : Matches(s, p) => s.priority <= BestMatch(S, p).priority
  <2>1. PICK r \in S : Matches(r, p) /\ \A s \in S : Matches(s, p) => s.priority <= r.priority
    BY <1>2, SomeBest
  <2>2. BestMatch(S, p) = r
    BY <2>1, BestIs
  <2> QED BY <2>1, <2>2
<1> QED BY <1>1, <1>2

-----------------------------------------------------------------------------
(***************************************************************************)
(* Pruned tuple space search.                                              *)
(***************************************************************************)

OneEach(t) == \A i, j \in 1..Len(t) : t[i] = t[j] => i = j

Has(t, m) == \E i \in 1..Len(t) : t[i] = m

\* A tuple has one number.
LEMMA TupleIdIs ==
  ASSUME NEW t, OneEach(t), NEW i \in 1..Len(t)
  PROVE  Pruned!TupleId(t, t[i]) = i
<1>1. \A j \in 1..Len(t) : t[j] = t[i] <=> j = i
  BY DEF OneEach
<1> QED BY <1>1 DEF Pruned!TupleId

\* A new tuple comes behind the others.
LEMMA TuplesForIs ==
  ASSUME NEW t \in Seq(Masks), OneEach(t), NEW m \in Masks
  PROVE  LET u == Pruned!TuplesFor(t, m)
         IN  /\ u \in Seq(Masks) /\ OneEach(u) /\ Has(u, m)
             /\ \A i \in 1..Len(t) : i \in 1..Len(u) /\ u[i] = t[i]
<1> DEFINE u == Pruned!TuplesFor(t, m)
<1>1. CASE Has(t, m)
  <2>1. u = t
    BY <1>1 DEF Pruned!TuplesFor, Has
  <2> QED BY <1>1, <2>1
<1>2. CASE ~Has(t, m)
  <2>1. u = Append(t, m)
    BY <1>2 DEF Pruned!TuplesFor, Has
  <2>2. /\ Len(t) \in Nat /\ u \in Seq(Masks) /\ Len(u) = Len(t) + 1 /\ u[Len(t) + 1] = m
        /\ \A i \in 1..Len(t) : u[i] = t[i]
    BY <2>1
  <2>3. \A i \in 1..Len(t) : t[i] # m
    BY <1>2 DEF Has
  <2> HIDE DEF u
  <2>4. OneEach(u)
    <3> SUFFICES ASSUME NEW i \in 1..Len(u), NEW j \in 1..Len(u), u[i] = u[j] PROVE i = j
      BY DEF OneEach
    <3>1. (i \in 1..Len(t) \/ i = Len(t) + 1) /\ (j \in 1..Len(t) \/ j = Len(t) + 1)
      BY <2>2
    <3> QED BY <2>2, <2>3, <3>1 DEF OneEach
  <2>5. Len(t) + 1 \in 1..Len(u)
    BY <2>2
  <2>6. Has(u, m)
    BY <2>2, <2>5 DEF Has
  <2>7. \A i \in 1..Len(t) : i \in 1..Len(u)
    BY <2>2
  <2> QED BY <2>2, <2>4, <2>6, <2>7 DEF u
<1> QED BY <1>1, <1>2

\* The tables hold the rules, and every field has the prefix of a rule whose
\* tuple has a number that fits the bit maps.
PrunedFiled ==
  unit = "pruned" =>
  /\ prunedTable = given /\ maxTuples \in Nat
  /\ prunedTuples \in Seq(Masks) /\ OneEach(prunedTuples)
  /\ \A r \in given : Has(prunedTuples, r.mask)
  /\ \A r \in given \ Pruned!Overflowed : \A f \in {1, 2} :
       Pruned!PrefixOf(r, f, Pruned!TupleId(prunedTuples, r.mask)) \in prefixes[f]

\* The tuples of a construction: one for every mask.
LEMMA PrunedBuilt ==
  ASSUME Given, Pruned!Construct(setup.built)
  PROVE  /\ prunedTable' = FileRules /\ maxTuples' \in Nat
         /\ prunedTuples' \in Seq(Masks) /\ OneEach(prunedTuples')
         /\ \A r \in FileRules : Has(prunedTuples', r.mask)
         /\ \A r \in FileRules : \A f \in {1, 2} :
              Pruned!PrefixOf(r, f, Pruned!TupleId(prunedTuples', r.mask)) \in prefixes'[f]
<1> DEFINE order == setup.built
           n == Len(order)
           V == {t \in Seq(Masks) : OneEach(t)}
           step == [i \in 1..n |-> [t \in V |-> Pruned!TuplesFor(t, order[i].mask)]]
           tuples[i \in 0..n] == IF i = 0 THEN <<>> ELSE Pruned!TuplesFor(tuples[i - 1], order[i].mask)
<1>1. order \in Seq(Rules) /\ n \in Nat /\ \A i \in 1..n : order[i] \in Rules /\ order[i].mask \in Masks
  BY SetupTypes, RuleTypes DEF Given
<1>2. <<>> \in V
  BY DEF OneEach
<1>3. \A i \in 1..n : \A t \in V : Pruned!TuplesFor(t, order[i].mask) \in V
  BY <1>1, TuplesForIs
<1>4. \A i \in 1..n : \A t \in V : step[i][t] = Pruned!TuplesFor(t, order[i].mask)
  OBVIOUS
<1> HIDE DEF V, step, order
<1>5. /\ tuples = [i \in 0..n |-> IF i = 0 THEN <<>> ELSE Pruned!TuplesFor(tuples[i - 1], order[i].mask)]
      /\ \A i \in 0..n : tuples[i] \in V
  <2>1. PICK f : f \in Stepwise(n, V, <<>>, step)
    BY <1>1, <1>2, <1>3, <1>4, RecursionUpTo
  <2>2. f \in [0..n -> V] /\ f[0] = <<>> /\ \A i \in 1..n : f[i] = step[i][f[i - 1]]
    BY <2>1 DEF Stepwise
  <2>3. \A i \in 0..n : i # 0 => i \in 1..n /\ i - 1 \in 0..n
    BY <1>1
  <2>4. \A i \in 0..n : i # 0 => f[i] = Pruned!TuplesFor(f[i - 1], order[i].mask)
    BY <1>4, <2>2, <2>3
  <2>5. f = [i \in 0..n |-> IF i = 0 THEN <<>> ELSE Pruned!TuplesFor(f[i - 1], order[i].mask)]
    BY <2>2, <2>4
  <2>6. tuples = [i \in 0..n |-> IF i = 0 THEN <<>> ELSE Pruned!TuplesFor(tuples[i - 1], order[i].mask)]
    BY <2>5
  <2> HIDE DEF tuples
  <2> DEFINE T == {i \in 0..n : tuples[i] \in V}
  <2>7. 0 \in T
    BY <1>1, <1>2, <2>6
  <2>8. ASSUME NEW i \in 0..(n - 1), i \in T PROVE i + 1 \in T
    <3>1. i + 1 \in 0..n /\ i + 1 \in 1..n /\ i + 1 # 0 /\ (i + 1) - 1 = i
      BY <1>1
    <3>2. tuples[i + 1] = Pruned!TuplesFor(tuples[i], order[i + 1].mask)
      BY <2>6, <3>1
    <3> QED BY <1>3, <2>8, <3>1, <3>2
  <2>9. \A i \in 0..n : i \in T
    <3> HIDE DEF T
    <3> QED BY <1>1, <2>7, <2>8, UpTo
  <2> QED BY <2>6, <2>9
<1>6. /\ prunedTuples' = tuples[n]
      /\ prunedTable' = {order[i] : i \in 1..n}
      /\ prefixes' = [f \in {1, 2} |-> {Pruned!PrefixOf(r, f, Pruned!TupleId(tuples[n], r.mask)) :
                                          r \in {order[i] : i \in 1..n}}]
  BY DEF Pruned!Construct, order
<1>7. FileRules = {order[i] : i \in 1..n}
  BY DEF FileRules, order
<1> HIDE DEF tuples
<1> DEFINE T == {i \in 0..n : \A j \in 1..i : Has(tuples[i], order[j].mask)}
<1>8. 0 \in T
  BY <1>1
<1>9. ASSUME NEW i \in 0..(n - 1), i \in T PROVE i + 1 \in T
  <2>1. i + 1 \in 0..n /\ i + 1 \in 1..n /\ i + 1 # 0 /\ (i + 1) - 1 = i /\ i \in 0..n
    BY <1>1
  <2>2. tuples[i + 1] = Pruned!TuplesFor(tuples[i], order[i + 1].mask)
    BY <1>5, <2>1
  <2>3. tuples[i] \in Seq(Masks) /\ OneEach(tuples[i])
    BY <1>5, <2>1 DEF V
  <2>4. /\ Has(tuples[i + 1], order[i + 1].mask)
        /\ \A k \in 1..Len(tuples[i]) : k \in 1..Len(tuples[i + 1]) /\ tuples[i + 1][k] = tuples[i][k]
    BY <1>1, <2>1, <2>2, <2>3, TuplesForIs
  <2>5. ASSUME NEW j \in 1..(i + 1) PROVE Has(tuples[i + 1], order[j].mask)
    <3>1. CASE j = i + 1
      BY <2>4, <3>1
    <3>2. CASE j # i + 1
      <4>1. j \in 1..i
        BY <2>1, <3>2
      <4>2. Has(tuples[i], order[j].mask)
        BY <1>9, <4>1
      <4> QED BY <2>4, <4>2 DEF Has
    <3> QED BY <3>1, <3>2
  <2> QED BY <2>1, <2>5
<1>10. n \in T
  <2> HIDE DEF T
  <2>1. n \in 0..n
    BY <1>1
  <2> QED BY <1>1, <1>8, <1>9, <2>1, UpTo
<1>11. tuples[n] \in V
  BY <1>1, <1>5
<1>12. \A r \in FileRules : Has(tuples[n], r.mask)
  BY <1>7, <1>10
<1>13. maxTuples' = (11 * Len(tuples[n])) \div 10
  BY DEF Pruned!Construct, order, tuples
<1>14. maxTuples' \in Nat
  <2>1. Len(tuples[n]) \in Nat
    BY <1>11 DEF V
  <2>2. \A k \in Nat : (11 * k) \div 10 \in Nat
    OBVIOUS
  <2> QED BY <1>13, <2>1, <2>2
<1> QED BY <1>6, <1>7, <1>11, <1>12, <1>14 DEF V

LEMMA PrunedNext == Given /\ Given' /\ PrunedFiled /\ [Next]_vars => PrunedFiled'
<1> SUFFICES ASSUME Given, Given', PrunedFiled, [Next]_vars, unit' = "pruned" PROVE PrunedFiled'
  BY DEF PrunedFiled
<1>0. unit = "pruned"
  BY DEF Next, Construct, Insert, Delete, vars
<1>1. CASE Construct
  <2>1. Pruned!Construct(setup.built) /\ given' = FileRules
    BY <1>0, <1>1 DEF Construct
  <2> QED BY <2>1, PrunedBuilt DEF PrunedFiled
<1>2. ASSUME NEW r \in Rules, Insert(r) PROVE PrunedFiled'
  <2>1. Pruned!insertRule(r) /\ given' = given \cup {r}
    BY <1>0, <1>2 DEF Insert
  <2>2. prunedTuples \in Seq(Masks) /\ OneEach(prunedTuples) /\ r.mask \in Masks /\ prunedTable = given
    BY <1>0, RuleTypes DEF PrunedFiled
  <2>3. prunedTuples' = Pruned!TuplesFor(prunedTuples, r.mask) /\ prunedTable' = prunedTable \cup {r} /\ maxTuples' = maxTuples
    BY <2>1 DEF Pruned!insertRule
  <2>4. /\ prunedTuples' \in Seq(Masks) /\ OneEach(prunedTuples') /\ Has(prunedTuples', r.mask)
        /\ \A i \in 1..Len(prunedTuples) : i \in 1..Len(prunedTuples') /\ prunedTuples'[i] = prunedTuples[i]
    BY <2>2, <2>3, TuplesForIs
  <2>5. ASSUME NEW q \in given
        PROVE  Has(prunedTuples', q.mask) /\ Pruned!TupleId(prunedTuples', q.mask) = Pruned!TupleId(prunedTuples, q.mask)
    <3>1. PICK i \in 1..Len(prunedTuples) : prunedTuples[i] = q.mask
      BY <1>0 DEF PrunedFiled, Has
    <3>2. i \in 1..Len(prunedTuples') /\ prunedTuples'[i] = q.mask
      BY <2>4, <3>1
    <3>3. Pruned!TupleId(prunedTuples, q.mask) = i
      BY <2>2, <3>1, TupleIdIs
    <3>4. Pruned!TupleId(prunedTuples', q.mask) = i
      BY <2>4, <3>2, TupleIdIs
    <3> QED BY <3>2, <3>3, <3>4 DEF Has
  <2> DEFINE id == Pruned!TupleId(prunedTuples', r.mask)
  <2>6. PICK kept \in SUBSET {1, 2} :
          /\ id <= maxTuples => kept = {1, 2}
          /\ prefixes' = [f \in {1, 2} |-> IF f \in kept THEN prefixes[f] \cup {Pruned!PrefixOf(r, f, id)} ELSE prefixes[f]]
    BY <2>1 DEF Pruned!insertRule
  <2>7. ASSUME NEW q \in given' \ Pruned!Overflowed', NEW f \in {1, 2}
        PROVE  Pruned!PrefixOf(q, f, Pruned!TupleId(prunedTuples', q.mask)) \in prefixes'[f]
    <3>1. q \in given' /\ ~(Pruned!TupleId(prunedTuples', q.mask) > maxTuples)
      BY <2>1, <2>2, <2>3 DEF Pruned!Overflowed
    <3>2. CASE q \in given
      <4>1. q \notin Pruned!Overflowed
        BY <2>5, <3>1, <3>2 DEF Pruned!Overflowed
      <4>2. Pruned!PrefixOf(q, f, Pruned!TupleId(prunedTuples, q.mask)) \in prefixes[f]
        BY <1>0, <3>2, <4>1 DEF PrunedFiled
      <4> QED BY <2>5, <2>6, <3>2, <4>2
    <3>3. CASE q = r
      <4>1. ~(id > maxTuples)
        BY <3>1, <3>3
      <4>2. kept = {1, 2}
        <5>1. PICK i \in 1..Len(prunedTuples') : prunedTuples'[i] = r.mask
          BY <2>4 DEF Has
        <5>2. id = i
          BY <2>4, <5>1, TupleIdIs
        <5>3. id \in Int /\ maxTuples \in Int
          BY <1>0, <2>4, <5>1, <5>2 DEF PrunedFiled
        <5> QED BY <2>6, <4>1, <5>3
      <4> QED BY <2>6, <3>3, <4>2
    <3> QED BY <2>1, <3>1, <3>2, <3>3
  <2>8. prunedTable' = given' /\ maxTuples' \in Nat /\ \A q \in given' : Has(prunedTuples', q.mask)
    BY <1>0, <2>1, <2>2, <2>3, <2>4, <2>5 DEF PrunedFiled
  <2> QED BY <2>4, <2>7, <2>8 DEF PrunedFiled
<1>3. ASSUME NEW r \in Rules, Delete(r) PROVE PrunedFiled'
  <2>1. Pruned!deleteRule(r) /\ given' = given \ {r}
    BY <1>0, <1>3 DEF Delete
  <2>2. /\ prunedTable' = prunedTable \ {r} /\ prunedTuples' = prunedTuples
        /\ prefixes' = prefixes /\ maxTuples' = maxTuples
    BY <2>1 DEF Pruned!deleteRule
  <2>3. \A q \in given' \ Pruned!Overflowed' : q \in given \ Pruned!Overflowed
    BY <1>0, <2>1, <2>2 DEF Pruned!Overflowed, PrunedFiled
  <2> QED BY <1>0, <2>1, <2>2, <2>3 DEF PrunedFiled
<1>4. CASE UNCHANGED vars
  BY <1>4 DEF vars, prunedVars, PrunedFiled, Pruned!Overflowed
<1> QED BY <1>1, <1>2, <1>3, <1>4 DEF Next

\* In a state that keeps this, pruning loses no answer but those named.
LEMMA PrunedSearch == Given /\ PrunedFiled => PrunedAnswers
<1> SUFFICES ASSUME Given, PrunedFiled, unit = "pruned", NEW p \in Packets, BestMatch(given, p) \notin Pruned!Overflowed
             PROVE  Pruned!PrunedAnswer(p) = BestMatch(given, p)
  BY DEF PrunedAnswers
<1> DEFINE ids  == Pruned!MatchField(1, p) \cap Pruned!MatchField(2, p)
           hits == {r \in prunedTable : Matches(r, p) /\ \E i \in ids : prunedTuples[i] = r.mask}
           best == BestMatch(given, p)
<1>0. prunedTable = given /\ given \in SUBSET Rules /\ IsFiniteSet(given)
  BY DEF Given, PrunedFiled
<1>3. Pruned!PrunedAnswer(p) = IF hits = {} THEN NoRule
                               ELSE CHOOSE r \in hits : \A q \in hits : q.priority <= r.priority
  BY Zenon DEF Pruned!PrunedAnswer, Pruned!Matches, Pruned!Key, Matches, Key
<1>1. CASE best = NoRule /\ \A q \in given : ~Matches(q, p)
  BY <1>0, <1>1, <1>3
<1>2. CASE best \in given /\ Matches(best, p) /\ \A q \in given : Matches(q, p) => q.priority <= best.priority
  <2> DEFINE r == best
  <2>1. PICK i \in 1..Len(prunedTuples) : prunedTuples[i] = r.mask
    BY <1>2 DEF PrunedFiled, Has
  <2>2. Pruned!TupleId(prunedTuples, r.mask) = i
    BY <2>1, TupleIdIs DEF PrunedFiled
  <2>3. ASSUME NEW f \in {1, 2} PROVE i \in Pruned!MatchField(f, p)
    <3> DEFINE x == Pruned!PrefixOf(r, f, i)
    <3>1. x \in prefixes[f]
      BY <1>2, <2>2 DEF PrunedFiled
    <3>2. x.mask = r.mask \cap Pruned!FieldBits(f) /\ x.key = r.key \cap Pruned!FieldBits(f) /\ x.id = i
      BY DEF Pruned!PrefixOf
    <3>3. p \cap r.mask = r.key
      BY <1>2 DEF Matches, Key
    <3>4. Key(x.mask, p) = x.key
      BY <3>2, <3>3 DEF Key
    <3> HIDE DEF x
    <3>5. x \in {y \in prefixes[f] : Key(y.mask, p) = y.key}
      BY <3>1, <3>4
    <3> QED BY <3>2, <3>5 DEF Pruned!MatchField, Pruned!Key, Key
  <2>4. r \in hits /\ \A q \in hits : q.priority <= r.priority
    BY <1>0, <1>2, <2>1, <2>3
  <2>5. ASSUME NEW q \in hits, \A s \in hits : s.priority <= q.priority PROVE q = r
    <3>1. q \in Rules /\ r \in Rules /\ q.priority <= r.priority /\ r.priority <= q.priority
      BY <1>0, <2>4, <2>5
    <3>2. q.priority \in Nat /\ r.priority \in Nat
      BY <3>1, RuleTypes
    <3>3. q.priority = r.priority
      BY <3>1, <3>2
    <3> QED BY <3>1, <3>3, SetupsAssumption
  <2>6. (CHOOSE q \in hits : \A s \in hits : s.priority <= q.priority) = r
    <3> HIDE DEF hits, r
    <3> QED BY <2>4, <2>5
  <2>7. hits # {}
    BY <2>4
  <2> HIDE DEF hits
  <2> QED BY <1>3, <2>6, <2>7
<1> QED BY <1>0, <1>1, <1>2, BestCases

-----------------------------------------------------------------------------
(***************************************************************************)
(* Lists in order of priority.                                             *)
(***************************************************************************)

Falling(l) == \A i, j \in 1..Len(l) : i < j => l[i].priority >= l[j].priority

\* The least of a set of numbers.
LEMMA MinIs ==
  ASSUME NEW T \in SUBSET Nat, T # {}
  PROVE  Relax!Min(T) \in T /\ \A y \in T : Relax!Min(T) <= y
<1>1. PICK x \in T : \A y \in T : x <= y
  BY LeastNat
<1> QED BY <1>1 DEF Relax!Min

\* addRule keeps the order and the other rules.
LEMMA XListWithIs ==
  ASSUME NEW G \in SUBSET Rules, NEW l \in Seq(G), Falling(l), NEW r \in Rules
  PROVE  LET u == Relax!XListWith(l, r)
         IN  u \in Seq(G \cup {r}) /\ Falling(u) /\ \A q : Has(u, q) <=> Has(l, q) \/ q = r
<1> DEFINE n == Len(l)
           lower == {j \in 1..n : r.priority > l[j].priority}
           c == IF lower = {} THEN n ELSE Relax!Min(lower) - 1
           u == Relax!XListWith(l, r)
<1>1. n \in Nat /\ (\A j \in 1..n : l[j] \in G /\ l[j].priority \in Nat) /\ r.priority \in Nat
  BY RuleTypes
<1>3. u = SubSeq(l, 1, c) \o <<r>> \o SubSeq(l, c + 1, n)
  BY Zenon DEF Relax!XListWith
<1>2. c \in 0..n /\ \A j \in 1..n : l[j].priority >= r.priority <=> j <= c
  <2>1. CASE lower = {}
    BY <1>1, <2>1
  <2>2. CASE lower # {}
    <3> DEFINE x == Relax!Min(lower)
    <3>1. lower \in SUBSET Nat
      OBVIOUS
    <3>2. x \in lower /\ \A y \in lower : x <= y
      <4> HIDE DEF lower
      <4> QED BY <2>2, <3>1, MinIs
    <3>3. c = x - 1
      BY <2>2
    <3> HIDE DEF x, c
    <3>4. x \in 1..n /\ r.priority > l[x].priority
      BY <3>2
    <3>5. ASSUME NEW j \in 1..n PROVE l[j].priority >= r.priority <=> j <= c
      <4>1. CASE j < x
        <5>1. j \notin lower
          BY <3>2, <3>4, <4>1
        <5> QED BY <1>1, <3>3, <3>4, <4>1, <5>1
      <4>2. CASE x <= j
        <5>1. l[x].priority >= l[j].priority
          BY <1>1, <3>4, <4>2 DEF Falling
        <5> HIDE DEF lower
        <5> QED BY <1>1, <3>3, <3>4, <4>2, <5>1
      <4> QED BY <3>4, <4>1, <4>2
    <3> QED BY <3>3, <3>4, <3>5
  <2> QED BY <2>1, <2>2
<1>4. \A j \in 1..n : l[j].priority >= r.priority <=> j <= c
  BY <1>2
<1> HIDE DEF lower, c, u
<1>5. /\ u \in Seq(G \cup {r}) /\ Len(u) = n + 1
      /\ \A j \in 1..c : u[j] = l[j]
      /\ u[c + 1] = r
      /\ \A j \in (c + 2)..(n + 1) : u[j] = l[j - 1]
  <2> DEFINE a == SubSeq(l, 1, c)
             b == SubSeq(l, c + 1, n)
  <2>1. c \in Nat /\ c <= n
    BY <1>1, <1>2
  <2>2. a \in Seq(G) /\ Len(a) = c /\ \A j \in 1..c : a[j] = l[j]
    BY <1>1, <2>1
  <2>3. b \in Seq(G) /\ Len(b) = n - c /\ \A j \in 1..(n - c) : b[j] = l[c + j]
    BY <1>1, <2>1
  <2> HIDE DEF a, b
  <2>4. a \in Seq(G \cup {r}) /\ b \in Seq(G \cup {r}) /\ <<r>> \in Seq(G \cup {r})
    <3>1. G \subseteq G \cup {r}
      OBVIOUS
    <3> QED BY <2>2, <2>3, <3>1
  <2> DEFINE h == a \o <<r>>
  <2>5. h \in Seq(G \cup {r}) /\ Len(h) = c + 1 /\ (\A j \in 1..c : h[j] = l[j]) /\ h[c + 1] = r
    BY <2>1, <2>2, <2>4
  <2>6. u = h \o b
    BY <1>3 DEF a, b
  <2> HIDE DEF h
  <2>7. u \in Seq(G \cup {r}) /\ Len(u) = n + 1
    <3>1. h \o b \in Seq(G \cup {r}) /\ Len(h \o b) = Len(h) + Len(b)
      BY <2>4, <2>5, ConcatProperties
    <3> QED BY <1>1, <2>1, <2>3, <2>5, <2>6, <3>1
  <2>8. \A j \in 1..(c + 1) : u[j] = h[j]
    BY <1>1, <2>1, <2>3, <2>4, <2>5, <2>6
  <2>9. ASSUME NEW j \in (c + 2)..(n + 1) PROVE u[j] = l[j - 1]
    <3>1. j - (c + 1) \in 1..(n - c) /\ c + (j - (c + 1)) = j - 1 /\ j \in 1..(n + 1) /\ j > c + 1
      BY <1>1, <2>1
    <3>2. u[j] = b[j - (c + 1)]
      BY <1>1, <2>1, <2>3, <2>4, <2>5, <2>6, <3>1
    <3> QED BY <2>3, <3>1, <3>2
  <2>10. \A j \in 1..c : j \in 1..(c + 1)
    BY <2>1
  <2>11. c + 1 \in 1..(c + 1)
    BY <2>1
  <2> QED BY <2>5, <2>7, <2>8, <2>9, <2>10, <2>11
<1>6. Falling(u)
  <2> SUFFICES ASSUME NEW i \in 1..(n + 1), NEW j \in 1..(n + 1), i < j PROVE u[i].priority >= u[j].priority
    BY <1>5 DEF Falling
  <2>0. c \in Nat /\ n \in Nat /\ c <= n
    BY <1>1, <1>2
  <2>1. CASE j <= c
    <3>1. i \in 1..c /\ j \in 1..c /\ i \in 1..n /\ j \in 1..n
      BY <2>0, <2>1
    <3> QED BY <1>5, <3>1 DEF Falling
  <2>2. CASE j = c + 1
    <3>1. i \in 1..c /\ i \in 1..n /\ i <= c
      BY <2>0, <2>2
    <3> QED BY <1>4, <1>5, <2>2, <3>1
  <2>3. CASE j > c + 1 /\ i <= c
    <3>1. i \in 1..c /\ i \in 1..n /\ j - 1 \in 1..n /\ i < j - 1 /\ j \in (c + 2)..(n + 1)
      BY <2>0, <2>3
    <3> QED BY <1>5, <3>1 DEF Falling
  <2>4. CASE j > c + 1 /\ i = c + 1
    <3>1. j - 1 \in 1..n /\ ~(j - 1 <= c) /\ j \in (c + 2)..(n + 1)
      BY <2>0, <2>4
    <3>2. ~(l[j - 1].priority >= r.priority) /\ l[j - 1].priority \in Nat
      BY <1>1, <1>4, <3>1
    <3> QED BY <1>1, <1>5, <2>4, <3>1, <3>2
  <2>5. CASE i > c + 1
    <3>1. i - 1 \in 1..n /\ j - 1 \in 1..n /\ i - 1 < j - 1 /\ i \in (c + 2)..(n + 1) /\ j \in (c + 2)..(n + 1)
      BY <2>0, <2>5
    <3> QED BY <1>5, <3>1 DEF Falling
  <2>6. j <= c \/ j = c + 1 \/ (j > c + 1 /\ i <= c) \/ (j > c + 1 /\ i = c + 1) \/ i > c + 1
    BY <2>0
  <2> QED BY <2>1, <2>2, <2>3, <2>4, <2>5, <2>6
<1>7. ASSUME NEW q PROVE Has(u, q) <=> Has(l, q) \/ q = r
  <2>0. c \in Nat /\ n \in Nat /\ c <= n
    BY <1>1, <1>2
  <2>1. ASSUME NEW j \in 1..(n + 1), u[j] = q PROVE Has(l, q) \/ q = r
    <3>1. j \in 1..c \/ j = c + 1 \/ j \in (c + 2)..(n + 1)
      BY <2>0
    <3>2. j \in 1..c => j \in 1..n
      BY <2>0
    <3>3. j \in (c + 2)..(n + 1) => j - 1 \in 1..n
      BY <2>0
    <3> QED BY <1>5, <2>1, <3>1, <3>2, <3>3 DEF Has
  <2>2. ASSUME NEW j \in 1..n, l[j] = q PROVE Has(u, q)
    <3>1. CASE j <= c
      <4>1. j \in 1..c /\ j \in 1..(n + 1)
        BY <2>0, <3>1
      <4> QED BY <1>5, <2>2, <4>1 DEF Has
    <3>2. CASE j > c
      <4>1. j + 1 \in (c + 2)..(n + 1) /\ (j + 1) - 1 = j /\ j + 1 \in 1..(n + 1)
        BY <2>0, <3>2
      <4>2. u[j + 1] = q
        BY <1>5, <2>2, <4>1
      <4> QED BY <1>5, <4>1, <4>2 DEF Has
    <3> QED BY <2>0, <3>1, <3>2
  <2>3. Has(u, r)
    <3>1. c + 1 \in 1..(n + 1)
      BY <2>0
    <3> QED BY <1>5, <3>1 DEF Has
  <2> QED BY <1>5, <2>1, <2>2, <2>3 DEF Has
<1> QED BY <1>5, <1>6, <1>7 DEF u

\* RTuple::search finds the best of its list.
LEMMA FirstMatchIs ==
  ASSUME NEW ls, NEW m, NEW p, NEW G \in SUBSET Rules,
         ls[<<m, Key(m, p)>>] \in Seq(G), Falling(ls[<<m, Key(m, p)>>])
  PROVE  LET l == ls[<<m, Key(m, p)>>]
             a == Relax!FirstMatch(ls, m, p)
         IN  \/ a = NoRule /\ \A q : Has(l, q) => ~Matches(q, p)
             \/ /\ a \in G /\ Matches(a, p)
                /\ \A q : Has(l, q) /\ Matches(q, p) => q.priority <= a.priority
<1> DEFINE l    == ls[<<m, Key(m, p)>>]
           hits == {i \in 1..Len(l) : Matches(l[i], p)}
           a    == Relax!FirstMatch(ls, m, p)
<1>1. Relax!Key(m, p) = Key(m, p) /\ \A r : Relax!Matches(r, p) = Matches(r, p)
  BY DEF Relax!Key, Key, Relax!Matches, Matches
<1>2. a = IF hits = {} THEN NoRule ELSE l[Relax!Min(hits)]
  BY <1>1, Zenon DEF Relax!FirstMatch
<1>3. \A i \in 1..Len(l) : l[i] \in G /\ l[i].priority \in Nat
  BY RuleTypes
<1>4. CASE hits = {}
  BY <1>2, <1>4 DEF Has
<1>5. CASE hits # {}
  <2>1. hits \in SUBSET Nat
    OBVIOUS
  <2> DEFINE x == Relax!Min(hits)
  <2>2. x \in hits /\ \A y \in hits : x <= y
    <3> HIDE DEF hits
    <3> QED BY <1>5, <2>1, MinIs
  <2> HIDE DEF x
  <2>3. Relax!Min(hits) = x
    BY DEF x
  <2>4. a = l[x] /\ x \in 1..Len(l) /\ Matches(l[x], p)
    <3> HIDE DEF a
    <3> QED BY <1>2, <1>5, <2>2, <2>3
  <2>5. ASSUME NEW q, Has(l, q), Matches(q, p) PROVE q.priority <= a.priority
    <3>1. PICK y \in 1..Len(l) : l[y] = q
      BY <2>5 DEF Has
    <3>2. y \in hits
      BY <2>5, <3>1
    <3>3. x = y \/ x < y
      BY <2>2, <2>4, <3>1, <3>2
    <3> HIDE DEF l, a, hits
    <3>4. l[x].priority \in Nat /\ l[y].priority \in Nat
      BY <1>3, <2>4
    <3>5. l[y].priority <= l[x].priority
      BY <2>4, <3>3, <3>4 DEF Falling, l
    <3> QED BY <2>4, <3>1, <3>5
  <2>6. a \in G
    BY <1>3, <2>4
  <2> QED BY <2>4, <2>5, <2>6, Zenon
<1> QED BY <1>4, <1>5

-----------------------------------------------------------------------------
(***************************************************************************)
(* Relaxed tuples: every rule is in the list of some tuple that covers it. *)
(***************************************************************************)

\* The list of a tuple for a packet, or for a rule by its key.
ListFor(ls, m, k) == ls[<<m, Key(m, k)>>]

\* The lists hold rules of G, each list in order and of rules that its mask
\* covers, the maximum of a tuple bounds them, and every rule of G is in the
\* list of a tuple that a search looks into.
ListsHold(M, tuples, ls, max, G) ==
  /\ tuples \in Seq(M)
  /\ ls \in [Relax!ListIds(M) -> Seq(G)]
  /\ max \in [M -> Nat]
  /\ \A x \in Relax!ListIds(M) :
       /\ Falling(ls[x])
       /\ \A q : Has(ls[x], q) => x[1] \subseteq q.mask /\ q.priority <= max[x[1]]
  /\ \A q \in G : \E i \in 1..Len(tuples) :
       tuples[i] \subseteq q.mask /\ Has(ListFor(ls, tuples[i], q.key), q)

\* A key of a mask names a list.
LEMMA ListIdIs ==
  ASSUME NEW M \in SUBSET SUBSET Bits, NEW m \in M, NEW k
  PROVE  <<m, Key(m, k)>> \in Relax!ListIds(M)
<1>1. m \in SUBSET Bits /\ Key(m, k) \subseteq m
  BY DEF Key
<1> QED BY <1>1 DEF Relax!ListIds

\* A rule that goes into lists of tuples that cover it, one of them there.
LEMMA PutListed ==
  ASSUME NEW M \in SUBSET SUBSET Bits, NEW G \in SUBSET Rules, NEW r \in Rules,
         NEW tuples, NEW ls, NEW max, ListsHold(M, tuples, ls, max, G),
         NEW into \in SUBSET M, \A m \in into : m \subseteq r.mask,
         NEW tuples2 \in Seq(M),
         \A i \in 1..Len(tuples) : i \in 1..Len(tuples2) /\ tuples2[i] = tuples[i],
         \E i \in 1..Len(tuples2) : tuples2[i] \in into,
         NEW ls2, ls2 = [x \in Relax!ListIds(M) |->
                           IF x[1] \in into /\ x[2] = Key(x[1], r.key) THEN Relax!XListWith(ls[x], r) ELSE ls[x]],
         NEW max2, max2 = [m \in M |-> IF m \in into /\ r.priority > max[m] THEN r.priority ELSE max[m]]
  PROVE  ListsHold(M, tuples2, ls2, max2, G \cup {r})
<1>1. /\ tuples \in Seq(M) /\ ls \in [Relax!ListIds(M) -> Seq(G)] /\ max \in [M -> Nat]
      /\ \A x \in Relax!ListIds(M) :
           /\ Falling(ls[x])
           /\ \A q : Has(ls[x], q) => x[1] \subseteq q.mask /\ q.priority <= max[x[1]]
      /\ \A q \in G : \E i \in 1..Len(tuples) :
           tuples[i] \subseteq q.mask /\ Has(ListFor(ls, tuples[i], q.key), q)
  BY DEF ListsHold
<1> DEFINE H == G \cup {r}
<1>2. r.priority \in Nat
  BY RuleTypes
<1>3. ASSUME NEW x \in Relax!ListIds(M)
      PROVE  /\ x[1] \in M /\ ls2[x] \in Seq(H) /\ Falling(ls2[x])
             /\ \A q : Has(ls2[x], q) => Has(ls[x], q) \/ (q = r /\ x[1] \in into)
             /\ \A q : Has(ls[x], q) => Has(ls2[x], q)
             /\ x[1] \in into /\ x[2] = Key(x[1], r.key) => Has(ls2[x], r)
  <2>1. x[1] \in M
    BY DEF Relax!ListIds
  <2>2. ls[x] \in Seq(G) /\ Falling(ls[x])
    BY <1>1
  <2>3. CASE x[1] \in into /\ x[2] = Key(x[1], r.key)
    <3>1. ls2[x] = Relax!XListWith(ls[x], r)
      BY <2>3
    <3> DEFINE u == Relax!XListWith(ls[x], r)
    <3>2. u \in Seq(G \cup {r}) /\ Falling(u) /\ \A q : Has(u, q) <=> Has(ls[x], q) \/ q = r
      BY <2>2, XListWithIs
    <3> HIDE DEF u
    <3> QED BY <2>1, <2>3, <3>1, <3>2 DEF u
  <2>4. CASE ~(x[1] \in into /\ x[2] = Key(x[1], r.key))
    <3>1. ls2[x] = ls[x]
      BY <2>4
    <3>2. ls[x] \in Seq(H)
      <4>1. G \subseteq H
        OBVIOUS
      <4> HIDE DEF H
      <4> QED BY <2>2, <4>1
    <3> QED BY <2>1, <2>2, <2>4, <3>1, <3>2
  <2> QED BY <2>3, <2>4
<1>4. ASSUME NEW m \in M PROVE max2[m] \in Nat /\ max[m] <= max2[m] /\ (m \in into => r.priority <= max2[m])
  <2>1. max[m] \in Nat /\ max2[m] = IF m \in into /\ r.priority > max[m] THEN r.priority ELSE max[m]
    BY <1>1
  <2> QED BY <1>2, <2>1
<1>5. ls2 \in [Relax!ListIds(M) -> Seq(H)] /\ max2 \in [M -> Nat]
  BY <1>3, <1>4
<1>6. ASSUME NEW x \in Relax!ListIds(M), NEW q, Has(ls2[x], q)
      PROVE  x[1] \subseteq q.mask /\ q.priority <= max2[x[1]]
  <2>1. x[1] \in M /\ (Has(ls[x], q) \/ (q = r /\ x[1] \in into))
    <3>1. x[1] \in M /\ \A y : Has(ls2[x], y) => Has(ls[x], y) \/ (y = r /\ x[1] \in into)
      BY <1>3
    <3> HIDE DEF H
    <3> QED BY <1>6, <3>1
  <2>2. CASE q = r /\ x[1] \in into
    BY <1>4, <2>1, <2>2
  <2>3. CASE Has(ls[x], q)
    <3>1. x[1] \subseteq q.mask /\ q.priority <= max[x[1]]
      BY <1>1, <2>3
    <3>2. PICK i \in 1..Len(ls[x]) : ls[x][i] = q
      BY <2>3 DEF Has
    <3>3. q \in G
      <4>1. ls[x] \in Seq(G)
        BY <1>1
      <4> QED BY <3>2, <4>1
    <3>4. q.priority \in Nat /\ max[x[1]] \in Nat /\ max2[x[1]] \in Nat
      BY <1>1, <1>4, <2>1, <3>3, RuleTypes
    <3>5. max[x[1]] <= max2[x[1]]
      BY <1>4, <2>1
    <3> QED BY <3>1, <3>4, <3>5
  <2> QED BY <2>1, <2>2, <2>3
<1>7. ASSUME NEW q \in H
      PROVE  \E i \in 1..Len(tuples2) : tuples2[i] \subseteq q.mask /\ Has(ListFor(ls2, tuples2[i], q.key), q)
  <2>1. CASE q \in G
    <3>1. PICK i \in 1..Len(tuples) : tuples[i] \subseteq q.mask /\ Has(ListFor(ls, tuples[i], q.key), q)
      BY <1>1, <2>1
    <3>2. i \in 1..Len(tuples2) /\ tuples2[i] = tuples[i] /\ tuples[i] \in M
      BY <1>1
    <3>3. <<tuples[i], Key(tuples[i], q.key)>> \in Relax!ListIds(M)
      BY <3>2, ListIdIs
    <3> QED BY <1>3, <3>1, <3>2, <3>3 DEF ListFor
  <2>2. CASE q = r
    <3>1. PICK i \in 1..Len(tuples2) : tuples2[i] \in into
      OBVIOUS
    <3> DEFINE x == <<tuples2[i], Key(tuples2[i], r.key)>>
    <3>2. x \in Relax!ListIds(M)
      BY <3>1, ListIdIs
    <3>3. x[1] \in into /\ x[2] = Key(x[1], r.key) /\ x[1] = tuples2[i]
      BY <3>1
    <3> HIDE DEF x
    <3>4. Has(ls2[x], r)
      BY <1>3, <3>2, <3>3
    <3> QED BY <2>2, <3>1, <3>3, <3>4 DEF ListFor, x
  <2> QED BY <2>1, <2>2
<1>8. \A x \in Relax!ListIds(M) : Falling(ls2[x])
  BY <1>3
<1> HIDE DEF H
<1>9. ListsHold(M, tuples2, ls2, max2, H)
  BY <1>5, <1>6, <1>7, <1>8 DEF ListsHold
<1> QED BY <1>9 DEF H

\* RTuple::insert into one tuple.
LEMMA PutRuleListed ==
  ASSUME NEW M \in SUBSET SUBSET Bits, NEW G \in SUBSET Rules, NEW r \in Rules,
         NEW tuples, NEW ls, NEW max, ListsHold(M, tuples, ls, max, G),
         NEW m \in M, m \subseteq r.mask,
         NEW tuples2 \in Seq(M),
         \A i \in 1..Len(tuples) : i \in 1..Len(tuples2) /\ tuples2[i] = tuples[i],
         Has(tuples2, m)
  PROVE  ListsHold(M, tuples2, Relax!PutRule(ls, m, r), Relax!RaiseMax(max, m, r), G \cup {r})
<1> DEFINE ls2 == [x \in Relax!ListIds(M) |->
                     IF x[1] \in {m} /\ x[2] = Key(x[1], r.key) THEN Relax!XListWith(ls[x], r) ELSE ls[x]]
           max2 == [n \in M |-> IF n \in {m} /\ r.priority > max[n] THEN r.priority ELSE max[n]]
<1>1. ls \in [Relax!ListIds(M) -> Seq(G)] /\ max \in [M -> Nat]
  BY DEF ListsHold
<1>2. Relax!PutRule(ls, m, r) = ls2
  <2> DEFINE y == <<m, Key(m, r.key)>>
  <2>1. Relax!PutRule(ls, m, r) = [ls EXCEPT ![y] = Relax!XListWith(ls[y], r)]
    BY DEF Relax!PutRule, Relax!Key, Key
  <2>2. ASSUME NEW x \in Relax!ListIds(M) PROVE (x = y) <=> (x[1] \in {m} /\ x[2] = Key(x[1], r.key))
    <3>1. x = <<x[1], x[2]>>
      BY DEF Relax!ListIds
    <3> QED BY <3>1
  <2>3. y \in Relax!ListIds(M)
    BY ListIdIs
  <2> HIDE DEF y
  <2>4. [ls EXCEPT ![y] = Relax!XListWith(ls[y], r)]
        = [x \in Relax!ListIds(M) |-> IF x = y THEN Relax!XListWith(ls[x], r) ELSE ls[x]]
    BY <1>1, <2>3
  <2> QED BY <2>1, <2>2, <2>4
<1>3. Relax!RaiseMax(max, m, r) = max2
  BY <1>1 DEF Relax!RaiseMax
<1>4. \E i \in 1..Len(tuples2) : tuples2[i] \in {m}
  BY DEF Has
<1>5. ListsHold(M, tuples2, ls2, max2, G \cup {r})
  <2> DEFINE into == {m}
  <2>1. into \in SUBSET M /\ \A k \in into : k \subseteq r.mask
    OBVIOUS
  <2>2. /\ ls2 = [x \in Relax!ListIds(M) |->
                   IF x[1] \in into /\ x[2] = Key(x[1], r.key) THEN Relax!XListWith(ls[x], r) ELSE ls[x]]
        /\ max2 = [k \in M |-> IF k \in into /\ r.priority > max[k] THEN r.priority ELSE max[k]]
    OBVIOUS
  <2>3. \E i \in 1..Len(tuples2) : tuples2[i] \in into
    BY <1>4
  <2> HIDE DEF ls2, max2, into
  <2> QED BY <2>1, <2>2, <2>3, PutListed
<1> HIDE DEF ls2, max2
<1> QED BY <1>2, <1>3, <1>5

\* matchPacket answers with the best match of all that is listed.
LEMMA RelaxedAnswerIs ==
  ASSUME NEW M \in SUBSET SUBSET Bits, NEW G \in SUBSET Rules,
         NEW tuples, NEW ls, NEW max, ListsHold(M, tuples, ls, max, G), NEW p
  PROVE  Relax!RelaxedAnswer(tuples, ls, max, p) = BestMatch(G, p)
<1> DEFINE n == Len(tuples)
           V == G \cup {NoRule}
           Next1(i, a) == IF max[tuples[i]] <= IF a = NoRule THEN -1 ELSE a.priority THEN a
                          ELSE Relax!Better(a, Relax!FirstMatch(ls, tuples[i], p))
           step == [i \in 1..n |-> [a \in V |-> Next1(i, a)]]
           after[i \in 0..n] ==
             IF i = 0 THEN NoRule
             ELSE IF max[tuples[i]] <= IF after[i - 1] = NoRule THEN -1 ELSE after[i - 1].priority
             THEN after[i - 1]
             ELSE Relax!Better(after[i - 1], Relax!FirstMatch(ls, tuples[i], p))
           Beaten(i, a) == \A q : Has(ListFor(ls, tuples[i], p), q) /\ Matches(q, p) =>
                                    a # NoRule /\ q.priority <= a.priority
<1>1. /\ tuples \in Seq(M) /\ n \in Nat /\ ls \in [Relax!ListIds(M) -> Seq(G)] /\ max \in [M -> Nat]
      /\ \A x \in Relax!ListIds(M) :
           /\ Falling(ls[x])
           /\ \A q : Has(ls[x], q) => x[1] \subseteq q.mask /\ q.priority <= max[x[1]]
      /\ \A q \in G : \E i \in 1..Len(tuples) :
           tuples[i] \subseteq q.mask /\ Has(ListFor(ls, tuples[i], q.key), q)
  <2>1. tuples \in Seq(M)
    BY DEF ListsHold
  <2>2. Len(tuples) \in Nat
    BY <2>1
  <2> QED BY <2>1, <2>2, Zenon DEF ListsHold
<1>2. ASSUME NEW i \in 1..n, NEW a \in V, a # NoRule => Matches(a, p)
      PROVE  LET b == Next1(i, a)
             IN  /\ b \in V /\ (b # NoRule => Matches(b, p)) /\ Beaten(i, b)
                 /\ a # NoRule => b # NoRule /\ a.priority <= b.priority
  <2> DEFINE m == tuples[i]
             f == Relax!FirstMatch(ls, m, p)
             b == Next1(i, a)
             l == ls[<<m, Key(m, p)>>]
  <2>1. m \in M /\ <<m, Key(m, p)>> \in Relax!ListIds(M) /\ <<m, Key(m, p)>>[1] = m
    BY <1>1, ListIdIs
  <2>2. l \in Seq(G) /\ Falling(l) /\ \A q : Has(l, q) => q \in G /\ q.priority <= max[m]
    <3> DEFINE x == <<m, Key(m, p)>>
    <3>1. x \in Relax!ListIds(M) /\ x[1] = m
      BY <2>1
    <3> HIDE DEF x
    <3>2. ls[x] \in Seq(G) /\ Falling(ls[x]) /\ \A q : Has(ls[x], q) => q.priority <= max[m]
      BY <1>1, <3>1
    <3>3. \A q : Has(ls[x], q) => q \in G
      BY <3>2 DEF Has
    <3> QED BY <3>2, <3>3 DEF x
  <2>3. \/ f = NoRule /\ \A q : Has(l, q) => ~Matches(q, p)
        \/ f \in G /\ Matches(f, p) /\ \A q : Has(l, q) /\ Matches(q, p) => q.priority <= f.priority
    BY <2>2, FirstMatchIs
  <2>4. max[m] \in Nat /\ (\A q \in G : q.priority \in Nat /\ q # NoRule) /\ (a # NoRule => a \in G)
    BY <1>1, <2>1, RuleTypes
  <2>5. b = IF max[m] <= IF a = NoRule THEN -1 ELSE a.priority THEN a ELSE Relax!Better(a, f)
    OBVIOUS
  <2>6. Beaten(i, b) <=> \A q : Has(l, q) /\ Matches(q, p) => b # NoRule /\ q.priority <= b.priority
    BY DEF ListFor
  <2> HIDE DEF b, f, l, m, Beaten
  <2>7. CASE max[m] <= IF a = NoRule THEN -1 ELSE a.priority
    <3>1. b = a /\ a # NoRule /\ max[m] <= a.priority
      BY <2>4, <2>5, <2>7
    <3>2. a \in G /\ a.priority \in Nat
      BY <2>4, <3>1
    <3>3. \A q : Has(l, q) => q.priority <= a.priority
      BY <2>2, <2>4, <3>1, <3>2
    <3> QED BY <1>2, <2>6, <3>1, <3>2, <3>3 DEF b
  <2>8. CASE ~(max[m] <= IF a = NoRule THEN -1 ELSE a.priority)
    <3>1. b = IF f # NoRule /\ (a = NoRule \/ a.priority < f.priority) THEN f ELSE a
      BY <2>5, <2>8 DEF Relax!Better
    <3>2. CASE f = NoRule
      <4>1. b = a /\ \A q : Has(l, q) => ~Matches(q, p)
        BY <2>3, <2>4, <3>1, <3>2
      <4>2. a # NoRule => a.priority <= a.priority
        BY <2>4
      <4> QED BY <1>2, <2>6, <4>1, <4>2 DEF b
    <3>3. CASE f # NoRule
      <4>1. f \in G /\ Matches(f, p) /\ \A q : Has(l, q) /\ Matches(q, p) => q.priority <= f.priority
        BY <2>3, <3>3
      <4>2. CASE a = NoRule \/ a.priority < f.priority
        <5>1. b = f
          BY <3>1, <3>3, <4>2
        <5>2. a # NoRule => a.priority <= f.priority
          BY <2>4, <4>1, <4>2
        <5> QED BY <2>6, <3>3, <4>1, <5>1, <5>2 DEF b
      <4>3. CASE a # NoRule /\ ~(a.priority < f.priority)
        <5>1. b = a
          BY <3>1, <4>3
        <5>2. f.priority <= a.priority /\ a.priority \in Nat /\ f.priority \in Nat
          BY <2>4, <4>1, <4>3
        <5>3. \A q : Has(l, q) /\ Matches(q, p) => q.priority <= a.priority
          BY <2>2, <2>4, <4>1, <5>2
        <5> QED BY <1>2, <2>6, <4>3, <5>1, <5>2, <5>3 DEF b
      <4> QED BY <4>2, <4>3
    <3> QED BY <3>2, <3>3
  <2> QED BY <2>7, <2>8
<1>3. \A i \in 1..n : \A a \in V : Next1(i, a) = step[i][a]
  OBVIOUS
<1> HIDE DEF step
<1> DEFINE W == {a \in V : a # NoRule => Matches(a, p)}
<1>4. NoRule \in W /\ \A i \in 1..n : \A a \in W : Next1(i, a) \in W
  <2>1. ASSUME NEW i \in 1..n, NEW a \in W PROVE Next1(i, a) \in W
    <3>1. a \in V /\ (a # NoRule => Matches(a, p))
      OBVIOUS
    <3>2. Next1(i, a) \in V /\ (Next1(i, a) # NoRule => Matches(Next1(i, a), p))
      BY <1>2, <3>1
    <3> HIDE DEF Next1, V
    <3> QED BY <3>2
  <2> HIDE DEF Next1
  <2> QED BY <2>1
<1>5. \A i \in 1..n : \A a \in W : step[i][a] \in W /\ step[i][a] = Next1(i, a)
  <2>1. \A a \in W : a \in V
    OBVIOUS
  <2> HIDE DEF Next1, W, V
  <2> QED BY <1>3, <1>4, <2>1
<1>6. /\ \A i \in 0..n : after[i] \in W
      /\ after[0] = NoRule /\ \A i \in 1..n : after[i] = Next1(i, after[i - 1])
  <2>1. PICK f : f \in Stepwise(n, W, NoRule, step)
    <3> HIDE DEF W, Next1
    <3> QED BY <1>1, <1>4, <1>5, RecursionUpTo
  <2>2. f \in [0..n -> W] /\ f[0] = NoRule /\ \A i \in 1..n : f[i] = step[i][f[i - 1]]
    BY <2>1 DEF Stepwise
  <2>3. \A i \in 0..n : i # 0 => i \in 1..n /\ i - 1 \in 0..n
    BY <1>1
  <2>4. \A i \in 0..n : i # 0 => f[i] = Next1(i, f[i - 1])
    <3> HIDE DEF W, Next1
    <3> QED BY <1>5, <2>2, <2>3
  <2>5. f = [i \in 0..n |-> IF i = 0 THEN NoRule ELSE Next1(i, f[i - 1])]
    <3> HIDE DEF W, Next1
    <3> QED BY <2>2, <2>4
  <2>6. after = [i \in 0..n |-> IF i = 0 THEN NoRule ELSE Next1(i, after[i - 1])]
    BY <2>5
  <2> HIDE DEF after, Next1, W
  <2>7. after[0] = NoRule /\ \A i \in 1..n : after[i] = Next1(i, after[i - 1])
    <3>1. 0 \in 0..n /\ \A i \in 1..n : i \in 0..n /\ i # 0
      BY <1>1
    <3> QED BY <2>6, <3>1
  <2> DEFINE T == {i \in 0..n : after[i] \in W}
  <2>8. 0 \in T
    BY <1>1, <1>4, <2>7
  <2>9. ASSUME NEW i \in 0..(n - 1), i \in T PROVE i + 1 \in T
    <3>1. i + 1 \in 0..n /\ i + 1 \in 1..n /\ (i + 1) - 1 = i
      BY <1>1
    <3>2. after[i + 1] = Next1(i + 1, after[i])
      BY <2>7, <3>1
    <3> QED BY <1>4, <2>9, <3>1, <3>2
  <2>10. \A i \in 0..n : i \in T
    <3> HIDE DEF T
    <3> QED BY <1>1, <2>8, <2>9, UpTo
  <2> QED BY <2>7, <2>10
<1>7. Relax!RelaxedAnswer(tuples, ls, max, p) = after[n]
  BY Zenon DEF Relax!RelaxedAnswer
<1> HIDE DEF after
<1> DEFINE T == {i \in 0..n : \A j \in 1..i : Beaten(j, after[i])}
<1>8. 0 \in T
  BY <1>1
<1>9. ASSUME NEW i \in 0..(n - 1), i \in T PROVE i + 1 \in T
  <2>1. i + 1 \in 0..n /\ i + 1 \in 1..n /\ (i + 1) - 1 = i /\ i \in 0..n
    BY <1>1
  <2> DEFINE a == after[i]
             b == after[i + 1]
  <2>2. a \in V /\ (a # NoRule => Matches(a, p)) /\ b \in V
    BY <1>6, <2>1
  <2>3. b = Next1(i + 1, a)
    BY <1>6, <2>1
  <2>4. Beaten(i + 1, b) /\ (a # NoRule => b # NoRule /\ a.priority <= b.priority)
    <3> HIDE DEF a, b, Beaten, Next1, V
    <3> QED BY <1>2, <2>1, <2>2, <2>3
  <2>5. \A j \in 1..i : Beaten(j, a)
    BY <1>9
  <2>6. ASSUME NEW j \in 1..i, NEW q, Has(ListFor(ls, tuples[j], p), q), Matches(q, p)
        PROVE  b # NoRule /\ q.priority <= b.priority
    <3>1. a # NoRule /\ q.priority <= a.priority
      BY <2>5, <2>6
    <3>2. b # NoRule /\ a.priority <= b.priority
      BY <2>4, <3>1
    <3>3. j \in 1..n /\ tuples[j] \in M
      BY <1>1, <2>1
    <3>4. <<tuples[j], Key(tuples[j], p)>> \in Relax!ListIds(M)
      BY <3>3, ListIdIs
    <3>5. q \in G
      BY <1>1, <2>6, <3>4 DEF Has, ListFor
    <3>6. a \in G /\ b \in G
      BY <2>2, <3>1, <3>2
    <3>7. q.priority \in Nat /\ a.priority \in Nat /\ b.priority \in Nat
      BY <3>5, <3>6, RuleTypes
    <3> HIDE DEF a, b
    <3> QED BY <3>1, <3>2, <3>7
  <2>7. \A j \in 1..i : Beaten(j, b)
    BY <2>6
  <2>8. \A j \in 1..(i + 1) : j \in 1..i \/ j = i + 1
    BY <2>1
  <2> HIDE DEF Beaten
  <2>9. \A j \in 1..(i + 1) : Beaten(j, b)
    BY <2>4, <2>7, <2>8
  <2> QED BY <2>1, <2>9
<1>10. n \in T
  <2> HIDE DEF T
  <2>1. n \in 0..n
    BY <1>1
  <2> QED BY <1>1, <1>8, <1>9, <2>1, UpTo
<1> DEFINE a == after[n]
<1>11. a \in V /\ (a # NoRule => Matches(a, p))
  <2>1. n \in 0..n
    BY <1>1
  <2> QED BY <1>6, <2>1
<1>12. ASSUME NEW q \in G, Matches(q, p) PROVE a # NoRule /\ q.priority <= a.priority
  <2>1. PICK i \in 1..n : tuples[i] \subseteq q.mask /\ Has(ListFor(ls, tuples[i], q.key), q)
    BY <1>1
  <2>2. Key(tuples[i], q.key) = Key(tuples[i], p)
    BY <1>12, <2>1 DEF Matches, Key
  <2>3. Has(ListFor(ls, tuples[i], p), q)
    BY <2>1, <2>2 DEF ListFor
  <2>4. Beaten(i, a)
    BY <1>10
  <2> HIDE DEF a
  <2> QED BY <1>12, <2>3, <2>4
<1> HIDE DEF a, T, Beaten
<1>13. CASE a = NoRule
  <2>1. \A q \in G : ~Matches(q, p)
    BY <1>12, <1>13
  <2> QED BY <1>7, <1>13, <2>1, NoBest DEF a
<1>14. CASE a # NoRule
  <2>1. a \in G /\ Matches(a, p)
    BY <1>11, <1>14
  <2>2. BestMatch(G, p) = a
    BY <1>12, <2>1, BestIs
  <2> QED BY <1>7, <2>2 DEF a
<1> QED BY <1>13, <1>14

-----------------------------------------------------------------------------
(***************************************************************************)
(* Prefixes and the numbers that the code compares.                        *)
(***************************************************************************)

\* The numbers of the leading bits of mask S in field f.
Leading(f, S) ==
  {g \in [0..Len(Field[f]) -> Nat] :
     /\ g[0] = 0
     /\ \A i \in 1..Len(Field[f]) : g[i] = 2 * g[i - 1] + (IF Field[f][i] \in S THEN 1 ELSE 0)}

LEMMA NumberLeads ==
  ASSUME NEW f \in {1, 2}, NEW S
  PROVE  \E g \in Leading(f, S) : Relax!Number(f, S) = g[Len(Field[f])]
<1> DEFINE n == Len(Field[f])
           bit(i) == IF Field[f][i] \in S THEN 1 ELSE 0
           step == [i \in 1..n |-> [v \in Nat |-> 2 * v + bit(i)]]
           lead[i \in 0..n] == IF i = 0 THEN 0 ELSE 2 * lead[i - 1] + (IF Field[f][i] \in S THEN 1 ELSE 0)
<1>1. n \in Nat
  BY PrefixesAssumption
<1>2. ASSUME NEW i \in 1..n, NEW v \in Nat
      PROVE  step[i][v] \in Nat /\ step[i][v] = 2 * v + bit(i)
  <2>1. bit(i) \in {0, 1}
    OBVIOUS
  <2>2. step[i][v] = 2 * v + bit(i)
    OBVIOUS
  <2> HIDE DEF bit, step
  <2> QED BY <2>1, <2>2
<1>3. PICK g : g \in Stepwise(n, Nat, 0, step)
  <2>1. 0 \in Nat /\ \A i \in 1..n : \A v \in Nat : step[i][v] \in Nat
    BY <1>2
  <2> HIDE DEF step, n
  <2> QED BY <1>1, <2>1, RecursionUpTo
<1>4. g \in [0..n -> Nat] /\ g[0] = 0 /\ \A i \in 1..n : g[i] = step[i][g[i - 1]]
  BY <1>3 DEF Stepwise
<1> HIDE DEF step
<1>5. \A i \in 0..n : i # 0 => i \in 1..n /\ i - 1 \in 0..n
  BY <1>1
<1>6. \A i \in 1..n : g[i] = 2 * g[i - 1] + bit(i)
  <2>1. \A i \in 1..n : i \in 0..n /\ i # 0
    BY <1>1
  <2> QED BY <1>2, <1>4, <1>5, <2>1
<1>7. g = [i \in 0..n |-> IF i = 0 THEN 0 ELSE 2 * g[i - 1] + (IF Field[f][i] \in S THEN 1 ELSE 0)]
  <2>1. \A i \in 0..n : g[i] = IF i = 0 THEN 0 ELSE 2 * g[i - 1] + (IF Field[f][i] \in S THEN 1 ELSE 0)
    BY <1>4, <1>5, <1>6
  <2> QED BY <1>4, <2>1
<1>8. lead = [i \in 0..n |-> IF i = 0 THEN 0 ELSE 2 * lead[i - 1] + (IF Field[f][i] \in S THEN 1 ELSE 0)]
  BY <1>7
<1>9. Relax!Number(f, S) = lead[n]
  BY Zenon DEF Relax!Number
<1> HIDE DEF lead
<1> DEFINE T == {i \in 0..n : lead[i] = g[i]}
<1>10. 0 \in T
  BY <1>1, <1>4, <1>8
<1>11. ASSUME NEW i \in 0..(n - 1), i \in T PROVE i + 1 \in T
  <2>1. i + 1 \in 0..n /\ i + 1 \in 1..n /\ i + 1 # 0 /\ (i + 1) - 1 = i
    BY <1>1
  <2>2. lead[i + 1] = 2 * lead[i] + bit(i + 1)
    BY <1>8, <2>1
  <2>3. g[i + 1] = 2 * g[i] + bit(i + 1)
    BY <1>6, <2>1
  <2> QED BY <1>11, <2>1, <2>2, <2>3
<1>12. n \in T
  <2>1. n \in 0..n
    BY <1>1
  <2> HIDE DEF T
  <2> QED BY <1>1, <1>10, <1>11, <2>1, UpTo
<1>13. g \in Leading(f, S)
  BY <1>4, <1>6 DEF Leading
<1> QED BY <1>9, <1>12, <1>13

\* With more bits of the field, a mask is a greater number.
LEMMA NumberUp ==
  ASSUME NEW f \in {1, 2}, NEW A, NEW B, A \subseteq B
  PROVE  /\ Relax!Number(f, A) \in Nat /\ Relax!Number(f, B) \in Nat
         /\ Relax!Number(f, A) <= Relax!Number(f, B)
         /\ (\E i \in 1..Len(Field[f]) : Field[f][i] \in B \ A) => Relax!Number(f, A) < Relax!Number(f, B)
<1> DEFINE n == Len(Field[f])
<1>1. n \in Nat
  BY PrefixesAssumption
<1>2. PICK g \in Leading(f, A) : Relax!Number(f, A) = g[n]
  BY NumberLeads
<1>3. PICK h \in Leading(f, B) : Relax!Number(f, B) = h[n]
  BY NumberLeads
<1>4. /\ g \in [0..n -> Nat] /\ g[0] = 0
      /\ \A i \in 1..n : g[i] = 2 * g[i - 1] + (IF Field[f][i] \in A THEN 1 ELSE 0)
      /\ h \in [0..n -> Nat] /\ h[0] = 0
      /\ \A i \in 1..n : h[i] = 2 * h[i - 1] + (IF Field[f][i] \in B THEN 1 ELSE 0)
  BY DEF Leading
<1> HIDE DEF n
<1> DEFINE More(i) == \E j \in 1..i : Field[f][j] \in B \ A
           T == {i \in 0..n : g[i] <= h[i] /\ (More(i) => g[i] < h[i])}
<1>5. 0 \in T
  <2>1. g[0] <= h[0] /\ ~More(0) /\ 0 \in 0..n
    BY <1>1, <1>4
  <2> QED BY <2>1
<1>6. ASSUME NEW i \in 0..(n - 1), i \in T PROVE i + 1 \in T
  <2>1. i + 1 \in 0..n /\ i + 1 \in 1..n /\ (i + 1) - 1 = i /\ i \in 0..n
    BY <1>1
  <2>2. /\ g[i + 1] = 2 * g[i] + (IF Field[f][i + 1] \in A THEN 1 ELSE 0)
        /\ h[i + 1] = 2 * h[i] + (IF Field[f][i + 1] \in B THEN 1 ELSE 0)
    BY <1>4, <2>1
  <2>3. g[i] \in Nat /\ h[i] \in Nat /\ g[i] <= h[i] /\ (More(i) => g[i] < h[i])
    BY <1>4, <1>6, <2>1
  <2>4. Field[f][i + 1] \in A => Field[f][i + 1] \in B
    OBVIOUS
  <2>5. More(i + 1) => More(i) \/ Field[f][i + 1] \in B \ A
    <3>1. \A j \in 1..(i + 1) : j \in 1..i \/ j = i + 1
      BY <2>1
    <3> QED BY <3>1
  <2> HIDE DEF More
  <2>6. g[i + 1] <= h[i + 1]
    BY <2>2, <2>3, <2>4
  <2>7. CASE More(i)
    BY <2>1, <2>2, <2>3, <2>4, <2>6, <2>7
  <2>8. CASE Field[f][i + 1] \in B \ A
    BY <2>1, <2>2, <2>3, <2>6, <2>8
  <2> QED BY <2>1, <2>5, <2>6, <2>7, <2>8
<1>7. n \in T
  <2>1. n \in 0..n
    BY <1>1
  <2> HIDE DEF T
  <2> QED BY <1>1, <1>5, <1>6, <2>1, UpTo
<1>8. n \in 0..n
  BY <1>1
<1> QED BY <1>2, <1>3, <1>4, <1>7, <1>8 DEF n

\* Of two prefixes of a field, the one that is not greater is in the other.
LEMMA PrefixOrder ==
  ASSUME NEW f \in {1, 2}, NEW A \in Prefixes(f), NEW B \in Prefixes(f),
         Relax!Number(f, A) <= Relax!Number(f, B)
  PROVE  A \subseteq B
<1> DEFINE n == Len(Field[f])
<1>1. n \in Nat
  BY PrefixesAssumption
<1>2. PICK a \in 0..n : A = {Field[f][i] : i \in 1..a}
  BY DEF Prefixes
<1>3. PICK b \in 0..n : B = {Field[f][i] : i \in 1..b}
  BY DEF Prefixes
<1>4. CASE a <= b
  <2>1. \A i \in 1..a : i \in 1..b
    BY <1>1, <1>4
  <2> QED BY <1>2, <1>3, <2>1
<1>5. CASE b < a
  <2>1. \A i \in 1..b : i \in 1..a
    BY <1>1, <1>5
  <2>2. B \subseteq A
    BY <1>2, <1>3, <2>1
  <2>3. /\ Relax!Number(f, A) \in Nat /\ Relax!Number(f, B) \in Nat
        /\ (\E i \in 1..Len(Field[f]) : Field[f][i] \in A \ B) => Relax!Number(f, B) < Relax!Number(f, A)
    BY <2>2, NumberUp
  <2>4. ~\E i \in 1..n : Field[f][i] \in A \ B
    BY <2>3
  <2>5. \A i \in 1..a : i \in 1..n
    BY <1>1
  <2> QED BY <1>2, <2>4, <2>5
<1> QED BY <1>1, <1>4, <1>5

\* The fields have no bit in common, and a rule's mask is a prefix in each.
LEMMA FieldFacts ==
  /\ \A f \in {1, 2} : Field[f] \in Seq(Bits) /\ Len(Field[f]) \in Nat
  /\ \A f \in {1, 2} : Relax!FieldBits(f) \subseteq Bits
  /\ \A f \in {1, 2} : \A m \in Prefixes(f) : m \subseteq Relax!FieldBits(f)
  /\ Relax!FieldBits(1) \cap Relax!FieldBits(2) = {}
  /\ \A r \in Rules : \A f \in {1, 2} : r.mask \cap Relax!FieldBits(f) \in Prefixes(f)
<1>1. \A f \in {1, 2} : Field[f] \in Seq(Bits) /\ Len(Field[f]) \in Nat
  BY PrefixesAssumption
<1>2. \A f \in {1, 2} : Relax!FieldBits(f) \subseteq Bits
  BY <1>1 DEF Relax!FieldBits
<1>3. ASSUME NEW f \in {1, 2}, NEW m \in Prefixes(f) PROVE m \subseteq Relax!FieldBits(f)
  <2>1. PICK n \in 0..Len(Field[f]) : m = {Field[f][i] : i \in 1..n}
    BY DEF Prefixes
  <2>2. \A i \in 1..n : i \in 1..Len(Field[f])
    BY <1>1
  <2> QED BY <2>1, <2>2 DEF Relax!FieldBits
<1>4. Relax!FieldBits(1) \cap Relax!FieldBits(2) = {}
  BY PrefixesAssumption DEF Relax!FieldBits
<1>5. ASSUME NEW r \in Rules, NEW f \in {1, 2} PROVE r.mask \cap Relax!FieldBits(f) \in Prefixes(f)
  <2>1. {b \in r.mask : \E i \in 1..Len(Field[f]) : Field[f][i] = b} \in Prefixes(f)
    BY PrefixesAssumption
  <2>2. r.mask \cap Relax!FieldBits(f) = {b \in r.mask : \E i \in 1..Len(Field[f]) : Field[f][i] = b}
    BY DEF Relax!FieldBits
  <2> QED BY <2>1, <2>2
<1> QED BY <1>1, <1>2, <1>3, <1>4, <1>5

-----------------------------------------------------------------------------
(***************************************************************************)
(* The tuples of a rule.                                                   *)
(***************************************************************************)

\* The masks of both classifiers are sets of bits.
LEMMA RelaxedMasks ==
  /\ \A f \in {1, 2} : Len(Relaxed[f]) \in Nat /\ 1 \in 1..Len(Relaxed[f])
  /\ \A f \in {1, 2} : \A i \in 1..Len(Relaxed[f]) : Relaxed[f][i] \in Prefixes(f) /\ Relaxed[f][i] \subseteq Bits
  /\ \A f \in {1, 2} : DOMAIN Cal[f] = Prefixes(f)
  /\ \A f \in {1, 2} : \A m \in Prefixes(f) : Cal[f][m] \in Prefixes(f) /\ Cal[f][m] \subseteq Bits
  /\ Relax!RangeMasks \in SUBSET SUBSET Bits /\ Relax!MergeMasks \in SUBSET SUBSET Bits
<1>1. \A f \in {1, 2} : Len(Relaxed[f]) \in Nat /\ 1 \in 1..Len(Relaxed[f])
  <2>1. ASSUME NEW f \in {1, 2} PROVE Len(Relaxed[f]) \in Nat /\ 1 \in 1..Len(Relaxed[f])
    <3>1. Relaxed[f] \in Seq(Prefixes(f)) /\ Relaxed[f] # <<>>
      BY PrefixesAssumption
    <3> QED BY <3>1, EmptySeq
  <2> QED BY <2>1
<1>2. \A f \in {1, 2} : \A m \in Prefixes(f) : m \subseteq Bits
  BY FieldFacts
<1>3. ASSUME NEW f \in {1, 2}, NEW i \in 1..Len(Relaxed[f])
      PROVE  Relaxed[f][i] \in Prefixes(f) /\ Relaxed[f][i] \subseteq Bits
  <2>1. Relaxed[f] \in Seq(Prefixes(f))
    BY PrefixesAssumption
  <2> QED BY <1>2, <2>1
<1>4. \A f \in {1, 2} : DOMAIN Cal[f] = Prefixes(f)
  BY PrefixesAssumption
<1>5. ASSUME NEW f \in {1, 2}, NEW m \in Prefixes(f)
      PROVE  Cal[f][m] \in Prefixes(f) /\ Cal[f][m] \subseteq Bits
  <2>1. Cal[f] \in [Prefixes(f) -> Prefixes(f)]
    BY PrefixesAssumption
  <2> QED BY <1>2, <2>1
<1>6. Relax!RangeMasks \in SUBSET SUBSET Bits
  BY <1>3 DEF Relax!RangeMasks
<1>7. Relax!MergeMasks \in SUBSET SUBSET Bits
  BY <1>4, <1>5 DEF Relax!MergeMasks
<1> QED BY <1>1, <1>3, <1>4, <1>5, <1>6, <1>7

\* The greatest of a set of numbers up to a bound.
LEMMA MaxIs ==
  ASSUME NEW n \in Nat, NEW T \in SUBSET (0..n), T # {}
  PROVE  Relax!Max(T) \in T /\ \A y \in T : y <= Relax!Max(T)
<1>1. PICK x \in T : \A y \in T : y <= x
  BY GreatestNat
<1>2. \A y \in T : x >= y
  BY <1>1
<1>3. Relax!Max(T) \in T /\ \A y \in T : Relax!Max(T) >= y
  BY <1>1, <1>2 DEF Relax!Max
<1> QED BY <1>3

\* RangeTupleSpaceSearch has a tuple for every rule, and it covers the rule:
\* of two prefixes the number that is not greater belongs to the shorter one.
LEMMA RangeMaskIs ==
  ASSUME NEW r \in Rules
  PROVE  Relax!RangeMask(r) \in Relax!RangeMasks /\ Relax!RangeMask(r) \subseteq r.mask
<1> DEFINE m(f) == r.mask \cap Relax!FieldBits(f)
           J(f) == {j \in 1..Len(Relaxed[f]) : Relax!Number(f, m(f)) >= Relax!Number(f, Relaxed[f][j])}
           x(f) == Relax!Max(J(f))
<1>1. ASSUME NEW f \in {1, 2}
      PROVE  x(f) \in 1..Len(Relaxed[f]) /\ Relaxed[f][x(f)] \subseteq r.mask
  <2>1. m(f) \in Prefixes(f)
    BY FieldFacts
  <2>2. Len(Relaxed[f]) \in Nat /\ 1 \in 1..Len(Relaxed[f]) /\ Relaxed[f][1] = {}
    BY RelaxedMasks, PrefixesAssumption
  <2>3. /\ Relax!Number(f, {}) \in Nat /\ Relax!Number(f, m(f)) \in Nat
        /\ Relax!Number(f, {}) <= Relax!Number(f, m(f))
    BY NumberUp
  <2>4. 1 \in J(f)
    BY <2>2, <2>3
  <2>5. J(f) \in SUBSET (0..Len(Relaxed[f]))
    BY <2>2
  <2>6. x(f) \in J(f)
    <3> HIDE DEF J
    <3> QED BY <2>2, <2>4, <2>5, MaxIs
  <2>7. x(f) \in 1..Len(Relaxed[f]) /\ Relax!Number(f, m(f)) >= Relax!Number(f, Relaxed[f][x(f)])
    BY <2>6
  <2> HIDE DEF x, J
  <2>8. Relaxed[f][x(f)] \in Prefixes(f)
    BY <2>7, RelaxedMasks
  <2>9. Relax!Number(f, Relaxed[f][x(f)]) \in Nat
    BY NumberUp
  <2>10. Relax!Number(f, Relaxed[f][x(f)]) <= Relax!Number(f, m(f))
    <3> HIDE DEF m
    <3> QED BY <2>3, <2>7, <2>9
  <2>11. Relaxed[f][x(f)] \subseteq m(f)
    BY <2>1, <2>8, <2>10, PrefixOrder
  <2> QED BY <2>7, <2>11
<1>2. Relax!RangeMask(r) = UNION {Relaxed[f][x(f)] : f \in {1, 2}}
  BY Zenon DEF Relax!RangeMask
<1> HIDE DEF x
<1>3. Relax!RangeMask(r) = Relaxed[1][x(1)] \cup Relaxed[2][x(2)]
  BY <1>2
<1>4. x(1) \in 1..Len(Relaxed[1]) /\ x(2) \in 1..Len(Relaxed[2])
  BY <1>1
<1>5. Relaxed[1][x(1)] \subseteq r.mask /\ Relaxed[2][x(2)] \subseteq r.mask
  BY <1>1
<1> QED BY <1>3, <1>4, <1>5 DEF Relax!RangeMasks

\* m_tuples has a tuple for every choice of a mask for each field.
LEMMA RangeTuplesAre ==
  Relax!RangeTuples \in Seq(Relax!RangeMasks) /\ \A m \in Relax!RangeMasks : Has(Relax!RangeTuples, m)
<1> DEFINE M == Relax!RangeMasks
           k == Len(Relaxed[1])
           n == Len(Relaxed[2])
           row(j) == [i \in 1..k |-> Relaxed[1][i] \cup Relaxed[2][j]]
           step == [j \in 1..n |-> [s \in Seq(M) |-> s \o row(j)]]
           upTo[j \in 0..n] ==
             IF j = 0 THEN <<>>
             ELSE upTo[j - 1] \o [i \in 1..Len(Relaxed[1]) |-> Relaxed[1][i] \cup Relaxed[2][j]]
<1>1. k \in Nat /\ n \in Nat
  BY RelaxedMasks
<1>2. ASSUME NEW j \in 1..n
      PROVE  /\ row(j) \in Seq(M) /\ Len(row(j)) = k
             /\ \A i \in 1..k : row(j)[i] = Relaxed[1][i] \cup Relaxed[2][j]
  <2>1. \A i \in 1..k : Relaxed[1][i] \cup Relaxed[2][j] \in M
    BY DEF Relax!RangeMasks
  <2>2. row(j) \in [1..k -> M]
    <3> HIDE DEF M
    <3> QED BY <2>1
  <2> HIDE DEF M
  <2>3. row(j) \in Seq(M) /\ Len(row(j)) = k
    <3> HIDE DEF k
    <3> DEFINE w == row(j)
    <3> HIDE DEF w
    <3>1. w \in Seq(M)
      BY <1>1, <2>2, SeqDef DEF w
    <3> QED BY <1>1, <2>2, <3>1
  <2> QED BY <2>3
<1>3. \A j \in 1..n : \A s \in Seq(M) : step[j][s] \in Seq(M) /\ step[j][s] = s \o row(j)
  <2> HIDE DEF M, row
  <2> QED BY <1>2
<1>4. <<>> \in Seq(M)
  OBVIOUS
<1>5. PICK g : g \in Stepwise(n, Seq(M), <<>>, step)
  <2> HIDE DEF M, step, n
  <2> QED BY <1>1, <1>3, <1>4, RecursionUpTo
<1>6. g \in [0..n -> Seq(M)] /\ g[0] = <<>> /\ \A j \in 1..n : g[j] = step[j][g[j - 1]]
  BY <1>5 DEF Stepwise
<1> HIDE DEF step, M
<1>7. \A j \in 0..n : j # 0 => j \in 1..n /\ j - 1 \in 0..n
  BY <1>1
<1>8. \A j \in 0..n : j # 0 => g[j] = g[j - 1] \o row(j)
  <2> HIDE DEF row, n
  <2> QED BY <1>3, <1>6, <1>7
<1>9. g = [j \in 0..n |-> IF j = 0 THEN <<>> ELSE g[j - 1] \o [i \in 1..Len(Relaxed[1]) |-> Relaxed[1][i] \cup Relaxed[2][j]]]
  BY <1>6, <1>8
<1>10. upTo = [j \in 0..n |-> IF j = 0 THEN <<>> ELSE upTo[j - 1] \o [i \in 1..Len(Relaxed[1]) |-> Relaxed[1][i] \cup Relaxed[2][j]]]
  BY <1>9
<1>11. Relax!RangeTuples = upTo[n]
  BY Zenon DEF Relax!RangeTuples
<1> HIDE DEF upTo
<1>12. upTo[0] = <<>> /\ \A j \in 1..n : upTo[j] = upTo[j - 1] \o row(j)
  <2>1. 0 \in 0..n /\ \A j \in 1..n : j \in 0..n /\ j # 0
    BY <1>1
  <2> QED BY <1>10, <2>1
<1> DEFINE All(j) == \A a \in 1..j, i \in 1..k : Has(upTo[j], Relaxed[1][i] \cup Relaxed[2][a])
           T == {j \in 0..n : upTo[j] \in Seq(M) /\ All(j)}
<1>13. 0 \in T
  <2>1. \A a \in 1..0 : FALSE
    OBVIOUS
  <2>2. All(0)
    BY <2>1
  <2>3. upTo[0] \in Seq(M)
    BY <1>12
  <2> HIDE DEF All
  <2> QED BY <1>1, <2>2, <2>3
<1>14. ASSUME NEW j \in 0..(n - 1), j \in T PROVE j + 1 \in T
  <2>1. j + 1 \in 0..n /\ j + 1 \in 1..n /\ (j + 1) - 1 = j
    BY <1>1
  <2> DEFINE s == upTo[j]
             w == row(j + 1)
             u == upTo[j + 1]
  <2>2. s \in Seq(M) /\ w \in Seq(M) /\ Len(w) = k /\ u = s \o w
    BY <1>2, <1>12, <1>14, <2>1
  <2>3. \A i \in 1..k : w[i] = Relaxed[1][i] \cup Relaxed[2][j + 1]
    BY <1>2, <2>1
  <2>4. \A a \in 1..j, i \in 1..k : Has(s, Relaxed[1][i] \cup Relaxed[2][a])
    BY <1>14
  <2> HIDE DEF s, w, u
  <2>5. /\ u \in Seq(M) /\ Len(s) \in Nat /\ Len(u) = Len(s) + k
        /\ \A i \in 1..Len(s) : u[i] = s[i]
        /\ \A i \in 1..k : u[Len(s) + i] = w[i]
    <3>1. u \in Seq(M) /\ Len(u) = Len(s) + Len(w) /\ Len(s) \in Nat
      <4>1. s \in Seq(M) /\ w \in Seq(M)
        BY <2>2
      <4>2. s \o w \in Seq(M) /\ Len(s \o w) = Len(s) + Len(w)
        BY <4>1, ConcatProperties
      <4>3. Len(s) \in Nat
        BY <4>1
      <4> QED BY <2>2, <4>2, <4>3
    <3>2. \A i \in 1..Len(s) : u[i] = s[i]
      BY <1>1, <2>2, <3>1
    <3>3. ASSUME NEW i \in 1..k PROVE u[Len(s) + i] = w[i]
      <4>1. Len(s) + i \in 1..Len(u) /\ Len(s) + i > Len(s) /\ (Len(s) + i) - Len(s) = i
        BY <1>1, <2>2, <3>1
      <4> QED BY <2>2, <3>1, <4>1
    <3> QED BY <2>2, <3>1, <3>2, <3>3
  <2>6. ASSUME NEW a \in 1..(j + 1), NEW i \in 1..k PROVE Has(u, Relaxed[1][i] \cup Relaxed[2][a])
    <3>1. CASE a = j + 1
      <4>1. Len(s) + i \in 1..Len(u)
        BY <1>1, <2>5
      <4> QED BY <2>3, <2>5, <3>1, <4>1 DEF Has
    <3>2. CASE a # j + 1
      <4>1. a \in 1..j
        BY <2>1, <3>2
      <4>2. PICK b \in 1..Len(s) : s[b] = Relaxed[1][i] \cup Relaxed[2][a]
        BY <2>4, <4>1 DEF Has
      <4>3. b \in 1..Len(u)
        BY <1>1, <2>5
      <4> QED BY <2>5, <4>2, <4>3 DEF Has
    <3> QED BY <3>1, <3>2
  <2> QED BY <2>1, <2>5, <2>6 DEF u
<1>15. n \in T
  <2>1. n \in 0..n
    BY <1>1
  <2> HIDE DEF T
  <2> QED BY <1>1, <1>13, <1>14, <2>1, UpTo
<1>16. \A m \in M : Has(upTo[n], m)
  <2> SUFFICES ASSUME NEW i \in 1..k, NEW j \in 1..n PROVE Has(upTo[n], Relaxed[1][i] \cup Relaxed[2][j])
    BY DEF M, Relax!RangeMasks
  <2>1. All(n)
    BY <1>15
  <2> QED BY <2>1
<1> QED BY <1>11, <1>15, <1>16 DEF M

\* TupleMerge makes a tuple that covers the rule.
LEMMA MergeMaskIs ==
  ASSUME NEW r \in Rules
  PROVE  Relax!MergeMask(r) \in Relax!MergeMasks /\ Relax!MergeMask(r) \subseteq r.mask
<1> DEFINE m(f) == r.mask \cap Relax!FieldBits(f)
<1>1. \A f \in {1, 2} : m(f) \in Prefixes(f) /\ m(f) \subseteq r.mask
  BY FieldFacts
<1>2. Relax!MergeMask(r) = Cal[1][m(1)] \cup Cal[2][m(2)]
  BY DEF Relax!MergeMask
<1> HIDE DEF m
<1>3. \A f \in {1, 2} : Cal[f][m(f)] \subseteq m(f)
  BY <1>1, PrefixesAssumption
<1>4. m(1) \in DOMAIN Cal[1] /\ m(2) \in DOMAIN Cal[2]
  BY <1>1, RelaxedMasks
<1>5. Relax!MergeMask(r) \in Relax!MergeMasks
  BY <1>2, <1>4 DEF Relax!MergeMasks
<1>6. Cal[1][m(1)] \subseteq r.mask /\ Cal[2][m(2)] \subseteq r.mask
  BY <1>1, <1>3
<1> QED BY <1>2, <1>5, <1>6

\* A tuple of TupleMerge that accepts a rule covers it.
LEMMA AcceptedCovers ==
  ASSUME NEW r \in Rules, NEW m \in Relax!MergeMasks, Relax!Accepts(m, r)
  PROVE  m \subseteq r.mask
<1>1. PICK a \in Prefixes(1), b \in Prefixes(2) : m = Cal[1][a] \cup Cal[2][b]
  BY RelaxedMasks DEF Relax!MergeMasks
<1> DEFINE A == Cal[1][a]
           B == Cal[2][b]
<1>2. A \in Prefixes(1) /\ B \in Prefixes(2)
  BY RelaxedMasks
<1>3. A \subseteq Relax!FieldBits(1) /\ B \subseteq Relax!FieldBits(2)
  BY <1>2, FieldFacts
<1> HIDE DEF A, B
<1>4. m \cap Relax!FieldBits(1) = A /\ m \cap Relax!FieldBits(2) = B
  BY <1>1, <1>3, FieldFacts DEF A, B
<1>5. /\ Relax!Number(1, A) <= Relax!Number(1, r.mask \cap Relax!FieldBits(1))
      /\ Relax!Number(2, B) <= Relax!Number(2, r.mask \cap Relax!FieldBits(2))
  BY <1>4 DEF Relax!Accepts
<1>6. A \subseteq r.mask \cap Relax!FieldBits(1)
  BY <1>2, <1>5, FieldFacts, PrefixOrder
<1>7. B \subseteq r.mask \cap Relax!FieldBits(2)
  BY <1>2, <1>5, FieldFacts, PrefixOrder
<1> QED BY <1>1, <1>6, <1>7 DEF A, B

-----------------------------------------------------------------------------
(***************************************************************************)
(* Range tuple search and tuple merge: the rules that are listed.          *)
(***************************************************************************)

\* RangeTupleSpaceSearch lists every rule ever given, as no request to delete
\* one is heard; TupleMerge every one but those that no tuple accepted.
RelaxedFiled ==
  unit = "relax" =>
  /\ ListsHold(Relax!RangeMasks, Relax!RangeTuples, rangeLists, rangeMax, given \cup gone)
  /\ ListsHold(Relax!MergeMasks, merged, mergedLists, mergedMax, (given \cup gone) \ lost)

\* Empty lists hold no rules.
LEMMA EmptyListed ==
  ASSUME NEW M, NEW tuples \in Seq(M)
  PROVE  ListsHold(M, tuples, [x \in Relax!ListIds(M) |-> <<>>], [m \in M |-> 0], {})
<1> DEFINE ls  == [x \in Relax!ListIds(M) |-> <<>>]
           max == [m \in M |-> 0]
<1>1. <<>> \in Seq({}) /\ Falling(<<>>) /\ \A q : ~Has(<<>>, q)
  BY DEF Falling, Has
<1>2. ls \in [Relax!ListIds(M) -> Seq({})] /\ max \in [M -> Nat]
  BY <1>1
<1>3. \A x \in Relax!ListIds(M) : ls[x] = <<>>
  OBVIOUS
<1> HIDE DEF ls, max
<1>4. ASSUME NEW x \in Relax!ListIds(M)
      PROVE  Falling(ls[x]) /\ \A q : Has(ls[x], q) => x[1] \subseteq q.mask /\ q.priority <= max[x[1]]
  BY <1>1, <1>3
<1>5. ListsHold(M, tuples, ls, max, {})
  BY <1>2, <1>4 DEF ListsHold
<1> QED BY <1>5 DEF ls, max

\* insertRuleConstruction of a RangeTupleSpaceSearch
LEMMA RangedListed ==
  ASSUME NEW G \in SUBSET Rules, NEW r \in Rules, NEW t,
         ListsHold(Relax!RangeMasks, Relax!RangeTuples, t.lists, t.max, G)
  PROVE  LET u == Relax!Ranged(t, r)
         IN  /\ u = [lists |-> u.lists, max |-> u.max]
             /\ ListsHold(Relax!RangeMasks, Relax!RangeTuples, u.lists, u.max, G \cup {r})
<1> DEFINE M  == Relax!RangeMasks
           ts == Relax!RangeTuples
           m  == Relax!RangeMask(r)
<1>1. M \in SUBSET SUBSET Bits /\ ts \in Seq(M) /\ m \in M /\ m \subseteq r.mask /\ Has(ts, m)
  BY RelaxedMasks, RangeTuplesAre, RangeMaskIs
<1>2. Relax!Ranged(t, r) = [lists |-> Relax!PutRule(t.lists, m, r), max |-> Relax!RaiseMax(t.max, m, r)]
  BY DEF Relax!Ranged
<1>3. ListsHold(M, ts, t.lists, t.max, G)
  OBVIOUS
<1> HIDE DEF M, ts, m
<1>4. ListsHold(M, ts, Relax!PutRule(t.lists, m, r), Relax!RaiseMax(t.max, m, r), G \cup {r})
  BY <1>1, <1>3, PutRuleListed
<1> QED BY <1>2, <1>4 DEF M, ts

\* insertRuleConstruction of a TupleMerge
LEMMA MergedListed ==
  ASSUME NEW G \in SUBSET Rules, NEW r \in Rules, NEW t,
         ListsHold(Relax!MergeMasks, t.tuples, t.lists, t.max, G)
  PROVE  LET u == Relax!Merged(t, r)
         IN  /\ u = [tuples |-> u.tuples, lists |-> u.lists, max |-> u.max]
             /\ ListsHold(Relax!MergeMasks, u.tuples, u.lists, u.max, G \cup {r})
<1> DEFINE M   == Relax!MergeMasks
           ok  == Relax!Accepting(t.tuples, r)
           all == IF ok = {} THEN Append(t.tuples, Relax!MergeMask(r)) ELSE t.tuples
           m   == IF ok = {} THEN Relax!MergeMask(r) ELSE t.tuples[Relax!Min(ok)]
<1>1. M \in SUBSET SUBSET Bits /\ Relax!MergeMask(r) \in M /\ Relax!MergeMask(r) \subseteq r.mask
  BY RelaxedMasks, MergeMaskIs
<1>2. Relax!Merged(t, r) = [tuples |-> all, lists |-> Relax!PutRule(t.lists, m, r), max |-> Relax!RaiseMax(t.max, m, r)]
  BY DEF Relax!Merged
<1>3. ListsHold(M, t.tuples, t.lists, t.max, G) /\ t.tuples \in Seq(M) /\ Len(t.tuples) \in Nat
  BY DEF ListsHold
<1>4. ok = {i \in 1..Len(t.tuples) : Relax!Accepts(t.tuples[i], r)}
  BY DEF Relax!Accepting
<1> HIDE DEF M
<1>5. /\ all \in Seq(M) /\ Has(all, m) /\ m \in M /\ m \subseteq r.mask
      /\ \A i \in 1..Len(t.tuples) : i \in 1..Len(all) /\ all[i] = t.tuples[i]
  <2>1. CASE ok = {}
    <3> DEFINE k == Relax!MergeMask(r)
               s == t.tuples
    <3>1. all = Append(s, k) /\ m = k /\ s \in Seq(M) /\ k \in M
      BY <1>1, <1>3, <2>1
    <3> HIDE DEF all, m, k, s
    <3>2. /\ all \in Seq(M) /\ Len(all) = Len(s) + 1 /\ all[Len(s) + 1] = k /\ Len(s) \in Nat
          /\ \A i \in 1..Len(s) : all[i] = s[i]
      BY <3>1
    <3>3. \A i \in 1..(Len(s) + 1) : i \in 1..Len(all)
      BY <3>2
    <3>4. Len(s) + 1 \in 1..(Len(s) + 1) /\ \A i \in 1..Len(s) : i \in 1..(Len(s) + 1)
      BY <3>2
    <3>5. Has(all, m)
      BY <3>1, <3>2, <3>3, <3>4 DEF Has
    <3> QED BY <1>1, <3>1, <3>2, <3>3, <3>4, <3>5 DEF k, s
  <2>2. CASE ok # {}
    <3> DEFINE x == Relax!Min(ok)
    <3>1. ok \in SUBSET Nat
      BY <1>4
    <3>2. x \in ok
      <4> HIDE DEF ok
      <4> QED BY <2>2, <3>1, MinIs
    <3>3. all = t.tuples /\ m = t.tuples[x]
      BY <2>2
    <3>4. x \in 1..Len(t.tuples) /\ Relax!Accepts(t.tuples[x], r)
      BY <1>4, <3>2
    <3> HIDE DEF x, ok, all, m
    <3>5. m \in M /\ Has(all, m)
      BY <1>3, <3>3, <3>4 DEF Has
    <3>6. m \subseteq r.mask
      BY <3>3, <3>4, <3>5, AcceptedCovers DEF M
    <3> QED BY <1>3, <3>3, <3>5, <3>6
  <2> QED BY <2>1, <2>2
<1> HIDE DEF all, m, ok
<1>6. ListsHold(M, all, Relax!PutRule(t.lists, m, r), Relax!RaiseMax(t.max, m, r), G \cup {r})
  <2> DEFINE s == t.tuples
             ls == t.lists
             max == t.max
  <2>1. ListsHold(M, s, ls, max, G)
    BY <1>3
  <2>2. \A i \in 1..Len(s) : i \in 1..Len(all) /\ all[i] = s[i]
    BY <1>5
  <2> HIDE DEF s, ls, max
  <2>3. ListsHold(M, all, Relax!PutRule(ls, m, r), Relax!RaiseMax(max, m, r), G \cup {r})
    BY <1>1, <1>5, <2>1, <2>2, PutRuleListed
  <2> QED BY <2>3 DEF ls, max
<1> QED BY <1>2, <1>6 DEF M
\* The construction of a RangeTupleSpaceSearch lists the rules of the file.
LEMMA RangeBuilt ==
  ASSUME Given, Relax!Construct(setup.built),
         ListsHold(Relax!RangeMasks, Relax!RangeTuples, rangeLists, rangeMax, {})
  PROVE  ListsHold(Relax!RangeMasks, Relax!RangeTuples, rangeLists', rangeMax', FileRules)
<1> DEFINE order == setup.built
           n == Len(order)
           t0 == [lists |-> rangeLists, max |-> rangeMax]
           V == {t \in [lists : [Relax!ListIds(Relax!RangeMasks) -> Seq(Rules)], max : [Relax!RangeMasks -> Nat]] :
                   \E G \in SUBSET Rules : ListsHold(Relax!RangeMasks, Relax!RangeTuples, t.lists, t.max, G)}
           step == [i \in 1..n |-> [t \in V |-> Relax!Ranged(t, order[i])]]
           range[i \in 0..n] == IF i = 0 THEN [lists |-> rangeLists, max |-> rangeMax]
                            ELSE Relax!Ranged(range[i - 1], order[i])
<1>1. n \in Nat /\ \A i \in 1..n : order[i] \in Rules
  <2>1. order \in Seq(Rules) /\ \A i \in 1..n : order[i] \in Rules
    BY SetupTypes DEF Given
  <2> HIDE DEF order
  <2> QED BY <2>1
<1>2. ASSUME NEW t, NEW G \in SUBSET Rules, t = [lists |-> t.lists, max |-> t.max], ListsHold(Relax!RangeMasks, Relax!RangeTuples, t.lists, t.max, G)
      PROVE  t \in V
  <2>1. t.lists \in [Relax!ListIds(Relax!RangeMasks) -> Seq(G)] /\ t.max \in [Relax!RangeMasks -> Nat]
    BY <1>2 DEF ListsHold
  <2>2. t.lists \in [Relax!ListIds(Relax!RangeMasks) -> Seq(Rules)]
    <3>1. \A x \in Relax!ListIds(Relax!RangeMasks) : t.lists[x] \in Seq(G)
      BY <2>1
    <3>2. \A x \in Relax!ListIds(Relax!RangeMasks) : t.lists[x] \in Seq(Rules)
      BY <3>1, SeqMonotonic
    <3> QED BY <2>1, <3>2
  <2>3. t \in [lists : [Relax!ListIds(Relax!RangeMasks) -> Seq(Rules)], max : [Relax!RangeMasks -> Nat]]
    BY <1>2, <2>1, <2>2
  <2> QED BY <1>2, <2>3
<1>3. ASSUME NEW i \in 1..n, NEW t \in V PROVE Relax!Ranged(t, order[i]) \in V
  <2>1. PICK G \in SUBSET Rules : ListsHold(Relax!RangeMasks, Relax!RangeTuples, t.lists, t.max, G)
    OBVIOUS
  <2> DEFINE r == order[i]
             u == Relax!Ranged(t, r)
  <2>2. r \in Rules
    BY <1>1
  <2> HIDE DEF r, V
  <2>3. u = [lists |-> u.lists, max |-> u.max] /\ ListsHold(Relax!RangeMasks, Relax!RangeTuples, u.lists, u.max, G \cup {r})
    BY <2>1, <2>2, RangedListed
  <2>4. G \cup {r} \in SUBSET Rules
    BY <2>2
  <2> HIDE DEF u
  <2> DEFINE H == G \cup {r}
  <2>5. H \in SUBSET Rules /\ ListsHold(Relax!RangeMasks, Relax!RangeTuples, u.lists, u.max, H)
    BY <2>3, <2>4
  <2> HIDE DEF H
  <2>6. u \in V
    BY <1>2, <2>3, <2>5
  <2> QED BY <2>6 DEF u, r
<1>4. t0 \in V /\ ListsHold(Relax!RangeMasks, Relax!RangeTuples, t0.lists, t0.max, {})
  <2>1. ListsHold(Relax!RangeMasks, Relax!RangeTuples, t0.lists, t0.max, {}) /\ t0 = [lists |-> t0.lists, max |-> t0.max]
    OBVIOUS
  <2> DEFINE G == {}
  <2>2. G \in SUBSET Rules /\ ListsHold(Relax!RangeMasks, Relax!RangeTuples, t0.lists, t0.max, G)
    BY <2>1
  <2> HIDE DEF t0, V, G
  <2>3. t0 \in V
    BY <1>2, <2>1, <2>2
  <2> QED BY <2>1, <2>3
<1>5. \A i \in 1..n : \A t \in V : step[i][t] \in V /\ step[i][t] = Relax!Ranged(t, order[i])
  <2>1. \A i \in 1..n : \A t \in V : step[i][t] = Relax!Ranged(t, order[i])
    <3> HIDE DEF V, n, order
    <3> QED OBVIOUS
  <2> HIDE DEF V, step, n, order
  <2> QED BY <1>3, <2>1
<1>6. PICK g : g \in Stepwise(n, V, t0, step)
  <2> HIDE DEF V, step, n, t0
  <2> QED BY <1>1, <1>4, <1>5, RecursionUpTo
<1>7. g \in [0..n -> V] /\ g[0] = t0 /\ \A i \in 1..n : g[i] = step[i][g[i - 1]]
  BY <1>6 DEF Stepwise
<1>8. rangeLists' = range[n].lists /\ rangeMax' = range[n].max
  BY Zenon DEF Relax!Construct
<1> HIDE DEF V, step, order, n
<1>9. \A i \in 0..n : i # 0 => i \in 1..n /\ i - 1 \in 0..n
  BY <1>1
<1>10. \A i \in 0..n : i # 0 => g[i] = Relax!Ranged(g[i - 1], order[i])
  <2> HIDE DEF t0
  <2> QED BY <1>5, <1>7, <1>9
<1>11. g = [i \in 0..n |-> IF i = 0 THEN [lists |-> rangeLists, max |-> rangeMax] ELSE Relax!Ranged(g[i - 1], order[i])]
  BY <1>7, <1>10
<1>12. range = [i \in 0..n |-> IF i = 0 THEN [lists |-> rangeLists, max |-> rangeMax] ELSE Relax!Ranged(range[i - 1], order[i])]
  BY <1>11
<1> HIDE DEF range
<1>13. range[0] = t0 /\ \A i \in 1..n : range[i] = Relax!Ranged(range[i - 1], order[i])
  <2>1. 0 \in 0..n /\ \A i \in 1..n : i \in 0..n /\ i # 0
    BY <1>1
  <2> QED BY <1>12, <2>1
<1> HIDE DEF t0
<1> DEFINE S(i) == {order[j] : j \in 1..i}
           T == {i \in 0..n : ListsHold(Relax!RangeMasks, Relax!RangeTuples, range[i].lists, range[i].max, S(i))}
<1>14. 0 \in T
  <2>1. S(0) = {}
    OBVIOUS
  <2> HIDE DEF S
  <2>2. ListsHold(Relax!RangeMasks, Relax!RangeTuples, range[0].lists, range[0].max, S(0))
    BY <1>4, <1>13, <2>1
  <2> QED BY <1>1, <2>2
<1>15. ASSUME NEW i \in 0..(n - 1), i \in T PROVE i + 1 \in T
  <2>1. i + 1 \in 0..n /\ i + 1 \in 1..n /\ (i + 1) - 1 = i
    BY <1>1
  <2>2. range[i + 1] = Relax!Ranged(range[i], order[i + 1])
    BY <1>13, <2>1
  <2>3. S(i + 1) = S(i) \cup {order[i + 1]}
    <3>1. \A j \in 1..(i + 1) : j \in 1..i \/ j = i + 1
      BY <2>1
    <3>2. \A j \in 1..i : j \in 1..(i + 1)
      BY <2>1
    <3>3. i + 1 \in 1..(i + 1)
      BY <2>1
    <3> QED BY <3>1, <3>2, <3>3
  <2>4. S(i) \in SUBSET Rules
    <3>1. \A j \in 1..i : j \in 1..n
      BY <1>1
    <3> QED BY <1>1, <3>1
  <2> DEFINE G == S(i)
             r == order[i + 1]
             t == range[i]
             u == Relax!Ranged(t, r)
  <2>5. ListsHold(Relax!RangeMasks, Relax!RangeTuples, t.lists, t.max, G) /\ G \in SUBSET Rules /\ r \in Rules
    BY <1>1, <1>15, <2>1, <2>4
  <2> HIDE DEF S
  <2>6. ListsHold(Relax!RangeMasks, Relax!RangeTuples, u.lists, u.max, G \cup {r})
    <3> HIDE DEF G, r, t
    <3> QED BY <2>5, RangedListed
  <2>7. ListsHold(Relax!RangeMasks, Relax!RangeTuples, range[i + 1].lists, range[i + 1].max, S(i + 1))
    BY <2>2, <2>3, <2>6
  <2> QED BY <2>1, <2>7
<1>16. n \in T
  <2>1. n \in 0..n
    BY <1>1
  <2> HIDE DEF T
  <2> QED BY <1>1, <1>14, <1>15, <2>1, UpTo
<1>17. S(n) = FileRules
  BY DEF FileRules, order, n
<1> HIDE DEF S
<1>18. ListsHold(Relax!RangeMasks, Relax!RangeTuples, range[n].lists, range[n].max, FileRules)
  BY <1>16, <1>17
<1> QED BY <1>8, <1>18

\* The construction of a TupleMerge lists the rules of the file.
LEMMA MergeBuilt ==
  ASSUME Given, Relax!Construct(setup.built),
         ListsHold(Relax!MergeMasks, merged, mergedLists, mergedMax, {})
  PROVE  ListsHold(Relax!MergeMasks, merged', mergedLists', mergedMax', FileRules)
<1> DEFINE order == setup.built
           n == Len(order)
           t0 == [tuples |-> merged, lists |-> mergedLists, max |-> mergedMax]
           V == {t \in [tuples : Seq(Relax!MergeMasks), lists : [Relax!ListIds(Relax!MergeMasks) -> Seq(Rules)], max : [Relax!MergeMasks -> Nat]] :
                   \E G \in SUBSET Rules : ListsHold(Relax!MergeMasks, t.tuples, t.lists, t.max, G)}
           step == [i \in 1..n |-> [t \in V |-> Relax!Merged(t, order[i])]]
           merge[i \in 0..n] == IF i = 0 THEN [tuples |-> merged, lists |-> mergedLists, max |-> mergedMax]
                            ELSE Relax!Merged(merge[i - 1], order[i])
<1>1. n \in Nat /\ \A i \in 1..n : order[i] \in Rules
  <2>1. order \in Seq(Rules) /\ \A i \in 1..n : order[i] \in Rules
    BY SetupTypes DEF Given
  <2> HIDE DEF order
  <2> QED BY <2>1
<1>2. ASSUME NEW t, NEW G \in SUBSET Rules, t = [tuples |-> t.tuples, lists |-> t.lists, max |-> t.max], ListsHold(Relax!MergeMasks, t.tuples, t.lists, t.max, G)
      PROVE  t \in V
  <2>1. t.tuples \in Seq(Relax!MergeMasks) /\ t.lists \in [Relax!ListIds(Relax!MergeMasks) -> Seq(G)] /\ t.max \in [Relax!MergeMasks -> Nat]
    BY <1>2 DEF ListsHold
  <2>2. t.lists \in [Relax!ListIds(Relax!MergeMasks) -> Seq(Rules)]
    <3>1. \A x \in Relax!ListIds(Relax!MergeMasks) : t.lists[x] \in Seq(G)
      BY <2>1
    <3>2. \A x \in Relax!ListIds(Relax!MergeMasks) : t.lists[x] \in Seq(Rules)
      BY <3>1, SeqMonotonic
    <3> QED BY <2>1, <3>2
  <2>3. t \in [tuples : Seq(Relax!MergeMasks), lists : [Relax!ListIds(Relax!MergeMasks) -> Seq(Rules)], max : [Relax!MergeMasks -> Nat]]
    BY <1>2, <2>1, <2>2
  <2> QED BY <1>2, <2>3
<1>3. ASSUME NEW i \in 1..n, NEW t \in V PROVE Relax!Merged(t, order[i]) \in V
  <2>1. PICK G \in SUBSET Rules : ListsHold(Relax!MergeMasks, t.tuples, t.lists, t.max, G)
    OBVIOUS
  <2> DEFINE r == order[i]
             u == Relax!Merged(t, r)
  <2>2. r \in Rules
    BY <1>1
  <2> HIDE DEF r, V
  <2>3. u = [tuples |-> u.tuples, lists |-> u.lists, max |-> u.max] /\ ListsHold(Relax!MergeMasks, u.tuples, u.lists, u.max, G \cup {r})
    BY <2>1, <2>2, MergedListed
  <2>4. G \cup {r} \in SUBSET Rules
    BY <2>2
  <2> HIDE DEF u
  <2> DEFINE H == G \cup {r}
  <2>5. H \in SUBSET Rules /\ ListsHold(Relax!MergeMasks, u.tuples, u.lists, u.max, H)
    BY <2>3, <2>4
  <2> HIDE DEF H
  <2>6. u \in V
    BY <1>2, <2>3, <2>5
  <2> QED BY <2>6 DEF u, r
<1>4. t0 \in V /\ ListsHold(Relax!MergeMasks, t0.tuples, t0.lists, t0.max, {})
  <2>1. ListsHold(Relax!MergeMasks, t0.tuples, t0.lists, t0.max, {}) /\ t0 = [tuples |-> t0.tuples, lists |-> t0.lists, max |-> t0.max]
    OBVIOUS
  <2> DEFINE G == {}
  <2>2. G \in SUBSET Rules /\ ListsHold(Relax!MergeMasks, t0.tuples, t0.lists, t0.max, G)
    BY <2>1
  <2> HIDE DEF t0, V, G
  <2>3. t0 \in V
    BY <1>2, <2>1, <2>2
  <2> QED BY <2>1, <2>3
<1>5. \A i \in 1..n : \A t \in V : step[i][t] \in V /\ step[i][t] = Relax!Merged(t, order[i])
  <2>1. \A i \in 1..n : \A t \in V : step[i][t] = Relax!Merged(t, order[i])
    <3> HIDE DEF V, n, order
    <3> QED OBVIOUS
  <2> HIDE DEF V, step, n, order
  <2> QED BY <1>3, <2>1
<1>6. PICK g : g \in Stepwise(n, V, t0, step)
  <2> HIDE DEF V, step, n, t0
  <2> QED BY <1>1, <1>4, <1>5, RecursionUpTo
<1>7. g \in [0..n -> V] /\ g[0] = t0 /\ \A i \in 1..n : g[i] = step[i][g[i - 1]]
  BY <1>6 DEF Stepwise
<1>8. merged' = merge[n].tuples /\ mergedLists' = merge[n].lists /\ mergedMax' = merge[n].max
  BY Zenon DEF Relax!Construct
<1> HIDE DEF V, step, order, n
<1>9. \A i \in 0..n : i # 0 => i \in 1..n /\ i - 1 \in 0..n
  BY <1>1
<1>10. \A i \in 0..n : i # 0 => g[i] = Relax!Merged(g[i - 1], order[i])
  <2> HIDE DEF t0
  <2> QED BY <1>5, <1>7, <1>9
<1>11. g = [i \in 0..n |-> IF i = 0 THEN [tuples |-> merged, lists |-> mergedLists, max |-> mergedMax] ELSE Relax!Merged(g[i - 1], order[i])]
  BY <1>7, <1>10
<1>12. merge = [i \in 0..n |-> IF i = 0 THEN [tuples |-> merged, lists |-> mergedLists, max |-> mergedMax] ELSE Relax!Merged(merge[i - 1], order[i])]
  BY <1>11
<1> HIDE DEF merge
<1>13. merge[0] = t0 /\ \A i \in 1..n : merge[i] = Relax!Merged(merge[i - 1], order[i])
  <2>1. 0 \in 0..n /\ \A i \in 1..n : i \in 0..n /\ i # 0
    BY <1>1
  <2> QED BY <1>12, <2>1
<1> HIDE DEF t0
<1> DEFINE S(i) == {order[j] : j \in 1..i}
           T == {i \in 0..n : ListsHold(Relax!MergeMasks, merge[i].tuples, merge[i].lists, merge[i].max, S(i))}
<1>14. 0 \in T
  <2>1. S(0) = {}
    OBVIOUS
  <2> HIDE DEF S
  <2>2. ListsHold(Relax!MergeMasks, merge[0].tuples, merge[0].lists, merge[0].max, S(0))
    BY <1>4, <1>13, <2>1
  <2> QED BY <1>1, <2>2
<1>15. ASSUME NEW i \in 0..(n - 1), i \in T PROVE i + 1 \in T
  <2>1. i + 1 \in 0..n /\ i + 1 \in 1..n /\ (i + 1) - 1 = i
    BY <1>1
  <2>2. merge[i + 1] = Relax!Merged(merge[i], order[i + 1])
    BY <1>13, <2>1
  <2>3. S(i + 1) = S(i) \cup {order[i + 1]}
    <3>1. \A j \in 1..(i + 1) : j \in 1..i \/ j = i + 1
      BY <2>1
    <3>2. \A j \in 1..i : j \in 1..(i + 1)
      BY <2>1
    <3>3. i + 1 \in 1..(i + 1)
      BY <2>1
    <3> QED BY <3>1, <3>2, <3>3
  <2>4. S(i) \in SUBSET Rules
    <3>1. \A j \in 1..i : j \in 1..n
      BY <1>1
    <3> QED BY <1>1, <3>1
  <2> DEFINE G == S(i)
             r == order[i + 1]
             t == merge[i]
             u == Relax!Merged(t, r)
  <2>5. ListsHold(Relax!MergeMasks, t.tuples, t.lists, t.max, G) /\ G \in SUBSET Rules /\ r \in Rules
    BY <1>1, <1>15, <2>1, <2>4
  <2> HIDE DEF S
  <2>6. ListsHold(Relax!MergeMasks, u.tuples, u.lists, u.max, G \cup {r})
    <3> HIDE DEF G, r, t
    <3> QED BY <2>5, MergedListed
  <2>7. ListsHold(Relax!MergeMasks, merge[i + 1].tuples, merge[i + 1].lists, merge[i + 1].max, S(i + 1))
    BY <2>2, <2>3, <2>6
  <2> QED BY <2>1, <2>7
<1>16. n \in T
  <2>1. n \in 0..n
    BY <1>1
  <2> HIDE DEF T
  <2> QED BY <1>1, <1>14, <1>15, <2>1, UpTo
<1>17. S(n) = FileRules
  BY DEF FileRules, order, n
<1> HIDE DEF S
<1>18. ListsHold(Relax!MergeMasks, merge[n].tuples, merge[n].lists, merge[n].max, FileRules)
  BY <1>16, <1>17
<1> QED BY <1>8, <1>18

\* A request to delete a rule finds no rule of action 0.
LEMMA TakeRuleIs ==
  ASSUME NEW M, NEW G \in SUBSET Rules, NEW ls \in [Relax!ListIds(M) -> Seq(G)],
         NEW m, NEW r \in Rules, <<m, Key(m, r.key)>> \in Relax!ListIds(M)
  PROVE  Relax!TakeRule(ls, m, r) = ls
<1> DEFINE y == <<m, Key(m, r.key)>>
           l == ls[y]
<1>1. l \in Seq(G) /\ \A i \in 1..Len(l) : l[i] \in Rules /\ Relax!Action(l[i]) # 0
  <2>1. l \in Seq(G)
    OBVIOUS
  <2> HIDE DEF l
  <2>2. \A i \in 1..Len(l) : l[i] \in Rules
    BY <2>1
  <2>3. \A i \in 1..Len(l) : Relax!Action(l[i]) # 0
    BY <2>2, RuleTypes DEF Relax!Action
  <2> QED BY <2>1, <2>2, <2>3
<1>2. {i \in 1..Len(l) : l[i].priority = r.priority /\ Relax!Action(l[i]) = 0} = {}
  BY <1>1
<1>3. Relax!XListWithout(l, r.priority, 0) = l
  <2> HIDE DEF l
  <2> QED BY <1>2, Zenon DEF Relax!XListWithout
<1>4. Relax!TakeRule(ls, m, r) = [ls EXCEPT ![y] = Relax!XListWithout(l, r.priority, 0)]
  BY DEF Relax!TakeRule, Relax!Key, Key
<1> HIDE DEF y
<1> QED BY <1>3, <1>4

LEMMA RelaxedInit == Init => RelaxedFiled
<1> SUFFICES ASSUME Init PROVE RelaxedFiled
  OBVIOUS
<1> DEFINE M == Relax!RangeMasks
           N == Relax!MergeMasks
           ts == Relax!RangeTuples
<1>1. /\ given = {} /\ gone = {} /\ lost = {} /\ merged = <<>>
      /\ rangeLists = [x \in Relax!ListIds(M) |-> <<>>] /\ rangeMax = [m \in M |-> 0]
      /\ mergedLists = [x \in Relax!ListIds(N) |-> <<>>] /\ mergedMax = [m \in N |-> 0]
  BY DEF Init, Relax!Init
<1>2. ts \in Seq(M) /\ <<>> \in Seq(N)
  BY RangeTuplesAre
<1> HIDE DEF M, N, ts
<1>3. ListsHold(M, ts, rangeLists, rangeMax, {}) /\ ListsHold(N, merged, mergedLists, mergedMax, {})
  BY <1>1, <1>2, EmptyListed
<1>4. given \cup gone = {} /\ (given \cup gone) \ lost = {}
  BY <1>1
<1> QED BY <1>3, <1>4 DEF RelaxedFiled, M, N, ts

LEMMA RelaxedNext == Given /\ Given' /\ RelaxedFiled /\ [Next]_vars => RelaxedFiled'
<1> SUFFICES ASSUME Given, Given', RelaxedFiled, [Next]_vars, unit' = "relax" PROVE RelaxedFiled'
  BY DEF RelaxedFiled
<1>0. unit = "relax"
  BY DEF Next, Construct, Insert, Delete, vars
<1> DEFINE M == Relax!RangeMasks
           N == Relax!MergeMasks
           ts == Relax!RangeTuples
           all == given \cup gone
<1>a. ListsHold(M, ts, rangeLists, rangeMax, all) /\ ListsHold(N, merged, mergedLists, mergedMax, all \ lost)
  BY <1>0 DEF RelaxedFiled
<1>b. all \in SUBSET Rules /\ all \ lost \in SUBSET Rules /\ lost \subseteq all
  BY DEF Given
<1>c. M \in SUBSET SUBSET Bits /\ N \in SUBSET SUBSET Bits
  BY RelaxedMasks
<1>1. CASE Construct
  <2>1. /\ Relax!Construct(setup.built) /\ given' = FileRules /\ gone' = {} /\ lost' = {}
        /\ all = {} /\ all \ lost = {}
    BY <1>0, <1>1 DEF Construct, Given
  <2>2. ListsHold(M, ts, rangeLists, rangeMax, {}) /\ ListsHold(N, merged, mergedLists, mergedMax, {})
    BY <1>a, <2>1
  <2>3. ListsHold(M, ts, rangeLists', rangeMax', FileRules) /\ ListsHold(N, merged', mergedLists', mergedMax', FileRules)
    BY <2>1, <2>2, RangeBuilt, MergeBuilt
  <2>4. given' \cup gone' = FileRules /\ (given' \cup gone') \ lost' = FileRules
    BY <2>1
  <2> HIDE DEF M, N, ts
  <2>5. ListsHold(M, ts, rangeLists', rangeMax', given' \cup gone') /\ ListsHold(N, merged', mergedLists', mergedMax', (given' \cup gone') \ lost')
    BY <2>3, <2>4
  <2> QED BY <2>5 DEF RelaxedFiled, M, N, ts
<1>2. ASSUME NEW r \in Rules, Insert(r) PROVE RelaxedFiled'
  <2> DEFINE into == Relax!MergedInto(merged, r)
             ok   == Relax!Accepting(merged, r)
             m    == Relax!RangeMask(r)
  <2>1. /\ Relax!insertRule(r) /\ given' \cup gone' = all \cup {r} /\ r \notin all
        /\ lost' = IF ok = {} THEN lost \cup {r} ELSE lost
    BY <1>0, <1>2 DEF Insert
  <2>2. /\ rangeLists' = Relax!PutRule(rangeLists, m, r) /\ rangeMax' = Relax!RaiseMax(rangeMax, m, r)
        /\ mergedLists' = [x \in DOMAIN mergedLists |->
                             IF x[1] \in into /\ x[2] = Relax!Key(x[1], r.key)
                             THEN Relax!XListWith(mergedLists[x], r) ELSE mergedLists[x]]
        /\ mergedMax' = [k \in DOMAIN mergedMax |->
                           IF k \in into /\ r.priority > mergedMax[k] THEN r.priority ELSE mergedMax[k]]
        /\ merged' = merged
    BY <2>1 DEF Relax!insertRule
  <2>3. ts \in Seq(M) /\ m \in M /\ m \subseteq r.mask /\ Has(ts, m)
    BY RangeTuplesAre, RangeMaskIs
  <2>4. ListsHold(M, ts, rangeLists', rangeMax', all \cup {r})
    <3>1. \A i \in 1..Len(ts) : i \in 1..Len(ts) /\ ts[i] = ts[i]
      OBVIOUS
    <3> HIDE DEF M, ts, m, all
    <3>2. ListsHold(M, ts, Relax!PutRule(rangeLists, m, r), Relax!RaiseMax(rangeMax, m, r), all \cup {r})
      BY <1>a, <1>b, <1>c, <2>3, <3>1, PutRuleListed
    <3> QED BY <2>2, <3>2
  <2>5. /\ merged \in Seq(N) /\ mergedLists \in [Relax!ListIds(N) -> Seq(all \ lost)] /\ mergedMax \in [N -> Nat]
    BY <1>a DEF ListsHold
  <2>6. /\ ok = {i \in 1..Len(merged) : Relax!Accepts(merged[i], r)}
        /\ into = {merged[i] : i \in ok}
    BY DEF Relax!Accepting, Relax!MergedInto
  <2>7. into \in SUBSET N /\ \A k \in into : k \subseteq r.mask
    <3>1. ASSUME NEW i \in ok PROVE merged[i] \in N /\ merged[i] \subseteq r.mask
      <4>1. i \in 1..Len(merged) /\ Relax!Accepts(merged[i], r)
        BY <2>6
      <4>2. merged[i] \in N
        BY <2>5, <4>1
      <4> QED BY <4>1, <4>2, AcceptedCovers
    <3> HIDE DEF into, ok, N
    <3> QED BY <2>6, <3>1
  <2>8. /\ mergedLists' = [x \in Relax!ListIds(N) |->
                             IF x[1] \in into /\ x[2] = Key(x[1], r.key)
                             THEN Relax!XListWith(mergedLists[x], r) ELSE mergedLists[x]]
        /\ mergedMax' = [k \in N |-> IF k \in into /\ r.priority > mergedMax[k] THEN r.priority ELSE mergedMax[k]]
    <3> HIDE DEF into, N, all
    <3>1. DOMAIN mergedLists = Relax!ListIds(N) /\ DOMAIN mergedMax = N
      BY <2>5
    <3>2. \A x : Relax!Key(x[1], r.key) = Key(x[1], r.key)
      BY DEF Relax!Key, Key
    <3> QED BY <2>2, <3>1, <3>2
  <2>9. ListsHold(N, merged', mergedLists', mergedMax', (all \cup {r}) \ lost')
    <3>1. CASE ok = {}
      <4>1. into = {}
        BY <2>6, <3>1
      <4>2. mergedLists' = mergedLists /\ mergedMax' = mergedMax
        <5> HIDE DEF into, N, all
        <5>1. /\ \A x \in Relax!ListIds(N) : mergedLists'[x] = mergedLists[x]
              /\ \A k \in N : mergedMax'[k] = mergedMax[k]
          BY <2>8, <4>1
        <5> QED BY <2>5, <2>8, <5>1
      <4>3. (all \cup {r}) \ lost' = all \ lost
        BY <2>1, <3>1
      <4> HIDE DEF N, all
      <4> QED BY <1>a, <2>2, <4>2, <4>3
    <3>2. CASE ok # {}
      <4> DEFINE G == all \ lost
      <4>1. (all \cup {r}) \ lost' = G \cup {r}
        BY <1>b, <2>1, <3>2
      <4>2. PICK i : i \in ok
        BY <3>2
      <4>3. i \in 1..Len(merged) /\ merged[i] \in into
        <5> HIDE DEF into, ok
        <5> QED BY <2>6, <4>2
      <4>4. G \in SUBSET Rules /\ ListsHold(N, merged, mergedLists, mergedMax, G)
        BY <1>a, <1>b
      <4>5. \A j \in 1..Len(merged) : j \in 1..Len(merged) /\ merged[j] = merged[j]
        OBVIOUS
      <4>6. \E j \in 1..Len(merged) : merged[j] \in into
        BY <4>3
      <4> HIDE DEF N, G, into, ok, all
      <4>7. ListsHold(N, merged, mergedLists', mergedMax', G \cup {r})
        <5> DEFINE s   == merged
                   ls  == mergedLists
                   mx  == mergedMax
                   ls2 == mergedLists'
                   mx2 == mergedMax'
        <5>1. /\ ListsHold(N, s, ls, mx, G) /\ s \in Seq(N)
              /\ \A j \in 1..Len(s) : j \in 1..Len(s) /\ s[j] = s[j]
              /\ \E j \in 1..Len(s) : s[j] \in into
          BY <2>5, <4>4, <4>6
        <5>2. /\ ls2 = [x \in Relax!ListIds(N) |->
                         IF x[1] \in into /\ x[2] = Key(x[1], r.key) THEN Relax!XListWith(ls[x], r) ELSE ls[x]]
              /\ mx2 = [k \in N |-> IF k \in into /\ r.priority > mx[k] THEN r.priority ELSE mx[k]]
          BY <2>8
        <5> HIDE DEF s, ls, mx, ls2, mx2
        <5>3. ListsHold(N, s, ls2, mx2, G \cup {r})
          BY <1>c, <2>7, <4>4, <5>1, <5>2, PutListed
        <5> QED BY <5>3 DEF s, ls2, mx2
      <4> QED BY <2>2, <4>1, <4>7
    <3> QED BY <3>1, <3>2
  <2> HIDE DEF M, N, ts, all, ok, into, m
  <2> QED BY <2>1, <2>4, <2>9 DEF RelaxedFiled, M, N, ts
<1>3. ASSUME NEW r \in Rules, Delete(r) PROVE RelaxedFiled'
  <2>1. Relax!deleteRule(r) /\ given' \cup gone' = all /\ lost' = lost
    BY <1>0, <1>3 DEF Delete
  <2>2. /\ rangeLists' = Relax!TakeRule(rangeLists, Relax!RangeMask(r), r) /\ rangeMax' = rangeMax
        /\ merged' = merged /\ mergedLists' = mergedLists /\ mergedMax' = mergedMax
    BY <2>1 DEF Relax!deleteRule
  <2>3. rangeLists \in [Relax!ListIds(M) -> Seq(all)]
    BY <1>a DEF ListsHold
  <2>4. rangeLists' = rangeLists
    <3> DEFINE m == Relax!RangeMask(r)
    <3>1. m \in M
      BY RangeMaskIs
    <3> HIDE DEF M, m, all
    <3>2. <<m, Key(m, r.key)>> \in Relax!ListIds(M)
      BY <1>c, <3>1, ListIdIs
    <3>3. Relax!TakeRule(rangeLists, m, r) = rangeLists
      BY <1>b, <2>3, <3>2, TakeRuleIs
    <3> QED BY <2>2, <3>3 DEF m
  <2> HIDE DEF M, N, ts, all
  <2> QED BY <1>a, <2>1, <2>2, <2>4 DEF RelaxedFiled, M, N, ts
<1>4. CASE UNCHANGED vars
  <2>1. /\ given' \cup gone' = all /\ lost' = lost /\ rangeLists' = rangeLists /\ rangeMax' = rangeMax
        /\ merged' = merged /\ mergedLists' = mergedLists /\ mergedMax' = mergedMax
    BY <1>4 DEF vars, relaxedVars
  <2> HIDE DEF M, N, ts, all
  <2> QED BY <1>a, <2>1 DEF RelaxedFiled, M, N, ts
<1> QED BY <1>1, <1>2, <1>3, <1>4 DEF Next

\* A rule that is best of many rules is best of some of them, if it is one.
LEMMA BestOfFewer ==
  ASSUME NEW T \in SUBSET Rules, IsFiniteSet(T), NEW S \in SUBSET T, NEW p,
         BestMatch(T, p) \in S \cup {NoRule}
  PROVE  BestMatch(S, p) = BestMatch(T, p)
<1> DEFINE b == BestMatch(T, p)
<1>1. CASE b = NoRule /\ \A q \in T : ~Matches(q, p)
  <2>1. \A q \in S : ~Matches(q, p)
    BY <1>1
  <2> QED BY <1>1, <2>1, NoBest
<1>2. CASE b \in T /\ Matches(b, p) /\ \A q \in T : Matches(q, p) => q.priority <= b.priority
  <2>1. b \in S
    BY <1>2, RulesAssumption
  <2> HIDE DEF b
  <2>2. BestMatch(S, p) = b
    BY <1>2, <2>1, BestIs
  <2> QED BY <2>2 DEF b
<1> QED BY <1>1, <1>2, BestCases

\* In a state that keeps this, range tuple search answers with the best of the
\* rules ever given, and tuple merge with the best of those that it accepted.
LEMMA RelaxedSearch ==
  ASSUME Given, RelaxedFiled, unit = "relax", NEW p \in Packets
  PROVE  /\ Relax!RangeAnswer(p) = BestMatch(given \cup gone, p)
         /\ Relax!MergeAnswer(p) = BestMatch((given \cup gone) \ lost, p)
<1> DEFINE M == Relax!RangeMasks
           N == Relax!MergeMasks
           ts == Relax!RangeTuples
           all == given \cup gone
           kept == all \ lost
<1>1. ListsHold(M, ts, rangeLists, rangeMax, all) /\ ListsHold(N, merged, mergedLists, mergedMax, kept)
  BY DEF RelaxedFiled
<1>2. all \in SUBSET Rules /\ kept \in SUBSET Rules /\ M \in SUBSET SUBSET Bits /\ N \in SUBSET SUBSET Bits
  BY RelaxedMasks DEF Given
<1>3. /\ Relax!RangeAnswer(p) = Relax!RelaxedAnswer(ts, rangeLists, rangeMax, p)
      /\ Relax!MergeAnswer(p) = Relax!RelaxedAnswer(merged, mergedLists, mergedMax, p)
  BY DEF Relax!RangeAnswer, Relax!MergeAnswer
<1> HIDE DEF M, N, ts, all, kept
<1>4. Relax!RelaxedAnswer(ts, rangeLists, rangeMax, p) = BestMatch(all, p)
  BY <1>1, <1>2, RelaxedAnswerIs
<1>5. Relax!RelaxedAnswer(merged, mergedLists, mergedMax, p) = BestMatch(kept, p)
  BY <1>1, <1>2, RelaxedAnswerIs
<1> QED BY <1>3, <1>4, <1>5 DEF all, kept

-----------------------------------------------------------------------------
(***************************************************************************)
(* The theorems.                                                           *)
(***************************************************************************)

\* The inductive invariant of a comparison, as far as it is proved.
ComparisonFiled == Given /\ PrunedFiled /\ RelaxedFiled

\* No tuples are pruned before the construction.
LEMMA PrunedInit == Init => PrunedFiled
<1> SUFFICES ASSUME Init PROVE PrunedFiled
  OBVIOUS
<1>1. given = {} /\ prunedTable = {} /\ prunedTuples = <<>> /\ maxTuples = 0
  BY DEF Init, Pruned!Init
<1>2. <<>> \in Seq(Masks) /\ OneEach(<<>>)
  BY DEF OneEach
<1> QED BY <1>1, <1>2 DEF PrunedFiled

\* Every state of a run files its rules where a search finds them: it holds
\* before the construction, and the construction and every update keep it
\* (benchmark.cpp run, updateSimulation).
THEOREM AlwaysFiled == Spec => []ComparisonFiled
<1>1. Init => ComparisonFiled
  BY GivenInit, PrunedInit, RelaxedInit DEF ComparisonFiled
<1>2. ComparisonFiled /\ [Next]_vars => ComparisonFiled'
  <2> SUFFICES ASSUME ComparisonFiled, [Next]_vars PROVE ComparisonFiled'
    OBVIOUS
  <2>1. Given'
    BY GivenNext DEF ComparisonFiled
  <2> QED BY <2>1, PrunedNext, RelaxedNext DEF ComparisonFiled
<1> QED BY <1>1, <1>2, PTL DEF Spec

\* Pruning the tuples by their fields never loses the best match, but one
\* whose tuple an update made with a number beyond the bit maps
\* (tss-pr.cpp:40).
THEOREM PruningKeepsAnswers == Spec => []PrunedAnswers
<1>1. ComparisonFiled => PrunedAnswers
  BY PrunedSearch DEF ComparisonFiled
<1> QED BY <1>1, AlwaysFiled, PTL

\* RangeTupleSpaceSearch always answers with the best match, unless a rule
\* that was deleted is better (rtss.cpp:167): leaving out the tuples whose
\* maximum is no better loses none.
THEOREM RangeAlwaysAnswers == Spec => []RangeAnswers
<1>1. ComparisonFiled => RangeAnswers
  <2> SUFFICES ASSUME ComparisonFiled, unit = "relax", NEW p \in Packets,
                      BestMatch(given \cup gone, p) \notin gone
               PROVE  Relax!RangeAnswer(p) = BestMatch(given, p)
    BY DEF RangeAnswers
  <2> DEFINE all == given \cup gone
  <2>1. Relax!RangeAnswer(p) = BestMatch(all, p)
    BY RelaxedSearch DEF ComparisonFiled
  <2>2. all \in SUBSET Rules /\ IsFiniteSet(all) /\ given \in SUBSET all
    BY FS_Union DEF ComparisonFiled, Given
  <2>3. BestMatch(all, p) \in given \cup {NoRule}
    BY <2>2, BestCases
  <2> HIDE DEF all
  <2>4. BestMatch(given, p) = BestMatch(all, p)
    BY <2>2, <2>3, BestOfFewer
  <2> QED BY <2>1, <2>4
<1> QED BY <1>1, AlwaysFiled, PTL

\* TupleMerge always answers with the best match, unless a rule that was
\* deleted is better (tm.cpp:98) or it is a rule that no tuple accepted when
\* it came (tm.cpp:86).
THEOREM MergeAlwaysAnswers == Spec => []MergeAnswers
<1>1. ComparisonFiled => MergeAnswers
  <2> SUFFICES ASSUME ComparisonFiled, unit = "relax", NEW p \in Packets,
                      BestMatch(given \cup (gone \ lost), p) \notin gone \cup lost
               PROVE  Relax!MergeAnswer(p) = BestMatch(given, p)
    BY DEF MergeAnswers
  <2> DEFINE all == given \cup (gone \ lost)
             kept == (given \cup gone) \ lost
  <2>1. Relax!MergeAnswer(p) = BestMatch(kept, p)
    BY RelaxedSearch DEF ComparisonFiled
  <2>2. all \in SUBSET Rules /\ given \in SUBSET all /\ kept \in SUBSET all
    BY DEF ComparisonFiled, Given
  <2>3. IsFiniteSet(all)
    <3>1. IsFiniteSet(given) /\ IsFiniteSet(gone \ lost)
      BY FS_Subset DEF ComparisonFiled, Given
    <3> QED BY <3>1, FS_Union
  <2>4. BestMatch(all, p) \in given \cup {NoRule} /\ BestMatch(all, p) \in kept \cup {NoRule}
    BY <2>2, <2>3, BestCases
  <2> HIDE DEF all, kept
  <2>5. BestMatch(given, p) = BestMatch(all, p)
    BY <2>2, <2>3, <2>4, BestOfFewer
  <2>6. BestMatch(kept, p) = BestMatch(all, p)
    BY <2>2, <2>3, <2>4, BestOfFewer
  <2> QED BY <2>1, <2>5, <2>6
<1> QED BY <1>1, AlwaysFiled, PTL
=============================================================================
