----------------------------- MODULE NatExtrema -----------------------------
(***************************************************************************)
(* Least and greatest elements of sets of naturals, from the theorem that  *)
(* strict inclusion is well founded on finite sets.  The proofs about the  *)
(* chain need them where the code takes "the nearest" tuple of several.    *)
(***************************************************************************)
EXTENDS Integers, FiniteSetTheorems, TLAPS

\* Among non-empty finite sets there is one that contains no other strictly.
LEMMA MinimalSet ==
  ASSUME NEW S, NEW F, F \subseteq FiniteSubsetsOf(S), F # {}
  PROVE  \E A \in F : \A B \in F : ~(B \subseteq A /\ B # A)
<1>1. IsWellFoundedOn(StrictSubsetOrdering(S), FiniteSubsetsOf(S))
  BY FS_StrictSubsetOrderingWellFounded
<1>2. PICK A \in F : \A B \in F : ~(<<B, A>> \in StrictSubsetOrdering(S))
  BY <1>1, WFMin, Zenon
<1>3. \A B \in F : B \in SUBSET S
  BY DEF FiniteSubsetsOf
<1> QED BY <1>2, <1>3 DEF StrictSubsetOrdering

\* A non-empty set of naturals has a least element.
LEMMA LeastNat ==
  ASSUME NEW T \in SUBSET Nat, T # {}
  PROVE  \E x \in T : \A y \in T : x <= y
<1> DEFINE Up == {0..t : t \in T}
<1>1. Up # {}
  OBVIOUS
<1>2. Up \in SUBSET FiniteSubsetsOf(Nat)
  <2> SUFFICES ASSUME NEW t \in T PROVE 0..t \in FiniteSubsetsOf(Nat)
    OBVIOUS
  <2>1. t \in Nat
    OBVIOUS
  <2>2. IsFiniteSet(0..t)
    BY <2>1, FS_Interval
  <2> QED BY <2>1, <2>2 DEF FiniteSubsetsOf
<1>3. \E A \in Up : \A B \in Up : ~(B \subseteq A /\ B # A)
  <2>1. Up \subseteq FiniteSubsetsOf(Nat)
    BY <1>2
  <2> HIDE DEF Up
  <2> QED BY <1>1, <2>1, MinimalSet
<1>4. PICK x \in T : \A B \in Up : ~(B \subseteq 0..x /\ B # 0..x)
  BY <1>3
<1>5. ASSUME NEW y \in T PROVE x <= y
  <2>1. x \in Nat /\ y \in Nat
    OBVIOUS
  <2>2. 0..y \in Up
    OBVIOUS
  <2>3. ~((0..y) \subseteq (0..x) /\ (0..y) # (0..x))
    BY <1>4, <2>2
  <2>4. CASE y < x
    <3>1. (0..y) \subseteq (0..x)
      BY <2>1, <2>4
    <3>2. x \in 0..x /\ x \notin 0..y
      BY <2>1, <2>4
    <3> QED BY <2>3, <3>1, <3>2
  <2> QED BY <2>1, <2>4
<1> QED BY <1>5

\* A non-empty set of naturals with a bound has a greatest element.
LEMMA GreatestNat ==
  ASSUME NEW n \in Nat, NEW T \in SUBSET (0..n), T # {}
  PROVE  \E x \in T : \A y \in T : y <= x
<1> DEFINE D == {n - t : t \in T}
<1>1. D \in SUBSET Nat /\ D # {}
  <2>1. \A t \in T : t \in 0..n
    OBVIOUS
  <2>2. \A t \in T : n - t \in Nat
    BY <2>1
  <2> QED BY <2>2
<1>2. PICK d \in D : \A e \in D : d <= e
  BY <1>1, LeastNat
<1>3. PICK x \in T : d = n - x
  OBVIOUS
<1>4. ASSUME NEW y \in T PROVE y <= x
  <2>1. n - y \in D
    OBVIOUS
  <2>2. n - x <= n - y
    BY <1>2, <1>3, <2>1
  <2> QED BY <2>2
<1> QED BY <1>4

-----------------------------------------------------------------------------
(***************************************************************************)
(* Induction up to a bound, for sets of numbers, and the functions that    *)
(* are defined by recursion up to it.                                      *)
(***************************************************************************)

\* A set that has 0 and with each number below n the next one has all up to n.
LEMMA UpTo ==
  ASSUME NEW n \in Nat, NEW T, 0 \in T, \A k \in 0..(n - 1) : k \in T => k + 1 \in T
  PROVE  \A k \in 0..n : k \in T
<1> DEFINE M == {k \in 0..n : k \notin T}
<1> SUFFICES ASSUME M # {} PROVE FALSE
  OBVIOUS
<1>1. M \in SUBSET Nat
  OBVIOUS
<1>2. PICK m \in M : \A k \in M : m <= k
  <2> HIDE DEF M
  <2> QED BY <1>1, LeastNat
<1>3. m \in 0..n /\ m \notin T /\ m # 0
  OBVIOUS
<1>4. m - 1 \in 0..(n - 1) /\ m - 1 \in 0..n /\ ~(m <= m - 1) /\ (m - 1) + 1 = m
  BY <1>3
<1>5. m - 1 \in T
  <2> SUFFICES ASSUME m - 1 \notin T PROVE FALSE
    OBVIOUS
  <2>1. m - 1 \in M
    BY <1>4
  <2> HIDE DEF M
  <2> QED BY <1>2, <1>4, <2>1
<1> HIDE DEF M
<1> QED BY <1>3, <1>4, <1>5

\* The functions with first value a, and step[k] from the value at k - 1 to the
\* value at k.
Stepwise(n, V, a, step) ==
  {f \in [0..n -> V] : f[0] = a /\ \A k \in 1..n : f[k] = step[k][f[k - 1]]}

\* There is one.
LEMMA RecursionUpTo ==
  ASSUME NEW n \in Nat, NEW V, NEW a \in V, NEW step, \A k \in 1..n : \A v \in V : step[k][v] \in V
  PROVE  \E f : f \in Stepwise(n, V, a, step)
<1> DEFINE Is(f, m) == /\ f \in [0..m -> V] /\ f[0] = a
                       /\ \A k \in 1..m : f[k] = step[k][f[k - 1]]
           T == {m \in 0..n : \E f : Is(f, m)}
<1>1. 0 \in T
  <2>1. Is([k \in 0..0 |-> a], 0)
    OBVIOUS
  <2> HIDE DEF Is
  <2> QED BY <2>1
<1>2. ASSUME NEW m \in 0..(n - 1), m \in T PROVE m + 1 \in T
  <2>1. PICK f : Is(f, m)
    BY <1>2
  <2> DEFINE g == [k \in 0..(m + 1) |-> IF k = m + 1 THEN step[m + 1][f[m]] ELSE f[k]]
  <2>2. m + 1 \in 1..n /\ m \in 0..m /\ f[m] \in V
    BY <2>1
  <2>3. step[m + 1][f[m]] \in V
    BY <2>2
  <2>4. \A k \in 0..(m + 1) : k = m + 1 \/ (k \in 0..m /\ k # m + 1)
    BY <2>2
  <2>5. g \in [0..(m + 1) -> V]
    <3>1. \A k \in 0..m : f[k] \in V
      BY <2>1
    <3> QED BY <2>3, <2>4, <3>1
  <2>6. g[m + 1] = step[m + 1][f[m]] /\ \A k \in 0..m : g[k] = f[k]
    BY <2>2
  <2>7. g[0] = a
    BY <2>1, <2>2, <2>6
  <2> HIDE DEF g
  <2>8. ASSUME NEW k \in 1..(m + 1) PROVE g[k] = step[k][g[k - 1]]
    <3>1. CASE k = m + 1
      <4>1. k - 1 = m
        BY <2>2, <3>1
      <4> QED BY <2>2, <2>6, <3>1, <4>1
    <3>2. CASE k # m + 1
      <4>1. k \in 1..m /\ k \in 0..m /\ k - 1 \in 0..m
        BY <2>2, <3>2
      <4> QED BY <2>1, <2>6, <4>1
    <3> QED BY <3>1, <3>2
  <2>9. Is(g, m + 1)
    BY <2>5, <2>7, <2>8
  <2>10. m + 1 \in 0..n
    BY <2>2
  <2> HIDE DEF Is
  <2> QED BY <2>9, <2>10
<1>3. n \in T
  <2>1. n \in 0..n
    OBVIOUS
  <2> HIDE DEF T
  <2> QED BY <1>1, <1>2, <2>1, UpTo
<1> QED BY <1>3 DEF Stepwise

=============================================================================
