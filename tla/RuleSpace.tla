----------------------------- MODULE RuleSpace -----------------------------
(***************************************************************************)
(* The data every classifier of the library works on: masks, keys, packets *)
(* and rules (packet-classification.hpp), and the two bit operations the    *)
(* classifiers are built from.                                             *)
(*                                                                         *)
(* A multi-field bit vector is the set of the positions of its one bits.   *)
(* The field-by-field "key & mask" of the code is then intersection, and   *)
(* its "(m1 & m2) == m1" is inclusion.                                     *)
(***************************************************************************)
EXTENDS Integers, FiniteSets

CONSTANTS
  Bits,    \* the bit positions of all fields together
  Masks,   \* the masks that may occur: a tuple is identified by its mask
  Rules,   \* the rules that may occur: records with mask, key, priority
  NoRule   \* the null rule pointer, and a classifier's default rule

\* A bit vector has a fixed number of fields of 32 bits.
ASSUME BitsAssumption == IsFiniteSet(Bits)

ASSUME MasksAssumption == Masks \subseteq SUBSET Bits

\* A rule's fields have no bit outside its masks.
ASSUME RulesAssumption ==
  /\ NoRule \notin Rules
  /\ \A r \in Rules : /\ r.mask \in Masks
                      /\ r.key \in SUBSET r.mask
                      /\ r.priority \in Nat

Packets == SUBSET Bits

Key(m, p) == p \cap m

Cover(m1, m2) == m1 \subseteq m2

Matches(r, p) == Key(r.mask, p) = r.key

\* No two rules of S have the same masks and fields.
DistinctIn(S) == \A r, s \in S : (r.mask = s.mask /\ r.key = s.key) => r = s

\* Of two nested rules of S the more specific one has the higher priority.
NestedIn(S) ==
  \A r, s \in S :
    (r # s /\ Cover(r.mask, s.mask) /\ Matches(r, s.key)) => r.priority < s.priority

\* UPDATE_BEST_RULE: NoRule stands for the default rule, of priority -1.
Better(best, r) ==
  IF r # NoRule /\ (best = NoRule \/ best.priority < r.priority) THEN r ELSE best

\* The answer of a linear scan of S: a matching rule of highest priority.
BestMatch(S, p) ==
  LET hits == {r \in S : Matches(r, p)}
  IN  IF hits = {} THEN NoRule
      ELSE CHOOSE r \in hits : \A s \in hits : s.priority <= r.priority

=============================================================================
