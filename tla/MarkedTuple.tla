---------------------------- MODULE MarkedTuple ----------------------------
(***************************************************************************)
(* class/marked-tuple.cpp: the entries of the tuples of a chain, and what  *)
(* inserting, erasing and leaving markers does to them.                    *)
(*                                                                         *)
(* A chain c is the sequence of the masks of its tuples, and level i is    *)
(* the tuple c[i], whose prev is c[i - 1].  All entries of all tuples are  *)
(* in one function ent: ent[<<m, k>>] is what tuple m holds for key k.     *)
(* Entry pointers (owners) are such pairs.  The recursions of the code go  *)
(* down the chain (insertMarker) or up along owners (refresh); they are    *)
(* written in closed form, as the set of entries they visit.               *)
(***************************************************************************)
EXTENDS RuleSpace, Sequences, FiniteSetsExt

CONSTANT Threshold   \* m_threshold: up to so many entries are scanned

ASSUME ThresholdAssumption == Threshold \in Nat

\* The rule files are written from a sorted set of match fields: every match
\* occurs once, and a more specific rule comes later, with the position in the
\* file as its priority.
ASSUME DistinctRules == DistinctIn(Rules)
ASSUME NestedPriority == NestedIn(Rules)

Ids == {x \in Masks \X SUBSET Bits : x[2] \subseteq x[1]}

(***************************************************************************)
(* An entry.  bits and rule are the fields type and rule; inTable says     *)
(* that m_table maps the key to it.  dead counts the earlier entries with  *)
(* this key that erase removed from m_table: they stay in m_entries for    *)
(* ever, with type 0 and a null rule, in front of the live one.            *)
(***************************************************************************)
RULE   == "RULE"
MARKER == "MARKER"

Entries == [bits : SUBSET {RULE, MARKER}, rule : Rules \cup {NoRule},
            owners : SUBSET Ids, inTable : BOOLEAN, dead : Nat]

Absent == [bits |-> {}, rule |-> NoRule, owners |-> {}, inTable |-> FALSE, dead |-> 0]

Id(c, j, k) == <<c[j], Key(c[j], k)>>

Pure(e)   == e.bits = {MARKER}
Listed(e) == e.inTable \/ e.dead > 0

\* The keys of m_entries of tuple m.
ListedKeys(ent, m) == {k \in SUBSET m : Listed(ent[<<m, k>>])}

-----------------------------------------------------------------------------
(***************************************************************************)
(* insertMarker.                                                           *)
(***************************************************************************)

\* Mutant of GoesDownTo: no recursion, a marker in prev only.
PrevOnly(c, ent, i, k, j) == j = i - 1

\* The call for the entry of key k at level i goes down as far as level j.
GoesDownTo(c, ent, i, k, j) ==
  \A l \in (j + 1)..(i - 1) : ~ent[Id(c, l, k)].inTable

\* The owners that the calls for the keys K of level i add to entry x.
NewOwners(c, ent, i, K, x) ==
  UNION { {Id(c, j + 1, k) : k \in {q \in K : Id(c, j, q) = x /\ GoesDownTo(c, ent, i, q, j)}}
          : j \in 1..(i - 1) }

\* The levels below entry x that have an entry for x's key in their table.
TableLevelsBelow(c, ent, x) ==
  {h \in 1..Len(c) : /\ Cover(c[h], x[1]) /\ c[h] # x[1]
                     /\ ent[Id(c, h, x[2])].inTable}

\* The rule that prev->insertMarker returns for a new marker x: the one of
\* the nearest of these entries, handed up through the new markers between.
RuleBelow(c, ent, x) ==
  LET levels == TableLevelsBelow(c, ent, x)
  IN  IF levels = {} THEN NoRule ELSE ent[Id(c, Max(levels), x[2])].rule

\* Mutant of InsertMarkers: an entry that exists does not get the owner.
InsertMarkersNoOwner(c, ent, i, K) ==
  [x \in Ids |->
     LET own == NewOwners(c, ent, i, K, x)
     IN  IF own = {} THEN ent[x]
         ELSE IF ent[x].inTable THEN [ent[x] EXCEPT !.bits = @ \cup {MARKER}]
         ELSE [ent[x] EXCEPT !.bits    = @ \cup {MARKER},
                             !.owners  = @ \cup own,
                             !.rule    = RuleBelow(c, ent, x),
                             !.inTable = TRUE]]

InsertMarkers(c, ent, i, K) ==
  [x \in Ids |->
     LET own == NewOwners(c, ent, i, K, x)
     IN  IF own = {} THEN ent[x]
         ELSE [ent[x] EXCEPT !.bits    = @ \cup {MARKER},
                             !.owners  = @ \cup own,
                             !.rule    = IF ent[x].inTable THEN @ ELSE RuleBelow(c, ent, x),
                             !.inTable = TRUE]]

-----------------------------------------------------------------------------
(***************************************************************************)
(* Entry::refresh: the rule travels along owners from marker to marker     *)
(* and stops at every entry that has a rule of its own.                    *)
(***************************************************************************)

\* Mutant of Reaches: a refresh does not stop at an entry with a rule.
ReachesRules(c, ent, i, x) ==
  \E L \in SUBSET (i..Len(c)) :
    /\ i \in L
    /\ \E h \in L : c[h] = x[1]
    /\ \A l \in L :
         l = i \/ \E l0 \in L : l0 < l /\ Id(c, l, x[2]) \in ent[Id(c, l0, x[2])].owners

\* A refresh of the entry below x at level i arrives at x, by the levels L.
Reaches(c, ent, i, x) ==
  \E L \in SUBSET (i..Len(c)) :
    /\ i \in L
    /\ \E h \in L : c[h] = x[1]
    /\ \A l \in L :
         /\ Pure(ent[Id(c, l, x[2])])
         /\ l = i \/ \E l0 \in L : l0 < l /\ Id(c, l, x[2]) \in ent[Id(c, l0, x[2])].owners

\* The entries of level i with a key in K are refreshed with newRule[key].
Refresh(c, ent, i, K, newRule) ==
  [x \in Ids |->
     IF Key(c[i], x[2]) \in K /\ Reaches(c, ent, i, x)
     THEN [ent[x] EXCEPT !.rule = newRule[Key(c[i], x[2])]]
     ELSE ent[x]]

-----------------------------------------------------------------------------
(***************************************************************************)
(* The operations of a tuple, at level i of chain c.                       *)
(***************************************************************************)

\* Mutant of LeaveMarkers: the entries do not take over the marker's rule.
LeaveMarkersNoRefresh(c, ent, i) ==
  IF i = 1 THEN ent ELSE InsertMarkers(c, ent, i, ListedKeys(ent, c[i]))

\* leaveMarkers: every entry of m_entries, the dead ones too, gets its
\* marker in prev and takes over that marker's rule.
LeaveMarkers(c, ent, i) ==
  IF i = 1 THEN ent
  ELSE LET K      == ListedKeys(ent, c[i])
           marked == InsertMarkers(c, ent, i, K)
       IN  Refresh(c, marked, i, K, [k \in K |-> marked[Id(c, i - 1, k)].rule])

NewEntry(ent, r) ==
  [ent EXCEPT ![<<r.mask, r.key>>].bits    = {RULE},
              ![<<r.mask, r.key>>].rule    = r,
              ![<<r.mask, r.key>>].inTable = TRUE]

\* setRule: the type has its RULE bit when refresh is called, so that
\* refresh returns at once and no owner hears of the rule.
SetRule(c, ent, i, r) ==
  LET x   == <<r.mask, r.key>>
      set == [ent EXCEPT ![x].bits = @ \cup {RULE}, ![x].rule = r]
  IN  Refresh(c, set, i, {r.key}, [k \in {r.key} |-> r])

\* insert
InsertAt(c, ent, i, r) ==
  IF ent[<<r.mask, r.key>>].inTable
  THEN SetRule(c, ent, i, r)
  ELSE LET new == NewEntry(ent, r)
       IN  IF i = 1 THEN new ELSE InsertMarkers(c, new, i, {r.key})

\* Mutant of EraseAt: the entry takes no rule over from its marker in prev.
EraseAtNoMarker(c, ent, i, r) ==
  LET x       == <<r.mask, r.key>>
      cleared == [ent EXCEPT ![x].bits = @ \ {RULE}, ![x].rule = NoRule]
      fresh   == Refresh(c, cleared, i, {r.key}, [k \in {r.key} |-> NoRule])
  IN  IF fresh[x].owners = {}
      THEN [fresh EXCEPT ![x].inTable = FALSE, ![x].dead = @ + 1]
      ELSE fresh

\* Mutant of EraseAt: the entry is never taken out of the table.
EraseAtKeeps(c, ent, i, r) ==
  LET x       == <<r.mask, r.key>>
      cleared == [ent EXCEPT ![x].bits = @ \ {RULE}, ![x].rule = NoRule]
      marker  == IF i = 1 THEN x ELSE Id(c, i - 1, r.key)
  IN  Refresh(c, cleared, i, {r.key}, [k \in {r.key} |-> cleared[marker].rule])

\* erase, once the entry is known to hold this rule
EraseAt(c, ent, i, r) ==
  LET x       == <<r.mask, r.key>>
      cleared == [ent EXCEPT ![x].bits = @ \ {RULE}, ![x].rule = NoRule]
      marker  == IF i = 1 THEN x ELSE Id(c, i - 1, r.key)
      fresh   == Refresh(c, cleared, i, {r.key}, [k \in {r.key} |-> cleared[marker].rule])
  IN  IF fresh[x].owners = {}
      THEN [fresh EXCEPT ![x].inTable = FALSE, ![x].dead = @ + 1]
      ELSE fresh

HoldsRule(ent, r) ==
  LET e == ent[<<r.mask, r.key>>]
  IN  e.inTable /\ RULE \in e.bits /\ e.rule = r

-----------------------------------------------------------------------------
(***************************************************************************)
(* searchEntry.                                                            *)
(***************************************************************************)

\* m_entries.size(), which never shrinks
NumEntries(ent, m) ==
  MapThenSumSet(LAMBDA k : ent[<<m, k>>].dead + (IF ent[<<m, k>>].inTable THEN 1 ELSE 0),
                SUBSET m)

\* m_searchTable, latched once m_entries has grown past the threshold
SearchTable(ent, m) == NumEntries(ent, m) > Threshold

\* A scan meets the oldest entry with the key first, dead or not.
HitsDead(ent, x) == ~SearchTable(ent, x[1]) /\ ent[x].dead > 0

Hit(ent, x) == ent[x].inTable \/ HitsDead(ent, x)

HitRule(ent, x)   == IF HitsDead(ent, x) THEN NoRule ELSE ent[x].rule
HitMarker(ent, x) == ~HitsDead(ent, x) /\ MARKER \in ent[x].bits

=============================================================================
