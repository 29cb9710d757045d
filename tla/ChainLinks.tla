----------------------------- MODULE ChainLinks -----------------------------
(***************************************************************************)
(* class/tuple-chain.cpp without its state: where a tuple joins a chain,   *)
(* what its joining does to the entries, and the tree a search descends.   *)
(***************************************************************************)
EXTENDS MarkedTuple

-----------------------------------------------------------------------------
(***************************************************************************)
(* insertTuple.                                                            *)
(***************************************************************************)

\* The first loop stops at level i: the tuples before it cover mask m.
IsSlot(c, m, i) ==
  /\ \A j \in 1..(i - 1) : Cover(c[j], m)
  /\ i <= Len(c) => ~Cover(c[i], m)

\* Mutant of Fits: no tuple is refused.
FitsAlways(c, m, i) == TRUE

Fits(c, m, i) == i <= Len(c) => Cover(m, c[i])

\* The second loop shifts the tuples from level i on.
Shift(c, m, i) ==
  [j \in 1..(Len(c) + 1) |-> IF j < i THEN c[j] ELSE IF j = i THEN m ELSE c[j - 1]]

\* Mutant of Link: the tuple after leaves no markers in the new one.
LinkBefore(c, e, i) == LeaveMarkers(c, e, i)

\* CHAINING_TUPLES with the tuple before, then with the tuple after.
Link(c, e, i) ==
  LET linked == LeaveMarkers(c, e, i)
  IN  IF i < Len(c) THEN LeaveMarkers(c, linked, i + 1) ELSE linked

\* A tuple's entries before it is in a chain: its rules, no marker.
Filled(e, F) ==
  [x \in Ids |->
     IF \E r \in F : x = <<r.mask, r.key>>
     THEN [Absent EXCEPT !.bits = {RULE}, !.inTable = TRUE,
                         !.rule = CHOOSE r \in F : x = <<r.mask, r.key>>]
     ELSE e[x]]

-----------------------------------------------------------------------------
(***************************************************************************)
(* The links succ and fail are those getOptTuple sets, for the whole chain,*)
(* whenever a tuple is inserted: the subtree of the levels l .. h - 1 has  *)
(* its middle as root, what is above the middle as succ and what is below  *)
(* it as fail.  The head is the root of the whole chain and has no fail.   *)
(* A null link is an empty interval.                                       *)
(***************************************************************************)
\* Mutant of Root: the subtrees are lists.
RootFirst(l, h) == l

Root(l, h) == IF l = 1 THEN 1 ELSE (l + h) \div 2

-----------------------------------------------------------------------------
(***************************************************************************)
(* For the properties.                                                     *)
(***************************************************************************)

\* In the first n tuples of c, whatever m_entries lists has a marker for it
\* in the table of every shorter tuple.
MarkedBelow(c, e, n) ==
  \A j \in 1..n : \A k \in ListedKeys(e, c[j]) : \A i \in 1..(j - 1) :
    e[Id(c, i, k)].inTable /\ MARKER \in e[Id(c, i, k)].bits

=============================================================================
