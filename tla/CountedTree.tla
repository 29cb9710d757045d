---------------------------- MODULE CountedTree ----------------------------
(***************************************************************************)
(* class/ll-rb-tree.hpp: a red-black tree of numbers whose nodes count     *)
(* the insertions that passed them.                                        *)
(*                                                                         *)
(* A tree t is a record: the root, and for every node its data, color,     *)
(* count, parent and two children, kid[s] for a side s.  Each function of  *)
(* the code that has a mirror image is one operator with a side.           *)
(***************************************************************************)
EXTENDS Integers, FiniteSets

CONSTANT MaxNodes   \* bound of the model: the nodes there is memory for

ASSUME MaxNodesAssumption == MaxNodes \in Nat

Nodes == 1..MaxNodes
Nil   == 0
Sides == {"left", "right"}

RED          == "RED"
BLACK        == "BLACK"
DOUBLE_BLACK == "DOUBLE_BLACK"

Other(s) == CHOOSE o \in Sides : o # s

\* A pointer is followed or written only when it is not null.
Put(f, x, v) == IF x = Nil THEN f ELSE [f EXCEPT ![x] = v]

getColor(t, x)    == IF x = Nil THEN BLACK ELSE t.color[x]
setColor(t, x, c) == [t EXCEPT !.color = Put(@, x, c)]
SideOf(t, x)      == CHOOSE s \in Sides : t.kid[s][t.parent[x]] = x

\* Every data is positive: a node whose data is 0 is not allocated.
EmptyTree ==
  [root   |-> Nil,
   data   |-> [x \in Nodes |-> 0],
   color  |-> [x \in Nodes |-> RED],
   count  |-> [x \in Nodes |-> 0],
   parent |-> [x \in Nodes |-> Nil],
   kid    |-> [s \in Sides |-> [x \in Nodes |-> Nil]]]

Colors   == {RED, BLACK, DOUBLE_BLACK}
Pointers == {Nil} \cup Nodes

\* The trees of well-typed nodes: a link is null or leads to a node.
Trees ==
  [root   : Pointers,
   data   : [Nodes -> Nat],
   color  : [Nodes -> Colors],
   count  : [Nodes -> Int],
   parent : [Nodes -> Pointers],
   kid    : [Sides -> [Nodes -> Pointers]]]

\* minValueNode and maxValueNode: a walk down has at most MaxNodes steps.
Extreme(t, x, s) ==
  LET at[i \in 0..MaxNodes] ==
        IF i = 0 THEN x
        ELSE IF t.kid[s][at[i - 1]] = Nil THEN at[i - 1] ELSE t.kid[s][at[i - 1]]
  IN  at[MaxNodes]

\* rotateLeft (s = "left") and rotateRight: the child on the other side takes
\* the place of the node, and hands it the child between them.
RotatedKids(t, x, s) ==
  LET c     == t.kid[Other(s)][x]
      below == [t.kid EXCEPT ![Other(s)][x] = t.kid[s][c], ![s][c] = x]
  IN  IF t.parent[x] = Nil THEN below ELSE [below EXCEPT ![SideOf(t, x)][t.parent[x]] = c]

RotatedParents(t, x, s) ==
  LET c == t.kid[Other(s)][x]
  IN  [Put(t.parent, t.kid[s][c], x) EXCEPT ![c] = t.parent[x], ![x] = c]

Rotate(t, x, s) ==
  [t EXCEPT !.root   = IF t.parent[x] = Nil THEN t.kid[Other(s)][x] ELSE @,
            !.parent = RotatedParents(t, x, s),
            !.kid    = RotatedKids(t, x, s)]

-----------------------------------------------------------------------------
(***************************************************************************)
(* Insertion.                                                              *)
(***************************************************************************)

\* One round of the loop of fixInsertRBTree, unless it has come to its end.
RedRedRound(c) ==
  LET t           == c.tree
      ptr         == c.ptr
      parent      == t.parent[ptr]
      grandparent == t.parent[parent]
      s           == SideOf(t, parent)
      uncle       == t.kid[Other(s)][grandparent]
      bent        == ptr = t.kid[Other(s)][parent]
      mid         == IF bent THEN ptr ELSE parent
      straight    == IF bent THEN Rotate(t, parent, s) ELSE t
      turned      == Rotate(straight, grandparent, Other(s))
  IN  IF ptr = t.root \/ getColor(t, ptr) # RED \/ getColor(t, parent) # RED THEN c
      ELSE IF getColor(t, uncle) = RED
      THEN [tree |-> [t EXCEPT !.color[uncle] = BLACK, !.color[parent] = BLACK,
                               !.color[grandparent] = RED],
            ptr  |-> grandparent]
      ELSE [tree |-> [turned EXCEPT !.color[mid] = t.color[grandparent],
                                    !.color[grandparent] = t.color[mid]],
            ptr  |-> mid]

\* The loop, which goes up with every round.
FixRedRed(t, ptr) ==
  LET after[i \in 0..MaxNodes] ==
        IF i = 0 THEN [tree |-> t, ptr |-> ptr] ELSE RedRedRound(after[i - 1])
  IN  after[MaxNodes].tree

\* Mutant of fixInsertRBTree: nothing is repaired.
fixInsertNothing(t, ptr) == setColor(t, t.root, BLACK)

fixInsertRBTree(t, ptr) ==
  LET fixed == FixRedRed(t, ptr) IN setColor(fixed, fixed.root, BLACK)

\* The nodes that insertBST visits on its way to d.
PathTo(t, d) ==
  LET at[i \in 0..MaxNodes] ==
        IF i = 0 THEN t.root
        ELSE IF at[i - 1] = Nil \/ d = t.data[at[i - 1]] THEN Nil
        ELSE t.kid[IF d < t.data[at[i - 1]] THEN "left" ELSE "right"][at[i - 1]]
  IN  {at[i] : i \in 0..MaxNodes} \ {Nil}

\* There is memory for one more node.
Room(t) == \E x \in Nodes : t.data[x] = 0

\* insert: a new node below the last node of the path, unless one of the path
\* has the data; every node of the path counts one more.
Insert(t, d) ==
  LET path    == PathTo(t, d)
      side(x) == IF d < t.data[x] THEN "left" ELSE "right"
      new     == CHOOSE x \in Nodes : t.data[x] = 0
      last    == {x \in path : t.data[x] # d /\ t.kid[side(x)][x] = Nil}
      counted == [t EXCEPT !.count = [x \in Nodes |-> IF x \in path THEN @[x] + 1 ELSE @[x]]]
      node    == [counted EXCEPT !.data[new] = d, !.count[new] = 1, !.color[new] = RED]
  IN  IF path = {} THEN fixInsertRBTree([node EXCEPT !.root = new], new)
      ELSE IF last = {} THEN setColor(counted, t.root, BLACK)
      ELSE LET x == CHOOSE y \in last : TRUE
           IN  fixInsertRBTree([node EXCEPT !.parent[new] = x, !.kid[side(x)][x] = new], new)

-----------------------------------------------------------------------------
(***************************************************************************)
(* Deletion.                                                               *)
(***************************************************************************)

\* One call of deleteBST for data at the node at; node is what it returns.
DeleteStep(c) ==
  LET t    == c.tree
      x    == c.at
      less == [t EXCEPT !.count[x] = @ - 1]
      next == t.data[Extreme(t, t.kid["right"][x], "left")]
  IN  IF x = Nil THEN c
      ELSE IF c.data < t.data[x] THEN [c EXCEPT !.at = t.kid["left"][x]]
      ELSE IF c.data > t.data[x] THEN [c EXCEPT !.at = t.kid["right"][x]]
      ELSE IF less.count[x] # 0 THEN [c EXCEPT !.tree = less, !.at = Nil]
      ELSE IF \E s \in Sides : t.kid[s][x] = Nil
      THEN [c EXCEPT !.tree = less, !.at = Nil, !.node = x]
      ELSE [c EXCEPT !.tree = [less EXCEPT !.data[x] = next], !.at = t.kid["right"][x],
                     !.data = next]

\* The tree, and the node that is left to be taken out of it.
deleteBST(t, d) ==
  LET after[i \in 0..MaxNodes] ==
        IF i = 0 THEN [tree |-> t, at |-> t.root, data |-> d, node |-> Nil]
        ELSE DeleteStep(after[i - 1])
  IN  after[MaxNodes]

\* The loop of fixDeleteRBTree has come to its end.
Done(c) == c.over \/ c.ptr = c.tree.root \/ getColor(c.tree, c.ptr) # DOUBLE_BLACK

\* One round of it.  A sibling that is null is followed all the same: the
\* program ends, and the loop does not.
DoubleBlackRound(c) ==
  LET t       == c.tree
      ptr     == c.ptr
      parent  == t.parent[ptr]
      s       == SideOf(t, ptr)
      o       == Other(s)
      sibling == t.kid[o][parent]
      nephew(side) == getColor(t, t.kid[side][sibling])
      inner   == Rotate([t EXCEPT !.color[t.kid[s][sibling]] = BLACK,
                                  !.color[sibling] = RED], sibling, o)
      ready   == IF nephew(o) = BLACK THEN inner ELSE t
      sib     == ready.kid[o][parent]
  IN  IF Done(c) \/ sibling = Nil THEN c
      ELSE IF getColor(t, sibling) = RED
      THEN [c EXCEPT !.tree = Rotate([t EXCEPT !.color[sibling] = BLACK,
                                               !.color[parent] = RED], parent, s)]
      ELSE IF nephew("left") = BLACK /\ nephew("right") = BLACK
      THEN [c EXCEPT !.tree = [t EXCEPT !.color[sibling] = RED,
                                        !.color[parent] = IF t.color[parent] = RED
                                                           THEN BLACK ELSE DOUBLE_BLACK],
                     !.ptr = parent]
      ELSE [c EXCEPT !.tree = Rotate(setColor([ready EXCEPT !.color[sib] = ready.color[parent],
                                                            !.color[parent] = BLACK],
                                              ready.kid[o][sib], BLACK), parent, s),
                     !.over = TRUE]

\* The loop for node x: with every round it goes up, or it ends with the next.
FixDoubleBlack(t, x) ==
  LET after[i \in 0..MaxNodes] ==
        IF i = 0 THEN [tree |-> [t EXCEPT !.color[x] = DOUBLE_BLACK], ptr |-> x, over |-> FALSE]
        ELSE DoubleBlackRound(after[i - 1])
  IN  after[MaxNodes]

\* delete: the memory of x is free.
Free(t, x) ==
  [t EXCEPT !.data[x] = 0, !.count[x] = 0, !.color[x] = RED, !.parent[x] = Nil,
            !.kid["left"][x] = Nil, !.kid["right"][x] = Nil]

\* The child slot of node x in its parent gets c.
Replace(t, x, c) ==
  [t EXCEPT !.kid[SideOf(t, x)][t.parent[x]] = c, !.parent = Put(@, c, t.parent[x])]

\* Mutant of fixDeleteRBTree: a black leaf is cut off without any repair.
fixDeleteCut(t, x) ==
  IF x = t.root THEN EmptyTree
  ELSE LET child == IF t.kid["left"][x] # Nil THEN t.kid["left"][x] ELSE t.kid["right"][x]
       IN  Free(setColor(Replace(t, x, child), child, BLACK), x)

\* fixDeleteRBTree cuts x off at once.
CutsAtOnce(t, x) ==
  x = t.root \/ \E y \in {x} \cup {t.kid[s][x] : s \in Sides} : getColor(t, y) = RED

\* It follows no null pointer.
EraseEnds(t, x) == CutsAtOnce(t, x) \/ Done(FixDoubleBlack(t, x))

\* The root takes its subtree with it, which then is lost.
fixDeleteRBTree(t, x) ==
  LET child == IF t.kid["left"][x] # Nil THEN t.kid["left"][x] ELSE t.kid["right"][x]
      fixed == FixDoubleBlack(t, x).tree
      cut   == Free(Replace(fixed, x, Nil), x)
  IN  IF x = t.root THEN EmptyTree
      ELSE IF CutsAtOnce(t, x)
      THEN Free(setColor(Replace(t, x, child), child, BLACK), x)
      ELSE setColor(cut, cut.root, BLACK)

-----------------------------------------------------------------------------
\* The nodes of the subtree of x.
Subtree(t, x) ==
  LET below[y \in {Nil} \cup Nodes] ==
        IF y = Nil THEN {} ELSE {y} \cup below[t.kid["left"][y]] \cup below[t.kid["right"][y]]
  IN  below[x]

DataIn(t) == {t.data[x] : x \in Subtree(t, t.root)}

=============================================================================
