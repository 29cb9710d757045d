------------------------- MODULE CountedTreeProofs -------------------------
(***************************************************************************)
(* Lemmas about the red-black tree of CountedTree as a value.              *)
(*                                                                         *)
(* A proof looks at a tree t together with a map g of it: the nodes that   *)
(* can be reached from the root, a position for each of them from left to  *)
(* right, and the nodes of the subtree of each.  A rotation leaves all     *)
(* positions as they are.                                                  *)
(***************************************************************************)
EXTENDS CountedTree, NatExtrema

Maps == [nodes : SUBSET Nodes, pos : [Nodes -> Int], sub : [Nodes -> SUBSET Nodes]]

\* a lies on side s of b.
On(s, a, b) == IF s = "left" THEN a < b ELSE b < a

\* The nodes of the subtree that a pointer leads to.
Part(g, c) == IF c = Nil THEN {} ELSE g.sub[c]

\* A child knows its parent, and its subtree lies on its side.
KidPlaced(t, g, x, s) ==
  /\ t.kid[s][x] # Nil => t.kid[s][x] \in g.nodes /\ t.parent[t.kid[s][x]] = x
  /\ \A z \in Part(g, t.kid[s][x]) : On(s, g.pos[z], g.pos[x])

SubSplit(t, g, x) ==
  \A z : z \in g.sub[x] <=> z = x \/ \E s \in Sides : z \in Part(g, t.kid[s][x])

\* What x is to its parent.
Linked(t, g, x) ==
  IF x = t.root THEN t.parent[x] = Nil
  ELSE t.parent[x] \in g.nodes /\ \E s \in Sides : t.kid[s][t.parent[x]] = x

Placed(t, g) == \A x \in g.nodes : /\ g.sub[x] \subseteq g.nodes
                                   /\ SubSplit(t, g, x)
                                   /\ \A s \in Sides : KidPlaced(t, g, x, s)
Joined(t, g) == \A x \in g.nodes : Linked(t, g, x)

Rooted(t, g) == IF t.root = Nil THEN g.nodes = {}
                ELSE t.root \in g.nodes /\ g.sub[t.root] = g.nodes

Apart(g) == \A x, y \in g.nodes : g.pos[x] = g.pos[y] => x = y

\* A subtree has a node, unless it is the top, just as it has its parent.
Closed(t, g) ==
  \A z, c \in g.nodes :
    c # t.root /\ c # z => (c \in g.sub[z] <=> t.parent[c] \in g.sub[z])

\* The root is in no other subtree.
Topped(t, g) == \A z \in g.nodes : t.root \in g.sub[z] => z = t.root

\* No other node comes between those of a subtree.
Tight(g) ==
  \A z, w \in g.nodes : \A a, b \in g.sub[z] :
    g.pos[a] < g.pos[w] /\ g.pos[w] < g.pos[b] => w \in g.sub[z]

\* A node that is free is as it was in the empty tree.
Vacant(t, g, x) ==
  /\ x \notin g.nodes
  /\ t.color[x] = RED /\ t.parent[x] = Nil /\ \A s \in Sides : t.kid[s][x] = Nil

Vacancies(t, g) == \A x \in Nodes : t.data[x] = 0 => Vacant(t, g, x)

Sorted(t, g) == \A x, y \in g.nodes : g.pos[x] < g.pos[y] => t.data[x] <= t.data[y]

Charted(t, g) ==
  /\ t \in Trees /\ g \in Maps
  /\ Placed(t, g) /\ Joined(t, g) /\ Rooted(t, g) /\ Apart(g) /\ Closed(t, g) /\ Topped(t, g) /\ Tight(g)
  /\ Vacancies(t, g) /\ Sorted(t, g)

-----------------------------------------------------------------------------
(***************************************************************************)
(* Sides, children and parents.                                            *)
(***************************************************************************)

\* A node has two sides, and each is the other's other.
LEMMA TwoSides ==
  /\ "left" \in Sides /\ "right" \in Sides
  /\ Other("left") = "right" /\ Other("right") = "left"
  /\ \A s \in Sides : Other(s) \in Sides /\ Other(s) # s /\ Other(Other(s)) = s
  /\ \A s, q \in Sides : q = s \/ q = Other(s)
<1>1. Other("left") = "right"
  <2>1. \E o \in Sides : o # "left"
    BY DEF Sides
  <2> QED BY <2>1 DEF Other, Sides
<1>2. Other("right") = "left"
  <2>1. \E o \in Sides : o # "right"
    BY DEF Sides
  <2> QED BY <2>1 DEF Other, Sides
<1> QED BY <1>1, <1>2 DEF Sides

\* The null pointer is no node.
LEMMA NilIsNoNode == Nil \notin Nodes /\ Nodes \subseteq Nat /\ Nodes \subseteq Pointers /\ Nil \in Pointers
BY DEF Nil, Nodes, Pointers

\* The two sides are opposite to each other.
LEMMA OnTwoSides ==
  ASSUME NEW a \in Int, NEW b \in Int, NEW s \in Sides
  PROVE  /\ On(Other(s), a, b) <=> On(s, b, a)
         /\ ~(On(s, a, b) /\ On(Other(s), a, b))
         /\ ~On(s, a, a)
         /\ a # b => On(s, a, b) \/ On(Other(s), a, b)
<1>1. CASE s = "left"
  <2>1. Other(s) = "right"
    BY <1>1, TwoSides
  <2> QED BY <1>1, <2>1 DEF On
<1>2. CASE s = "right"
  <2>1. Other(s) = "left"
    BY <1>2, TwoSides
  <2> QED BY <1>2, <2>1 DEF On
<1> QED BY <1>1, <1>2 DEF Sides

\* Places to one side of each other are ordered.
LEMMA OnIsTransitive ==
  ASSUME NEW a \in Int, NEW b \in Int, NEW c \in Int, NEW s \in Sides, On(s, a, b), On(s, b, c)
  PROVE  On(s, a, c)
BY DEF On, Sides

\* The types of what a map has.
LEMMA MapTypes ==
  ASSUME NEW t, NEW g, Charted(t, g)
  PROVE  /\ g.nodes \subseteq Nodes
         /\ \A x \in g.nodes : g.pos[x] \in Int /\ g.sub[x] \subseteq g.nodes /\ x \in g.sub[x]
         /\ \A x \in g.nodes : x \in Nodes /\ x # Nil /\ t.data[x] \in Nat /\ t.data[x] # 0
BY NilIsNoNode DEF Charted, Maps, Placed, SubSplit, Vacancies, Vacant, Trees

\* The child of a node is a node below it, and it is the child of no other.
LEMMA Children ==
  ASSUME NEW t, NEW g, Charted(t, g), NEW x \in g.nodes, NEW s \in Sides, t.kid[s][x] # Nil
  PROVE  /\ t.kid[s][x] \in g.nodes /\ t.parent[t.kid[s][x]] = x
         /\ t.kid[s][x] # x /\ t.kid[s][x] # t.root
         /\ g.sub[t.kid[s][x]] \subseteq g.sub[x] /\ x \notin g.sub[t.kid[s][x]]
         /\ \A z \in g.sub[t.kid[s][x]] : On(s, g.pos[z], g.pos[x])
         /\ \A y \in g.nodes, q \in Sides : t.kid[q][y] = t.kid[s][x] => y = x /\ q = s
<1> DEFINE c == t.kid[s][x]
<1>1. KidPlaced(t, g, x, s) /\ SubSplit(t, g, x)
  BY DEF Charted, Placed
<1>2. c \in g.nodes /\ t.parent[c] = x
  BY <1>1 DEF KidPlaced
<1>3. x \in Nodes /\ c \in Nodes /\ c \in g.sub[c] /\ g.sub[c] \subseteq g.nodes
  BY <1>2, MapTypes
<1>4. \A z \in g.sub[c] : On(s, g.pos[z], g.pos[x])
  BY <1>1 DEF KidPlaced, Part
<1>5. x \notin g.sub[c]
  BY <1>4, MapTypes, OnTwoSides
<1>6. c # x
  BY <1>3, <1>5
<1>7. c # t.root
  BY <1>2, <1>3, NilIsNoNode DEF Charted, Joined, Linked
<1>8. g.sub[c] \subseteq g.sub[x]
  BY <1>1 DEF SubSplit, Part
<1>9. ASSUME NEW y \in g.nodes, NEW q \in Sides, t.kid[q][y] = c PROVE y = x /\ q = s
  <2>1. KidPlaced(t, g, y, q)
    BY DEF Charted, Placed
  <2>2. y = x
    BY <1>2, <1>9, <2>1 DEF KidPlaced
  <2>3. On(q, g.pos[c], g.pos[x])
    BY <1>3, <1>9, <2>1, <2>2 DEF KidPlaced, Part
  <2>4. q # Other(s)
    BY <1>2, <1>3, <1>4, <2>3, MapTypes, OnTwoSides
  <2> QED BY <2>2, <2>4, TwoSides
<1> QED BY <1>2, <1>4, <1>5, <1>6, <1>7, <1>8, <1>9

\* A child of a child is neither of the two nodes above it, nor the root.
LEMMA Grandchildren ==
  ASSUME NEW t, NEW g, Charted(t, g), NEW x \in g.nodes, NEW o \in Sides, NEW q \in Sides,
         t.kid[o][x] # Nil, t.kid[q][t.kid[o][x]] # Nil
  PROVE  /\ t.kid[q][t.kid[o][x]] \in g.nodes
         /\ t.kid[q][t.kid[o][x]] # x /\ t.kid[q][t.kid[o][x]] # t.kid[o][x]
         /\ t.kid[q][t.kid[o][x]] # t.root
         /\ t.parent[t.kid[q][t.kid[o][x]]] = t.kid[o][x]
<1>1. t.kid[o][x] \in g.nodes /\ x \notin g.sub[t.kid[o][x]]
  BY Children
<1>2. /\ t.kid[q][t.kid[o][x]] \in g.nodes /\ t.kid[q][t.kid[o][x]] # t.kid[o][x]
      /\ t.kid[q][t.kid[o][x]] # t.root
      /\ t.parent[t.kid[q][t.kid[o][x]]] = t.kid[o][x]
      /\ g.sub[t.kid[q][t.kid[o][x]]] \subseteq g.sub[t.kid[o][x]]
  BY <1>1, Children
<1>3. t.kid[q][t.kid[o][x]] \in g.sub[t.kid[q][t.kid[o][x]]]
  BY Zenon, <1>2, MapTypes
<1> QED BY Zenon, <1>1, <1>2, <1>3

\* The one that a rotation moves from one node to the other.
LEMMA InnerChild ==
  ASSUME NEW t, NEW g, Charted(t, g), NEW x \in g.nodes, NEW s \in Sides, t.kid[Other(s)][x] # Nil
  PROVE  LET c == t.kid[Other(s)][x]
             b == t.kid[s][c]
         IN  b # Nil => b \in g.nodes /\ b # c /\ b # x /\ b # t.root /\ t.parent[b] = c
<1>1. Other(s) \in Sides
  BY TwoSides
<1> QED BY <1>1, Grandchildren

\* The parent of a node other than the root.
LEMMA Parents ==
  ASSUME NEW t, NEW g, Charted(t, g), NEW x \in g.nodes, x # t.root
  PROVE  /\ t.parent[x] \in g.nodes /\ t.parent[x] # x /\ t.parent[x] # Nil
         /\ SideOf(t, x) \in Sides /\ t.kid[SideOf(t, x)][t.parent[x]] = x
         /\ \A y \in g.nodes, q \in Sides : t.kid[q][y] = x => y = t.parent[x] /\ q = SideOf(t, x)
<1>1. t.parent[x] \in g.nodes /\ \E s \in Sides : t.kid[s][t.parent[x]] = x
  BY DEF Charted, Joined, Linked
<1>2. SideOf(t, x) \in Sides /\ t.kid[SideOf(t, x)][t.parent[x]] = x
  BY <1>1 DEF SideOf
<1>3. x # Nil /\ t.parent[x] # Nil
  BY <1>1, MapTypes
<1> QED BY <1>1, <1>2, <1>3, Children

-----------------------------------------------------------------------------
(***************************************************************************)
(* A rotation.                                                             *)
(***************************************************************************)

\* What a rotation at x does to the pointers of the nodes.
TurnedKid(t, x, s, q, y) ==
  LET c == t.kid[Other(s)][x]
  IN  IF y = x /\ q = Other(s) THEN t.kid[s][c]
      ELSE IF y = c /\ q = s THEN x
      ELSE IF t.kid[q][y] = x THEN c
      ELSE t.kid[q][y]

TurnedParent(t, x, s, y) ==
  LET c == t.kid[Other(s)][x]
  IN  IF y = c THEN t.parent[x]
      ELSE IF y = x THEN c
      ELSE IF y = t.kid[s][c] THEN x
      ELSE t.parent[y]

\* What a rotation makes of every field (ll-rb-tree.hpp:52-85): three links
\* of nodes, the links back, and maybe the root.
LEMMA RotateFields ==
  ASSUME NEW t, NEW g, Charted(t, g), NEW x \in g.nodes, NEW s \in Sides, t.kid[Other(s)][x] # Nil
  PROVE  LET r == Rotate(t, x, s)
         IN  /\ r \in Trees
             /\ r.data = t.data /\ r.color = t.color /\ r.count = t.count
             /\ r.root = IF x = t.root THEN t.kid[Other(s)][x] ELSE t.root
             /\ \A y \in g.nodes, q \in Sides : r.kid[q][y] = TurnedKid(t, x, s, q, y)
             /\ \A y \in g.nodes : r.parent[y] = TurnedParent(t, x, s, y)
             /\ \A y \in Nodes \ g.nodes : r.parent[y] = t.parent[y] /\ \A q \in Sides : r.kid[q][y] = t.kid[q][y]
<1> DEFINE r      == Rotate(t, x, s)
           o      == Other(s)
           c      == t.kid[o][x]
           b      == t.kid[s][c]
           up     == t.parent[x]
           below  == [t.kid EXCEPT ![o][x] = b, ![s][c] = x]
           kid    == RotatedKids(t, x, s)
           parent == RotatedParents(t, x, s)
           root   == IF up = Nil THEN c ELSE t.root
<1>1. /\ r = [t EXCEPT !.root = root, !.parent = parent, !.kid = kid]
      /\ kid = IF up = Nil THEN below ELSE [below EXCEPT ![SideOf(t, x)][up] = c]
      /\ parent = [Put(t.parent, b, x) EXCEPT ![c] = up, ![x] = c]
  <2>1. r = [t EXCEPT !.root = root, !.parent = parent, !.kid = kid]
    BY Zenon DEF Rotate
  <2>2. kid = IF up = Nil THEN below ELSE [below EXCEPT ![SideOf(t, x)][up] = c]
    BY Zenon DEF RotatedKids
  <2>3. parent = [Put(t.parent, b, x) EXCEPT ![c] = up, ![x] = c]
    BY Zenon DEF RotatedParents
  <2> QED BY Zenon, <2>1, <2>2, <2>3
<1> HIDE DEF kid, parent
<1>2. o \in Sides /\ o # s /\ x \in Nodes /\ x # Nil
  BY TwoSides, MapTypes
<1>3. /\ c \in g.nodes /\ c \in Nodes /\ c # x /\ c # Nil /\ t.parent[c] = x /\ c # t.root
      /\ \A y \in g.nodes, q \in Sides : t.kid[q][y] = c => y = x /\ q = o
  BY <1>2, Children, MapTypes
<1>4. t \in Trees
  BY DEF Charted
<1>5. b \in Pointers
  BY <1>2, <1>3, <1>4 DEF Trees
<1>6. b # Nil => /\ b \in g.nodes /\ b # c /\ t.parent[b] = c /\ b # t.root /\ b # x
                 /\ \A y \in g.nodes, q \in Sides : t.kid[q][y] = b => y = c /\ q = s
  <2> HIDE DEF below, r
  <2>1. x \notin g.sub[c]
    BY <1>2, <1>3, Children
  <2> SUFFICES ASSUME b # Nil PROVE b # x
    BY <1>3, Children
  <2>0. b \in g.nodes /\ g.sub[b] \subseteq g.sub[c]
    <3>1. c \in g.nodes /\ s \in Sides /\ t.kid[s][c] # Nil
      BY Zenon, <1>3
    <3> HIDE DEF c
    <3> QED BY <3>1, Children
  <2>2. b \in g.sub[b] /\ g.sub[b] \subseteq g.sub[c]
    BY Zenon, <2>0, MapTypes
  <2> QED BY Zenon, <2>1, <2>2
<1>7. (x = t.root <=> up = Nil) /\ up \in Pointers
  <2>1. x = t.root => up = Nil
    BY DEF Charted, Joined, Linked
  <2> QED BY <2>1, <1>2, <1>4, Parents DEF Trees
<1>8. x # t.root => /\ up \in g.nodes /\ up # x /\ up # c /\ SideOf(t, x) \in Sides /\ t.kid[SideOf(t, x)][up] = x
                    /\ up \in Nodes
                    /\ \A y \in g.nodes, q \in Sides : t.kid[q][y] = x => y = up /\ q = SideOf(t, x)
  <2> SUFFICES ASSUME x # t.root PROVE up # c
    BY Parents, MapTypes
  <2>1. up \notin g.sub[x] /\ c \in g.sub[x]
    <3>1. t.kid[SideOf(t, x)][up] = x /\ up \in g.nodes /\ SideOf(t, x) \in Sides
      BY Parents
    <3>2. x # Nil
      BY <1>2
    <3> QED BY <3>1, <3>2, <1>2, <1>3, Children, MapTypes
  <2> QED BY <2>1
<1>9. below \in [Sides -> [Nodes -> Pointers]] /\ kid \in [Sides -> [Nodes -> Pointers]]
  <2>1. below \in [Sides -> [Nodes -> Pointers]]
    BY <1>2, <1>3, <1>4, <1>5, NilIsNoNode DEF Trees
  <2>2. ASSUME up # Nil PROVE [below EXCEPT ![SideOf(t, x)][up] = c] \in [Sides -> [Nodes -> Pointers]]
    <3> HIDE DEF below
    <3> QED BY <2>1, <2>2, <1>7, <1>8, <1>3, NilIsNoNode
  <2>3. kid = IF up = Nil THEN below ELSE [below EXCEPT ![SideOf(t, x)][up] = c]
    BY Zenon, <1>1
  <2> HIDE DEF below, up, c, r
  <2> QED BY Zenon, <2>1, <2>2, <2>3
<1>10. parent \in [Nodes -> Pointers]
  <2> HIDE DEF below, r
  <2>1. Put(t.parent, b, x) \in [Nodes -> Pointers]
    BY <1>2, <1>4, NilIsNoNode DEF Trees, Put, Pointers
  <2> QED BY Zenon, <1>1, <1>2, <1>3, <1>7, <2>1, NilIsNoNode
<1>11. root \in Pointers
  BY <1>3, <1>4, NilIsNoNode DEF Trees
<1>12. \A y \in Nodes, q \in Sides : below[q][y] = IF y = x /\ q = o THEN b ELSE IF y = c /\ q = s THEN x ELSE t.kid[q][y]
  BY <1>2, <1>3, <1>4 DEF Trees
<1>13. \A y \in Nodes, q \in Sides : kid[q][y] = IF x # t.root /\ y = up /\ q = SideOf(t, x) THEN c ELSE below[q][y]
  <2>1. kid = IF up = Nil THEN below ELSE [below EXCEPT ![SideOf(t, x)][up] = c]
    BY Zenon, <1>1
  <2> HIDE DEF below, up, c, r, o
  <2> QED BY <1>7, <1>8, <1>9, <2>1
<1>14. \A y \in Nodes : parent[y] = IF y = x THEN c ELSE IF y = c THEN up ELSE IF y = b THEN x ELSE t.parent[y]
  <2>1. Put(t.parent, b, x) \in [Nodes -> Pointers] /\ \A y \in Nodes : Put(t.parent, b, x)[y] = IF y = b THEN x ELSE t.parent[y]
    <3> HIDE DEF below, r, b
    <3> QED BY <1>2, <1>4, <1>5, NilIsNoNode DEF Trees, Put, Pointers
  <2>2. parent = [Put(t.parent, b, x) EXCEPT ![c] = up, ![x] = c] /\ c \in Nodes /\ x \in Nodes /\ c # x
    BY Zenon, <1>1, <1>2, <1>3
  <2> HIDE DEF below, r, up, c, b
  <2> QED BY <2>1, <2>2
<1> HIDE DEF below, root
<1>15. /\ r.root = root /\ r.parent = parent /\ r.kid = kid
       /\ r.data = t.data /\ r.color = t.color /\ r.count = t.count /\ r \in Trees
  <2>1. r = [t EXCEPT !.root = root, !.parent = parent, !.kid = kid]
    BY Zenon, <1>1
  <2> HIDE DEF r, up, c, b, o
  <2> QED BY <1>4, <1>9, <1>10, <1>11, <2>1 DEF Trees
<1> HIDE DEF r
<1>16. r.root = IF x = t.root THEN c ELSE t.root
  BY <1>7, <1>15 DEF root
<1>17. ASSUME NEW y \in g.nodes PROVE \A q \in Sides : r.kid[q][y] = TurnedKid(t, x, s, q, y)
  <2> SUFFICES ASSUME NEW q \in Sides PROVE kid[q][y] = TurnedKid(t, x, s, q, y)
    BY <1>15
  <2>1. y \in Nodes /\ (x = t.root => t.kid[q][y] # x)
    BY <1>2, Children, MapTypes
  <2> QED BY <2>1, <1>2, <1>3, <1>8, <1>12, <1>13 DEF TurnedKid
<1>18. ASSUME NEW y \in g.nodes PROVE r.parent[y] = TurnedParent(t, x, s, y)
  BY <1>14, <1>15, <1>3, MapTypes DEF TurnedParent
<1>19. ASSUME NEW y \in Nodes \ g.nodes
       PROVE r.parent[y] = t.parent[y] /\ \A q \in Sides : r.kid[q][y] = t.kid[q][y]
  <2>1. y # x /\ y # c /\ y # b
    BY <1>3, <1>6, NilIsNoNode
  <2>2. x # t.root => y # up
    BY <1>8
  <2> QED BY <2>1, <2>2, <1>12, <1>13, <1>14, <1>15
<1> QED BY <1>15, <1>16, <1>17, <1>18, <1>19 DEF r

\* The map after it.
TurnedMap(t, g, x, s) ==
  LET c == t.kid[Other(s)][x]
  IN  [g EXCEPT !.sub = [@ EXCEPT ![c] = g.sub[x],
                                  ![x] = {x} \cup Part(g, t.kid[s][x]) \cup Part(g, t.kid[s][c])]]

\* A rotation keeps every node in its place of the order; only the node and
\* the child that takes its place have others below them than before.
LEMMA RotateCharted ==
  ASSUME NEW t, NEW g, Charted(t, g), NEW x \in g.nodes, NEW s \in Sides, t.kid[Other(s)][x] # Nil
  PROVE  Charted(Rotate(t, x, s), TurnedMap(t, g, x, s))
<1> DEFINE r == Rotate(t, x, s)
           m == TurnedMap(t, g, x, s)
           o == Other(s)
           c == t.kid[o][x]
           a == t.kid[s][x]
           b == t.kid[s][c]
           d == t.kid[o][c]
           rest == {x} \cup Part(g, a) \cup Part(g, b)
<1>1. /\ r \in Trees
      /\ r.data = t.data /\ r.color = t.color /\ r.count = t.count
      /\ r.root = IF x = t.root THEN c ELSE t.root
      /\ \A y \in g.nodes, q \in Sides : r.kid[q][y] = TurnedKid(t, x, s, q, y)
      /\ \A y \in g.nodes : r.parent[y] = TurnedParent(t, x, s, y)
      /\ \A y \in Nodes \ g.nodes : r.parent[y] = t.parent[y] /\ \A q \in Sides : r.kid[q][y] = t.kid[q][y]
  BY RotateFields
<1>2. o \in Sides /\ o # s /\ x \in Nodes /\ x # Nil /\ \A q \in Sides : q = s \/ q = o
  BY TwoSides, MapTypes
<1>3. /\ c \in g.nodes /\ c \in Nodes /\ c # x /\ c # Nil /\ t.parent[c] = x /\ c # t.root
      /\ x \notin g.sub[c] /\ g.sub[c] \subseteq g.sub[x] /\ c \in g.sub[c] /\ c \in g.sub[x]
      /\ \A z \in g.sub[c] : On(o, g.pos[z], g.pos[x])
      /\ \A y \in g.nodes, q \in Sides : t.kid[q][y] = c => y = x /\ q = o
  <2>1. c \in g.nodes /\ c # x
    BY <1>2, Children
  <2> QED BY <1>2, <2>1, Children, MapTypes
<1>4. a # Nil => /\ a \in g.nodes /\ a # x /\ a # c /\ a # t.root /\ t.parent[a] = x
                 /\ g.sub[a] \subseteq g.sub[x] /\ x \notin g.sub[a]
                 /\ \A z \in g.sub[a] : On(s, g.pos[z], g.pos[x])
  BY <1>2, <1>3, Children
<1>5. b # Nil => /\ b \in g.nodes /\ b # x /\ b # c /\ b # a /\ b # t.root /\ t.parent[b] = c
                 /\ g.sub[b] \subseteq g.sub[c] /\ c \notin g.sub[b]
                 /\ \A z \in g.sub[b] : On(s, g.pos[z], g.pos[c])
  <2> HAVE b # Nil
  <2>0. c \in g.nodes
    BY <1>3
  <2>1. /\ b \in g.nodes /\ b # c /\ b # t.root /\ t.parent[b] = c
        /\ g.sub[b] \subseteq g.sub[c] /\ c \notin g.sub[b]
        /\ \A z \in g.sub[b] : On(s, g.pos[z], g.pos[c])
    <3> HIDE DEF c
    <3> QED BY <2>0, Children
  <2>2. b \in g.sub[b]
    BY Zenon, <2>1, MapTypes
  <2> QED BY Zenon, <1>3, <1>4, <2>1, <2>2
<1>6. d # Nil => /\ d \in g.nodes /\ d # x /\ d # c /\ d # t.root /\ t.parent[d] = c
                 /\ g.sub[d] \subseteq g.sub[c] /\ c \notin g.sub[d]
                 /\ \A z \in g.sub[d] : On(o, g.pos[z], g.pos[c])
  <2> HAVE d # Nil
  <2>0. c \in g.nodes /\ o \in Sides
    BY <1>2, <1>3
  <2>1. /\ d \in g.nodes /\ d # c /\ d # t.root /\ t.parent[d] = c
        /\ g.sub[d] \subseteq g.sub[c] /\ c \notin g.sub[d]
        /\ \A z \in g.sub[d] : On(o, g.pos[z], g.pos[c])
    <3> HIDE DEF o, c
    <3> QED BY <2>0, Children
  <2>2. d \in g.sub[d]
    BY Zenon, <2>1, MapTypes
  <2> QED BY Zenon, <1>3, <2>1, <2>2
<1>7. /\ \A z : z \in g.sub[x] <=> z = x \/ z \in Part(g, a) \/ z \in g.sub[c]
      /\ \A z : z \in g.sub[c] <=> z = c \/ z \in Part(g, b) \/ z \in Part(g, d)
  <2>1. SubSplit(t, g, x) /\ SubSplit(t, g, c)
    BY Zenon, <1>3 DEF Charted, Placed
  <2>2. Part(g, c) = g.sub[c]
    BY Zenon, <1>3 DEF Part
  <2>3. \A y : SubSplit(t, g, y) => \A z : z \in g.sub[y] <=> z = y \/ z \in Part(g, t.kid[s][y]) \/ z \in Part(g, t.kid[o][y])
    <3> HIDE DEF o
    <3> QED BY Zenon, <1>2 DEF SubSplit
  <2> QED BY Zenon, <2>1, <2>2, <2>3
<1>8. g \in Maps /\ t \in Trees /\ g.nodes \subseteq Nodes
  BY DEF Charted, Maps
<1>9. rest \subseteq g.sub[x] /\ rest \subseteq Nodes /\ rest \subseteq g.nodes
  BY Zenon, <1>3, <1>4, <1>5, <1>7, <1>8, MapTypes DEF Part
<1>10. /\ m \in Maps /\ m.nodes = g.nodes /\ m.pos = g.pos
       /\ \A z \in Nodes : m.sub[z] = IF z = x THEN rest ELSE IF z = c THEN g.sub[x] ELSE g.sub[z]
  <2> DEFINE sub == [g.sub EXCEPT ![c] = g.sub[x], ![x] = rest]
  <2>1. m = [g EXCEPT !.sub = sub]
    BY DEF TurnedMap
  <2>2. sub \in [Nodes -> SUBSET Nodes]
    BY Zenon, <1>2, <1>3, <1>8, <1>9 DEF Maps
  <2>3. \A z \in Nodes : sub[z] = IF z = x THEN rest ELSE IF z = c THEN g.sub[x] ELSE g.sub[z]
    <3> HIDE DEF rest
    <3> QED BY <1>2, <1>3, <1>8 DEF Maps
  <2> HIDE DEF sub, m
  <2> QED BY <1>8, <2>1, <2>2, <2>3 DEF Maps
<1> HIDE DEF r, m
<1>11. \A z \in g.nodes : m.sub[z] = IF z = x THEN rest ELSE IF z = c THEN g.sub[x] ELSE g.sub[z]
  BY <1>8, <1>10
<1>12. ASSUME NEW k \in Pointers, k # x, k # c, k # Nil => k \in g.nodes PROVE Part(m, k) = Part(g, k)
  BY Zenon, <1>11, <1>12 DEF Part
<1>13. \A z \in g.nodes : g.pos[z] \in Int
  BY MapTypes
<1>14. \A z \in rest : On(s, g.pos[z], g.pos[c])
  <2>1. On(s, g.pos[x], g.pos[c])
    BY <1>2, <1>3, <1>13, OnTwoSides
  <2>2. ASSUME NEW z \in Part(g, a) PROVE On(s, g.pos[z], g.pos[c])
    <3>1. On(s, g.pos[z], g.pos[x]) /\ z \in g.nodes
      BY Zenon, <1>4, <1>9 DEF Part
    <3> QED BY Zenon, <2>1, <3>1, <1>3, <1>13, OnIsTransitive
  <2>3. ASSUME NEW z \in Part(g, b) PROVE On(s, g.pos[z], g.pos[c])
    BY Zenon, <1>5 DEF Part
  <2> QED BY <2>1, <2>2, <2>3
<1>15. ASSUME NEW y \in g.nodes, NEW q \in Sides
       PROVE  LET k == r.kid[q][y]
              IN  /\ k # Nil => k \in g.nodes /\ r.parent[k] = y
                  /\ \A z \in Part(m, k) : On(q, g.pos[z], g.pos[y])
                  /\ y # x /\ y # c => Part(m, k) = Part(g, t.kid[q][y])
                  /\ y = x => Part(m, k) = IF q = o THEN Part(g, b) ELSE Part(g, a)
                  /\ y = c => Part(m, k) = IF q = s THEN rest ELSE Part(g, d)
  <2> DEFINE k == r.kid[q][y]
  <2>1. k = TurnedKid(t, x, s, q, y) /\ \A z \in g.nodes : r.parent[z] = TurnedParent(t, x, s, z)
    BY <1>1
  <2>2. CASE y = x /\ q = o
    <3>1. k = b
      BY <2>1, <2>2 DEF TurnedKid
    <3>2. Part(m, b) = Part(g, b)
      BY Zenon, <1>5, <1>12, <1>8, NilIsNoNode, <1>3
    <3>3. b # Nil => r.parent[b] = x
      BY Zenon, <1>5, <2>1 DEF TurnedParent
    <3>4. \A z \in Part(g, b) : On(o, g.pos[z], g.pos[x])
      BY Zenon, <1>3, <1>5 DEF Part
    <3> QED BY Zenon, <2>2, <3>1, <3>2, <3>3, <3>4, <1>3, <1>5
  <2>3. CASE y = c /\ q = s
    <3>1. k = x
      BY <2>1, <2>3, <1>3 DEF TurnedKid
    <3>2. Part(m, x) = rest
      BY Zenon, <1>2, <1>11 DEF Part
    <3>3. r.parent[x] = c
      BY <1>3, <2>1 DEF TurnedParent
    <3> QED BY Zenon, <2>3, <3>1, <3>2, <3>3, <1>2, <1>3, <1>14
  <2>4. CASE t.kid[q][y] = x /\ ~(y = x /\ q = o) /\ ~(y = c /\ q = s)
    <3>1. k = c
      BY <2>1, <2>4 DEF TurnedKid
    <3>2. Part(m, c) = g.sub[x] /\ Part(g, x) = g.sub[x]
      BY Zenon, <1>2, <1>3, <1>11 DEF Part
    <3>3. x # Nil /\ t.parent[x] = y /\ y # x /\ \A z \in g.sub[x] : On(q, g.pos[z], g.pos[y])
      BY <1>2, <2>4, Children
    <3>4. r.parent[c] = y
      BY <3>3, <1>3, <2>1 DEF TurnedParent
    <3>5. y # c
      <4>1. x \in g.sub[x] /\ (y = c => g.sub[x] \subseteq g.sub[c])
        BY <1>2, <2>4, Children, MapTypes
      <4> QED BY <4>1, <1>3
    <3> QED BY Zenon, <2>4, <3>1, <3>2, <3>3, <3>4, <3>5, <1>3
  <2>5. CASE t.kid[q][y] # x /\ ~(y = x /\ q = o) /\ ~(y = c /\ q = s)
    <3>1. k = t.kid[q][y] /\ k # x /\ k # c
      BY Zenon, <2>1, <2>5, <1>3 DEF TurnedKid
    <3>2. k # Nil => k \in g.nodes /\ t.parent[k] = y /\ \A z \in g.sub[k] : On(q, g.pos[z], g.pos[y])
      BY <3>1, Children
    <3>3. k # b \/ k = Nil
      <4> SUFFICES ASSUME k = b, b # Nil PROVE FALSE
        OBVIOUS
      <4>1. y = c /\ q = s
        <5>1. \A i \in g.nodes, j \in Sides : t.kid[j][i] = t.kid[s][c] => i = c /\ j = s
          <6>1. c \in g.nodes /\ t.kid[s][c] # Nil
            BY Zenon, <1>3
          <6> HIDE DEF c, o, k
          <6> QED BY <6>1, Children
        <5> HIDE DEF k, o
        <5> QED BY Zenon, <3>1, <5>1
      <4> QED BY <4>1, <2>5
    <3>4. k # Nil => r.parent[k] = y
      BY <2>1, <3>1, <3>2, <3>3 DEF TurnedParent
    <3>5. Part(m, k) = Part(g, k) /\ \A z \in Part(g, k) : On(q, g.pos[z], g.pos[y])
      BY <3>1, <3>2, <1>8, <1>12, NilIsNoNode DEF Part
    <3>6. y = x => q = s /\ k = a
      BY <2>5, <3>1, <1>2
    <3>7. y = c => q = o /\ k = d
      BY <2>5, <3>1, <1>2
    <3> QED BY Zenon, <3>1, <3>2, <3>4, <3>5, <3>6, <3>7, <1>2, <1>3
  <2> QED BY <2>2, <2>3, <2>4, <2>5
<1>16. Placed(r, m)
  <2> SUFFICES ASSUME NEW y \in g.nodes
               PROVE  m.sub[y] \subseteq g.nodes /\ SubSplit(r, m, y) /\ \A q \in Sides : KidPlaced(r, m, y, q)
    BY <1>10 DEF Placed
  <2>1. m.sub[y] \subseteq g.nodes
    BY <1>9, <1>11, MapTypes
  <2>2. \A q \in Sides : KidPlaced(r, m, y, q)
    BY <1>10, <1>15 DEF KidPlaced
  <2>3. SubSplit(r, m, y)
    <3>1. CASE y = x
      <4>1. Part(m, r.kid[o][x]) = Part(g, b) /\ Part(m, r.kid[s][x]) = Part(g, a)
        BY <1>2, <1>15
      <4>2. m.sub[x] = rest
        BY <1>11
      <4>3. y \in Nodes /\ m.sub[y] = rest
        BY Zenon, <1>2, <3>1, <4>2
      <4> SUFFICES \A z : z \in m.sub[y] <=> z = y \/ z \in Part(m, r.kid[s][y]) \/ z \in Part(m, r.kid[o][y])
        <5> HIDE DEF o
        <5> QED BY Zenon, <1>2 DEF SubSplit
      <4> HIDE DEF a, b, o
      <4> QED BY <3>1, <4>1, <4>3
    <3>2. CASE y = c
      <4>1. Part(m, r.kid[s][c]) = rest /\ Part(m, r.kid[o][c]) = Part(g, d)
        BY <1>2, <1>3, <1>15
      <4>2. m.sub[c] = g.sub[x]
        BY <1>3, <1>11
      <4>3. \A z : z \in g.sub[x] <=> z = c \/ z \in rest \/ z \in Part(g, d)
        BY <1>7
      <4> HIDE DEF rest
      <4> QED BY <3>2, <4>1, <4>2, <4>3, <1>2 DEF SubSplit
    <3>3. CASE y # x /\ y # c
      <4>1. \A q \in Sides : Part(m, r.kid[q][y]) = Part(g, t.kid[q][y])
        BY <3>3, <1>15
      <4>2. m.sub[y] = g.sub[y]
        BY <3>3, <1>11
      <4> QED BY <4>1, <4>2 DEF SubSplit, Charted, Placed
    <3> QED BY <3>1, <3>2, <3>3
  <2> QED BY <2>1, <2>2, <2>3
<1>17. Joined(r, m)
  <2> SUFFICES ASSUME NEW y \in g.nodes PROVE Linked(r, m, y)
    BY <1>10 DEF Joined
  <2>1. r.parent[y] = TurnedParent(t, x, s, y) /\ r.root = IF x = t.root THEN c ELSE t.root
    BY <1>1
  <2>2. Linked(t, g, y) /\ Linked(t, g, x)
    BY DEF Charted, Joined
  <2>3. CASE y = c
    <3>1. r.parent[y] = t.parent[x]
      BY <2>1, <2>3 DEF TurnedParent
    <3>2. CASE x = t.root
      BY Zenon, <2>1, <2>2, <2>3, <3>1, <3>2 DEF Linked
    <3>3. CASE x # t.root
      <4>1. t.parent[x] \in g.nodes /\ SideOf(t, x) \in Sides /\ t.kid[SideOf(t, x)][t.parent[x]] = x /\ t.parent[x] # x
        BY <3>3, Parents
      <4>2. t.parent[x] # c
        <5> SUFFICES ASSUME t.parent[x] = c PROVE FALSE
          OBVIOUS
        <5>1. x \in g.sub[x] /\ g.sub[x] \subseteq g.sub[c]
          BY <4>1, <1>2, Children, MapTypes
        <5> QED BY <5>1, <1>3
      <4>3. r.kid[SideOf(t, x)][t.parent[x]] = c
        BY <1>1, <4>1, <4>2 DEF TurnedKid
      <4> QED BY Zenon, <2>1, <2>3, <3>1, <3>3, <4>1, <4>3, <1>3, <1>10 DEF Linked
    <3> QED BY <3>2, <3>3
  <2>4. CASE y = x
    <3>1. r.parent[y] = c
      BY <2>1, <2>4, <1>3 DEF TurnedParent
    <3>2. r.kid[s][c] = x
      BY <1>1, <1>3 DEF TurnedKid
    <3>3. y # r.root
      BY <2>1, <2>4, <1>3
    <3> QED BY <2>4, <3>1, <3>2, <3>3, <1>3, <1>10 DEF Linked
  <2>5. CASE y = b
    <3>1. b # Nil
      BY <2>5, MapTypes
    <3>2. r.parent[y] = x
      BY Zenon, <2>1, <2>5, <3>1, <1>5 DEF TurnedParent
    <3>3. r.kid[o][x] = b
      BY <1>1, <1>2 DEF TurnedKid
    <3>4. y # r.root
      BY Zenon, <2>1, <2>5, <3>1, <1>5
    <3> QED BY <2>5, <3>2, <3>3, <3>4, <1>2, <1>10 DEF Linked
  <2>6. CASE y # c /\ y # x /\ y # b
    <3>1. r.parent[y] = t.parent[y]
      BY <2>1, <2>6 DEF TurnedParent
    <3>2. CASE y = t.root
      BY <2>1, <2>2, <2>6, <3>1, <3>2 DEF Linked
    <3>3. CASE y # t.root
      <4>1. PICK q \in Sides : t.parent[y] \in g.nodes /\ t.kid[q][t.parent[y]] = y
        BY <2>2, <3>3 DEF Linked
      <4>2. ~(t.parent[y] = x /\ q = o) /\ ~(t.parent[y] = c /\ q = s)
        BY <2>6, <4>1
      <4>3. r.kid[q][t.parent[y]] = y
        BY <1>1, <2>6, <4>1, <4>2 DEF TurnedKid
      <4> QED BY <2>1, <2>6, <3>1, <3>3, <4>1, <4>3, <1>10 DEF Linked
    <3> QED BY <3>2, <3>3
  <2> QED BY <2>3, <2>4, <2>5, <2>6
<1>18. Rooted(r, m)
  BY <1>1, <1>2, <1>3, <1>10, <1>11, NilIsNoNode DEF Charted, Rooted
<1>19. Apart(m)
  BY <1>10 DEF Charted, Apart
<1>20. Tight(m)
  <2> SUFFICES ASSUME NEW z \in g.nodes, NEW w \in g.nodes, NEW u \in m.sub[z], NEW v \in m.sub[z],
                      g.pos[u] < g.pos[w], g.pos[w] < g.pos[v]
               PROVE  w \in m.sub[z]
    BY <1>10 DEF Tight
  <2>0. \A i, j \in g.sub[x] : g.pos[i] < g.pos[w] /\ g.pos[w] < g.pos[j] => w \in g.sub[x]
    BY DEF Charted, Tight
  <2>1. CASE z # x
    <3>1. m.sub[z] = g.sub[z] \/ m.sub[z] = g.sub[x]
      BY <2>1, <1>11
    <3> QED BY <3>1 DEF Charted, Tight
  <2>2. CASE z = x
    <3>1. u \in rest /\ v \in rest
      BY <2>2, <1>11
    <3>2. w \in g.sub[x]
      BY <1>9, <2>0, <3>1
    <3>3. On(s, g.pos[w], g.pos[c])
      <4>1. On(s, g.pos[u], g.pos[c]) /\ On(s, g.pos[v], g.pos[c])
        BY <3>1, <1>14
      <4>2. g.pos[u] \in Int /\ g.pos[v] \in Int /\ g.pos[w] \in Int /\ g.pos[c] \in Int
        BY Zenon, <3>1, <1>3, <1>9, <1>13
      <4> QED BY <4>1, <4>2 DEF On
    <3>4. w # c /\ w \notin Part(g, d)
      <4>1. g.pos[w] \in Int /\ g.pos[c] \in Int
        BY <1>3, <1>13
      <4>2. \A i \in Part(g, d) : On(o, g.pos[i], g.pos[c])
        BY Zenon, <1>6 DEF Part
      <4>3. ~On(s, g.pos[c], g.pos[c]) /\ ~On(o, g.pos[w], g.pos[c])
        <5> HIDE DEF a, b, c, d, rest
        <5> QED BY <3>3, <4>1, OnTwoSides
      <4> QED BY Zenon, <3>3, <4>2, <4>3
    <3> QED BY <2>2, <3>2, <3>4, <1>7, <1>11
  <2> QED BY <2>1, <2>2
<1>21. Closed(r, m)
  <2> SUFFICES ASSUME NEW z \in g.nodes, NEW y \in g.nodes, y # r.root, y # z
               PROVE  y \in m.sub[z] <=> r.parent[y] \in m.sub[z]
    BY <1>10 DEF Closed
  <2>1. r.parent[y] = TurnedParent(t, x, s, y)
    BY <1>1
  <2>2. \A i, j \in g.nodes : j # t.root /\ j # i => (j \in g.sub[i] <=> t.parent[j] \in g.sub[i])
    BY DEF Charted, Closed
  <2>3. y # c => y # t.root \/ y = x
    BY <1>1
  <2>4. y = c => x # t.root
    BY <1>1
  <2>5. CASE z # x
    <3>1. PICK i \in g.nodes : m.sub[z] = g.sub[i] /\ (z # c => i = z) /\ (z = c => i = x)
      BY <2>5, <1>11
    <3>2. CASE y = c
      <4>1. y \in g.sub[i] <=> x \in g.sub[i]
        BY <2>2, <3>1, <3>2, <1>3
      <4>2. x \in g.sub[i] <=> t.parent[x] \in g.sub[i]
        BY <2>2, <2>4, <2>5, <3>1, <3>2
      <4> QED BY <2>1, <3>1, <3>2, <4>1, <4>2 DEF TurnedParent
    <3>3. CASE y = x
      <4>1. r.parent[y] = c
        BY <2>1, <3>3, <1>3 DEF TurnedParent
      <4>2. CASE i = x
        BY <3>1, <3>3, <4>1, <4>2, <1>3, MapTypes
      <4>3. CASE i # x
        BY <2>2, <3>1, <3>3, <4>1, <4>3, <1>3
      <4> QED BY <4>2, <4>3
    <3>4. CASE y = b /\ y # c /\ y # x
      <4>1. r.parent[y] = x
        BY <2>1, <3>4 DEF TurnedParent
      <4>2. b # Nil
        BY <3>4, MapTypes
      <4>3. CASE i = x
        <5>1. b \in g.sub[b] /\ x \in g.sub[x]
          BY Zenon, <4>2, <1>5, MapTypes
        <5> QED BY Zenon, <3>1, <3>4, <4>1, <4>2, <4>3, <5>1, <1>3, <1>5
      <4>4. CASE i # x
        <5>1. i = z /\ i # c
          BY <3>1, <4>4
        <5>2. y \in g.sub[i] <=> c \in g.sub[i]
          BY Zenon, <2>2, <3>4, <4>2, <5>1, <1>5
        <5>3. c \in g.sub[i] <=> x \in g.sub[i]
          BY <2>2, <5>1, <1>3
        <5> QED BY <3>1, <4>1, <5>2, <5>3
      <4> QED BY <4>3, <4>4
    <3>5. CASE y # b /\ y # c /\ y # x
      <4>1. r.parent[y] = t.parent[y]
        BY <2>1, <3>5 DEF TurnedParent
      <4>2. y # i
        BY <3>1, <3>5
      <4> QED BY <2>2, <2>3, <3>1, <3>5, <4>1, <4>2
    <3> QED BY <3>2, <3>3, <3>4, <3>5
  <2>6. CASE z = x
    <3>0. m.sub[z] = rest /\ y # x
      BY <2>6, <1>11
    <3>1. c \notin rest
      BY <1>3, <1>14, <1>13, OnTwoSides
    <3>2. CASE y = c
      <4>1. r.parent[y] = t.parent[x] /\ x # t.root
        BY <2>1, <2>4, <3>2 DEF TurnedParent
      <4>2. t.parent[x] \notin g.sub[x]
        <5>1. t.parent[x] \in g.nodes /\ SideOf(t, x) \in Sides /\ t.kid[SideOf(t, x)][t.parent[x]] = x
          BY <4>1, Parents
        <5> QED BY <5>1, <1>2, Children
      <4> QED BY <3>0, <3>1, <3>2, <4>1, <4>2, <1>9
    <3>3. CASE y = b /\ y # c
      <4>1. r.parent[y] = x /\ b # Nil
        BY <2>1, <3>0, <3>3, MapTypes DEF TurnedParent
      <4>2. b \in Part(g, b)
        BY Zenon, <4>1, <1>5, MapTypes DEF Part
      <4> QED BY <3>0, <3>3, <4>1, <4>2
    <3>4. CASE y # b /\ y # c
      <4>1. r.parent[y] = t.parent[y] /\ y # t.root
        BY <2>1, <2>3, <3>0, <3>4 DEF TurnedParent
      <4> DEFINE p == t.parent[y]
      <4>2. a # Nil /\ y # a => (y \in Part(g, a) <=> p \in Part(g, a))
        BY <2>2, <4>1, <1>4 DEF Part
      <4>3. b # Nil /\ y # b => (y \in Part(g, b) <=> p \in Part(g, b))
        BY Zenon, <2>2, <4>1, <1>5 DEF Part
      <4>4. Part(g, Nil) = {}
        BY DEF Part
      <4>5. CASE y = a
        <5>1. a # Nil /\ p = x /\ a \in Part(g, a)
          BY <4>5, <1>4, MapTypes DEF Part
        <5> QED BY <3>0, <4>1, <4>5, <5>1
      <4>6. CASE y # a
        <5>1. p = x => FALSE
          <6> SUFFICES ASSUME p = x PROVE FALSE
            OBVIOUS
          <6>1. PICK q \in Sides : t.kid[q][x] = y
            BY <4>1, Parents
          <6> QED BY <6>1, <4>6, <3>4, <1>2
        <5>2. y \in Part(g, a) <=> p \in Part(g, a)
          BY <4>2, <4>4, <4>6
        <5>3. y \in Part(g, b) <=> p \in Part(g, b)
          BY <3>4, <4>3, <4>4
        <5> HIDE DEF p
        <5> QED BY <3>0, <4>1, <5>1, <5>2, <5>3 DEF p
      <4> QED BY <4>5, <4>6
    <3> QED BY <3>2, <3>3, <3>4
  <2> QED BY <2>5, <2>6
<1>24. Topped(r, m)
  <2> SUFFICES ASSUME NEW z \in g.nodes, r.root \in m.sub[z] PROVE z = r.root
    BY <1>10 DEF Topped
  <2>1. \A y \in g.nodes : t.root \in g.sub[y] => y = t.root
    BY DEF Charted, Topped
  <2>2. CASE x = t.root
    <3>1. r.root = c /\ (z # c => (c \in g.sub[z] <=> x \in g.sub[z]))
      BY Zenon, <2>2, <1>1, <1>3 DEF Charted, Closed
    <3>2. c \notin rest
      BY <1>3, <1>14, <1>13, OnTwoSides
    <3> HIDE DEF rest
    <3> QED BY <2>1, <2>2, <3>1, <3>2, <1>11
  <2>3. CASE x # t.root
    <3>1. r.root = t.root
      BY <2>3, <1>1
    <3> HIDE DEF rest
    <3> QED BY <2>1, <2>3, <3>1, <1>3, <1>9, <1>11
  <2> QED BY <2>2, <2>3
<1>22. Vacancies(r, m)
  <2> SUFFICES ASSUME NEW y \in Nodes, t.data[y] = 0 PROVE Vacant(r, m, y)
    BY <1>1 DEF Vacancies
  <2>1. Vacant(t, g, y)
    BY DEF Charted, Vacancies
  <2>2. y \in Nodes \ g.nodes
    BY <2>1 DEF Vacant
  <2> QED BY <2>1, <2>2, <1>1, <1>10 DEF Vacant
<1>23. Sorted(r, m)
  BY <1>1, <1>10 DEF Charted, Sorted
<1> QED BY <1>1, <1>10, <1>16, <1>17, <1>18, <1>19, <1>20, <1>21, <1>22, <1>23, <1>24 DEF Charted, r, m

-----------------------------------------------------------------------------
(***************************************************************************)
(* Other changes of a tree.                                                *)
(***************************************************************************)

\* The colors of the nodes and all counts are free.
LEMMA Repaint ==
  ASSUME NEW t, NEW g, Charted(t, g), NEW u \in Trees,
         u.root = t.root, u.data = t.data, u.parent = t.parent, u.kid = t.kid,
         \A y \in Nodes \ g.nodes : u.color[y] = t.color[y]
  PROVE  Charted(u, g)
<1>1. Placed(u, g)
  BY DEF Charted, Placed, SubSplit, KidPlaced
<1>2. Joined(u, g)
  BY DEF Charted, Joined, Linked
<1>3. Rooted(u, g) /\ Closed(u, g) /\ Topped(u, g) /\ Sorted(u, g)
  BY DEF Charted, Rooted, Closed, Topped, Sorted
<1>4. Vacancies(u, g)
  BY DEF Charted, Vacancies, Vacant
<1> QED BY <1>1, <1>2, <1>3, <1>4 DEF Charted

\* The map of a tree of one node.
SingleMap(n) ==
  [nodes |-> {n}, pos |-> [y \in Nodes |-> 0], sub |-> [y \in Nodes |-> {y}]]

\* The tree of one node has a map.
LEMMA SingleCharted ==
  ASSUME NEW t \in Trees, NEW n \in Nodes, t.root = n, t.parent[n] = Nil, t.data[n] # 0,
         \A q \in Sides : t.kid[q][n] = Nil,
         \A y \in Nodes : t.data[y] = 0 =>
           t.color[y] = RED /\ t.parent[y] = Nil /\ \A s \in Sides : t.kid[s][y] = Nil
  PROVE  Charted(t, SingleMap(n))
<1> DEFINE g == SingleMap(n)
<1>1. g \in Maps /\ g.nodes = {n} /\ g.sub[n] = {n}
  BY DEF SingleMap, Maps
<1> HIDE DEF g
<1>2. Placed(t, g)
  <2>1. \A q \in Sides : KidPlaced(t, g, n, q)
    BY DEF KidPlaced, Part
  <2>2. SubSplit(t, g, n)
    BY <1>1 DEF SubSplit, Part
  <2> QED BY <1>1, <2>1, <2>2 DEF Placed
<1>3. Joined(t, g) /\ Rooted(t, g) /\ Apart(g) /\ Closed(t, g) /\ Topped(t, g) /\ Vacancies(t, g)
  BY <1>1, NilIsNoNode DEF Joined, Linked, Rooted, Apart, Closed, Topped, Vacancies, Vacant
<1>4. Sorted(t, g) /\ Tight(g)
  <2>1. \A y \in g.nodes : g.pos[y] = 0
    BY DEF g, SingleMap
  <2> QED BY <2>1, <1>1 DEF Sorted, Tight
<1> QED BY <1>1, <1>2, <1>3, <1>4 DEF Charted, g

\* A new leaf n in a slot of x; all positions are doubled to make room.
LeafPos(g, x, s) == IF s = "left" THEN 2 * g.pos[x] - 1 ELSE 2 * g.pos[x] + 1

LeafMap(g, x, s, n) ==
  [nodes |-> g.nodes \cup {n},
   pos   |-> [y \in Nodes |-> IF y = n THEN LeafPos(g, x, s) ELSE 2 * g.pos[y]],
   sub   |-> [y \in Nodes |-> IF y = n THEN {n} ELSE IF x \in g.sub[y] THEN g.sub[y] \cup {n} ELSE g.sub[y]]]

LeafFits(t, g, x, s, d) ==
  \A y \in g.nodes : /\ 2 * g.pos[y] < LeafPos(g, x, s) => t.data[y] <= d
                     /\ LeafPos(g, x, s) < 2 * g.pos[y] => d <= t.data[y]

\* u is t with the red leaf n.
LeafAdded(t, u, x, s, n, d) ==
  /\ u \in Trees /\ u.root = t.root /\ u.data = [t.data EXCEPT ![n] = d]
  /\ u.parent = [t.parent EXCEPT ![n] = x] /\ u.kid = [t.kid EXCEPT ![s][x] = n]
  /\ \A y \in Nodes : u.color[y] = IF y = n THEN RED ELSE t.color[y]

\* A tree to which a leaf has been added where its datum fits has a map.
LEMMA LeafCharted ==
  ASSUME NEW t, NEW g, Charted(t, g), NEW x \in g.nodes, NEW s \in Sides, t.kid[s][x] = Nil,
         NEW n \in Nodes, n \notin g.nodes, \A q \in Sides : t.kid[q][n] = Nil,
         NEW d \in Nat, d # 0, LeafFits(t, g, x, s, d), NEW u, LeafAdded(t, u, x, s, n, d)
  PROVE  Charted(u, LeafMap(g, x, s, n))
<1> DEFINE m == LeafMap(g, x, s, n)
<1>0. /\ u \in Trees /\ u.root = t.root /\ u.data = [t.data EXCEPT ![n] = d]
      /\ u.parent = [t.parent EXCEPT ![n] = x] /\ u.kid = [t.kid EXCEPT ![s][x] = n]
      /\ \A y \in Nodes \ g.nodes : y # n => u.color[y] = t.color[y]
  BY DEF LeafAdded
<1> USE <1>0
<1>1. g \in Maps /\ t \in Trees /\ g.nodes \subseteq Nodes /\ x \in Nodes /\ n \in Nodes
  BY DEF Charted, Maps
<1>2. n # Nil /\ n # x /\ n # t.root /\ x # Nil /\ (t.root = Nil \/ t.root \in g.nodes) /\ t.root # Nil
  BY <1>1, NilIsNoNode DEF Charted, Rooted
<1>3. \A y \in g.nodes : g.pos[y] \in Int /\ y \in g.sub[y] /\ g.sub[y] \subseteq g.nodes
  BY MapTypes
<1>4. /\ LeafPos(g, x, s) \in Int
      /\ \A y \in g.nodes : LeafPos(g, x, s) # 2 * g.pos[y]
      /\ \A y \in g.nodes : 2 * g.pos[y] < LeafPos(g, x, s) <=> (g.pos[y] < g.pos[x] \/ (g.pos[y] = g.pos[x] /\ s = "right"))
      /\ \A y \in g.nodes : LeafPos(g, x, s) < 2 * g.pos[y] <=> (g.pos[x] < g.pos[y] \/ (g.pos[y] = g.pos[x] /\ s = "left"))
  <2>1. g.pos[x] \in Int
    BY <1>3
  <2> QED BY <1>3, <2>1 DEF LeafPos, Sides
<1>5. /\ m \in Maps /\ m.nodes = g.nodes \cup {n}
      /\ \A y \in g.nodes : m.pos[y] = 2 * g.pos[y]
      /\ m.pos[n] = LeafPos(g, x, s)
      /\ \A y \in g.nodes : m.sub[y] = IF x \in g.sub[y] THEN g.sub[y] \cup {n} ELSE g.sub[y]
      /\ m.sub[n] = {n}
  <2> DEFINE pos == [y \in Nodes |-> IF y = n THEN LeafPos(g, x, s) ELSE 2 * g.pos[y]]
             sub == [y \in Nodes |-> IF y = n THEN {n} ELSE IF x \in g.sub[y] THEN g.sub[y] \cup {n} ELSE g.sub[y]]
  <2>1. m = [nodes |-> g.nodes \cup {n}, pos |-> pos, sub |-> sub]
    BY DEF LeafMap
  <2>2. pos \in [Nodes -> Int]
    BY <1>1, <1>4 DEF Maps
  <2>3. sub \in [Nodes -> SUBSET Nodes]
    BY <1>1 DEF Maps
  <2>4. /\ \A y \in g.nodes : pos[y] = 2 * g.pos[y]
        /\ pos[n] = LeafPos(g, x, s)
        /\ \A y \in g.nodes : sub[y] = IF x \in g.sub[y] THEN g.sub[y] \cup {n} ELSE g.sub[y]
        /\ sub[n] = {n}
    BY <1>1
  <2>5. g.nodes \cup {n} \in SUBSET Nodes
    BY <1>1
  <2> HIDE DEF pos, sub, m
  <2> QED BY <2>1, <2>2, <2>3, <2>4, <2>5 DEF Maps
<1> HIDE DEF m
<1>16. \A y \in m.nodes : m.sub[y] \subseteq m.nodes
  <2> SUFFICES ASSUME NEW y \in m.nodes, NEW z \in m.sub[y] PROVE z \in m.nodes
    OBVIOUS
  <2>1. CASE y = n
    BY <2>1, <1>5
  <2>2. CASE y \in g.nodes
    <3>1. z \in g.sub[y] \/ z = n
      BY <2>2, <1>5
    <3>2. g.sub[y] \subseteq g.nodes
      BY <2>2, <1>3
    <3> QED BY <3>1, <3>2, <1>5
  <2> QED BY <2>1, <2>2, <1>5
<1>17. \A y \in g.nodes : /\ \A z \in g.nodes : z \in m.sub[y] <=> z \in g.sub[y]
                          /\ n \in m.sub[y] <=> x \in g.sub[y]
  <2> SUFFICES ASSUME NEW y \in g.nodes
               PROVE  (\A z \in g.nodes : z \in m.sub[y] <=> z \in g.sub[y]) /\ (n \in m.sub[y] <=> x \in g.sub[y])
    OBVIOUS
  <2>1. n \notin g.sub[y] /\ m.sub[y] = IF x \in g.sub[y] THEN g.sub[y] \cup {n} ELSE g.sub[y]
    BY <1>3, <1>5
  <2> QED BY <2>1
<1>6. /\ \A y \in g.nodes, q \in Sides : u.kid[q][y] = IF y = x /\ q = s THEN n ELSE t.kid[q][y]
      /\ \A q \in Sides : u.kid[q][n] = Nil
      /\ \A y \in g.nodes : u.parent[y] = t.parent[y] /\ u.data[y] = t.data[y]
      /\ u.parent[n] = x /\ u.data[n] = d
      /\ \A y \in Nodes \ g.nodes : y # n => /\ u.parent[y] = t.parent[y] /\ u.data[y] = t.data[y]
                                             /\ \A q \in Sides : u.kid[q][y] = t.kid[q][y]
  BY <1>1, <1>2 DEF Trees
<1>7. ASSUME NEW y \in g.nodes, NEW q \in Sides
      PROVE  LET k == u.kid[q][y]
             IN  /\ k # Nil => k \in m.nodes /\ u.parent[k] = y
                 /\ \A z \in Part(m, k) : On(q, m.pos[z], m.pos[y])
                 /\ \A z \in g.nodes : z \in Part(m, k) <=> z \in Part(g, t.kid[q][y])
                 /\ n \in Part(m, k) <=> (y = x /\ q = s) \/ x \in Part(g, t.kid[q][y])
  <2>1. CASE y = x /\ q = s
    <3>1. u.kid[q][y] = n
      BY <1>6, <2>1
    <3>2. Part(m, n) = {n} /\ Part(g, t.kid[q][y]) = {}
      BY <1>2, <1>5, <2>1 DEF Part
    <3>3. On(q, m.pos[n], m.pos[y])
      <4>1. g.pos[x] \in Int
        BY <1>3
      <4> QED BY <1>4, <1>5, <2>1, <4>1 DEF On, Sides
    <3> QED BY <2>1, <3>1, <3>2, <3>3, <1>2, <1>5, <1>6
  <2>2. CASE ~(y = x /\ q = s)
    <3> DEFINE k == t.kid[q][y]
    <3>1. u.kid[q][y] = k
      BY <1>6, <2>2
    <3>2. CASE k = Nil
      BY <2>2, <3>1, <3>2 DEF Part
    <3>3. CASE k # Nil
      <4>1. k \in g.nodes /\ t.parent[k] = y /\ \A z \in g.sub[k] : On(q, g.pos[z], g.pos[y])
        BY <3>3, Children
      <4>2. Part(m, k) = m.sub[k] /\ Part(g, k) = g.sub[k]
        BY <3>3 DEF Part
      <4>3. m.sub[k] = IF x \in g.sub[k] THEN g.sub[k] \cup {n} ELSE g.sub[k]
        BY <4>1, <1>5
      <4>4. ASSUME NEW z \in g.sub[k] PROVE On(q, m.pos[z], m.pos[y])
        <5>1. On(q, g.pos[z], g.pos[y]) /\ z \in g.nodes /\ g.pos[z] \in Int /\ g.pos[y] \in Int
          BY <4>1, <1>3
        <5> QED BY <5>1, <1>5 DEF On
      <4>5. ASSUME x \in g.sub[k] PROVE On(q, m.pos[n], m.pos[y])
        <5>1. On(q, g.pos[x], g.pos[y]) /\ g.pos[x] \in Int /\ g.pos[y] \in Int
          BY <4>1, <4>5, <1>3
        <5> QED BY <5>1, <1>4, <1>5 DEF On
      <4>6. n \notin g.sub[k]
        BY <4>1, <1>3
      <4>7. \A z \in Part(m, k) : On(q, m.pos[z], m.pos[y])
        BY <4>2, <4>3, <4>4, <4>5
      <4>8. \A z \in g.nodes : z \in Part(m, k) <=> z \in Part(g, k)
        BY <4>2, <4>3
      <4>9. n \in Part(m, k) <=> x \in Part(g, k)
        BY <4>2, <4>3, <4>6
      <4>10. k \in m.nodes /\ u.parent[k] = y
        BY <4>1, <1>5, <1>6
      <4> HIDE DEF k
      <4> QED BY <2>2, <3>1, <4>7, <4>8, <4>9, <4>10 DEF k
    <3> QED BY <3>2, <3>3
  <2> QED BY <2>1, <2>2
<1>8. Placed(u, m)
  <2>1. ASSUME NEW y \in g.nodes PROVE m.sub[y] \subseteq m.nodes /\ SubSplit(u, m, y) /\ \A q \in Sides : KidPlaced(u, m, y, q)
    <3>1. m.sub[y] \subseteq m.nodes
      BY <1>5, <1>16
    <3>2. \A q \in Sides : KidPlaced(u, m, y, q)
      BY <1>7 DEF KidPlaced
    <3>3. SubSplit(t, g, y)
      BY DEF Charted, Placed
    <3>4. ASSUME NEW q \in Sides PROVE Part(m, u.kid[q][y]) \subseteq m.nodes
      <4>1. u.kid[q][y] # Nil => u.kid[q][y] \in m.nodes
        BY <1>7
      <4> QED BY <4>1, <1>16 DEF Part
    <3>5. ASSUME NEW z \in g.nodes PROVE z \in m.sub[y] <=> z = y \/ \E q \in Sides : z \in Part(m, u.kid[q][y])
      <4>1. z \in m.sub[y] <=> z \in g.sub[y]
        BY Zenon, <1>5
      <4> QED BY <4>1, <3>3, <1>7 DEF SubSplit
    <3>6. n \in m.sub[y] <=> \E q \in Sides : n \in Part(m, u.kid[q][y])
      <4>1. n \in m.sub[y] <=> x \in g.sub[y]
        BY Zenon, <1>3, <1>5
      <4> QED BY <4>1, <3>3, <1>7 DEF SubSplit
    <3>7. n # y
      OBVIOUS
    <3> QED BY <3>1, <3>2, <3>4, <3>5, <3>6, <3>7, <1>5 DEF SubSplit
  <2>2. m.sub[n] \subseteq m.nodes /\ SubSplit(u, m, n) /\ \A q \in Sides : KidPlaced(u, m, n, q)
    BY <1>5, <1>6 DEF SubSplit, KidPlaced, Part
  <2> QED BY <1>5, <2>1, <2>2 DEF Placed
<1>9. Joined(u, m)
  <2>1. ASSUME NEW y \in g.nodes PROVE Linked(u, m, y)
    <3>1. Linked(t, g, y)
      BY DEF Charted, Joined
    <3>2. CASE y = t.root
      BY <3>1, <3>2, <1>6 DEF Linked
    <3>3. CASE y # t.root
      <4>1. PICK q \in Sides : t.parent[y] \in g.nodes /\ t.kid[q][t.parent[y]] = y
        BY <3>1, <3>3 DEF Linked
      <4>2. y # Nil
        BY MapTypes
      <4> QED BY <3>3, <4>1, <4>2, <1>5, <1>6 DEF Linked
    <3> QED BY <3>2, <3>3
  <2>2. Linked(u, m, n)
    BY <1>2, <1>5, <1>6 DEF Linked
  <2> QED BY <1>5, <2>1, <2>2 DEF Joined
<1>10. Rooted(u, m)
  BY Zenon, <1>2, <1>5 DEF Charted, Rooted
<1>11. Apart(m)
  <2> SUFFICES ASSUME NEW y \in m.nodes, NEW z \in m.nodes, m.pos[y] = m.pos[z] PROVE y = z
    BY DEF Apart
  <2>1. CASE y \in g.nodes /\ z \in g.nodes
    BY <2>1, <1>3, <1>5 DEF Charted, Apart
  <2> QED BY <2>1, <1>4, <1>5
<1>12. Closed(u, m)
  <2> SUFFICES ASSUME NEW z \in m.nodes, NEW c \in m.nodes, c # u.root, c # z
               PROVE  c \in m.sub[z] <=> u.parent[c] \in m.sub[z]
    BY DEF Closed
  <2>1. CASE c \in g.nodes /\ z \in g.nodes
    <3>1. t.parent[c] \in g.nodes
      BY <2>1, Parents
    <3>2. c \in g.sub[z] <=> t.parent[c] \in g.sub[z]
      BY <2>1 DEF Charted, Closed
    <3> QED BY <2>1, <3>1, <3>2, <1>6, <1>17
  <2>2. CASE c = n /\ z \in g.nodes
    <3>1. n \in m.sub[z] <=> x \in m.sub[z]
      BY <2>2, <1>17
    <3> QED BY <2>2, <3>1, <1>6
  <2>3. CASE c \in g.nodes /\ z = n
    <3>1. t.parent[c] \in g.nodes
      BY <2>3, Parents
    <3> QED BY <2>3, <3>1, <1>5, <1>6
  <2> QED BY <2>1, <2>2, <2>3, <1>5
<1>13. Tight(m)
  <2> SUFFICES ASSUME NEW z \in m.nodes, NEW w \in m.nodes, NEW a \in m.sub[z], NEW b \in m.sub[z],
                      m.pos[a] < m.pos[w], m.pos[w] < m.pos[b]
               PROVE  w \in m.sub[z]
    BY DEF Tight
  <2>1. z \in g.nodes
    <3> SUFFICES ASSUME z = n PROVE FALSE
      BY <1>5
    <3>1. a = n /\ b = n /\ m.pos[n] \in Int /\ m.pos[w] \in Int
      BY <1>3, <1>4, <1>5
    <3> QED BY <3>1
  <2>2. \A i, j \in g.sub[z], v \in g.nodes : g.pos[i] < g.pos[v] /\ g.pos[v] < g.pos[j] => v \in g.sub[z]
    BY <2>1 DEF Charted, Tight
  <2>3. g.sub[z] \subseteq g.nodes /\ (x \in g.sub[z] => m.sub[z] = g.sub[z] \cup {n}) /\ (x \notin g.sub[z] => m.sub[z] = g.sub[z])
    BY <2>1, <1>3, <1>5
  <2>4. \A v \in g.nodes : g.pos[v] \in Int /\ m.pos[v] = 2 * g.pos[v] /\ (g.pos[v] = g.pos[x] => v = x)
    BY <1>3, <1>5 DEF Charted, Apart
  <2>5. CASE w = n
    <3>1. a \in g.sub[z] /\ b \in g.sub[z]
      BY <2>3, <2>5, <1>4, <1>5
    <3>2. g.pos[a] \in Int /\ g.pos[b] \in Int /\ g.pos[x] \in Int
      BY <2>3, <2>4, <3>1
    <3>3. g.pos[a] <= g.pos[x] /\ g.pos[x] <= g.pos[b]
      BY <2>3, <2>4, <2>5, <3>1, <3>2, <1>4, <1>5
    <3>4. x \in g.sub[z]
      BY <2>2, <2>3, <2>4, <3>1, <3>2, <3>3
    <3> QED BY <2>3, <2>5, <3>4
  <2>6. CASE w \in g.nodes
    <3>1. g.pos[w] \in Int /\ g.pos[x] \in Int
      BY <2>4, <2>6
    <3>2. CASE a = n
      <4>1. x \in g.sub[z]
        BY <2>3, <3>2
      <4>2. g.pos[x] <= g.pos[w]
        BY <2>4, <2>6, <3>1, <3>2, <1>4, <1>5
      <4>3. b \in g.sub[z]
        <5>1. b # n
          BY <3>2, <2>4, <2>6, <1>4, <1>5, <3>1
        <5> QED BY <5>1, <2>3
      <4> QED BY <2>2, <2>3, <2>4, <2>6, <3>1, <4>1, <4>2, <4>3
    <3>3. CASE b = n
      <4>1. x \in g.sub[z]
        BY <2>3, <3>3
      <4>2. g.pos[w] <= g.pos[x]
        BY <2>4, <2>6, <3>1, <3>3, <1>4, <1>5
      <4>3. a \in g.sub[z]
        <5>1. a # n
          BY <3>3, <2>4, <2>6, <1>4, <1>5, <3>1
        <5> QED BY <5>1, <2>3
      <4> QED BY <2>2, <2>3, <2>4, <2>6, <3>1, <4>1, <4>2, <4>3
    <3>4. CASE a # n /\ b # n
      BY <2>2, <2>3, <2>4, <2>6, <3>1, <3>4
    <3> QED BY <3>2, <3>3, <3>4
  <2> QED BY <2>5, <2>6, <1>5
<1>18. Topped(u, m)
  BY <1>2, <1>5, <1>17 DEF Charted, Topped
<1>14. Vacancies(u, m)
  <2> SUFFICES ASSUME NEW y \in Nodes, u.data[y] = 0 PROVE Vacant(u, m, y)
    BY DEF Vacancies
  <2>1. y # n
    BY <1>6
  <2>2. t.data[y] = 0
    BY <2>1, <1>6
  <2> QED BY <2>1, <2>2, <1>5, <1>6 DEF Charted, Vacancies, Vacant
<1>15. Sorted(u, m)
  <2> SUFFICES ASSUME NEW y \in m.nodes, NEW z \in m.nodes, m.pos[y] < m.pos[z] PROVE u.data[y] <= u.data[z]
    BY DEF Sorted
  <2>1. CASE y \in g.nodes /\ z \in g.nodes
    BY <2>1, <1>3, <1>5, <1>6 DEF Charted, Sorted
  <2>2. CASE y = n /\ z \in g.nodes
    <3>1. LeafPos(g, x, s) < 2 * g.pos[z]
      BY <2>2, <1>5
    <3>2. d <= t.data[z]
      BY <2>2, <3>1 DEF LeafFits
    <3> QED BY <2>2, <3>2, <1>6
  <2>3. CASE y \in g.nodes /\ z = n
    <3>1. 2 * g.pos[y] < LeafPos(g, x, s)
      BY <2>3, <1>5
    <3>2. t.data[y] <= d
      BY <2>3, <3>1 DEF LeafFits
    <3> QED BY <2>3, <3>2, <1>6
  <2>4. CASE y = n /\ z = n
    BY <2>4, <1>6
  <2> QED BY <2>1, <2>2, <2>3, <2>4, <1>5
<1> QED BY <1>5, <1>8, <1>9, <1>10, <1>11, <1>12, <1>13, <1>14, <1>15, <1>18 DEF Charted, m

\* Node x is taken out, and c, nothing or a child of x, comes in its place: the
\* rest of the subtree of x goes with it.
CutMap(g, x, c) ==
  [g EXCEPT !.nodes = @ \ (g.sub[x] \ Part(g, c)),
            !.sub   = [y \in Nodes |-> @[y] \ (g.sub[x] \ Part(g, c))]]

\* What freeing a node makes of every field: those of the node are as in
\* fresh memory, the others are as before.
LEMMA FreeFields ==
  ASSUME NEW v \in Trees, NEW x \in Nodes
  PROVE  LET u == Free(v, x)
         IN  /\ u \in Trees /\ u.root = v.root
             /\ u.data[x] = 0 /\ u.color[x] = RED /\ u.parent[x] = Nil /\ \A s \in Sides : u.kid[s][x] = Nil
             /\ \A y \in Nodes : y # x => /\ u.data[y] = v.data[y] /\ u.color[y] = v.color[y] /\ u.parent[y] = v.parent[y]
                                         /\ \A s \in Sides : u.kid[s][y] = v.kid[s][y]
<1> DEFINE u == Free(v, x)
           data == [v.data EXCEPT ![x] = 0]
           color == [v.color EXCEPT ![x] = RED]
           count == [v.count EXCEPT ![x] = 0]
           parent == [v.parent EXCEPT ![x] = Nil]
           kid1 == [v.kid EXCEPT !["left"][x] = Nil]
           kid2 == [kid1 EXCEPT !["right"][x] = Nil]
           v1 == [v EXCEPT !.data = data, !.count = count, !.color = color, !.parent = parent]
           v2 == [v1 EXCEPT !.kid["left"][x] = Nil]
<1>1. /\ data \in [Nodes -> Nat] /\ color \in [Nodes -> Colors] /\ count \in [Nodes -> Int]
      /\ parent \in [Nodes -> Pointers]
  BY NilIsNoNode DEF Trees, Colors
<1>2. /\ kid1 \in [Sides -> [Nodes -> Pointers]]
      /\ \A y \in Nodes, q \in Sides : kid1[q][y] = IF y = x /\ q = "left" THEN Nil ELSE v.kid[q][y]
  BY NilIsNoNode DEF Trees, Sides
<1>3. /\ kid2 \in [Sides -> [Nodes -> Pointers]]
      /\ \A y \in Nodes, q \in Sides : kid2[q][y] = IF y = x /\ q = "right" THEN Nil ELSE kid1[q][y]
  <2> HIDE DEF kid1
  <2> QED BY <1>2, NilIsNoNode DEF Sides
<1>4. u = [v2 EXCEPT !.kid["right"][x] = Nil]
  BY DEF Free
<1>5. /\ v1 \in Trees /\ v1.root = v.root /\ v1.data = data /\ v1.color = color /\ v1.parent = parent
      /\ v1.kid = v.kid
  <2> HIDE DEF data, color, count, parent
  <2> QED BY <1>1 DEF Trees
<1> HIDE DEF v1, data, color, count, parent
<1>6. /\ v2 \in Trees /\ v2.root = v.root /\ v2.data = data /\ v2.color = color /\ v2.parent = parent
      /\ v2.kid = kid1
  <2>1. v2 = [v1 EXCEPT !.kid = kid1]
    BY <1>5
  <2> HIDE DEF v2, kid1
  <2> QED BY <1>2, <1>5, <2>1 DEF Trees
<1> HIDE DEF v2, kid1
<1>7. /\ u \in Trees /\ u.root = v.root /\ u.data = data /\ u.color = color /\ u.parent = parent
      /\ u.kid = kid2
  <2>1. u = [v2 EXCEPT !.kid = kid2]
    BY <1>4, <1>6
  <2> HIDE DEF u, kid2
  <2> QED BY <1>3, <1>6, <2>1 DEF Trees
<1> HIDE DEF u, kid2
<1>10. /\ u.data[x] = 0 /\ u.color[x] = RED /\ u.parent[x] = Nil
       /\ \A y \in Nodes : y # x => u.data[y] = v.data[y] /\ u.color[y] = v.color[y] /\ u.parent[y] = v.parent[y]
  BY <1>7 DEF data, color, parent, Trees
<1>11. /\ \A s \in Sides : u.kid[s][x] = Nil
       /\ \A y \in Nodes : y # x => \A s \in Sides : u.kid[s][y] = v.kid[s][y]
  BY <1>2, <1>3, <1>7 DEF Sides
<1> QED BY <1>7, <1>10, <1>11 DEF u

\* What it makes of every field that a node is replaced with one of its
\* children, or with nothing, and freed.
LEMMA CutFields ==
  ASSUME NEW t, NEW g, Charted(t, g), NEW x \in g.nodes, x # t.root,
         NEW c, c = Nil \/ \E s \in Sides : c = t.kid[s][x]
  PROVE  LET u == Free(Replace(t, x, c), x)
         IN  /\ u \in Trees /\ u.root = t.root
             /\ \A y \in Nodes : y # x => u.data[y] = t.data[y] /\ u.color[y] = t.color[y]
             /\ u.data[x] = 0 /\ u.color[x] = RED /\ u.parent[x] = Nil
             /\ \A y \in Nodes : y # x => u.parent[y] = IF y = c THEN t.parent[x] ELSE t.parent[y]
             /\ \A s \in Sides : u.kid[s][x] = Nil
             /\ \A y \in g.nodes, s \in Sides : y # x => u.kid[s][y] = IF t.kid[s][y] = x THEN c ELSE t.kid[s][y]
             /\ \A y \in Nodes \ g.nodes, s \in Sides : u.kid[s][y] = t.kid[s][y]
<1> DEFINE up == t.parent[x]
           i  == SideOf(t, x)
           v  == Replace(t, x, c)
           u  == Free(v, x)
           kid0 == [t.kid EXCEPT ![i][up] = c]
           parent0 == Put(t.parent, c, up)
<1>1. t \in Trees /\ x \in Nodes /\ x # Nil
  BY MapTypes DEF Charted
<1>2. /\ up \in g.nodes /\ up \in Nodes /\ up # x /\ up # Nil /\ i \in Sides /\ t.kid[i][up] = x
      /\ \A y \in g.nodes, q \in Sides : t.kid[q][y] = x => y = up /\ q = i
  BY Parents, MapTypes
<1>3. c \in Pointers /\ (c # Nil => c \in g.nodes /\ c \in Nodes /\ c # x)
  <2>1. CASE c = Nil
    BY <2>1, NilIsNoNode
  <2>2. CASE \E s \in Sides : c = t.kid[s][x] /\ c # Nil
    <3>1. c \in g.nodes /\ c # x
      BY <2>2, Children
    <3> QED BY <3>1, MapTypes, NilIsNoNode
  <2> QED BY <2>1, <2>2
<1>4. /\ kid0 \in [Sides -> [Nodes -> Pointers]]
      /\ \A y \in Nodes, q \in Sides : kid0[q][y] = IF y = up /\ q = i THEN c ELSE t.kid[q][y]
  BY <1>1, <1>2, <1>3 DEF Trees
<1>5. /\ parent0 \in [Nodes -> Pointers]
      /\ \A y \in Nodes : parent0[y] = IF y = c THEN up ELSE t.parent[y]
  BY <1>1, <1>2, <1>3, NilIsNoNode DEF Trees, Put
<1>6. v = [t EXCEPT !.kid = kid0, !.parent = parent0]
  BY <1>1 DEF Replace, Trees
<1>7. /\ v.kid = kid0 /\ v.parent = parent0 /\ v.root = t.root /\ v.data = t.data /\ v.color = t.color
      /\ v \in Trees
  <2> HIDE DEF kid0, parent0, v
  <2> QED BY <1>1, <1>4, <1>5, <1>6 DEF Trees
<1> HIDE DEF kid0, parent0, v
<1>8. /\ u \in Trees /\ u.root = t.root
      /\ u.data[x] = 0 /\ u.color[x] = RED /\ u.parent[x] = Nil /\ \A s \in Sides : u.kid[s][x] = Nil
      /\ \A y \in Nodes : y # x => /\ u.data[y] = t.data[y] /\ u.color[y] = t.color[y] /\ u.parent[y] = v.parent[y]
                                  /\ \A s \in Sides : u.kid[s][y] = v.kid[s][y]
  BY <1>1, <1>7, FreeFields
<1> HIDE DEF u
<1>9. \A y \in Nodes : y # x => u.parent[y] = IF y = c THEN up ELSE t.parent[y]
  BY <1>5, <1>7, <1>8
<1>10. \A y \in Nodes, s \in Sides : y # x => u.kid[s][y] = IF y = up /\ s = i THEN c ELSE t.kid[s][y]
  BY <1>4, <1>7, <1>8
<1>11. ASSUME NEW y \in g.nodes, NEW s \in Sides, y # x
       PROVE  u.kid[s][y] = IF t.kid[s][y] = x THEN c ELSE t.kid[s][y]
  BY <1>2, <1>10, <1>11, MapTypes
<1>12. \A y \in Nodes \ g.nodes, s \in Sides : u.kid[s][y] = t.kid[s][y]
  BY <1>2, <1>10
<1> QED BY <1>8, <1>9, <1>11, <1>12 DEF u, v

\* The tree after that has a map, which is without the node and what was
\* below it but not below the child.
LEMMA CutCharted ==
  ASSUME NEW t, NEW g, Charted(t, g), NEW x \in g.nodes, x # t.root,
         NEW c, c = Nil \/ \E s \in Sides : c = t.kid[s][x]
  PROVE  /\ Charted(Free(Replace(t, x, c), x), CutMap(g, x, c))
         /\ CutMap(g, x, c).nodes = g.nodes \ (g.sub[x] \ Part(g, c))
         /\ x \notin CutMap(g, x, c).nodes
         /\ c # Nil => c \in CutMap(g, x, c).nodes
         /\ t.parent[x] \in CutMap(g, x, c).nodes
<1> DEFINE u == Free(Replace(t, x, c), x)
           m == CutMap(g, x, c)
           gone == g.sub[x] \ Part(g, c)
<1>1. /\ u \in Trees /\ u.root = t.root
      /\ \A y \in Nodes : y # x => u.data[y] = t.data[y] /\ u.color[y] = t.color[y]
      /\ u.data[x] = 0 /\ u.color[x] = RED /\ u.parent[x] = Nil
      /\ \A y \in Nodes : y # x => u.parent[y] = IF y = c THEN t.parent[x] ELSE t.parent[y]
      /\ \A s \in Sides : u.kid[s][x] = Nil
      /\ \A y \in g.nodes, s \in Sides : y # x => u.kid[s][y] = IF t.kid[s][y] = x THEN c ELSE t.kid[s][y]
      /\ \A y \in Nodes \ g.nodes, s \in Sides : u.kid[s][y] = t.kid[s][y]
  BY CutFields
<1>2. /\ x \in Nodes /\ x # Nil /\ g.nodes \subseteq Nodes /\ g \in Maps /\ t \in Trees
      /\ \A y \in g.nodes : y \in Nodes /\ y # Nil /\ y \in g.sub[y] /\ g.sub[y] \subseteq g.nodes
  BY MapTypes DEF Charted
<1>3. c # Nil => /\ c \in g.nodes /\ c # x /\ t.parent[c] = x /\ c # t.root
                 /\ g.sub[c] \subseteq g.sub[x] /\ x \notin g.sub[c]
  <2> SUFFICES ASSUME c # Nil, NEW s \in Sides, c = t.kid[s][x]
               PROVE  /\ c \in g.nodes /\ c # x /\ t.parent[c] = x /\ c # t.root
                      /\ g.sub[c] \subseteq g.sub[x] /\ x \notin g.sub[c]
    OBVIOUS
  <2> QED BY Children
<1>4. /\ t.parent[x] \in g.nodes /\ t.parent[x] # x /\ t.parent[x] \notin g.sub[x]
      /\ SideOf(t, x) \in Sides /\ t.kid[SideOf(t, x)][t.parent[x]] = x
  <2>1. /\ t.parent[x] \in g.nodes /\ t.parent[x] # x
        /\ SideOf(t, x) \in Sides /\ t.kid[SideOf(t, x)][t.parent[x]] = x
    BY Parents
  <2> QED BY <2>1, <1>2, Children
<1>5. /\ \A i, j \in g.nodes : j # t.root /\ j # i => (j \in g.sub[i] <=> t.parent[j] \in g.sub[i])
      /\ t.root \notin g.sub[x] /\ t.root \in g.nodes
  BY <1>2, NilIsNoNode DEF Charted, Closed, Topped, Rooted
<1>6. /\ m \in Maps /\ m.nodes = g.nodes \ gone /\ m.pos = g.pos
      /\ \A y \in Nodes : m.sub[y] = g.sub[y] \ gone
  <2> DEFINE sub == [y \in Nodes |-> g.sub[y] \ gone]
  <2>1. m = [g EXCEPT !.nodes = g.nodes \ gone, !.sub = sub]
    BY <1>2 DEF CutMap, Maps
  <2>2. sub \in [Nodes -> SUBSET Nodes] /\ g.nodes \ gone \in SUBSET Nodes
    BY <1>2 DEF Maps
  <2>3. \A y \in Nodes : sub[y] = g.sub[y] \ gone
    OBVIOUS
  <2> HIDE DEF sub, m, gone
  <2> QED BY <1>2, <2>1, <2>2, <2>3 DEF Maps
<1>7. \A y \in g.nodes : y \in gone <=> y \in g.sub[x] /\ (c # Nil => y \notin g.sub[c])
  BY DEF Part
<1>8. x \in gone /\ t.parent[x] \notin gone /\ t.root \notin gone /\ (c # Nil => c \notin gone)
  BY <1>2, <1>3, <1>4, <1>5, <1>7
<1>9. ASSUME NEW y \in g.nodes, y \notin gone, y # c, y # t.root
      PROVE  t.parent[y] \in g.nodes /\ t.parent[y] \notin gone /\ t.parent[y] # x
  <2>1. t.parent[y] \in g.nodes
    BY <1>9, Parents
  <2>2. y # x
    BY <1>8, <1>9
  <2>3. (y \in g.sub[x] <=> t.parent[y] \in g.sub[x]) /\ (c # Nil => (y \in g.sub[c] <=> t.parent[y] \in g.sub[c]))
    BY <1>3, <1>5, <1>9, <2>2
  <2>4. t.parent[y] \notin gone
    BY <1>7, <1>9, <2>1, <2>3
  <2> QED BY <1>8, <2>1, <2>4
<1> HIDE DEF m, u, gone
<1>10. \A y \in m.nodes : y \in g.nodes /\ y \in Nodes /\ y # x /\ y \notin gone /\ y # Nil
  BY <1>2, <1>6, <1>8
<1>11. ASSUME NEW y \in m.nodes, NEW q \in Sides
       PROVE  LET k == u.kid[q][y]
              IN  /\ k # Nil => k \in m.nodes /\ u.parent[k] = y
                  /\ Part(m, k) = Part(g, t.kid[q][y]) \ gone
  <2> DEFINE k == u.kid[q][y]
  <2>0. y \in g.nodes /\ y # x /\ y \notin gone
    BY <1>10
  <2>1. CASE t.kid[q][y] = x
    <3>1. k = c
      BY <2>0, <2>1, <1>1
    <3>2. t.parent[x] = y
      BY <2>0, <2>1, <1>2, Children
    <3>3. c # Nil => c \in m.nodes /\ u.parent[c] = y
      BY <3>2, <1>1, <1>2, <1>3, <1>6, <1>8
    <3>4. Part(g, x) \ gone = Part(g, c)
      BY <1>2, <1>3 DEF Part, gone
    <3>5. Part(m, c) = Part(g, c)
      <4>1. CASE c = Nil
        BY <4>1 DEF Part
      <4>2. CASE c # Nil
        <5>1. m.sub[c] = g.sub[c] \ gone
          BY <4>2, <1>2, <1>3, <1>6
        <5>2. \A z \in g.sub[c] : z \notin gone
          BY <4>2 DEF gone, Part
        <5> QED BY <4>2, <5>1, <5>2 DEF Part
      <4> QED BY <4>1, <4>2
    <3> QED BY <2>1, <3>1, <3>3, <3>4, <3>5
  <2>2. CASE t.kid[q][y] # x
    <3>1. k = t.kid[q][y]
      BY <2>0, <2>2, <1>1
    <3>2. CASE k = Nil
      BY <3>1, <3>2 DEF Part
    <3>3. CASE k # Nil
      <4>1. k \in g.nodes /\ t.parent[k] = y /\ k # t.root
        BY <2>0, <3>1, <3>3, Children
      <4>2. k # c
        BY <2>0, <3>3, <4>1, <1>3
      <4>3. k \notin gone
        <5>1. (k \in g.sub[x] <=> y \in g.sub[x]) /\ (c # Nil => (k \in g.sub[c] <=> y \in g.sub[c]))
          BY <2>2, <3>1, <4>1, <4>2, <1>3, <1>5
        <5> QED BY <2>0, <4>1, <5>1, <1>7
      <4>4. k \in m.nodes /\ u.parent[k] = y
        BY <2>2, <3>1, <4>1, <4>2, <4>3, <1>1, <1>2, <1>6
      <4>5. Part(m, k) = Part(g, k) \ gone
        BY <3>3, <4>1, <1>2, <1>6 DEF Part
      <4> QED BY <3>1, <4>4, <4>5
    <3> QED BY <3>2, <3>3
  <2> QED BY <2>1, <2>2
<1>12. Placed(u, m)
  <2> SUFFICES ASSUME NEW y \in m.nodes
               PROVE  m.sub[y] \subseteq m.nodes /\ SubSplit(u, m, y) /\ \A q \in Sides : KidPlaced(u, m, y, q)
    BY DEF Placed
  <2>1. y \in g.nodes /\ m.sub[y] = g.sub[y] \ gone /\ y \notin gone
    BY <1>6, <1>10
  <2>2. SubSplit(t, g, y) /\ g.sub[y] \subseteq g.nodes /\ \A q \in Sides : KidPlaced(t, g, y, q)
    BY <2>1 DEF Charted, Placed
  <2>3. SubSplit(u, m, y)
    BY <2>1, <2>2, <1>11 DEF SubSplit
  <2>4. \A q \in Sides : KidPlaced(u, m, y, q)
    BY <2>2, <1>6, <1>11 DEF KidPlaced
  <2> QED BY <2>1, <2>2, <2>3, <2>4, <1>6
<1>13. Joined(u, m)
  <2> SUFFICES ASSUME NEW y \in m.nodes PROVE Linked(u, m, y)
    BY DEF Joined
  <2>0. y \in g.nodes /\ y \in Nodes /\ y # x /\ y \notin gone /\ y # Nil
    BY <1>10
  <2>1. Linked(t, g, y)
    BY <2>0 DEF Charted, Joined
  <2>2. CASE y = c
    <3>1. u.parent[y] = t.parent[x] /\ y # u.root /\ t.parent[x] \in m.nodes
      BY <2>0, <2>2, <1>1, <1>3, <1>4, <1>6, <1>8
    <3>2. u.kid[SideOf(t, x)][t.parent[x]] = c
      BY <1>1, <1>4
    <3> QED BY <2>2, <3>1, <3>2, <1>4 DEF Linked
  <2>3. CASE y = t.root
    <3>1. u.parent[y] = t.parent[y]
      BY <2>0, <2>3, <1>1, <1>3
    <3> QED BY <2>1, <2>3, <3>1, <1>1 DEF Linked
  <2>4. CASE y # c /\ y # t.root
    <3>1. u.parent[y] = t.parent[y] /\ t.parent[y] \in m.nodes /\ t.parent[y] \in g.nodes /\ t.parent[y] # x
      BY <2>0, <2>4, <1>1, <1>6, <1>9
    <3>2. PICK q \in Sides : t.kid[q][t.parent[y]] = y
      BY <2>1, <2>4 DEF Linked
    <3>3. u.kid[q][t.parent[y]] = y
      BY <2>0, <3>1, <3>2, <1>1
    <3> QED BY <2>4, <3>1, <3>3, <1>1 DEF Linked
  <2> QED BY <2>2, <2>3, <2>4
<1>14. Rooted(u, m)
  <2>1. g.sub[t.root] = g.nodes /\ t.root \in Nodes /\ t.root # Nil
    BY <1>2, <1>5 DEF Charted, Rooted
  <2> QED BY <2>1, <1>1, <1>5, <1>6, <1>8 DEF Rooted
<1>15. Apart(m) /\ Tight(m)
  <2>1. Apart(m)
    BY <1>6, <1>10 DEF Charted, Apart
  <2>2. Tight(m)
    <3> SUFFICES ASSUME NEW z \in m.nodes, NEW w \in m.nodes, NEW a \in m.sub[z], NEW b \in m.sub[z],
                        m.pos[a] < m.pos[w], m.pos[w] < m.pos[b]
                 PROVE  w \in m.sub[z]
      BY DEF Tight
    <3>1. z \in g.nodes /\ w \in g.nodes /\ m.sub[z] = g.sub[z] \ gone /\ w \notin gone
      BY <1>6, <1>10
    <3> QED BY <3>1, <1>6 DEF Charted, Tight
  <2> QED BY <2>1, <2>2
<1>16. Closed(u, m)
  <2> SUFFICES ASSUME NEW z \in m.nodes, NEW y \in m.nodes, y # u.root, y # z
               PROVE  y \in m.sub[z] <=> u.parent[y] \in m.sub[z]
    BY DEF Closed
  <2>0. /\ y \in g.nodes /\ y \in Nodes /\ y # x /\ y \notin gone /\ y # t.root
        /\ z \in g.nodes /\ z # x /\ m.sub[z] = g.sub[z] \ gone
    BY <1>1, <1>6, <1>10
  <2>1. y \in g.sub[z] <=> t.parent[y] \in g.sub[z]
    BY <2>0, <1>5
  <2>2. CASE y = c
    <3>1. u.parent[y] = t.parent[x] /\ t.parent[y] = x
      BY <2>0, <2>2, <1>1, <1>2, <1>3, MapTypes
    <3>2. x \in g.sub[z] <=> t.parent[x] \in g.sub[z]
      BY <2>0, <1>5
    <3> QED BY <2>0, <2>1, <2>2, <3>1, <3>2, <1>8
  <2>3. CASE y # c
    <3>1. u.parent[y] = t.parent[y] /\ t.parent[y] \notin gone
      BY <2>0, <2>3, <1>1, <1>9
    <3> QED BY <2>0, <2>1, <3>1
  <2> QED BY <2>2, <2>3
<1>17. Topped(u, m)
  BY <1>1, <1>6, <1>10 DEF Charted, Topped
<1>18. Vacancies(u, m)
  <2> SUFFICES ASSUME NEW y \in Nodes, u.data[y] = 0 PROVE Vacant(u, m, y)
    BY DEF Vacancies
  <2>1. CASE y = x
    BY <2>1, <1>1, <1>10 DEF Vacant
  <2>2. CASE y # x
    <3>1. Vacant(t, g, y)
      BY <2>2, <1>1 DEF Charted, Vacancies
    <3>2. y \notin g.nodes /\ y # c
      BY <3>1, <1>3, NilIsNoNode DEF Vacant
    <3>3. y \notin m.nodes
      BY <3>2, <1>6
    <3> QED BY <2>2, <3>1, <3>2, <3>3, <1>1 DEF Vacant
  <2> QED BY <2>1, <2>2
<1>19. Sorted(u, m)
  BY <1>1, <1>6, <1>10 DEF Charted, Sorted
<1>20. m.nodes = g.nodes \ gone /\ x \notin m.nodes /\ (c # Nil => c \in m.nodes) /\ t.parent[x] \in m.nodes
  BY <1>3, <1>4, <1>6, <1>8
<1> QED BY <1>1, <1>6, <1>12, <1>13, <1>14, <1>15, <1>16, <1>17, <1>18, <1>19, <1>20 DEF Charted, u, m, gone

\* The data of the nodes may change as long as they stay in order.
LEMMA Rewrite ==
  ASSUME NEW t, NEW g, Charted(t, g), NEW u \in Trees,
         u.root = t.root, u.color = t.color, u.parent = t.parent, u.kid = t.kid,
         \A y \in Nodes : u.data[y] = 0 <=> t.data[y] = 0,
         Sorted(u, g)
  PROVE  Charted(u, g)
<1>1. Placed(u, g)
  BY DEF Charted, Placed, SubSplit, KidPlaced
<1>2. Joined(u, g)
  BY DEF Charted, Joined, Linked
<1>3. Rooted(u, g) /\ Closed(u, g) /\ Topped(u, g)
  BY DEF Charted, Rooted, Closed, Topped
<1>4. Vacancies(u, g)
  BY DEF Charted, Vacancies, Vacant
<1> QED BY <1>1, <1>2, <1>3, <1>4 DEF Charted

-----------------------------------------------------------------------------
(***************************************************************************)
(* Induction over a tree, and the recursive functions of one.              *)
(***************************************************************************)

\* There are as many nodes as the model has room for.
LEMMA NodesAreFinite == IsFiniteSet(Nodes) /\ Cardinality(Nodes) = MaxNodes /\ MaxNodes \in Nat
<1>1. MaxNodes \in Nat
  BY MaxNodesAssumption
<1>2. IsFiniteSet(1..MaxNodes) /\ Cardinality(1..MaxNodes) = MaxNodes
  BY <1>1, FS_Interval
<1> QED BY <1>1, <1>2 DEF Nodes

\* A set that has no node of whose children it has none is empty.
LEMMA SubInduction ==
  ASSUME NEW t, NEW g, Charted(t, g), NEW B \in SUBSET g.nodes,
         \A y \in g.nodes : (\A s \in Sides : t.kid[s][y] # Nil => t.kid[s][y] \notin B) => y \notin B
  PROVE  B = {}
<1> SUFFICES ASSUME B # {} PROVE FALSE
  OBVIOUS
<1> DEFINE F == {g.sub[y] : y \in B}
<1>1. \A y \in g.nodes : g.sub[y] \in FiniteSubsetsOf(Nodes)
  <2> SUFFICES ASSUME NEW y \in g.nodes PROVE g.sub[y] \in FiniteSubsetsOf(Nodes)
    OBVIOUS
  <2>1. g.sub[y] \subseteq Nodes
    BY MapTypes
  <2>2. IsFiniteSet(g.sub[y])
    BY <2>1, NodesAreFinite, FS_Subset
  <2> QED BY <2>1, <2>2 DEF FiniteSubsetsOf
<1>2. F \subseteq FiniteSubsetsOf(Nodes) /\ F # {}
  BY <1>1
<1>3. PICK A \in F : \A C \in F : ~(C \subseteq A /\ C # A)
  <2> HIDE DEF F
  <2> QED BY <1>2, MinimalSet
<1>4. PICK y \in B : A = g.sub[y]
  OBVIOUS
<1>5. ASSUME NEW s \in Sides, t.kid[s][y] # Nil PROVE t.kid[s][y] \notin B
  <2> SUFFICES ASSUME t.kid[s][y] \in B PROVE FALSE
    OBVIOUS
  <2>1. g.sub[t.kid[s][y]] \subseteq g.sub[y] /\ y \notin g.sub[t.kid[s][y]] /\ y \in g.sub[y]
    BY <1>5, Children, MapTypes
  <2>2. g.sub[t.kid[s][y]] \in F
    OBVIOUS
  <2> HIDE DEF F
  <2> QED BY <1>3, <1>4, <2>1, <2>2
<1> QED BY <1>4, <1>5

\* The subtrees of a map are those of the tree.
LEMMA SubtreeOfMap ==
  ASSUME NEW t, NEW g, Charted(t, g)
  PROVE  Subtree(t, Nil) = {} /\ \A x \in g.nodes : Subtree(t, x) = g.sub[x]
<1> DEFINE P == {Nil} \cup Nodes
           Step(f, y) == IF y = Nil THEN {} ELSE {y} \cup f[t.kid["left"][y]] \cup f[t.kid["right"][y]]
           below == CHOOSE f : f = [y \in P |-> Step(f, y)]
           Ends(A) == \A w \in Nodes, s \in Sides : w \in A => t.kid[s][w] \in A
           R == [y \in P |-> {z \in Nodes : \A A \in SUBSET P : y \in A /\ Ends(A) => z \in A}]
<1>1. t \in Trees /\ Nil \notin Nodes /\ "left" \in Sides /\ "right" \in Sides /\ g.nodes \subseteq Nodes
      /\ \A y \in Nodes, s \in Sides : t.kid[s][y] \in P
  BY NilIsNoNode, TwoSides, MapTypes DEF Charted, Trees, Pointers
<1>2. \A s \in Sides : s = "left" \/ s = "right"
  BY DEF Sides
<1>3. R[Nil] = {}
  <2>1. Ends({Nil}) /\ {Nil} \in SUBSET P
    BY <1>1
  <2> HIDE DEF Ends
  <2> QED BY <2>1, <1>1
<1>4. ASSUME NEW y \in Nodes PROVE R[y] = {y} \cup R[t.kid["left"][y]] \cup R[t.kid["right"][y]]
  <2> DEFINE l == t.kid["left"][y]
             r == t.kid["right"][y]
  <2>1. l \in P /\ r \in P
    BY <1>1
  <2>2. ASSUME NEW z \in {y} \cup R[l] \cup R[r] PROVE z \in R[y]
    <3>1. z \in Nodes
      BY <2>1
    <3>2. ASSUME NEW A \in SUBSET P, y \in A, Ends(A) PROVE z \in A
      <4>1. l \in A /\ r \in A
        BY <1>1, <3>2
      <4> HIDE DEF Ends
      <4> QED BY <2>1, <3>2, <4>1
    <3> HIDE DEF Ends
    <3> QED BY <3>1, <3>2
  <2>3. ASSUME NEW z \in R[y], z \notin {y} \cup R[l] \cup R[r] PROVE FALSE
    <3> HIDE DEF Ends
    <3>1. PICK A1 \in SUBSET P : l \in A1 /\ Ends(A1) /\ z \notin A1
      BY <2>1, <2>3
    <3>2. PICK A2 \in SUBSET P : r \in A2 /\ Ends(A2) /\ z \notin A2
      BY <2>1, <2>3
    <3>3. {y} \cup A1 \cup A2 \in SUBSET P /\ Ends({y} \cup A1 \cup A2)
      BY <1>2, <3>1, <3>2 DEF Ends
    <3> QED BY <2>3, <3>1, <3>2, <3>3
  <2> HIDE DEF R, l, r
  <2> QED BY <2>2, <2>3 DEF l, r
<1>5. R = [y \in P |-> Step(R, y)]
  <2>1. \A y \in P : R[y] = Step(R, y)
    <3> HIDE DEF R
    <3> QED BY <1>3, <1>4
  <2>2. R = [y \in P |-> R[y]]
    OBVIOUS
  <2> HIDE DEF R, Step
  <2> QED BY <2>1, <2>2
<1>6. below = [y \in P |-> Step(below, y)]
  <2> HIDE DEF R, Step
  <2> QED BY <1>5
<1> HIDE DEF below
<1>7. below[Nil] = {} /\ \A y \in g.nodes : below[y] = {y} \cup below[t.kid["left"][y]] \cup below[t.kid["right"][y]]
  <2>1. \A y \in P : below[y] = Step(below, y)
    <3> HIDE DEF Step
    <3> QED BY <1>6
  <2> QED BY Zenon, <2>1, <1>1
<1>8. {y \in g.nodes : below[y] # g.sub[y]} = {}
  <2> DEFINE B == {y \in g.nodes : below[y] # g.sub[y]}
  <2>1. ASSUME NEW y \in g.nodes, \A s \in Sides : t.kid[s][y] # Nil => t.kid[s][y] \notin B
        PROVE  y \notin B
    <3>1. ASSUME NEW s \in Sides PROVE below[t.kid[s][y]] = Part(g, t.kid[s][y])
      <4>1. t.kid[s][y] # Nil => t.kid[s][y] \in g.nodes
        BY Children
      <4> QED BY <2>1, <4>1, <1>7 DEF Part
    <3>2. SubSplit(t, g, y)
      BY DEF Charted, Placed
    <3>3. \A z : z \in g.sub[y] <=> z = y \/ z \in Part(g, t.kid["left"][y]) \/ z \in Part(g, t.kid["right"][y])
      BY <3>2, <1>1, <1>2 DEF SubSplit
    <3>4. below[y] = {y} \cup Part(g, t.kid["left"][y]) \cup Part(g, t.kid["right"][y])
      BY <3>1, <1>1, <1>7
    <3> QED BY <3>3, <3>4
  <2>2. B \in SUBSET g.nodes
    OBVIOUS
  <2> HIDE DEF B
  <2>3. B = {}
    BY <2>1, <2>2, SubInduction
  <2> QED BY <2>3 DEF B
<1>9. \A y : Subtree(t, y) = below[y]
  BY DEF Subtree, below
<1> QED BY <1>7, <1>8, <1>9

-----------------------------------------------------------------------------
(***************************************************************************)
(* Walks down the tree.                                                    *)
(***************************************************************************)

\* The cardinalities of a set of nodes and of a subset of it.
LEMMA SmallerSet ==
  ASSUME NEW B \in SUBSET Nodes, NEW A \in SUBSET B
  PROVE  /\ Cardinality(A) \in Nat /\ Cardinality(B) \in Nat /\ Cardinality(B) <= MaxNodes
         /\ \A x \in B : x \notin A => Cardinality(A) < Cardinality(B)
         /\ \A x \in A : Cardinality(A) > 0
<1>1. IsFiniteSet(B) /\ Cardinality(B) <= MaxNodes
  BY NodesAreFinite, FS_Subset
<1>2. IsFiniteSet(A) /\ Cardinality(A) <= Cardinality(B) /\ (Cardinality(A) = Cardinality(B) => A = B)
  BY <1>1, FS_Subset
<1>3. Cardinality(A) \in Nat /\ Cardinality(B) \in Nat /\ (Cardinality(A) = 0 <=> A = {})
  BY <1>1, <1>2, FS_CardinalityType, FS_EmptySet
<1>4. ASSUME NEW x \in B, x \notin A PROVE Cardinality(A) < Cardinality(B)
  BY <1>2, <1>3, <1>4
<1> QED BY <1>1, <1>3, <1>4

\* minValueNode and maxValueNode find the last node of the subtree on a side.
LEMMA ExtremeNode ==
  ASSUME NEW t, NEW g, Charted(t, g), NEW x \in g.nodes, NEW s \in Sides
  PROVE  LET m == Extreme(t, x, s)
         IN  /\ m \in g.sub[x] /\ m \in g.nodes
             /\ \A z \in g.sub[x] : z = m \/ On(s, g.pos[m], g.pos[z])
<1> DEFINE Down(v) == IF t.kid[s][v] = Nil THEN v ELSE t.kid[s][v]
           at == CHOOSE f : f = [i \in 0..MaxNodes |-> IF i = 0 THEN x ELSE Down(f[i - 1])]
           step == [k \in 1..MaxNodes |-> [v \in Nodes |-> Down(v)]]
<1>1. t \in Trees /\ x \in Nodes /\ MaxNodes \in Nat
  BY MapTypes, NodesAreFinite DEF Charted
<1>2. \A v \in Nodes : Down(v) \in Nodes
  BY <1>1 DEF Trees, Pointers
<1>3. at = [i \in 0..MaxNodes |-> IF i = 0 THEN x ELSE Down(at[i - 1])]
  <2>1. \A k \in 1..MaxNodes : \A v \in Nodes : step[k][v] \in Nodes
    BY <1>2
  <2>2. PICK f : f \in Stepwise(MaxNodes, Nodes, x, step)
    <3> HIDE DEF step
    <3> QED BY <1>1, <2>1, RecursionUpTo
  <2>3. f = [i \in 0..MaxNodes |-> IF i = 0 THEN x ELSE Down(f[i - 1])]
    <3>1. f \in [0..MaxNodes -> Nodes] /\ f[0] = x /\ \A k \in 1..MaxNodes : f[k] = step[k][f[k - 1]]
      BY <2>2 DEF Stepwise
    <3>2. \A k \in 1..MaxNodes : k \in 0..MaxNodes /\ k - 1 \in 0..MaxNodes /\ k # 0
      BY <1>1
    <3>3. \A k \in 1..MaxNodes : f[k] = Down(f[k - 1])
      <4> HIDE DEF Down
      <4> QED BY <3>1, <3>2
    <3>4. \A i \in 0..MaxNodes : i = 0 \/ i \in 1..MaxNodes
      BY <1>1
    <3>5. \A i \in 0..MaxNodes : f[i] = IF i = 0 THEN x ELSE Down(f[i - 1])
      <4> HIDE DEF Down, step
      <4> QED BY <3>1, <3>2, <3>3, <3>4
    <3>6. f = [i \in 0..MaxNodes |-> f[i]]
      BY <3>1
    <3> HIDE DEF Down, step
    <3> QED BY <3>5, <3>6
  <2> HIDE DEF Down
  <2> QED BY <2>3
<1>4. Extreme(t, x, s) = at[MaxNodes]
  BY DEF Extreme
<1> DEFINE Holds(v, i) == /\ v \in g.nodes /\ v \in g.sub[x]
                          /\ \A z \in g.sub[x] : z \in g.sub[v] \/ On(s, g.pos[v], g.pos[z])
                          /\ t.kid[s][v] = Nil \/ Cardinality(g.sub[v]) <= MaxNodes - i
           T == {i \in 0..MaxNodes : Holds(at[i], i)}
<1> HIDE DEF at
<1>5. 0 \in T
  <2>1. at[0] = x
    BY <1>1, <1>3
  <2>2. Cardinality(g.sub[x]) <= MaxNodes
    <3>1. g.sub[x] \subseteq Nodes
      BY MapTypes
    <3> QED BY <3>1, SmallerSet
  <2>3. Holds(x, 0)
    BY <2>2, <1>1, MapTypes
  <2> HIDE DEF Holds
  <2> QED BY <2>1, <2>3, <1>1
<1>6. ASSUME NEW i \in 0..(MaxNodes - 1), i \in T PROVE i + 1 \in T
  <2> DEFINE v == at[i]
  <2>1. i + 1 \in 0..MaxNodes /\ i + 1 # 0 /\ (i + 1) - 1 = i /\ i \in 0..MaxNodes
    BY <1>1
  <2>2. at[i + 1] = Down(v)
    <3> HIDE DEF Down
    <3> QED BY <2>1, <1>3
  <2>3. Holds(v, i)
    BY <1>6
  <2>4. Holds(Down(v), i + 1)
    <3>1. CASE t.kid[s][v] = Nil
      BY <2>3, <3>1
    <3>2. CASE t.kid[s][v] # Nil
      <4> DEFINE k == t.kid[s][v]
      <4>1. /\ k \in g.nodes /\ g.sub[k] \subseteq g.sub[v] /\ v \notin g.sub[k] /\ k \in g.sub[k] /\ v \in g.sub[v]
            /\ g.sub[v] \subseteq Nodes
            /\ \A z \in g.sub[k] : On(s, g.pos[z], g.pos[v])
        BY <2>3, <3>2, Children, MapTypes
      <4>2. Cardinality(g.sub[k]) < Cardinality(g.sub[v]) /\ Cardinality(g.sub[k]) \in Nat /\ Cardinality(g.sub[v]) \in Nat
        BY Zenon, <4>1, SmallerSet
      <4>3. Cardinality(g.sub[k]) <= MaxNodes - (i + 1)
        BY <2>1, <2>3, <3>2, <4>2, <1>1
      <4>4. k \in g.sub[x]
        <5>1. CASE k = x
          BY <5>1, MapTypes
        <5>2. CASE k # x
          <6>1. t.parent[k] = v /\ k # t.root
            BY <2>3, <3>2, Children
          <6> QED BY Zenon, <2>3, <4>1, <5>2, <6>1 DEF Charted, Closed
        <5> QED BY <5>1, <5>2
      <4>5. ASSUME NEW z \in g.sub[x] PROVE z \in g.sub[k] \/ On(s, g.pos[k], g.pos[z])
        <5>0. g.pos[k] \in Int /\ g.pos[v] \in Int /\ g.pos[z] \in Int /\ On(s, g.pos[k], g.pos[v])
          BY Zenon, <2>3, <4>1, MapTypes
        <5>1. CASE On(s, g.pos[v], g.pos[z])
          BY <5>0, <5>1, OnIsTransitive
        <5>2. CASE z \in g.sub[v]
          <6>1. SubSplit(t, g, v)
            BY <2>3 DEF Charted, Placed
          <6>2. CASE z = v
            BY <5>0, <6>2
          <6>3. CASE z \in Part(g, k)
            BY <3>2, <6>3 DEF Part
          <6>4. CASE z \in Part(g, t.kid[Other(s)][v])
            <7>1. KidPlaced(t, g, v, Other(s)) /\ Other(s) \in Sides
              BY <2>3, TwoSides DEF Charted, Placed
            <7>2. On(Other(s), g.pos[z], g.pos[v])
              BY <6>4, <7>1 DEF KidPlaced
            <7>3. On(s, g.pos[v], g.pos[z])
              BY <5>0, <7>2, OnTwoSides
            <7> QED BY <5>0, <7>3, OnIsTransitive
          <6> QED BY <5>2, <6>1, <6>2, <6>3, <6>4, TwoSides DEF SubSplit
        <5> QED BY <2>3, <5>1, <5>2
      <4> HIDE DEF k
      <4> QED BY Zenon, <3>2, <4>1, <4>3, <4>4, <4>5 DEF k
    <3> QED BY Zenon, <3>1, <3>2
  <2> HIDE DEF Down, Holds
  <2> QED BY <2>1, <2>2, <2>4
<1>7. MaxNodes \in T
  <2>1. MaxNodes \in 0..MaxNodes
    BY <1>1
  <2> HIDE DEF T
  <2> QED BY <2>1, <1>1, <1>5, <1>6, UpTo
<1> DEFINE m == at[MaxNodes]
<1>8. Holds(m, MaxNodes)
  BY <1>7
<1>9. t.kid[s][m] = Nil
  <2>1. g.sub[m] \subseteq Nodes /\ m \in g.sub[m]
    BY <1>8, MapTypes
  <2>2. Cardinality(g.sub[m]) > 0 /\ Cardinality(g.sub[m]) \in Nat
    BY <2>1, SmallerSet
  <2> QED BY <1>1, <1>8, <2>2
<1>10. ASSUME NEW z \in g.sub[x], z # m PROVE On(s, g.pos[m], g.pos[z])
  <2>1. CASE z \in g.sub[m]
    <3>1. SubSplit(t, g, m) /\ KidPlaced(t, g, m, Other(s)) /\ Other(s) \in Sides
      BY <1>8, TwoSides DEF Charted, Placed
    <3>2. z \in Part(g, t.kid[Other(s)][m])
      BY <1>9, <1>10, <2>1, <3>1, TwoSides DEF SubSplit, Part
    <3>3. On(Other(s), g.pos[z], g.pos[m])
      BY <3>1, <3>2 DEF KidPlaced
    <3> QED BY <1>8, <3>3, MapTypes, OnTwoSides
  <2> QED BY <1>8, <1>10, <2>1
<1> QED BY <1>4, <1>8, <1>10

\* A loop of n rounds, each a function of the state before it.
Rounds(n, V, a, F) == {f \in [0..n -> V] : f = [i \in 0..n |-> IF i = 0 THEN a ELSE F[f[i - 1]]]}

\* A loop with a fixed number of rounds ends somewhere.
LEMMA Iteration ==
  ASSUME NEW n \in Nat, NEW V, NEW a \in V, NEW F \in [V -> V]
  PROVE  \E f : f \in Rounds(n, V, a, F)
<1> DEFINE step == [k \in 1..n |-> F]
<1>1. \A k \in 1..n : \A v \in V : step[k][v] \in V
  OBVIOUS
<1>2. PICK f : f \in Stepwise(n, V, a, step)
  <2> HIDE DEF step
  <2> QED BY <1>1, RecursionUpTo
<1>3. f \in [0..n -> V] /\ f[0] = a /\ \A k \in 1..n : f[k] = F[f[k - 1]]
  BY <1>2 DEF Stepwise
<1>4. \A i \in 0..n : i = 0 \/ i \in 1..n
  OBVIOUS
<1>5. \A i \in 0..n : f[i] = IF i = 0 THEN a ELSE F[f[i - 1]]
  BY <1>3, <1>4
<1>6. f = [i \in 0..n |-> f[i]]
  BY <1>3
<1>7. f = [i \in 0..n |-> IF i = 0 THEN a ELSE F[f[i - 1]]]
  BY <1>5, <1>6
<1> QED BY <1>3, <1>7 DEF Rounds

\* The nodes outside the subtree of x are on the right side of d.
Splits(t, g, x, d) ==
  \A z \in g.nodes : z \notin g.sub[x] => /\ g.pos[z] < g.pos[x] => t.data[z] <= d
                                          /\ g.pos[x] < g.pos[z] => d <= t.data[z]

\* The walk to a datum, by which an insertion finds its place: every node on
\* it splits the rest of the tree by the datum, and it meets the datum or ends
\* at a node that has room for it on the side where it belongs.
LEMMA SearchPath ==
  ASSUME NEW t, NEW g, Charted(t, g), NEW d \in Nat
  PROVE  LET path == PathTo(t, d)
             side(x) == IF d < t.data[x] THEN "left" ELSE "right"
         IN  /\ t.root = Nil => path = {}
             /\ t.root # Nil => t.root \in path
             /\ path \subseteq g.nodes
             /\ \A x \in path : Splits(t, g, x, d)
             /\ t.root # Nil => \E x \in path : t.data[x] = d \/ t.kid[side(x)][x] = Nil
<1> DEFINE side(v) == IF d < t.data[v] THEN "left" ELSE "right"
           Down(v) == IF v = Nil \/ d = t.data[v] THEN Nil ELSE t.kid[side(v)][v]
           at == CHOOSE f : f = [i \in 0..MaxNodes |->
                   IF i = 0 THEN t.root
                   ELSE IF f[i - 1] = Nil \/ d = t.data[f[i - 1]] THEN Nil
                   ELSE t.kid[IF d < t.data[f[i - 1]] THEN "left" ELSE "right"][f[i - 1]]]
           path == PathTo(t, d)
           F == [v \in Pointers |-> Down(v)]
<1>1. t \in Trees /\ MaxNodes \in Nat /\ t.root \in Pointers /\ \A v : side(v) \in Sides
  BY NodesAreFinite, TwoSides DEF Charted, Trees
<1>2. F \in [Pointers -> Pointers]
  <2>1. ASSUME NEW v \in Pointers PROVE Down(v) \in Pointers
    <3>1. side(v) \in Sides /\ (v # Nil => v \in Nodes)
      BY <1>1 DEF Pointers
    <3> HIDE DEF side
    <3> QED BY <1>1, <3>1, NilIsNoNode DEF Trees
  <2> HIDE DEF Down
  <2> QED BY <2>1
<1>3. at = [i \in 0..MaxNodes |-> IF i = 0 THEN t.root ELSE Down(at[i - 1])]
  <2>0. PICK f : f \in Rounds(MaxNodes, Pointers, t.root, F)
    <3>1. MaxNodes \in Nat /\ t.root \in Pointers
      BY <1>1
    <3> HIDE DEF F
    <3> QED BY <1>2, <3>1, Iteration
  <2>1. f = [i \in 0..MaxNodes |-> IF i = 0 THEN t.root ELSE F[f[i - 1]]] /\ f \in [0..MaxNodes -> Pointers]
    BY <2>0 DEF Rounds
  <2>2. f = [i \in 0..MaxNodes |-> IF i = 0 THEN t.root ELSE Down(f[i - 1])]
    <3>1. \A i \in 0..MaxNodes : i # 0 => i - 1 \in 0..MaxNodes
      BY <1>1
    <3>2. \A i \in 0..MaxNodes : i # 0 => F[f[i - 1]] = Down(f[i - 1])
      BY Zenon, <2>1, <3>1
    <3> HIDE DEF F, Down
    <3> QED BY <2>1, <3>2
  <2> QED BY Zenon, <2>2
<1>4. path = {at[i] : i \in 0..MaxNodes} \ {Nil}
  BY DEF PathTo
<1> DEFINE Holds(v, i) == v # Nil => v \in g.nodes /\ Splits(t, g, v, d) /\ Cardinality(g.sub[v]) <= MaxNodes - i
           T == {i \in 0..MaxNodes : Holds(at[i], i)}
<1> HIDE DEF at, F, path
<1>5. at[0] = t.root
  <2>1. 0 \in 0..MaxNodes
    BY <1>1
  <2> HIDE DEF Down
  <2> QED BY <2>1, <1>3
<1>6. \A i \in 0..(MaxNodes - 1) : i + 1 \in 0..MaxNodes /\ i \in 0..MaxNodes /\ at[i + 1] = Down(at[i])
  <2> SUFFICES ASSUME NEW i \in 0..(MaxNodes - 1) PROVE i + 1 \in 0..MaxNodes /\ i \in 0..MaxNodes /\ at[i + 1] = Down(at[i])
    OBVIOUS
  <2>1. i + 1 \in 0..MaxNodes /\ i + 1 # 0 /\ (i + 1) - 1 = i /\ i \in 0..MaxNodes
    BY <1>1
  <2> HIDE DEF Down
  <2> QED BY <2>1, <1>3
<1>7. 0 \in T
  <2>1. t.root # Nil => t.root \in g.nodes /\ g.sub[t.root] = g.nodes /\ g.nodes \subseteq Nodes
    BY MapTypes DEF Charted, Rooted
  <2>2. Cardinality(g.nodes) <= MaxNodes
    BY SmallerSet, MapTypes
  <2>3. t.root # Nil => Splits(t, g, t.root, d)
    BY <2>1 DEF Splits
  <2>4. Holds(t.root, 0)
    BY <2>1, <2>2, <2>3, <1>1
  <2> HIDE DEF Holds
  <2> QED BY <2>4, <1>1, <1>5
<1>8. ASSUME NEW i \in 0..(MaxNodes - 1), i \in T PROVE i + 1 \in T
  <2> DEFINE v == at[i]
             k == t.kid[side(v)][v]
  <2>1. Holds(v, i)
    BY <1>8
  <2>2. ASSUME v # Nil, d # t.data[v], k # Nil PROVE Holds(k, i + 1)
    <3>0. v \in g.nodes /\ side(v) \in Sides /\ Splits(t, g, v, d)
      BY <1>1, <2>1, <2>2
    <3> HIDE DEF side
    <3>1. /\ k \in g.nodes /\ g.sub[k] \subseteq g.sub[v] /\ v \notin g.sub[k] /\ k \in g.sub[k] /\ v \in g.sub[v]
          /\ g.sub[v] \subseteq Nodes /\ g.sub[v] \subseteq g.nodes
          /\ \A z \in g.sub[k] : On(side(v), g.pos[z], g.pos[v])
      BY <3>0, <2>2, Children, MapTypes
    <3>2. Cardinality(g.sub[k]) < Cardinality(g.sub[v]) /\ Cardinality(g.sub[k]) \in Nat /\ Cardinality(g.sub[v]) \in Nat
      BY Zenon, <3>1, SmallerSet
    <3>3. Cardinality(g.sub[k]) <= MaxNodes - (i + 1)
      BY <1>1, <2>1, <2>2, <3>2
    <3>4. ASSUME NEW z \in g.nodes, z \notin g.sub[k]
          PROVE (g.pos[z] < g.pos[k] => t.data[z] <= d) /\ (g.pos[k] < g.pos[z] => d <= t.data[z])
      <4>0. /\ g.pos[z] \in Int /\ g.pos[v] \in Int /\ g.pos[k] \in Int /\ On(side(v), g.pos[k], g.pos[v])
            /\ t.data[z] \in Nat /\ t.data[v] \in Nat
        BY Zenon, <3>0, <3>1, MapTypes
      <4>1. CASE z \notin g.sub[v]
        <5>1. (g.pos[z] < g.pos[v] => t.data[z] <= d) /\ (g.pos[v] < g.pos[z] => d <= t.data[z])
          BY <3>0, <4>1 DEF Splits
        <5>2. g.pos[z] # g.pos[v]
          BY Zenon, <3>0, <3>1, <4>1 DEF Charted, Apart
        <5>3. ~(g.pos[k] < g.pos[z] /\ g.pos[z] < g.pos[v]) /\ ~(g.pos[v] < g.pos[z] /\ g.pos[z] < g.pos[k])
          BY Zenon, <3>0, <3>1, <4>1 DEF Charted, Tight
        <5> HIDE DEF v, k
        <5> QED BY <4>0, <5>1, <5>2, <5>3
      <4>2. CASE z = v
        BY <4>0, <4>2, <2>2 DEF On, side
      <4>3. CASE z \in g.sub[v] /\ z # v
        <5>1. SubSplit(t, g, v) /\ Other(side(v)) \in Sides /\ KidPlaced(t, g, v, Other(side(v)))
          BY <3>0, TwoSides DEF Charted, Placed
        <5>2. z \in Part(g, t.kid[Other(side(v))][v])
          BY <3>0, <3>4, <4>3, <5>1, <2>2, TwoSides DEF SubSplit, Part
        <5>3. On(Other(side(v)), g.pos[z], g.pos[v])
          BY <5>1, <5>2 DEF KidPlaced
        <5>4. On(side(v), g.pos[v], g.pos[z])
          BY <3>0, <4>0, <5>3, OnTwoSides
        <5>5. (g.pos[v] < g.pos[z] => t.data[v] <= t.data[z]) /\ (g.pos[z] < g.pos[v] => t.data[z] <= t.data[v])
          BY <3>0 DEF Charted, Sorted
        <5> QED BY <4>0, <5>4, <5>5, <2>2 DEF On, side
      <4> QED BY <4>1, <4>2, <4>3
    <3> QED BY Zenon, <3>1, <3>3, <3>4 DEF Splits
  <2>3. Holds(Down(v), i + 1)
    <3>1. CASE v = Nil \/ d = t.data[v] \/ k = Nil
      BY <3>1
    <3> QED BY Zenon, <2>2, <3>1
  <2> HIDE DEF Down, Holds
  <2> QED BY <2>3, <1>6
<1>9. \A i \in 0..MaxNodes : Holds(at[i], i)
  <2>1. \A i \in 0..MaxNodes : i \in T
    <3> HIDE DEF T
    <3> QED BY <1>1, <1>7, <1>8, UpTo
  <2> QED BY <2>1
<1>10. t.root = Nil => path = {}
  <2> SUFFICES ASSUME t.root = Nil PROVE \A i \in 0..MaxNodes : at[i] = Nil
    BY <1>4
  <2> DEFINE U == {i \in 0..MaxNodes : at[i] = Nil}
  <2>1. 0 \in U /\ \A i \in 0..(MaxNodes - 1) : i \in U => i + 1 \in U
    BY <1>1, <1>5, <1>6
  <2>2. \A i \in 0..MaxNodes : i \in U
    <3> HIDE DEF U
    <3> QED BY <2>1, <1>1, UpTo
  <2> QED BY <2>2
<1>11. t.root # Nil => t.root \in path
  BY <1>1, <1>4, <1>5
<1>12. \A x \in path : x \in g.nodes /\ Splits(t, g, x, d)
  BY <1>4, <1>9
<1>13. ASSUME t.root # Nil, \A x \in path : t.data[x] # d /\ t.kid[side(x)][x] # Nil PROVE FALSE
  <2> DEFINE U == {i \in 0..MaxNodes : at[i] # Nil}
  <2>1. 0 \in U
    BY <1>1, <1>5, <1>13
  <2>2. ASSUME NEW i \in 0..(MaxNodes - 1), i \in U PROVE i + 1 \in U
    <3>1. at[i] \in path
      BY <1>4, <1>6, <2>2
    <3>2. at[i + 1] = t.kid[side(at[i])][at[i]] /\ at[i + 1] # Nil
      BY <1>6, <1>13, <2>2, <3>1
    <3> QED BY <1>6, <3>2
  <2>3. MaxNodes \in U
    <3>1. MaxNodes \in 0..MaxNodes
      BY <1>1
    <3> HIDE DEF U
    <3> QED BY <3>1, <1>1, <2>1, <2>2, UpTo
  <2>4. at[MaxNodes] \in g.nodes /\ Cardinality(g.sub[at[MaxNodes]]) <= MaxNodes - MaxNodes
    BY <1>1, <1>9, <2>3
  <2>5. g.sub[at[MaxNodes]] \subseteq Nodes /\ at[MaxNodes] \in g.sub[at[MaxNodes]]
    BY <2>4, MapTypes
  <2>6. Cardinality(g.sub[at[MaxNodes]]) > 0 /\ Cardinality(g.sub[at[MaxNodes]]) \in Nat
    BY <2>5, SmallerSet
  <2> QED BY <1>1, <2>4, <2>6
<1> QED BY <1>10, <1>11, <1>12, <1>13 DEF path

-----------------------------------------------------------------------------
(***************************************************************************)
(* Colors and heights.                                                     *)
(***************************************************************************)

\* No red node but e is the child of a red one.
NoRedRed(t, g, e) ==
  \A y \in g.nodes, s \in Sides :
    LET k == t.kid[s][y] IN k # Nil /\ k # e /\ t.color[y] = RED => t.color[k] # RED

Height(h, k) == IF k = Nil THEN 0 ELSE h[k]

\* Whatever way one goes down from a node, the weights add up to its height.
Level(t, g, h, w) ==
  /\ h \in [Nodes -> Nat] /\ w \in [Nodes -> Int]
  /\ \A y \in g.nodes, s \in Sides : h[y] = Height(h, t.kid[s][y]) + w[y]

Weights(t) == [y \in Nodes |-> IF t.color[y] = RED THEN 0 ELSE 1]

Even(t, g) ==
  /\ \A y \in g.nodes : t.color[y] # DOUBLE_BLACK
  /\ \E h : Level(t, g, h, Weights(t))

\* What holds of a tree between two operations.
Sound(t, g) ==
  /\ Charted(t, g) /\ NoRedRed(t, g, Nil)
  /\ t.root # Nil => t.color[t.root] = BLACK

\* The three colors are different.
LEMMA ThreeColors ==
  /\ RED # BLACK /\ RED # DOUBLE_BLACK /\ BLACK # DOUBLE_BLACK
  /\ RED \in Colors /\ BLACK \in Colors /\ DOUBLE_BLACK \in Colors
  /\ \A c \in Colors : c = RED \/ c = BLACK \/ c = DOUBLE_BLACK
BY DEF RED, BLACK, DOUBLE_BLACK, Colors

\* The same but for the nodes of A.
LevelOutside(t, g, h, w, A) ==
  /\ h \in [Nodes -> Nat] /\ w \in [Nodes -> Int]
  /\ \A y \in g.nodes \ A, s \in Sides : h[y] = Height(h, t.kid[s][y]) + w[y]

\* With the weights v after a rotation at x, the height of x is i.
LevelTurn(t, g, x, s, h, w, v, i) ==
  LET c == t.kid[Other(s)][x]
  IN  /\ i \in Nat /\ v \in [Nodes -> Int]
      /\ \A y \in g.nodes : y # x /\ y # c => v[y] = w[y]
      /\ i = Height(h, t.kid[s][x]) + v[x] /\ i = Height(h, t.kid[s][c]) + v[x]
      /\ h[x] = i + v[c] /\ h[x] = Height(h, t.kid[Other(s)][c]) + v[c]

\* A rotation moves height only between the two nodes that turn.
LEMMA RotateLevel ==
  ASSUME NEW t, NEW g, Charted(t, g), NEW x \in g.nodes, NEW s \in Sides, t.kid[Other(s)][x] # Nil,
         NEW h, NEW w, LevelOutside(t, g, h, w, {x, t.kid[Other(s)][x]}),
         NEW v, NEW i, LevelTurn(t, g, x, s, h, w, v, i)
  PROVE  Level(Rotate(t, x, s), TurnedMap(t, g, x, s), [h EXCEPT ![x] = i, ![t.kid[Other(s)][x]] = h[x]], v)
<1> DEFINE o == Other(s)
           c == t.kid[o][x]
           r == Rotate(t, x, s)
           k == [h EXCEPT ![x] = i, ![c] = h[x]]
<1>1. o \in Sides /\ o # s /\ x \in Nodes /\ x # Nil /\ \A q \in Sides : q = s \/ q = o
  BY TwoSides, MapTypes
<1>2. /\ c \in g.nodes /\ c \in Nodes /\ c # x /\ c # Nil
      /\ x \notin g.sub[c] /\ c \in g.sub[c]
      /\ \A y \in g.nodes, q \in Sides : t.kid[q][y] = c => y = x /\ q = o
  <2>1. /\ c \in g.nodes /\ c # x /\ x \notin g.sub[c]
        /\ \A y \in g.nodes, q \in Sides : t.kid[q][y] = c => y = x /\ q = o
    BY <1>1, Children
  <2>2. c \in Nodes /\ c # Nil /\ c \in g.sub[c]
    BY <2>1, MapTypes
  <2> QED BY <2>1, <2>2
<1>3. /\ h \in [Nodes -> Nat] /\ w \in [Nodes -> Int]
      /\ \A y \in g.nodes \ {x, c}, q \in Sides : h[y] = Height(h, t.kid[q][y]) + w[y]
  BY DEF LevelOutside
<1>4. /\ \A y \in g.nodes, q \in Sides : r.kid[q][y] = TurnedKid(t, x, s, q, y)
  BY RotateFields
<1>5. TurnedMap(t, g, x, s).nodes = g.nodes
  BY DEF TurnedMap, Charted, Maps
<1>7. /\ i = Height(h, t.kid[s][x]) + v[x] /\ i = Height(h, t.kid[s][c]) + v[x]
      /\ h[x] = i + v[c] /\ h[x] = Height(h, t.kid[o][c]) + v[c]
      /\ \A y \in g.nodes : y # x /\ y # c => v[y] = w[y]
      /\ i \in Nat /\ v \in [Nodes -> Int]
  BY Zenon DEF LevelTurn
<1>6. /\ k \in [Nodes -> Nat] /\ k[x] = i /\ k[c] = h[x] /\ \A y \in Nodes : y # x /\ y # c => k[y] = h[y]
  <2>1. x \in Nodes /\ c \in Nodes /\ x # c /\ i \in Nat
    BY Zenon, <1>1, <1>2, <1>7
  <2>2. h \in [Nodes -> Nat] /\ h[x] \in Nat
    BY <1>3, <2>1
  <2> HIDE DEF c
  <2> QED BY <2>1, <2>2
<1> HIDE DEF k, r
<1>8. ASSUME NEW y \in g.nodes, NEW q \in Sides PROVE k[y] = Height(k, r.kid[q][y]) + v[y]
  <2>0. r.kid[q][y] = TurnedKid(t, x, s, q, y)
    BY <1>4
  <2>1. \A p : p # x /\ p # c /\ (p # Nil => p \in g.nodes) => Height(k, p) = Height(h, p)
    BY <1>6, MapTypes DEF Height
  <2>2. t.kid[q][y] # Nil => t.kid[q][y] \in g.nodes /\ t.kid[q][y] # y
    BY Children
  <2>3. CASE y = x /\ q = o
    <3> DEFINE b == t.kid[s][c]
    <3>1. r.kid[q][y] = b
      BY <2>0, <2>3 DEF TurnedKid
    <3>2. b # Nil => b \in g.nodes /\ b # c /\ b # x
      BY InnerChild
    <3>3. Height(k, b) = Height(h, b)
      <4>1. CASE b = Nil
        BY <4>1 DEF Height
      <4> QED BY <2>1, <3>2, <4>1
    <3> QED BY Zenon, <2>3, <3>1, <3>3, <1>6, <1>7
  <2>4. CASE y = c /\ q = s
    <3>1. r.kid[q][y] = x
      BY <2>0, <2>4, <1>2 DEF TurnedKid
    <3> QED BY Zenon, <2>4, <3>1, <1>1, <1>6, <1>7 DEF Height
  <2>5. CASE t.kid[q][y] = x /\ ~(y = x /\ q = o) /\ ~(y = c /\ q = s)
    <3>1. r.kid[q][y] = c
      BY <2>0, <2>5 DEF TurnedKid
    <3>2. y # x
      BY <2>2, <2>5, <1>1
    <3>3. y # c
      <4>1. x \in g.sub[x] /\ (y = c => g.sub[x] \subseteq g.sub[c])
        BY <1>1, <2>5, Children, MapTypes
      <4> QED BY <1>2, <4>1
    <3>4. k[y] = h[y] /\ v[y] = w[y]
      BY <3>2, <3>3, <1>6, <1>7, MapTypes
    <3>5. h[y] = h[x] + w[y]
      BY <1>1, <1>3, <2>5, <3>2, <3>3 DEF Height
    <3> QED BY <3>1, <3>4, <3>5, <1>2, <1>6 DEF Height
  <2>6. CASE t.kid[q][y] # x /\ ~(y = x /\ q = o) /\ ~(y = c /\ q = s)
    <3> DEFINE p == t.kid[q][y]
    <3>1. r.kid[q][y] = p
      BY <2>0, <2>6 DEF TurnedKid
    <3>2. p # c
      BY <1>2, <2>6
    <3>3. Height(k, p) = Height(h, p)
      BY <2>1, <2>2, <2>6, <3>2
    <3>4. y # x /\ y # c => h[y] = Height(h, p) + w[y]
      BY <1>3
    <3>5. CASE y = x
      <4>1. q = s
        BY <1>1, <2>6, <3>5
      <4> QED BY <3>1, <3>3, <3>5, <4>1, <1>6, <1>7
    <3>6. CASE y = c
      <4>1. q = o
        BY <1>1, <2>6, <3>6
      <4> QED BY Zenon, <3>1, <3>3, <3>6, <4>1, <1>6, <1>7
    <3>7. CASE y # x /\ y # c
      <4>1. k[y] = h[y] /\ v[y] = w[y]
        BY <3>7, <1>6, <1>7, MapTypes
      <4> QED BY <3>1, <3>3, <3>4, <3>7, <4>1
    <3> QED BY <3>5, <3>6, <3>7
  <2> QED BY <2>3, <2>4, <2>5, <2>6
<1>9. v \in [Nodes -> Int]
  BY <1>7
<1>10. k \in [Nodes -> Nat]
  BY <1>6
<1> HIDE DEF c
<1>11. Level(r, TurnedMap(t, g, x, s), k, v)
  BY <1>5, <1>8, <1>9, <1>10 DEF Level
<1> QED BY <1>11 DEF k, r, c

\* After a rotation at x, the child of y on side q is k.
TurnsTo(t, x, s, q, y, k) ==
  LET c == t.kid[Other(s)][x]
  IN  \/ y = x /\ q = Other(s) /\ k = t.kid[s][c]
      \/ y = c /\ q = s /\ k = x
      \/ k = c /\ y # x /\ y # c /\ x # t.root /\ y = t.parent[x] /\ q = SideOf(t, x)
      \/ k = t.kid[q][y] /\ k # x /\ k # c /\ ~(y = x /\ q = Other(s)) /\ ~(y = c /\ q = s)

\* The links of a tree after a rotation.
LEMMA RotateLinks ==
  ASSUME NEW t, NEW g, Charted(t, g), NEW x \in g.nodes, NEW s \in Sides, t.kid[Other(s)][x] # Nil,
         NEW y \in g.nodes, NEW q \in Sides
  PROVE  TurnsTo(t, x, s, q, y, Rotate(t, x, s).kid[q][y])
<1> DEFINE c == t.kid[Other(s)][x]
           k == Rotate(t, x, s).kid[q][y]
<1>0. SUFFICES \/ y = x /\ q = Other(s) /\ k = t.kid[s][c]
               \/ y = c /\ q = s /\ k = x
               \/ k = c /\ y # x /\ y # c /\ x # t.root /\ y = t.parent[x] /\ q = SideOf(t, x)
               \/ k = t.kid[q][y] /\ k # x /\ k # c /\ ~(y = x /\ q = Other(s)) /\ ~(y = c /\ q = s)
  <2> HIDE DEF k
  <2> QED BY DEF TurnsTo, k
<1>1. k = TurnedKid(t, x, s, q, y)
  BY RotateFields
<1>2. /\ c \in g.nodes /\ c # Nil
      /\ x \notin g.sub[c]
      /\ \A z \in g.nodes, p \in Sides : t.kid[p][z] = c => z = x /\ p = Other(s)
  <2>1. Other(s) \in Sides
    BY TwoSides
  <2> QED BY <2>1, Children
<1>3. x # Nil /\ x \in g.sub[x] /\ c \in g.sub[c]
  BY <1>2, MapTypes
<1>4. CASE t.kid[q][y] = x
  <2>1. x # t.root /\ y # x /\ g.sub[x] \subseteq g.sub[y]
    BY <1>3, <1>4, Children
  <2>2. y = t.parent[x] /\ q = SideOf(t, x)
    BY <2>1, <1>4, Parents
  <2>3. y # c
    BY <2>1, <1>2, <1>3
  <2>4. k = c
    BY <2>1, <2>3, <1>1, <1>4 DEF TurnedKid
  <2> HIDE DEF c, k
  <2> QED BY <2>1, <2>2, <2>3, <2>4 DEF c, k
<1>5. CASE t.kid[q][y] # x /\ y = x /\ q = Other(s)
  BY <1>1, <1>5 DEF TurnedKid
<1>6. CASE t.kid[q][y] # x /\ ~(y = x /\ q = Other(s)) /\ y = c /\ q = s
  BY <1>1, <1>6 DEF TurnedKid
<1>7. CASE t.kid[q][y] # x /\ ~(y = x /\ q = Other(s)) /\ ~(y = c /\ q = s)
  <2>1. k = t.kid[q][y]
    BY <1>1, <1>7 DEF TurnedKid
  <2>2. k # c
    BY <2>1, <1>2, <1>7
  <2> HIDE DEF c, k
  <2> QED BY <1>7, <2>1, <2>2 DEF c, k
<1> QED BY <1>4, <1>5, <1>6, <1>7

-----------------------------------------------------------------------------
(***************************************************************************)
(* The loop of fixInsertRBTree.                                            *)
(***************************************************************************)

\* The first rotation, of a red node and its inner red child.
LEMMA BentTurn ==
  ASSUME NEW t, NEW g, Charted(t, g), NEW x \in g.nodes, NEW s \in Sides, t.kid[Other(s)][x] # Nil,
         t.color[x] = RED, t.color[t.kid[Other(s)][x]] = RED, NoRedRed(t, g, t.kid[Other(s)][x]),
         x # t.root, t.color[t.parent[x]] # RED
  PROVE  LET r == Rotate(t, x, s)
             m == TurnedMap(t, g, x, s)
         IN  NoRedRed(r, m, x) /\ (Even(t, g) => Even(r, m))
<1> DEFINE c == t.kid[Other(s)][x]
           r == Rotate(t, x, s)
           m == TurnedMap(t, g, x, s)
<1>1. r.color = t.color /\ r \in Trees
  BY RotateFields
<1>2. m.nodes = g.nodes
  BY DEF TurnedMap, Charted, Maps
<1>3. Other(s) \in Sides
  BY TwoSides
<1>4. c \in g.nodes /\ c # x /\ \A y \in g.nodes, q \in Sides : t.kid[q][y] = c => y = x /\ q = Other(s)
  BY <1>3, Children
<1>5. t.kid[s][c] # c
  <2>1. t.kid[s][c] # Nil => t.kid[s][c] # c
    BY <1>4, Children
  <2>2. c # Nil
    OBVIOUS
  <2> QED BY <2>1, <2>2
<1>6. ASSUME NEW y \in g.nodes, NEW q \in Sides, r.kid[q][y] # Nil, r.kid[q][y] # x, r.color[y] = RED
      PROVE  r.color[r.kid[q][y]] # RED
  <2> DEFINE k == r.kid[q][y]
  <2>1. \/ y = x /\ q = Other(s) /\ k = t.kid[s][c]
        \/ y = c /\ q = s /\ k = x
        \/ k = c /\ y # x /\ y # c /\ x # t.root /\ y = t.parent[x] /\ q = SideOf(t, x)
        \/ k = t.kid[q][y] /\ k # x /\ k # c /\ ~(y = x /\ q = Other(s)) /\ ~(y = c /\ q = s)
    <3>1. TurnsTo(t, x, s, q, y, k)
      BY RotateLinks
    <3> HIDE DEF k
    <3> QED BY <3>1 DEF TurnsTo
  <2> HIDE DEF k
  <2>2. CASE y = x /\ q = Other(s) /\ k = t.kid[s][c]
    <3>1. k # Nil
      BY <1>6 DEF k
    <3>2. t.color[c] = RED /\ NoRedRed(t, g, c)
      OBVIOUS
    <3> HIDE DEF c
    <3>3. t.color[k] # RED
      BY <2>2, <3>1, <3>2, <1>4, <1>5 DEF NoRedRed
    <3> QED BY <3>3, <1>1 DEF k
  <2>3. CASE k = c /\ y = t.parent[x]
    BY <2>3, <1>1, <1>6
  <2>4. CASE k = t.kid[q][y] /\ k # c
    <3>1. t.color[y] = RED /\ NoRedRed(t, g, c) /\ k # Nil
      BY <1>1, <1>6 DEF k
    <3> HIDE DEF c
    <3>2. t.color[k] # RED
      BY <2>4, <3>1 DEF NoRedRed
    <3> QED BY <3>2, <1>1 DEF k
  <2>5. ~(y = c /\ q = s /\ k = x)
    BY <1>6 DEF k
  <2> QED BY <2>1, <2>2, <2>3, <2>4, <2>5
<1>7. NoRedRed(r, m, x)
  BY <1>2, <1>6 DEF NoRedRed
<1>8. ASSUME Even(t, g) PROVE Even(r, m)
  <2>1. PICK h : Level(t, g, h, Weights(t))
    BY <1>8 DEF Even
  <2>2. \A y \in m.nodes : r.color[y] # DOUBLE_BLACK
    BY <1>1, <1>2, <1>8 DEF Even
  <2>3. Weights(r) = Weights(t)
    BY <1>1 DEF Weights
  <2>4. LevelTurn(t, g, x, s, h, Weights(t), Weights(t), h[x])
    <3>1. x \in Nodes /\ c \in Nodes
      BY <1>4, MapTypes
    <3>2. Weights(t) \in [Nodes -> Int] /\ Weights(t)[x] = 0 /\ Weights(t)[c] = 0
      BY <3>1 DEF Weights
    <3>3. h \in [Nodes -> Nat] /\ \A y \in g.nodes, q \in Sides : h[y] = Height(h, t.kid[q][y]) + Weights(t)[y]
      BY <2>1 DEF Level
    <3>4. h[x] \in Nat /\ h[c] \in Nat /\ Height(h, c) = h[c]
      BY <3>1, <3>3 DEF Height
    <3>5. /\ h[x] = Height(h, t.kid[s][x]) + 0 /\ h[x] = Height(h, c) + 0
          /\ h[c] = Height(h, t.kid[s][c]) + 0 /\ h[c] = Height(h, t.kid[Other(s)][c]) + 0
      BY <1>3, <1>4, <3>2, <3>3
    <3> HIDE DEF c
    <3> QED BY <3>2, <3>4, <3>5 DEF LevelTurn, c
  <2>5. Level(r, m, [h EXCEPT ![x] = h[x], ![c] = h[x]], Weights(r))
    <3>1. LevelOutside(t, g, h, Weights(t), {x, c})
      BY <2>1 DEF Level, LevelOutside
    <3> QED BY <2>3, <2>4, <3>1, RotateLevel
  <2> QED BY <2>2, <2>5 DEF Even
<1> QED BY <1>7, <1>8

\* What the code does to the colors of two and of three nodes.
Colored(t, x, y, cx, cy) == [t EXCEPT !.color[x] = cx, !.color[y] = cy]
Lifted(t, c, p, x) == [t EXCEPT !.color[c] = BLACK, !.color[p] = BLACK, !.color[x] = RED]

\* The last rotation, of a node and its red child, whose outer child is red:
\* the two change their colors.
LEMMA LastTurn ==
  ASSUME NEW t, NEW g, Charted(t, g), NEW x \in g.nodes, NEW s \in Sides, NEW c \in g.nodes,
         c = t.kid[Other(s)][x], t.kid[Other(s)][c] # Nil,
         t.color[x] # RED, t.color[c] = RED, NoRedRed(t, g, t.kid[Other(s)][c]),
         getColor(t, t.kid[s][x]) # RED, t.color[t.root] # RED
  PROVE  LET r == Rotate(t, x, s)
             u == Colored(r, c, x, t.color[x], t.color[c])
             m == TurnedMap(t, g, x, s)
         IN  /\ Charted(u, m) /\ m.nodes = g.nodes /\ u.data = t.data
             /\ NoRedRed(u, m, Nil) /\ u.color[c] # RED /\ u.color[u.root] # RED
             /\ Even(t, g) => Even(u, m)
<1> DEFINE o == Other(s)
           e == t.kid[o][c]
           r == Rotate(t, x, s)
           u == Colored(r, c, x, t.color[x], t.color[c])
           m == TurnedMap(t, g, x, s)
<1>0. c # Nil /\ t.kid[Other(s)][x] # Nil /\ x \in Nodes /\ c \in Nodes /\ x # Nil /\ t \in Trees
  BY MapTypes DEF Charted
<1>1. /\ r.color = t.color /\ r \in Trees /\ r.data = t.data
      /\ r.root = IF x = t.root THEN c ELSE t.root
  BY <1>0, RotateFields
<1>2. m.nodes = g.nodes /\ Charted(r, m)
  <2>1. Charted(r, m)
    BY <1>0, RotateCharted
  <2> QED BY Zenon, <2>1 DEF TurnedMap, Charted, Maps
<1>3. o \in Sides /\ o # s /\ \A q \in Sides : q = s \/ q = o
  BY TwoSides
<1>4. c # x /\ c # t.root /\ \A y \in g.nodes, q \in Sides : t.kid[q][y] = c => y = x /\ q = o
  BY <1>0, <1>3, Children
<1>5. e \in g.nodes /\ e # c /\ e # x /\ \A y \in g.nodes, q \in Sides : t.kid[q][y] = e => y = c /\ q = o
  <2>1. e # x /\ e \in g.nodes /\ e # c
    BY <1>0, <1>3, Grandchildren
  <2> QED BY <1>3, <2>1, Children
<1>6. /\ u \in Trees /\ u.root = r.root /\ u.data = r.data /\ u.parent = r.parent /\ u.kid = r.kid
      /\ u.color[x] = RED /\ u.color[c] = t.color[x]
      /\ \A y \in Nodes : y # x /\ y # c => u.color[y] = t.color[y]
  <2> DEFINE col == [t.color EXCEPT ![c] = t.color[x], ![x] = t.color[c]]
  <2>1. u = [r EXCEPT !.color = col]
    BY <1>1 DEF Colored
  <2>2. t.color \in [Nodes -> Colors]
    BY <1>0 DEF Trees
  <2>3. /\ col \in [Nodes -> Colors] /\ col[x] = t.color[c] /\ col[c] = t.color[x]
        /\ \A y \in Nodes : y # x /\ y # c => col[y] = t.color[y]
    BY <1>0, <1>4, <2>2
  <2> HIDE DEF col, r, u
  <2>4. u \in Trees /\ u.root = r.root /\ u.data = r.data /\ u.parent = r.parent /\ u.kid = r.kid /\ u.color = col
    BY <1>1, <2>1, <2>3 DEF Trees
  <2> QED BY <2>3, <2>4
<1> HIDE DEF u
<1>7. Charted(u, m)
  <2>1. \A y \in Nodes \ m.nodes : u.color[y] = r.color[y]
    BY <1>1, <1>2, <1>6
  <2> HIDE DEF r, m
  <2> QED BY <1>2, <1>6, <2>1, Repaint
<1>8. ASSUME NEW y \in g.nodes, NEW q \in Sides, u.kid[q][y] # Nil, u.color[y] = RED
      PROVE  u.color[u.kid[q][y]] # RED
  <2> DEFINE k == r.kid[q][y]
  <2>1. \/ y = x /\ q = o /\ k = t.kid[s][c]
        \/ y = c /\ q = s /\ k = x
        \/ k = c
        \/ k = t.kid[q][y] /\ k # x /\ k # c /\ ~(y = x /\ q = o) /\ ~(y = c /\ q = s)
    <3>1. TurnsTo(t, x, s, q, y, k)
      BY <1>0, RotateLinks
    <3>2. t.kid[Other(s)][x] = c
      OBVIOUS
    <3> HIDE DEF k
    <3> QED BY <3>1, <3>2 DEF TurnsTo
  <2>2. u.kid[q][y] = k /\ k # Nil
    BY <1>6, <1>8
  <2>3. NoRedRed(t, g, e) /\ y \in Nodes /\ t.color[x] # RED
    BY MapTypes
  <2> HIDE DEF k, e
  <2>4. CASE y = x /\ q = o /\ k = t.kid[s][c]
    <3>1. k \in g.nodes /\ k # c /\ k # x
      <4>1. c = t.kid[o][x] /\ t.kid[s][c] # Nil /\ t.kid[o][x] # Nil
        BY <1>0, <2>2, <2>4
      <4>2. t.kid[s][c] \in g.nodes /\ t.kid[s][c] # c /\ t.kid[s][c] # x
        BY <1>3, <4>1, Grandchildren
      <4> QED BY <2>4, <4>2
    <3>2. k # e
      BY <1>3, <1>5, <2>4
    <3>3. t.color[k] # RED
      BY <2>2, <2>3, <2>4, <3>2 DEF NoRedRed
    <3> QED BY <2>2, <3>1, <3>3, <1>6, MapTypes
  <2>5. CASE k = c
    BY <1>6, <2>2, <2>3, <2>5
  <2>6. y # c
    BY <1>6, <1>8, <2>3
  <2>7. CASE k = t.kid[q][y] /\ k # x /\ k # c /\ ~(y = x /\ q = o)
    <3>1. k \in g.nodes /\ k \in Nodes
      BY <2>2, <2>7, Children, MapTypes
    <3>2. CASE y = x
      <4>1. k = t.kid[s][x]
        BY <1>3, <2>7, <3>2
      <4>2. t.color[k] # RED
        BY <2>2, <4>1 DEF getColor
      <4> QED BY <2>2, <2>7, <3>1, <4>2, <1>6
    <3>3. CASE y # x
      <4>1. t.color[y] = RED
        BY <1>6, <1>8, <2>3, <2>6, <3>3
      <4>2. k # e
        BY <1>5, <2>6, <2>7
      <4>3. t.color[k] # RED
        BY <2>2, <2>3, <2>7, <4>1, <4>2 DEF NoRedRed
      <4> QED BY <2>2, <2>7, <3>1, <4>3, <1>6
    <3> QED BY <3>2, <3>3
  <2> QED BY <2>1, <2>4, <2>5, <2>6, <2>7
<1>9. NoRedRed(u, m, Nil)
  BY <1>2, <1>8 DEF NoRedRed
<1>10. u.color[c] # RED /\ u.color[u.root] # RED
  <2>1. CASE x = t.root
    BY <1>1, <1>6, <2>1
  <2>2. CASE x # t.root
    <3>1. u.root = t.root /\ t.root # x /\ t.root # c
      BY <1>1, <1>4, <1>6, <2>2
    <3>2. t.root \in Nodes
      <4>1. t.root \in Pointers /\ t.root # Nil
        BY <1>0 DEF Trees, Charted, Rooted
      <4> QED BY <4>1 DEF Pointers
    <3> QED BY <3>1, <3>2, <1>6
  <2> QED BY <2>1, <2>2
<1>11. ASSUME Even(t, g) PROVE Even(u, m)
  <2>1. PICK h : Level(t, g, h, Weights(t))
    BY <1>11 DEF Even
  <2>2. t.color[x] = BLACK /\ \A y \in g.nodes : t.color[y] # DOUBLE_BLACK
    <3>1. t.color[x] \in Colors /\ t.color[x] # DOUBLE_BLACK
      BY <1>0, <1>11 DEF Trees, Even
    <3> QED BY <1>11, <3>1, ThreeColors DEF Even
  <2>3. \A y \in m.nodes : u.color[y] # DOUBLE_BLACK
    <3>1. \A y \in g.nodes : y \in Nodes
      BY MapTypes
    <3> QED BY <1>2, <1>6, <2>2, <3>1, ThreeColors
  <2>4. LevelTurn(t, g, x, s, h, Weights(t), Weights(u), h[c])
    <3>1. /\ Weights(t) \in [Nodes -> Int] /\ Weights(t)[x] = 1 /\ Weights(t)[c] = 0
          /\ Weights(u) \in [Nodes -> Int] /\ Weights(u)[x] = 0 /\ Weights(u)[c] = 1
          /\ \A y \in g.nodes : y # x /\ y # c => Weights(u)[y] = Weights(t)[y]
      BY <1>0, <1>6, <2>2, MapTypes, ThreeColors DEF Weights
    <3>3. h \in [Nodes -> Nat] /\ \A y \in g.nodes, q \in Sides : h[y] = Height(h, t.kid[q][y]) + Weights(t)[y]
      BY <2>1 DEF Level
    <3>4. h[x] \in Nat /\ h[c] \in Nat /\ Height(h, c) = h[c]
      BY <1>0, <3>3 DEF Height
    <3>5. /\ h[x] = Height(h, t.kid[s][x]) + 1 /\ h[x] = Height(h, c) + 1
          /\ h[c] = Height(h, t.kid[s][c]) + 0 /\ h[c] = Height(h, t.kid[Other(s)][c]) + 0
      BY <1>3, <3>1, <3>3
    <3>6. Height(h, t.kid[s][x]) \in Int /\ Height(h, t.kid[s][c]) \in Int /\ Height(h, t.kid[Other(s)][c]) \in Int
      <4>1. \A q \in Sides, y \in Nodes : t.kid[q][y] \in Pointers
        BY <1>0 DEF Trees
      <4>2. \A k \in Pointers : Height(h, k) \in Int
        BY <3>3 DEF Height, Pointers
      <4> QED BY <1>0, <1>3, <4>1, <4>2
    <3>7. Height(h, t.kid[s][x]) = h[c] /\ Height(h, t.kid[s][c]) = h[c] /\ Height(h, t.kid[Other(s)][c]) = h[c]
      BY <3>4, <3>5, <3>6
    <3> QED BY Zenon, <3>1, <3>4, <3>5, <3>7 DEF LevelTurn
  <2>5. Level(r, m, [h EXCEPT ![x] = h[c], ![t.kid[Other(s)][x]] = h[x]], Weights(u))
    <3>1. LevelOutside(t, g, h, Weights(t), {x, t.kid[Other(s)][x]})
      BY <2>1 DEF Level, LevelOutside
    <3> QED BY Zenon, <1>0, <2>4, <3>1, RotateLevel
  <2>6. Level(u, m, [h EXCEPT ![x] = h[c], ![t.kid[Other(s)][x]] = h[x]], Weights(u))
    <3> DEFINE H == [h EXCEPT ![x] = h[c], ![t.kid[Other(s)][x]] = h[x]]
               W == Weights(u)
    <3> HIDE DEF r, m, H, W
    <3>1. u.kid = r.kid
      BY <1>6
    <3>2. Level(r, m, H, W)
      BY <2>5 DEF H, W
    <3>3. Level(u, m, H, W)
      BY <3>1, <3>2 DEF Level
    <3> QED BY <3>3 DEF H, W
  <2> QED BY <2>3, <2>6 DEF Even
<1> QED BY Zenon, <1>1, <1>2, <1>6, <1>7, <1>9, <1>10, <1>11 DEF u

\* A node whose two children are red takes their color.
LEMMA Recolor ==
  ASSUME NEW t, NEW g, Charted(t, g), NEW x \in g.nodes, NEW s \in Sides, NEW p \in g.nodes, NEW c \in g.nodes,
         p = t.kid[s][x], c = t.kid[Other(s)][x], t.color[p] = RED, t.color[c] = RED, t.color[x] # RED,
         NEW e \in g.nodes, e # t.root, t.parent[e] = p, NoRedRed(t, g, e)
  PROVE  LET u == Lifted(t, c, p, x)
         IN  /\ Charted(u, g) /\ u.data = t.data /\ u.root = t.root /\ u.kid = t.kid /\ u.parent = t.parent
             /\ NoRedRed(u, g, x) /\ (x # t.root => u.color[u.root] = t.color[u.root])
             /\ Even(t, g) => Even(u, g)
<1> DEFINE o == Other(s)
           u == Lifted(t, c, p, x)
<1>1. /\ o \in Sides /\ o # s /\ \A q \in Sides : q = s \/ q = o
      /\ x \in Nodes /\ p \in Nodes /\ c \in Nodes /\ p # Nil /\ c # Nil /\ t \in Trees
  BY TwoSides, MapTypes DEF Charted
<1>2. /\ p # x /\ p # t.root /\ \A y \in g.nodes, q \in Sides : t.kid[q][y] = p => y = x /\ q = s
  BY <1>1, Children
<1>3. /\ c # x /\ c # t.root /\ \A y \in g.nodes, q \in Sides : t.kid[q][y] = c => y = x /\ q = o
  BY <1>1, Children
<1>4. \A y \in g.nodes, q \in Sides : t.kid[q][y] = e => y = p
  BY Parents
<1>5. /\ u \in Trees /\ u.root = t.root /\ u.data = t.data /\ u.parent = t.parent /\ u.kid = t.kid
      /\ u.color[x] = RED /\ u.color[c] = BLACK /\ u.color[p] = BLACK
      /\ \A y \in Nodes : y # x /\ y # c /\ y # p => u.color[y] = t.color[y]
  <2> DEFINE col == [t.color EXCEPT ![c] = BLACK, ![p] = BLACK, ![x] = RED]
  <2>1. u = [t EXCEPT !.color = col]
    BY <1>1 DEF Lifted
  <2>2. t.color \in [Nodes -> Colors]
    BY <1>1 DEF Trees
  <2>3. /\ col \in [Nodes -> Colors] /\ col[x] = RED /\ col[c] = BLACK /\ col[p] = BLACK
        /\ \A y \in Nodes : y # x /\ y # c /\ y # p => col[y] = t.color[y]
    BY Zenon, <1>1, <1>2, <1>3, <2>2, ThreeColors
  <2> HIDE DEF col, u
  <2>4. u \in Trees /\ u.root = t.root /\ u.data = t.data /\ u.parent = t.parent /\ u.kid = t.kid /\ u.color = col
    BY <1>1, <2>1, <2>3 DEF Trees
  <2> QED BY <2>3, <2>4
<1> HIDE DEF u
<1>6. Charted(u, g)
  BY <1>5, Repaint
<1>7. ASSUME NEW y \in g.nodes, NEW q \in Sides, u.kid[q][y] # Nil, u.kid[q][y] # x, u.color[y] = RED
      PROVE  u.color[u.kid[q][y]] # RED
  <2> DEFINE k == t.kid[q][y]
  <2>1. u.kid[q][y] = k /\ k # Nil /\ k # x /\ y \in Nodes
    BY <1>5, <1>7, MapTypes
  <2>2. k \in g.nodes /\ k \in Nodes
    BY <2>1, Children, MapTypes
  <2> HIDE DEF k
  <2>3. CASE k = p \/ k = c
    BY <1>5, <2>1, <2>3, ThreeColors
  <2>4. CASE k # p /\ k # c
    <3>1. y # x
      BY <1>1, <2>4 DEF k
    <3>2. y # p /\ y # c
      BY <1>5, <1>7, ThreeColors
    <3>3. t.color[y] = RED
      BY <1>5, <1>7, <2>1, <3>1, <3>2
    <3>4. k # e
      BY <1>4, <3>2 DEF k
    <3>5. t.color[k] # RED
      BY <2>1, <3>3, <3>4 DEF NoRedRed, k
    <3> QED BY <1>5, <2>1, <2>2, <2>4, <3>5
  <2> QED BY <2>3, <2>4
<1>8. NoRedRed(u, g, x)
  BY <1>7 DEF NoRedRed
<1>9. x # t.root => u.color[u.root] = t.color[u.root]
  <2>1. t.root \in Nodes
    <3>1. t.root \in Pointers /\ t.root # Nil
      BY <1>1 DEF Trees, Charted, Rooted
    <3> QED BY <3>1 DEF Pointers
  <2> QED BY <2>1, <1>2, <1>3, <1>5
<1>10. ASSUME Even(t, g) PROVE Even(u, g)
  <2>1. PICK h : Level(t, g, h, Weights(t))
    BY <1>10 DEF Even
  <2>2. t.color[x] = BLACK /\ \A y \in g.nodes : t.color[y] # DOUBLE_BLACK
    <3>1. t.color[x] \in Colors /\ t.color[x] # DOUBLE_BLACK
      BY <1>1, <1>10 DEF Trees, Even
    <3> QED BY <1>10, <3>1, ThreeColors DEF Even
  <2>3. \A y \in g.nodes : u.color[y] # DOUBLE_BLACK
    BY <1>5, <2>2, ThreeColors, MapTypes
  <2> DEFINE k == [h EXCEPT ![p] = h[p] + 1, ![c] = h[c] + 1]
             w == Weights(t)
             v == Weights(u)
  <2>4. /\ w \in [Nodes -> Int] /\ w[x] = 1 /\ w[p] = 0 /\ w[c] = 0
        /\ v \in [Nodes -> Int] /\ v[x] = 0 /\ v[p] = 1 /\ v[c] = 1
        /\ \A y \in Nodes : y # x /\ y # c /\ y # p => v[y] = w[y]
    BY <1>1, <1>5, <2>2, ThreeColors DEF Weights
  <2> HIDE DEF w, v
  <2>5. h \in [Nodes -> Nat] /\ \A y \in g.nodes, q \in Sides : h[y] = Height(h, t.kid[q][y]) + w[y]
    BY <2>1 DEF Level, w
  <2>6. p # c
    BY <1>1, <1>3
  <2>7. /\ k \in [Nodes -> Nat] /\ k[p] = h[p] + 1 /\ k[c] = h[c] + 1 /\ \A y \in Nodes : y # p /\ y # c => k[y] = h[y]
    BY <1>1, <2>5, <2>6
  <2> HIDE DEF k
  <2>8. ASSUME NEW y \in g.nodes, NEW q \in Sides PROVE k[y] = Height(k, t.kid[q][y]) + v[y]
    <3>1. y \in Nodes /\ h[y] = Height(h, t.kid[q][y]) + w[y] /\ h[y] \in Nat
      BY <2>5, MapTypes
    <3>2. CASE y = x
      <4>1. t.kid[q][y] = p \/ t.kid[q][y] = c
        BY <1>1, <3>2
      <4> QED BY <1>1, <1>2, <1>3, <2>4, <2>5, <2>7, <3>1, <3>2, <4>1 DEF Height
    <3>3. CASE y # x
      <4>1. Height(k, t.kid[q][y]) = Height(h, t.kid[q][y])
        <5>1. t.kid[q][y] # p /\ t.kid[q][y] # c
          BY <1>2, <1>3, <3>3
        <5>2. t.kid[q][y] = Nil \/ t.kid[q][y] \in Nodes
          BY Children, MapTypes
        <5> QED BY <5>1, <5>2, <2>7 DEF Height
      <4>2. Height(h, t.kid[q][y]) \in Int
        <5>2. t.kid[q][y] = Nil \/ t.kid[q][y] \in Nodes
          BY Children, MapTypes
        <5> QED BY <5>2, <2>5 DEF Height
      <4>3. CASE y = p
        <5>1. k[y] = h[y] + 1 /\ w[y] = 0 /\ v[y] = 1
          BY <4>3, <2>4, <2>7
        <5> QED BY <5>1, <4>1, <4>2, <3>1
      <4>4. CASE y = c
        <5>1. k[y] = h[y] + 1 /\ w[y] = 0 /\ v[y] = 1
          BY <4>4, <2>4, <2>7
        <5> QED BY <5>1, <4>1, <4>2, <3>1
      <4>5. CASE y # p /\ y # c
        <5>1. k[y] = h[y] /\ w[y] = v[y]
          BY <3>1, <3>3, <4>5, <2>4, <2>7
        <5> QED BY <5>1, <4>1, <4>2, <3>1
      <4> QED BY <4>3, <4>4, <4>5
    <3> QED BY <3>2, <3>3
  <2>9. Level(u, g, k, v)
    BY <1>5, <2>4, <2>7, <2>8 DEF Level
  <2> QED BY <2>3, <2>9 DEF Even, v
<1> QED BY Zenon, <1>5, <1>6, <1>8, <1>9, <1>10 DEF u

\* Before a round: only the node e may be the red child of a red one.
RedAt(t, g, e) ==
  /\ Charted(t, g) /\ e \in g.nodes /\ NoRedRed(t, g, e)
  /\ e # t.root => t.color[t.root] # RED

RedEnds(t, e) == e = t.root \/ t.color[e] # RED \/ t.color[t.parent[e]] # RED

\* A round of the loop of fixInsertRBTree (ll-rb-tree.hpp:111-155): afterwards
\* again only the node it is at may be red below red, and it is done or the
\* node is further up.
LEMMA RedRedStep ==
  ASSUME NEW t, NEW g, NEW e, RedAt(t, g, e)
  PROVE  LET c == RedRedRound([tree |-> t, ptr |-> e])
         IN  \E u, m, p :
               /\ c = [tree |-> u, ptr |-> p]
               /\ RedAt(u, m, p) /\ m.nodes = g.nodes /\ u.data = t.data
               /\ Even(t, g) => Even(u, m)
               /\ RedEnds(u, p) \/ (m = g /\ g.sub[e] \subseteq g.sub[p] /\ p \notin g.sub[e])
<1> DEFINE parent == t.parent[e]
           grand  == t.parent[parent]
           s      == SideOf(t, parent)
           uncle  == t.kid[Other(s)][grand]
           bent   == e = t.kid[Other(s)][parent]
           mid    == IF bent THEN e ELSE parent
           straight == IF bent THEN Rotate(t, parent, s) ELSE t
           turned == Rotate(straight, grand, Other(s))
           c      == RedRedRound([tree |-> t, ptr |-> e])
           Goal(u, m, p) ==
               /\ c = [tree |-> u, ptr |-> p]
               /\ RedAt(u, m, p) /\ m.nodes = g.nodes /\ u.data = t.data
               /\ Even(t, g) => Even(u, m)
               /\ RedEnds(u, p) \/ (m = g /\ g.sub[e] \subseteq g.sub[p] /\ p \notin g.sub[e])
<1>1. /\ Charted(t, g) /\ e \in g.nodes /\ NoRedRed(t, g, e) /\ (e # t.root => t.color[t.root] # RED)
      /\ e \in Nodes /\ e # Nil
  BY MapTypes DEF RedAt
<1>2. e # t.root => parent \in g.nodes /\ parent # e /\ parent # Nil
  BY <1>1, Parents
<1>3. CASE RedEnds(t, e)
  <2>1. e = t.root \/ getColor(t, e) # RED \/ getColor(t, parent) # RED
    BY <1>1, <1>2, <1>3 DEF RedEnds, getColor
  <2>2. c = [tree |-> t, ptr |-> e]
    BY Zenon, <2>1 DEF RedRedRound
  <2>3. Goal(t, g, e)
    BY <1>3, <2>2
  <2> QED BY <2>3
<1>4. CASE ~RedEnds(t, e)
  <2>1. e # t.root /\ t.color[e] = RED /\ t.color[parent] = RED /\ parent \in g.nodes /\ parent # e /\ parent # t.root
    BY <1>1, <1>2, <1>4 DEF RedEnds
  <2>2. /\ grand \in g.nodes /\ grand # parent /\ s \in Sides /\ t.kid[s][grand] = parent
        /\ \A y \in g.nodes, q \in Sides : t.kid[q][y] = parent => y = grand /\ q = s
    BY <1>1, <2>1, Parents
  <2>3. t.color[grand] # RED
    BY <1>1, <1>2, <2>1, <2>2 DEF NoRedRed
  <2>4. /\ SideOf(t, e) \in Sides /\ t.kid[SideOf(t, e)][parent] = e
        /\ \A y \in g.nodes, q \in Sides : t.kid[q][y] = e => y = parent /\ q = SideOf(t, e)
    BY <1>1, <2>1, Parents
  <2>5. Other(s) \in Sides /\ Other(s) # s /\ Other(Other(s)) = s /\ \A q \in Sides : q = s \/ q = Other(s)
    BY <2>2, TwoSides
  <2>6. g.sub[e] \subseteq g.sub[grand] /\ grand \notin g.sub[e] /\ grand # e
    <3>1. g.sub[e] \subseteq g.sub[parent] /\ parent \in g.nodes
      BY <1>1, <2>1, <2>4, Children
    <3>2. g.sub[parent] \subseteq g.sub[grand] /\ grand \notin g.sub[parent]
      BY <1>1, <1>2, <2>1, <2>2, Children
    <3>3. e \in g.sub[e]
      BY <1>1, MapTypes
    <3> QED BY <3>1, <3>2, <3>3
  <2>7. uncle # Nil => uncle \in g.nodes /\ uncle # parent
    BY <1>1, <2>2, <2>5, Children
  <2>8. getColor(t, e) = RED /\ getColor(t, parent) = RED
    BY <1>1, <1>2, <2>1 DEF getColor
  <2>9. CASE getColor(t, uncle) = RED
    <3> DEFINE u == Lifted(t, uncle, parent, grand)
    <3>1. c = [tree |-> u, ptr |-> grand]
      BY Zenon, <2>1, <2>8, <2>9 DEF RedRedRound, Lifted
    <3>2. uncle # Nil /\ t.color[uncle] = RED
      BY Zenon, <2>9, ThreeColors DEF getColor
    <3>3. /\ Charted(u, g) /\ u.data = t.data /\ u.root = t.root /\ u.kid = t.kid /\ u.parent = t.parent
          /\ NoRedRed(u, g, grand) /\ (grand # t.root => u.color[u.root] = t.color[u.root])
          /\ Even(t, g) => Even(u, g)
      <4> HIDE DEF uncle, grand, s, parent
      <4>1. uncle \in g.nodes
        BY <2>7, <3>2
      <4>2. uncle = t.kid[Other(s)][grand] /\ parent = t.kid[s][grand] /\ t.parent[e] = parent
        BY <2>2 DEF uncle, parent
      <4>3. /\ Charted(t, g) /\ NoRedRed(t, g, e) /\ e \in g.nodes /\ e # t.root /\ s \in Sides
            /\ grand \in g.nodes /\ parent \in g.nodes
            /\ t.color[parent] = RED /\ t.color[uncle] = RED /\ t.color[grand] # RED
        BY <1>1, <2>1, <2>2, <2>3, <3>2
      <4> QED BY <4>1, <4>2, <4>3, Recolor
    <3> HIDE DEF u, grand
    <3>4. RedAt(u, g, grand)
      BY <3>3, <2>2, <1>1, <2>1 DEF RedAt
    <3>5. Goal(u, g, grand)
      <4> HIDE DEF c
      <4> QED BY <3>1, <3>3, <3>4, <2>6
    <3> QED BY <3>5
  <2>10. CASE getColor(t, uncle) # RED
    <3> DEFINE u == Colored(turned, mid, grand, t.color[grand], t.color[mid])
    <3>1. c = [tree |-> u, ptr |-> mid]
      BY Zenon, <2>1, <2>8, <2>10 DEF RedRedRound, Colored
    <3>2. \E m : /\ Charted(u, m) /\ m.nodes = g.nodes /\ u.data = t.data
                 /\ NoRedRed(u, m, Nil) /\ u.color[mid] # RED /\ u.color[u.root] # RED
                 /\ Even(t, g) => Even(u, m)
      <4> HIDE DEF uncle, grand, s, parent
      <4>1. CASE bent
        <5> DEFINE r == Rotate(t, parent, s)
                   k == TurnedMap(t, g, parent, s)
        <5>1. u = Colored(Rotate(r, grand, Other(s)), e, grand, t.color[grand], t.color[e]) /\ mid = e
          BY <4>1
        <5>2. t.kid[Other(s)][parent] = e
          BY <4>1
        <5>3. /\ r.data = t.data /\ r.color = t.color /\ r.root = t.root
              /\ \A y \in g.nodes, q \in Sides : r.kid[q][y] = TurnedKid(t, parent, s, q, y)
          BY <1>1, <2>1, <2>2, <5>2, RotateFields
        <5>4. Charted(r, k) /\ k.nodes = g.nodes
          <6>1. Charted(r, k)
            BY <1>1, <2>1, <2>2, <5>2, RotateCharted
          <6>2. k.nodes = g.nodes
            BY <1>1 DEF TurnedMap, Charted, Maps
          <6> QED BY <6>1, <6>2
        <5>5. NoRedRed(r, k, parent) /\ (Even(t, g) => Even(r, k))
          <6>1. t.color[t.parent[parent]] # RED
            BY <2>3 DEF grand
          <6> QED BY <1>1, <2>1, <2>2, <5>2, <6>1, BentTurn
        <5>6. r.kid[s][grand] = e /\ r.kid[s][e] = parent /\ r.kid[Other(s)][grand] = uncle
          <6>1. r.kid[s][grand] = e
            BY <2>2, <2>6, <5>2, <5>3 DEF TurnedKid
          <6>2. r.kid[s][e] = parent
            BY <1>1, <2>1, <2>2, <5>2, <5>3 DEF TurnedKid
          <6>3. t.kid[Other(s)][grand] # parent
            BY <2>2, <2>5
          <6>4. r.kid[Other(s)][grand] = uncle
            BY <2>2, <2>5, <2>6, <5>2, <5>3, <6>3 DEF TurnedKid, uncle
          <6> QED BY <6>1, <6>2, <6>4
        <5>7. getColor(r, r.kid[Other(s)][grand]) # RED
          BY <2>10, <5>3, <5>6 DEF getColor
        <5>8. r.color[grand] # RED /\ r.color[e] = RED /\ r.color[r.root] # RED
          BY <1>1, <2>1, <2>3, <5>3
        <5> HIDE DEF r, k
        <5> DEFINE m == TurnedMap(r, k, grand, Other(s))
                   v == Colored(Rotate(r, grand, Other(s)), e, grand, r.color[grand], r.color[e])
        <5>9. /\ Charted(v, m) /\ m.nodes = k.nodes /\ v.data = r.data
              /\ NoRedRed(v, m, Nil) /\ v.color[e] # RED /\ v.color[v.root] # RED
              /\ Even(r, k) => Even(v, m)
          <6>1. grand \in k.nodes /\ e \in k.nodes /\ Other(s) \in Sides
            BY <1>1, <2>2, <2>5, <5>4
          <6>2. e = r.kid[Other(Other(s))][grand] /\ r.kid[Other(Other(s))][e] = parent /\ parent # Nil
            BY <1>2, <2>1, <2>5, <5>6
          <6>3. NoRedRed(r, k, r.kid[Other(Other(s))][e])
            BY <5>5, <6>2
          <6>4. r.kid[Other(Other(s))][e] # Nil /\ Charted(r, k)
            BY <5>4, <6>2
          <6> QED BY <5>7, <5>8, <6>1, <6>2, <6>3, <6>4, LastTurn
        <5>10. v = u
          BY <5>1, <5>3
        <5> HIDE DEF v, m, u
        <5> QED BY <5>3, <5>4, <5>5, <5>9, <5>10, <4>1
      <4>2. CASE ~bent
        <5>1. u = Colored(Rotate(t, grand, Other(s)), parent, grand, t.color[grand], t.color[parent]) /\ mid = parent
          BY <4>2
        <5>2. t.kid[s][parent] = e
          BY <2>4, <2>5, <4>2
        <5> DEFINE m == TurnedMap(t, g, grand, Other(s))
                   v == Colored(Rotate(t, grand, Other(s)), parent, grand, t.color[grand], t.color[parent])
        <5>3. /\ Charted(v, m) /\ m.nodes = g.nodes /\ v.data = t.data
              /\ NoRedRed(v, m, Nil) /\ v.color[parent] # RED /\ v.color[v.root] # RED
              /\ Even(t, g) => Even(v, m)
          <6>1. parent = t.kid[Other(Other(s))][grand] /\ t.kid[Other(Other(s))][parent] = e
            BY <2>2, <2>5, <5>2
          <6>2. NoRedRed(t, g, t.kid[Other(Other(s))][parent])
            BY <1>1, <6>1
          <6>3. getColor(t, t.kid[Other(s)][grand]) # RED
            BY <2>10 DEF uncle
          <6> QED BY <1>1, <2>1, <2>2, <2>3, <2>5, <6>1, <6>2, <6>3, LastTurn
        <5>4. v = u /\ mid = parent
          BY <5>1
        <5> HIDE DEF v, m, u, mid
        <5> QED BY <5>3, <5>4
      <4> QED BY Zenon, <4>1, <4>2
    <3>3. mid \in g.nodes
      BY <1>1, <2>1
    <3> HIDE DEF u, mid
    <3>4. PICK m : /\ Charted(u, m) /\ m.nodes = g.nodes /\ u.data = t.data
                   /\ NoRedRed(u, m, Nil) /\ u.color[mid] # RED /\ u.color[u.root] # RED
                   /\ Even(t, g) => Even(u, m)
      BY <3>2
    <3>5. NoRedRed(u, m, mid)
      BY <3>4 DEF NoRedRed
    <3>6. RedAt(u, m, mid) /\ RedEnds(u, mid)
      BY <3>3, <3>4, <3>5 DEF RedAt, RedEnds
    <3>7. Goal(u, m, mid)
      <4> HIDE DEF c
      <4> QED BY <3>1, <3>4, <3>6
    <3> QED BY <3>7
  <2> QED BY Zenon, <2>9, <2>10
<1> QED BY <1>3, <1>4

\* The loop comes to its end, and then no red node is below a red one.
LEMMA FixRedRedEnds ==
  ASSUME NEW t, NEW g, NEW e, RedAt(t, g, e)
  PROVE  \E m, p : LET u == FixRedRed(t, e)
                   IN  /\ RedAt(u, m, p) /\ m.nodes = g.nodes /\ u.data = t.data
                       /\ Even(t, g) => Even(u, m)
                       /\ RedEnds(u, p)
<1> DEFINE Like(c, m) == /\ RedAt(c.tree, m, c.ptr) /\ m.nodes = g.nodes /\ c.tree.data = t.data
                         /\ Even(t, g) => Even(c.tree, m)
           V == {c \in [tree : Trees, ptr : Nodes] : \E m : Like(c, m)}
           F == [c \in V |-> RedRedRound(c)]
           a == [tree |-> t, ptr |-> e]
           after == CHOOSE f : f = [i \in 0..MaxNodes |->
                      IF i = 0 THEN [tree |-> t, ptr |-> e] ELSE RedRedRound(f[i - 1])]
           Holds(c, i) == \E m : Like(c, m) /\ (RedEnds(c.tree, c.ptr) \/ Cardinality(m.sub[c.ptr]) >= i + 1)
<1>1. MaxNodes \in Nat
  BY NodesAreFinite
<1>2. a \in V /\ Holds(a, 0)
  <2>1. t \in Trees /\ e \in g.nodes
    BY DEF RedAt, Charted
  <2>2. Charted(t, g)
    BY DEF RedAt
  <2>3. e \in Nodes /\ e \in g.sub[e] /\ g.sub[e] \subseteq g.nodes /\ g.nodes \subseteq Nodes
    BY <2>1, <2>2, MapTypes
  <2>4. a \in [tree : Trees, ptr : Nodes] /\ a.tree = t /\ a.ptr = e
    BY <2>1, <2>3
  <2>5. Like(a, g)
    BY <2>4
  <2>6. Cardinality(g.sub[e]) >= 1
    <3>1. g.sub[e] \in SUBSET Nodes
      BY <2>3
    <3>2. Cardinality(g.sub[e]) > 0 /\ Cardinality(g.sub[e]) \in Nat
      BY <2>3, <3>1, SmallerSet
    <3> QED BY <3>2
  <2> HIDE DEF a
  <2>7. Holds(a, 0)
    <3> HIDE DEF Like
    <3> QED BY <2>4, <2>5, <2>6
  <2> HIDE DEF Like
  <2> QED BY <2>4, <2>5, <2>7
<1>3. ASSUME NEW c \in V, NEW i \in Nat, Holds(c, i)
      PROVE  RedRedRound(c) \in V /\ Holds(RedRedRound(c), i + 1)
  <2> DEFINE d == RedRedRound(c)
  <2>1. PICK m : Like(c, m) /\ (RedEnds(c.tree, c.ptr) \/ Cardinality(m.sub[c.ptr]) >= i + 1)
    BY <1>3
  <2>2. c = [tree |-> c.tree, ptr |-> c.ptr]
    OBVIOUS
  <2>3. PICK u, k, p :
               /\ d = [tree |-> u, ptr |-> p]
               /\ RedAt(u, k, p) /\ k.nodes = m.nodes /\ u.data = c.tree.data
               /\ Even(c.tree, m) => Even(u, k)
               /\ RedEnds(u, p) \/ (k = m /\ m.sub[c.ptr] \subseteq m.sub[p] /\ p \notin m.sub[c.ptr])
    <3>1. RedAt(c.tree, m, c.ptr)
      BY <2>1
    <3> DEFINE b == [tree |-> c.tree, ptr |-> c.ptr]
    <3>2. \E u, k, p :
               /\ RedRedRound(b) = [tree |-> u, ptr |-> p]
               /\ RedAt(u, k, p) /\ k.nodes = m.nodes /\ u.data = c.tree.data
               /\ Even(c.tree, m) => Even(u, k)
               /\ RedEnds(u, p) \/ (k = m /\ m.sub[c.ptr] \subseteq m.sub[p] /\ p \notin m.sub[c.ptr])
      BY <3>1, RedRedStep
    <3>3. c = b
      BY <2>2
    <3> HIDE DEF b
    <3> QED BY <3>2, <3>3
  <2> HIDE DEF d
  <2>4. d.tree = u /\ d.ptr = p
    BY <2>3
  <2>5. Charted(u, k) /\ p \in k.nodes /\ u \in Trees
    BY <2>3 DEF RedAt, Charted
  <2>6. p \in Nodes /\ p \in k.sub[p] /\ k.sub[p] \subseteq Nodes
    BY <2>5, MapTypes
  <2>7. Like(d, k)
    BY <2>1, <2>3, <2>4
  <2>8. d \in V
    <3> HIDE DEF Like
    <3>1. d \in [tree : Trees, ptr : Nodes]
      BY <2>3, <2>5, <2>6
    <3> QED BY <3>1, <2>7
  <2>9. RedEnds(u, p) \/ Cardinality(k.sub[p]) >= (i + 1) + 1
    <3>1. CASE RedEnds(u, p)
      BY <3>1
    <3>2. CASE k = m /\ m.sub[c.ptr] \subseteq m.sub[p] /\ p \notin m.sub[c.ptr]
      <4>1. m.sub[p] \in SUBSET Nodes /\ m.sub[c.ptr] \in SUBSET m.sub[p] /\ p \in m.sub[p]
        BY <2>6, <3>2
      <4>2. /\ Cardinality(m.sub[c.ptr]) \in Nat /\ Cardinality(m.sub[p]) \in Nat
            /\ Cardinality(m.sub[c.ptr]) < Cardinality(m.sub[p])
        BY <3>2, <4>1, SmallerSet
      <4>3. CASE RedEnds(c.tree, c.ptr)
        <5>1. c.ptr # Nil /\ c.ptr \in m.nodes /\ Charted(c.tree, m)
          BY <2>1, MapTypes DEF RedAt
        <5>2. c.ptr # c.tree.root => c.tree.parent[c.ptr] # Nil
          BY <5>1, Parents
        <5>3. c.ptr = c.tree.root \/ getColor(c.tree, c.ptr) # RED \/ getColor(c.tree, c.tree.parent[c.ptr]) # RED
          BY <4>3, <5>1, <5>2 DEF RedEnds, getColor
        <5>4. d = c
          BY Zenon, <5>3 DEF RedRedRound, d
        <5> QED BY <2>4, <4>3, <5>4
      <4>4. CASE Cardinality(m.sub[c.ptr]) >= i + 1
        BY <3>2, <4>2, <4>4
      <4> QED BY <2>1, <4>3, <4>4
    <3> QED BY <2>3, <3>1, <3>2
  <2>10. Holds(d, i + 1)
    <3> HIDE DEF Like
    <3> QED BY <2>4, <2>7, <2>9
  <2> HIDE DEF V, Holds
  <2> QED BY <2>8, <2>10 DEF d
<1>4. \A c \in V : RedRedRound(c) \in V
  <2> SUFFICES ASSUME NEW c \in V PROVE RedRedRound(c) \in V
    OBVIOUS
  <2>1. PICK m : Like(c, m)
    OBVIOUS
  <2>2. Charted(c.tree, m) /\ c.ptr \in m.nodes
    BY <2>1 DEF RedAt
  <2>3. c.ptr \in m.sub[c.ptr] /\ m.sub[c.ptr] \in SUBSET Nodes
    BY <2>2, MapTypes
  <2>4. Cardinality(m.sub[c.ptr]) >= 0 + 1
    <3>1. Cardinality(m.sub[c.ptr]) > 0 /\ Cardinality(m.sub[c.ptr]) \in Nat
      BY <2>3, SmallerSet
    <3> QED BY <3>1
  <2>5. Holds(c, 0)
    <3> HIDE DEF Like
    <3> QED BY <2>1, <2>4
  <2> HIDE DEF V, Holds
  <2> QED BY <1>3, <2>5
<1>5. F \in [V -> V]
  <2> HIDE DEF V
  <2> QED BY <1>4
<1> HIDE DEF V, Holds, a
<1>6. after \in [0..MaxNodes -> V] /\ after = [i \in 0..MaxNodes |-> IF i = 0 THEN a ELSE RedRedRound(after[i - 1])]
  <2>1. PICK f : f \in Rounds(MaxNodes, V, a, F)
    <3> HIDE DEF F
    <3> QED BY <1>1, <1>2, <1>5, Iteration
  <2>2. f = [i \in 0..MaxNodes |-> IF i = 0 THEN a ELSE F[f[i - 1]]] /\ f \in [0..MaxNodes -> V]
    BY <2>1 DEF Rounds
  <2>3. \A i \in 0..MaxNodes : i # 0 => i - 1 \in 0..MaxNodes
    BY <1>1
  <2>4. \A i \in 0..MaxNodes : i # 0 => F[f[i - 1]] = RedRedRound(f[i - 1])
    BY <2>2, <2>3
  <2>5. f = [i \in 0..MaxNodes |-> IF i = 0 THEN a ELSE RedRedRound(f[i - 1])]
    <3> HIDE DEF F
    <3> QED BY <2>2, <2>4
  <2>6. after = [i \in 0..MaxNodes |-> IF i = 0 THEN a ELSE RedRedRound(after[i - 1])]
    BY <2>5 DEF a
  <2> HIDE DEF after
  <2>7. after[0] = a
    BY <1>1, <2>6
  <2>8. ASSUME NEW i \in 0..(MaxNodes - 1), after[i] \in V PROVE after[i + 1] \in V
    <3>1. i + 1 \in 0..MaxNodes /\ i + 1 # 0 /\ (i + 1) - 1 = i
      BY <1>1
    <3>2. after[i + 1] = RedRedRound(after[i])
      BY <2>6, <3>1
    <3> QED BY <1>4, <2>8, <3>2
  <2> DEFINE T == {i \in 0..MaxNodes : after[i] \in V}
  <2>9. 0 \in T /\ \A i \in 0..(MaxNodes - 1) : i \in T => i + 1 \in T
    BY <1>1, <1>2, <2>7, <2>8
  <2>10. \A i \in 0..MaxNodes : i \in T
    <3> HIDE DEF T
    <3> QED BY <1>1, <2>9, UpTo
  <2>11. \A i \in 0..MaxNodes : after[i] \in V
    BY <2>10
  <2> HIDE DEF T
  <2> QED BY <2>6, <2>11
<1>7. FixRedRed(t, e) = after[MaxNodes].tree
  BY DEF FixRedRed
<1> HIDE DEF after
<1>8. Holds(after[MaxNodes], MaxNodes)
  <2> DEFINE T == {i \in 0..MaxNodes : Holds(after[i], i)}
  <2>1. 0 \in T
    <3>1. after[0] = a
      BY <1>1, <1>6
    <3> QED BY <1>1, <1>2, <3>1
  <2>2. ASSUME NEW i \in 0..(MaxNodes - 1), i \in T PROVE i + 1 \in T
    <3>1. i + 1 \in 0..MaxNodes /\ i + 1 # 0 /\ (i + 1) - 1 = i /\ i \in Nat /\ i \in 0..MaxNodes
      BY <1>1
    <3>2. after[i + 1] = RedRedRound(after[i]) /\ after[i] \in V
      BY <1>6, <3>1
    <3>3. Holds(after[i + 1], i + 1)
      BY <1>3, <2>2, <3>1, <3>2
    <3> QED BY <3>1, <3>3
  <2>3. MaxNodes \in T
    <3>1. MaxNodes \in 0..MaxNodes
      BY <1>1
    <3> HIDE DEF T
    <3> QED BY <1>1, <2>1, <2>2, <3>1, UpTo
  <2> QED BY <2>3
<1> DEFINE z == after[MaxNodes]
<1> HIDE DEF z
<1>9. PICK m : Like(z, m) /\ (RedEnds(z.tree, z.ptr) \/ Cardinality(m.sub[z.ptr]) >= MaxNodes + 1)
  BY <1>8 DEF Holds, z
<1>10. RedEnds(z.tree, z.ptr)
  <2>1. Charted(z.tree, m) /\ z.ptr \in m.nodes
    BY <1>9 DEF RedAt
  <2>2. m.sub[z.ptr] \in SUBSET Nodes
    BY <2>1, MapTypes
  <2>3. Cardinality(m.sub[z.ptr]) \in Nat /\ Cardinality(m.sub[z.ptr]) <= MaxNodes
    BY <2>2, SmallerSet
  <2> QED BY <1>1, <1>9, <2>3
<1> QED BY <1>7, <1>9, <1>10 DEF z

\* The weight of the root is nobody else's matter.
LEMMA RootLevel ==
  ASSUME NEW t, NEW g, Charted(t, g), NEW h, NEW w, Level(t, g, h, w), NEW v \in [Nodes -> Int],
         t.root # Nil => v[t.root] >= 0, \A y \in g.nodes : y # t.root => v[y] = w[y]
  PROVE  \E k : Level(t, g, k, v)
<1>1. CASE t.root = Nil
  <2>1. g.nodes = {}
    BY <1>1 DEF Charted, Rooted
  <2>2. Level(t, g, h, v)
    BY <2>1 DEF Level
  <2> QED BY <2>2
<1>2. CASE t.root # Nil
  <2> DEFINE r == t.root
             below == Height(h, t.kid["left"][r])
             k == [h EXCEPT ![r] = below + v[r]]
  <2>1. h \in [Nodes -> Nat] /\ \A y \in g.nodes, q \in Sides : h[y] = Height(h, t.kid[q][y]) + w[y]
    BY DEF Level
  <2>2. w \in [Nodes -> Int] /\ r \in g.nodes /\ r \in Nodes /\ t \in Trees
    BY <1>2, MapTypes DEF Level, Charted, Rooted
  <2>3. ASSUME NEW y \in g.nodes, NEW q \in Sides
        PROVE /\ t.kid[q][y] # r /\ (t.kid[q][y] = Nil \/ t.kid[q][y] \in Nodes)
              /\ Height(h, t.kid[q][y]) \in Nat
    <3>1. t.kid[q][y] # Nil => t.kid[q][y] # r /\ t.kid[q][y] \in Nodes
      BY Children, MapTypes
    <3>2. t.kid[q][y] # Nil => h[t.kid[q][y]] \in Nat
      BY <2>1, <3>1
    <3> QED BY <1>2, <3>1, <3>2 DEF Height
  <2>4. below \in Nat /\ v[r] \in Nat
    BY <1>2, <2>2, <2>3, TwoSides
  <2> HIDE DEF below
  <2>5. k \in [Nodes -> Nat] /\ k[r] = below + v[r] /\ \A y \in Nodes : y # r => k[y] = h[y]
    BY <2>1, <2>2, <2>4
  <2> HIDE DEF k
  <2>6. ASSUME NEW y \in g.nodes, NEW q \in Sides PROVE k[y] = Height(k, t.kid[q][y]) + v[y]
    <3>1. Height(k, t.kid[q][y]) = Height(h, t.kid[q][y])
      BY <2>3, <2>5 DEF Height
    <3>2. h[y] = Height(h, t.kid[q][y]) + w[y] /\ y \in Nodes
      BY <2>1, MapTypes
    <3>3. CASE y = r
      <4>1. h[r] = below + w[r]
        BY <2>1, <2>2, TwoSides DEF below
      <4>2. Height(h, t.kid[q][r]) = below
        BY <2>2, <2>3, <2>4, <3>2, <3>3, <4>1
      <4> QED BY <2>5, <3>1, <3>3, <4>2
    <3>4. CASE y # r
      BY <2>5, <3>1, <3>2, <3>4
    <3> QED BY <3>3, <3>4
  <2>7. Level(t, g, k, v)
    BY <2>5, <2>6 DEF Level
  <2> QED BY <2>7
<1> QED BY <1>1, <1>2

\* What coloring a node makes of every field.
LEMMA ColorFields ==
  ASSUME NEW t \in Trees, NEW x \in Pointers, NEW c \in Colors
  PROVE  LET u == setColor(t, x, c)
         IN  /\ u \in Trees /\ u.root = t.root /\ u.data = t.data /\ u.count = t.count
             /\ u.parent = t.parent /\ u.kid = t.kid
             /\ \A y \in Nodes : u.color[y] = IF y = x THEN c ELSE t.color[y]
<1> DEFINE u == setColor(t, x, c)
           col == Put(t.color, x, c)
<1>1. col \in [Nodes -> Colors] /\ \A y \in Nodes : col[y] = IF y = x THEN c ELSE t.color[y]
  BY NilIsNoNode DEF Put, Trees, Pointers
<1>2. u = [t EXCEPT !.color = col]
  BY DEF setColor
<1> HIDE DEF col, u
<1>3. u \in Trees /\ u.root = t.root /\ u.data = t.data /\ u.count = t.count /\ u.parent = t.parent /\ u.kid = t.kid /\ u.color = col
  BY <1>1, <1>2 DEF Trees
<1> QED BY <1>1, <1>3 DEF u

\* The last step of an insertion.
LEMMA BlackRoot ==
  ASSUME NEW t, NEW g, Charted(t, g), NEW e, NoRedRed(t, g, e), RedEnds(t, e) \/ e = Nil
  PROVE  LET u == setColor(t, t.root, BLACK)
         IN  Sound(u, g) /\ u.data = t.data /\ (Even(t, g) => Even(u, g))
<1> DEFINE u == setColor(t, t.root, BLACK)
<1>1. /\ u \in Trees /\ u.root = t.root /\ u.data = t.data /\ u.parent = t.parent /\ u.kid = t.kid
      /\ \A y \in Nodes : u.color[y] = IF y = t.root THEN BLACK ELSE t.color[y]
  <2>1. t \in Trees /\ t.root \in Pointers /\ BLACK \in Colors
    BY ThreeColors DEF Charted, Trees
  <2> QED BY <2>1, ColorFields
<1> HIDE DEF u
<1>2. t.root # Nil => t.root \in g.nodes
  BY DEF Charted, Rooted
<1>3. Charted(u, g)
  <2>1. \A y \in Nodes \ g.nodes : u.color[y] = t.color[y]
    BY <1>1, <1>2, NilIsNoNode
  <2> QED BY <1>1, <2>1, Repaint
<1>4. ASSUME NEW y \in g.nodes, NEW q \in Sides, u.kid[q][y] # Nil, u.color[y] = RED
      PROVE  u.color[u.kid[q][y]] # RED
  <2> DEFINE k == t.kid[q][y]
  <2>1. k # Nil /\ k \in g.nodes /\ k # t.root /\ t.parent[k] = y /\ y \in Nodes /\ k \in Nodes
    <3>1. k # Nil
      BY <1>1, <1>4
    <3>2. k \in g.nodes /\ k # t.root /\ t.parent[k] = y
      BY <3>1, Children
    <3> QED BY <3>1, <3>2, MapTypes
  <2>2. t.color[y] = RED
    BY <1>1, <1>4, <2>1, ThreeColors
  <2>3. t.color[k] # RED
    <3>1. CASE k = e
      BY <2>1, <2>2, <3>1 DEF RedEnds
    <3>2. CASE k # e
      BY <2>1, <2>2, <3>2 DEF NoRedRed
    <3> QED BY <3>1, <3>2
  <2> QED BY <1>1, <2>1, <2>3
<1>5. Sound(u, g)
  <2>1. NoRedRed(u, g, Nil)
    BY <1>4 DEF NoRedRed
  <2>2. u.root # Nil => u.color[u.root] = BLACK
    BY <1>1, <1>2, MapTypes
  <2> QED BY <1>3, <2>1, <2>2 DEF Sound
<1>6. ASSUME Even(t, g) PROVE Even(u, g)
  <2>1. PICK h : Level(t, g, h, Weights(t))
    BY <1>6 DEF Even
  <2>2. \A y \in g.nodes : u.color[y] # DOUBLE_BLACK
    BY <1>1, <1>6, ThreeColors, MapTypes DEF Even
  <2>3. Weights(u) \in [Nodes -> Int] /\ \A y \in g.nodes : y # t.root => Weights(u)[y] = Weights(t)[y]
    BY <1>1, MapTypes DEF Weights
  <2>4. t.root # Nil => Weights(u)[t.root] >= 0
    BY <1>2, MapTypes DEF Weights
  <2>5. PICK k : Level(t, g, k, Weights(u))
    BY <2>1, <2>3, <2>4, RootLevel
  <2>6. Level(u, g, k, Weights(u))
    BY <1>1, <2>5 DEF Level
  <2> QED BY <2>2, <2>6 DEF Even
<1> QED BY <1>1, <1>5, <1>6 DEF u

\* After fixInsertRBTree no red node is below a red one, the root is black,
\* and a tree that was even is even.
LEMMA InsertFixed ==
  ASSUME NEW t, NEW g, NEW e, RedAt(t, g, e)
  PROVE  \E m : LET u == fixInsertRBTree(t, e)
                IN  Sound(u, m) /\ m.nodes = g.nodes /\ u.data = t.data /\ (Even(t, g) => Even(u, m))
<1> DEFINE f == FixRedRed(t, e)
           u == fixInsertRBTree(t, e)
<1>1. PICK m, p : /\ RedAt(f, m, p) /\ m.nodes = g.nodes /\ f.data = t.data
                  /\ Even(t, g) => Even(f, m)
                  /\ RedEnds(f, p)
  BY FixRedRedEnds
<1>2. u = setColor(f, f.root, BLACK)
  BY DEF fixInsertRBTree
<1> HIDE DEF f, u
<1>3. Sound(u, m) /\ u.data = f.data /\ (Even(f, m) => Even(u, m))
  <2>1. Charted(f, m) /\ NoRedRed(f, m, p)
    BY <1>1 DEF RedAt
  <2> QED BY <1>1, <1>2, <2>1, BlackRoot
<1> QED BY <1>1, <1>3 DEF u

-----------------------------------------------------------------------------
(***************************************************************************)
(* Insertion.                                                              *)
(***************************************************************************)

DataOf(t, g) == {t.data[y] : y \in g.nodes}

Counted(t, path) == [t EXCEPT !.count = [x \in Nodes |-> IF x \in path THEN t.count[x] + 1 ELSE t.count[x]]]

NewNode(t, path, n, d) == [Counted(t, path) EXCEPT !.data[n] = d, !.count[n] = 1, !.color[n] = RED]

\* The counts that an insertion changes say nothing of the shape of the tree.
LEMMA CountedFields ==
  ASSUME NEW t \in Trees, NEW path
  PROVE  LET u == Counted(t, path)
         IN  /\ u \in Trees /\ u.root = t.root /\ u.data = t.data /\ u.color = t.color
             /\ u.parent = t.parent /\ u.kid = t.kid
<1> DEFINE count == [x \in Nodes |-> IF x \in path THEN t.count[x] + 1 ELSE t.count[x]]
           u == Counted(t, path)
<1>1. count \in [Nodes -> Int]
  BY DEF Trees
<1>2. u = [t EXCEPT !.count = count]
  BY DEF Counted
<1> HIDE DEF count, u
<1>3. /\ u \in Trees /\ u.root = t.root /\ u.data = t.data /\ u.color = t.color
      /\ u.parent = t.parent /\ u.kid = t.kid
  BY <1>1, <1>2 DEF Trees
<1> QED BY <1>3 DEF u

\* u is t with a node that is not linked yet.
NodeMade(t, u, n, d) ==
  /\ u \in Trees /\ u.root = t.root /\ u.data = [t.data EXCEPT ![n] = d]
  /\ u.parent = t.parent /\ u.kid = t.kid
  /\ \A y \in Nodes : u.color[y] = IF y = n THEN RED ELSE t.color[y]

\* What making a new node changes.
LEMMA NewNodeFields ==
  ASSUME NEW t \in Trees, NEW path, NEW n \in Nodes, NEW d \in Nat
  PROVE  NodeMade(t, NewNode(t, path, n, d), n, d)
<1> DEFINE c == Counted(t, path)
           u == NewNode(t, path, n, d)
           data == [t.data EXCEPT ![n] = d]
           count == [c.count EXCEPT ![n] = 1]
           color == [t.color EXCEPT ![n] = RED]
<1>1. /\ c \in Trees /\ c.root = t.root /\ c.data = t.data /\ c.color = t.color
      /\ c.parent = t.parent /\ c.kid = t.kid
  BY CountedFields
<1> HIDE DEF c
<1>2. u = [c EXCEPT !.data[n] = d, !.count[n] = 1, !.color[n] = RED]
  BY DEF NewNode, c
<1>3. u = [c EXCEPT !.data = data, !.count = count, !.color = color]
  BY Zenon, <1>1, <1>2
<1>4. /\ data \in [Nodes -> Nat] /\ color \in [Nodes -> Colors] /\ count \in [Nodes -> Int]
      /\ \A y \in Nodes : color[y] = IF y = n THEN RED ELSE t.color[y]
  BY <1>1, ThreeColors DEF Trees
<1> HIDE DEF u, data, count, color
<1>5. /\ u \in Trees /\ u.root = t.root /\ u.data = data /\ u.color = color
      /\ u.parent = t.parent /\ u.kid = t.kid
  BY <1>1, <1>3, <1>4 DEF Trees
<1> QED BY <1>4, <1>5 DEF u, data, NodeMade

\* The slot that the search ends in keeps the tree in order.
LEMMA LeafPlace ==
  ASSUME NEW t, NEW g, Charted(t, g), NEW x \in g.nodes, NEW d \in Nat, t.data[x] # d, Splits(t, g, x, d),
         NEW s, s = (IF d < t.data[x] THEN "left" ELSE "right"), t.kid[s][x] = Nil,
         NEW y \in g.nodes
  PROVE  /\ 2 * g.pos[y] < LeafPos(g, x, s) => t.data[y] <= d
         /\ LeafPos(g, x, s) < 2 * g.pos[y] => d <= t.data[y]
<1>1. /\ g.pos[x] \in Int /\ g.pos[y] \in Int /\ t.data[x] \in Nat /\ t.data[y] \in Nat
      /\ (g.pos[x] < g.pos[y] => t.data[x] <= t.data[y]) /\ (g.pos[y] < g.pos[x] => t.data[y] <= t.data[x])
  <2>1. (g.pos[x] < g.pos[y] => t.data[x] <= t.data[y]) /\ (g.pos[y] < g.pos[x] => t.data[y] <= t.data[x])
    BY DEF Charted, Sorted
  <2> QED BY <2>1, MapTypes
<1>2. s \in Sides /\ Other(s) \in Sides
  BY TwoSides
<1>3. g.pos[x] = g.pos[y] => x = y
  BY DEF Charted, Apart
<1>4. CASE y \notin g.sub[x]
  BY <1>1, <1>3, <1>4 DEF Splits, LeafPos
<1>5. CASE y = x
  BY <1>1, <1>5 DEF LeafPos
<1>6. CASE y \in g.sub[x] /\ y # x
  <2>1. y \in Part(g, t.kid[Other(s)][x])
    BY <1>2, <1>6, TwoSides DEF Charted, Placed, SubSplit, Part
  <2>2. On(Other(s), g.pos[y], g.pos[x])
    BY <1>2, <2>1 DEF Charted, Placed, KidPlaced
  <2>3. CASE d < t.data[x]
    <3>1. Other(s) = "right" /\ s = "left"
      BY <2>3, TwoSides
    <3> QED BY <1>1, <2>2, <2>3, <3>1 DEF On, LeafPos
  <2>4. CASE ~(d < t.data[x])
    <3>1. Other(s) = "left" /\ s = "right"
      BY <2>4, TwoSides
    <3> QED BY <1>1, <2>2, <2>4, <3>1 DEF On, LeafPos
  <2> QED BY <2>3, <2>4
<1> QED BY <1>4, <1>5, <1>6

\* The new red leaf is the only node that may be red below a red one.
LEMMA LeafRedAt ==
  ASSUME NEW t, NEW g, Sound(t, g), NEW x \in g.nodes, NEW d \in Nat, d # 0, t.data[x] # d, Splits(t, g, x, d),
         NEW s, s = (IF d < t.data[x] THEN "left" ELSE "right"), t.kid[s][x] = Nil,
         NEW n \in Nodes, t.data[n] = 0, NEW u, LeafAdded(t, u, x, s, n, d)
  PROVE  \E m : RedAt(u, m, n) /\ m.nodes = g.nodes \cup {n} /\ (Even(t, g) => Even(u, m))
<1> DEFINE m == LeafMap(g, x, s, n)
<1>1. /\ Charted(t, g) /\ NoRedRed(t, g, Nil) /\ s \in Sides /\ t \in Trees /\ g.nodes \subseteq Nodes
      /\ t.root # Nil => t.color[t.root] = BLACK
  BY TwoSides, MapTypes DEF Sound, Charted
<1>2. n \notin g.nodes /\ n # Nil /\ \A q \in Sides : t.kid[q][n] = Nil
  BY <1>1, NilIsNoNode DEF Charted, Vacancies, Vacant
<1>3. m.nodes = g.nodes \cup {n}
  BY DEF LeafMap
<1>4. Charted(u, m)
  <2>1. LeafFits(t, g, x, s, d)
    BY <1>1, LeafPlace DEF LeafFits
  <2> QED BY <1>1, <1>2, <2>1, LeafCharted
<1> HIDE DEF m
<1>0. /\ u \in Trees /\ u.root = t.root /\ u.data = [t.data EXCEPT ![n] = d]
      /\ u.parent = [t.parent EXCEPT ![n] = x] /\ u.kid = [t.kid EXCEPT ![s][x] = n]
      /\ \A y \in Nodes : u.color[y] = IF y = n THEN RED ELSE t.color[y]
  BY DEF LeafAdded
<1> USE <1>0
<1>5. ASSUME NEW y \in m.nodes, NEW q \in Sides
      PROVE  /\ y = n => u.kid[q][y] = Nil
             /\ y # n => y \in g.nodes /\ (u.kid[q][y] = t.kid[q][y] \/ (t.kid[q][y] = Nil /\ u.kid[q][y] = n))
             /\ t.kid[q][y] # Nil => t.kid[q][y] # n /\ t.kid[q][y] \in Nodes
  <2>1. x \in Nodes /\ x # n /\ y \in Nodes
    BY <1>1, <1>2, <1>3
  <2>2. u.kid[q][y] = IF q = s /\ y = x THEN n ELSE t.kid[q][y]
    BY <1>1, <2>1 DEF Trees
  <2>3. y \in g.nodes /\ t.kid[q][y] # Nil => t.kid[q][y] \in g.nodes
    BY <1>1, Children
  <2> QED BY <1>1, <1>2, <1>3, <2>1, <2>2, <2>3
<1>6. NoRedRed(u, m, n)
  <2> SUFFICES ASSUME NEW y \in m.nodes, NEW q \in Sides, u.kid[q][y] # Nil, u.kid[q][y] # n, u.color[y] = RED
               PROVE  u.color[u.kid[q][y]] # RED
    BY Zenon DEF NoRedRed
  <2>1. y \in g.nodes /\ y # n /\ u.kid[q][y] = t.kid[q][y] /\ t.kid[q][y] \in Nodes
    BY <1>5
  <2>2. t.color[y] = RED
    BY <1>1, <2>1
  <2>3. t.color[t.kid[q][y]] # RED
    BY <1>1, <2>1, <2>2 DEF NoRedRed
  <2> QED BY Zenon, <2>1, <2>3
<1>7. u.root # Nil => u.color[u.root] # RED
  <2>1. t.root # Nil => t.root \in g.nodes
    BY <1>1 DEF Charted, Rooted
  <2> QED BY <1>1, <1>2, <2>1, ThreeColors
<1>8. RedAt(u, m, n)
  <2>1. t.root # Nil
    BY <1>1 DEF Charted, Rooted
  <2> QED BY <1>3, <1>4, <1>6, <1>7, <2>1 DEF RedAt
<1>9. ASSUME Even(t, g) PROVE Even(u, m)
  <2>1. PICK h : Level(t, g, h, Weights(t))
    BY <1>9 DEF Even
  <2>2. \A y \in m.nodes : u.color[y] # DOUBLE_BLACK
    BY <1>1, <1>3, <1>9, ThreeColors DEF Even
  <2> DEFINE k == [h EXCEPT ![n] = 0]
             w == Weights(t)
             v == Weights(u)
  <2>3. v \in [Nodes -> Int] /\ v[n] = 0 /\ \A y \in g.nodes : v[y] = w[y]
    BY <1>1, <1>2 DEF Weights
  <2> HIDE DEF w, v
  <2>4. h \in [Nodes -> Nat] /\ \A y \in g.nodes, q \in Sides : h[y] = Height(h, t.kid[q][y]) + w[y]
    BY <2>1 DEF Level, w
  <2>5. k \in [Nodes -> Nat] /\ k[n] = 0 /\ \A y \in Nodes : y # n => k[y] = h[y]
    BY <2>4
  <2> HIDE DEF k
  <2>6. ASSUME NEW y \in m.nodes, NEW q \in Sides PROVE k[y] = Height(k, u.kid[q][y]) + v[y]
    <3>1. CASE y = n
      BY <1>5, <2>3, <2>5, <3>1 DEF Height
    <3>2. CASE y # n
      <4>1. y \in g.nodes /\ y \in Nodes
        BY <1>1, <1>5, <3>2
      <4>2. Height(k, u.kid[q][y]) = Height(h, t.kid[q][y])
        BY <1>2, <1>5, <2>5, <3>2 DEF Height
      <4>3. h[y] = Height(h, t.kid[q][y]) + w[y]
        BY <2>4, <4>1
      <4> QED BY <2>3, <2>5, <3>2, <4>1, <4>2, <4>3
    <3> QED BY <3>1, <3>2
  <2>7. Level(u, m, k, v)
    BY <2>3, <2>5, <2>6 DEF Level
  <2> QED BY <2>2, <2>7 DEF Even, v
<1> QED BY <1>3, <1>8, <1>9

\* insert keeps the tree sound, and even if it was; it adds the data.
LEMMA InsertSound ==
  ASSUME NEW t, NEW g, Sound(t, g), Room(t), NEW d \in Nat, d # 0
  PROVE  \E m : LET u == Insert(t, d)
                IN  Sound(u, m) /\ DataOf(u, m) = DataOf(t, g) \cup {d} /\ (Even(t, g) => Even(u, m))
<1> DEFINE path    == PathTo(t, d)
           side(x) == IF d < t.data[x] THEN "left" ELSE "right"
           new     == CHOOSE x \in Nodes : t.data[x] = 0
           last    == {x \in path : t.data[x] # d /\ t.kid[side(x)][x] = Nil}
           counted == Counted(t, path)
           node    == NewNode(t, path, new, d)
           x       == CHOOSE y \in last : TRUE
           u       == Insert(t, d)
<1>1. u = IF path = {} THEN fixInsertRBTree([node EXCEPT !.root = new], new)
          ELSE IF last = {} THEN setColor(counted, t.root, BLACK)
          ELSE fixInsertRBTree([node EXCEPT !.parent[new] = x, !.kid[side(x)][x] = new], new)
  BY DEF Insert, Counted, NewNode
<1>2. Charted(t, g) /\ NoRedRed(t, g, Nil) /\ t \in Trees /\ (t.root # Nil => t.color[t.root] = BLACK)
  BY DEF Sound, Charted
<1>3. new \in Nodes /\ t.data[new] = 0
  BY DEF Room
<1>4. /\ t.root = Nil => path = {}
      /\ t.root # Nil => t.root \in path
      /\ path \subseteq g.nodes
      /\ \A y \in path : Splits(t, g, y, d)
      /\ t.root # Nil => \E y \in path : t.data[y] = d \/ t.kid[side(y)][y] = Nil
  BY <1>2, SearchPath
<1>5. /\ node \in Trees /\ node.root = t.root /\ node.data = [t.data EXCEPT ![new] = d]
      /\ node.parent = t.parent /\ node.kid = t.kid
      /\ \A y \in Nodes : node.color[y] = IF y = new THEN RED ELSE t.color[y]
  <2>1. NodeMade(t, node, new, d)
    <3> HIDE DEF new, path
    <3> QED BY <1>2, <1>3, NewNodeFields
  <2> HIDE DEF new, path, node
  <2> QED BY <2>1 DEF NodeMade
<1>6. Vacancies(t, g) /\ Vacant(t, g, new)
  BY <1>2, <1>3 DEF Charted, Vacancies
<1> HIDE DEF path, new, node, counted, u
<1>7. CASE path = {}
  <2> DEFINE v == [node EXCEPT !.root = new]
             m == SingleMap(new)
  <2>1. /\ v \in Trees /\ v.root = new /\ v.data = node.data /\ v.parent = node.parent
        /\ v.kid = node.kid /\ v.color = node.color
    BY <1>3, <1>5, NilIsNoNode DEF Trees, Pointers
  <2>2. u = fixInsertRBTree(v, new)
    BY <1>1, <1>7
  <2> HIDE DEF v
  <2>3. g.nodes = {}
    BY <1>2, <1>4, <1>7 DEF Charted, Rooted
  <2>4. v.data[new] = d /\ \A y \in Nodes : y # new => v.data[y] = t.data[y]
    BY <1>2, <1>3, <1>5, <2>1 DEF Trees
  <2>5. v.parent[new] = Nil /\ \A q \in Sides : v.kid[q][new] = Nil
    BY <1>5, <1>6, <2>1 DEF Vacant
  <2>6. Charted(v, m)
    <3>1. \A y \in Nodes : v.data[y] = 0 =>
            v.color[y] = RED /\ v.parent[y] = Nil /\ \A s \in Sides : v.kid[s][y] = Nil
      BY <1>5, <1>6, <2>1, <2>4 DEF Vacancies, Vacant
    <3> QED BY <1>3, <2>1, <2>4, <2>5, <3>1, SingleCharted
  <2>7. m.nodes = {new}
    BY DEF SingleMap
  <2> HIDE DEF m
  <2>8. RedAt(v, m, new)
    <3>1. NoRedRed(v, m, new)
      BY <2>5, <2>7 DEF NoRedRed
    <3> QED BY <2>1, <2>6, <2>7, <3>1 DEF RedAt
  <2>9. Even(v, m)
    <3>1. v.color[new] = RED
      BY <1>3, <1>5, <2>1
    <3>2. \A y \in m.nodes : v.color[y] # DOUBLE_BLACK
      BY <2>7, <3>1, ThreeColors
    <3> DEFINE h == [y \in Nodes |-> 0]
    <3>3. Level(v, m, h, Weights(v))
      BY <1>3, <2>5, <2>7, <3>1 DEF Level, Height, Weights
    <3> QED BY <3>2, <3>3 DEF Even
  <2>10. PICK k : Sound(u, k) /\ k.nodes = m.nodes /\ u.data = v.data /\ (Even(v, m) => Even(u, k))
    BY <2>2, <2>8, InsertFixed
  <2>11. DataOf(u, k) = DataOf(t, g) \cup {d}
    BY <2>3, <2>4, <2>7, <2>10 DEF DataOf
  <2> QED BY <2>9, <2>10, <2>11 DEF u
<1>8. CASE path # {} /\ last = {}
  <2>1. u = setColor(counted, counted.root, BLACK) /\ counted.data = t.data /\ counted.kid = t.kid /\ counted.color = t.color
        /\ counted.root = t.root /\ counted.parent = t.parent /\ counted \in Trees
    <3>1. /\ counted \in Trees /\ counted.root = t.root /\ counted.data = t.data /\ counted.color = t.color
          /\ counted.parent = t.parent /\ counted.kid = t.kid
      BY <1>2, CountedFields DEF counted
    <3> QED BY Zenon, <1>1, <1>8, <3>1
  <2>2. Charted(counted, g) /\ NoRedRed(counted, g, Nil) /\ (Even(t, g) => Even(counted, g))
    <3>1. Charted(counted, g)
      BY <1>2, <2>1, Repaint
    <3>2. NoRedRed(counted, g, Nil)
      BY <1>2, <2>1 DEF NoRedRed
    <3>3. Weights(counted) = Weights(t)
      BY <2>1 DEF Weights
    <3>4. Even(t, g) => Even(counted, g)
      BY <2>1, <3>3 DEF Even, Level
    <3> QED BY <3>1, <3>2, <3>4
  <2>3. Sound(u, g) /\ u.data = counted.data /\ (Even(counted, g) => Even(u, g))
    BY <2>1, <2>2, BlackRoot
  <2>4. d \in DataOf(t, g)
    BY <1>4, <1>8 DEF DataOf
  <2>5. DataOf(u, g) = DataOf(t, g) \cup {d}
    BY <2>1, <2>3, <2>4 DEF DataOf
  <2> QED BY <2>2, <2>3, <2>5 DEF u
<1>9. CASE path # {} /\ last # {}
  <2> DEFINE s == side(x)
             v == [node EXCEPT !.parent[new] = x, !.kid[s][x] = new]
  <2>1. u = fixInsertRBTree(v, new)
    BY Zenon, <1>1, <1>9
  <2>2. x \in last
    BY Zenon, <1>9
  <2>3. /\ x \in g.nodes /\ Splits(t, g, x, d) /\ t.data[x] # d /\ t.kid[s][x] = Nil
        /\ s = (IF d < t.data[x] THEN "left" ELSE "right") /\ s \in Sides
    BY Zenon, <1>4, <2>2, TwoSides
  <2> HIDE DEF x, s, last
  <2>4. /\ v \in Trees /\ v.root = t.root /\ v.data = [t.data EXCEPT ![new] = d]
        /\ v.parent = [t.parent EXCEPT ![new] = x] /\ v.kid = [t.kid EXCEPT ![s][x] = new]
        /\ v.color = node.color
    <3> DEFINE parent == [t.parent EXCEPT ![new] = x]
               kid    == [t.kid EXCEPT ![s][x] = new]
    <3>1. v = [node EXCEPT !.parent = parent, !.kid = kid]
      BY <1>5
    <3>2. parent \in [Nodes -> Pointers] /\ kid \in [Sides -> [Nodes -> Pointers]]
      BY <1>2, <1>3, <2>3, MapTypes, NilIsNoNode DEF Trees
    <3> HIDE DEF parent, kid, v
    <3>3. /\ v \in Trees /\ v.root = node.root /\ v.data = node.data /\ v.parent = parent /\ v.kid = kid
          /\ v.color = node.color
      BY <1>5, <3>1, <3>2 DEF Trees
    <3> QED BY <1>5, <3>3 DEF parent, kid
  <2> HIDE DEF v
  <2>5. PICK m : RedAt(v, m, new) /\ m.nodes = g.nodes \cup {new} /\ (Even(t, g) => Even(v, m))
    <3>1. LeafAdded(t, v, x, s, new, d)
      BY <1>5, <2>4 DEF LeafAdded
    <3> QED BY Zenon, <1>3, <2>3, <3>1, LeafRedAt
  <2>6. PICK k : Sound(u, k) /\ k.nodes = m.nodes /\ u.data = v.data /\ (Even(v, m) => Even(u, k))
    BY <2>1, <2>5, InsertFixed
  <2>7. DataOf(u, k) = DataOf(t, g) \cup {d}
    <3>1. new \notin g.nodes /\ g.nodes \subseteq Nodes /\ t.data \in [Nodes -> Nat]
      BY <1>2, <1>6, MapTypes DEF Vacant, Trees
    <3>2. v.data[new] = d /\ \A y \in g.nodes : v.data[y] = t.data[y]
      BY <1>3, <2>4, <3>1
    <3> QED BY <2>5, <2>6, <3>2 DEF DataOf
  <2> QED BY <2>5, <2>6, <2>7 DEF u
<1> QED BY <1>7, <1>8, <1>9

=============================================================================
