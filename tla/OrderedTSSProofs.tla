-------------------------- MODULE OrderedTSSProofs --------------------------
(***************************************************************************)
(* Proofs about OrderedTSS, for every rule space, every memory of the      *)
(* trees and every sequence of updates: the trees of the priorities stay   *)
(* in order, each keeps what its tuple holds, and the search answers with  *)
(* the best rule.                                                          *)
(*                                                                         *)
(* The first part is about erasing from one tree: the loop of              *)
(* fixDeleteRBTree ends on an even tree, and whatever it leaves has its    *)
(* links, its order and no red node below a red one.                       *)
(***************************************************************************)
EXTENDS OrderedTSS, CountedTreeProofs

-----------------------------------------------------------------------------
(***************************************************************************)
(* The loop of fixDeleteRBTree.                                            *)
(***************************************************************************)

\* u is t but for the color of two nodes, and of one.
IsColored(t, u, g, x, y, cx, cy) ==
  /\ Charted(u, g) /\ u.root = t.root /\ u.data = t.data /\ u.parent = t.parent /\ u.kid = t.kid
  /\ \A z \in g.nodes : u.color[z] = IF z = x THEN cx ELSE IF z = y THEN cy ELSE t.color[z]
IsPainted(t, u, g, x, cx) ==
  /\ Charted(u, g) /\ u.root = t.root /\ u.data = t.data /\ u.parent = t.parent /\ u.kid = t.kid
  /\ \A z \in g.nodes : u.color[z] = IF z = x THEN cx ELSE t.color[z]

\* Two nodes of a tree may take any color.
LEMMA ColoredCharted ==
  ASSUME NEW t, NEW g, Charted(t, g), NEW x \in g.nodes, NEW y \in g.nodes, x # y,
         NEW cx \in Colors, NEW cy \in Colors
  PROVE  IsColored(t, Colored(t, x, y, cx, cy), g, x, y, cx, cy)
<1> DEFINE u == Colored(t, x, y, cx, cy)
           col == [t.color EXCEPT ![x] = cx, ![y] = cy]
<1>1. t \in Trees /\ g.nodes \subseteq Nodes
  BY MapTypes DEF Charted
<1>2. u = [t EXCEPT !.color = col]
  BY <1>1 DEF Colored, Trees
<1>3. /\ col \in [Nodes -> Colors]
      /\ \A z \in Nodes : col[z] = IF z = x THEN cx ELSE IF z = y THEN cy ELSE t.color[z]
  BY <1>1 DEF Trees
<1> HIDE DEF u, col
<1>4. u \in Trees /\ u.root = t.root /\ u.data = t.data /\ u.parent = t.parent /\ u.kid = t.kid /\ u.color = col
  BY <1>1, <1>2, <1>3 DEF Trees
<1>5. \A z \in Nodes \ g.nodes : u.color[z] = t.color[z]
  BY <1>3, <1>4
<1>6. Charted(u, g)
  BY <1>4, <1>5, Repaint
<1>7. IsColored(t, u, g, x, y, cx, cy)
  BY <1>1, <1>3, <1>4, <1>6 DEF IsColored
<1> QED BY <1>7 DEF u

\* setColor with a node of the tree, or with none.
LEMMA PaintedCharted ==
  ASSUME NEW t, NEW g, Charted(t, g), NEW x, x = Nil \/ x \in g.nodes, NEW cx \in Colors
  PROVE  IsPainted(t, setColor(t, x, cx), g, x, cx)
<1> DEFINE u == setColor(t, x, cx)
<1>1. t \in Trees /\ g.nodes \subseteq Nodes /\ x \in Pointers
  BY MapTypes, NilIsNoNode DEF Charted
<1>2. /\ u \in Trees /\ u.root = t.root /\ u.data = t.data
      /\ u.parent = t.parent /\ u.kid = t.kid
      /\ \A y \in Nodes : u.color[y] = IF y = x THEN cx ELSE t.color[y]
  BY <1>1, ColorFields
<1> HIDE DEF u
<1>3. \A z \in Nodes \ g.nodes : u.color[z] = t.color[z]
  BY <1>1, <1>2, NilIsNoNode
<1>4. Charted(u, g)
  BY <1>2, <1>3, Repaint
<1>5. IsPainted(t, u, g, x, cx)
  BY <1>1, <1>2, <1>4 DEF IsPainted
<1> QED BY <1>5 DEF u

\* A node other than the root, its parent and its sibling.
LEMMA Siblings ==
  ASSUME NEW t, NEW g, Charted(t, g), NEW e \in g.nodes, e # t.root, NEW p, p = t.parent[e],
         NEW s, s = SideOf(t, e), NEW c, c = t.kid[Other(s)][p]
  PROVE  /\ p \in g.nodes /\ p # e /\ s \in Sides /\ Other(s) \in Sides /\ t.kid[s][p] = e
         /\ p \notin g.sub[e] /\ g.sub[e] \subseteq g.sub[p]
         /\ c # Nil => /\ c \in g.nodes /\ c # e /\ c # p
                       /\ \A z \in g.sub[c] : z \notin g.sub[e] /\ z # p
<1>1. p \in g.nodes /\ p # e /\ s \in Sides /\ Other(s) \in Sides /\ Other(s) # s /\ t.kid[s][p] = e /\ e # Nil
  BY Parents, TwoSides, MapTypes
<1>2. /\ p \notin g.sub[e] /\ g.sub[e] \subseteq g.sub[p] /\ e \in g.sub[e]
      /\ \A z \in g.sub[e] : On(s, g.pos[z], g.pos[p])
  BY <1>1, Children, MapTypes
<1>3. ASSUME c # Nil
      PROVE  /\ c \in g.nodes /\ c # p /\ c \in g.sub[c] /\ \A z \in g.sub[c] : z \notin g.sub[e] /\ z # p
  <2>1. c \in g.nodes /\ c # p /\ p \notin g.sub[c] /\ \A z \in g.sub[c] : On(Other(s), g.pos[z], g.pos[p])
    BY <1>1, <1>3, Children
  <2>2. c \in g.sub[c] /\ g.sub[c] \subseteq g.nodes
    BY <2>1, MapTypes
  <2>3. ASSUME NEW z \in g.sub[c] PROVE z \notin g.sub[e]
    <3>1. g.pos[z] \in Int /\ g.pos[p] \in Int
      BY <1>1, <2>2, MapTypes
    <3> QED BY <1>1, <1>2, <2>1, <3>1, OnTwoSides
  <2> QED BY <2>1, <2>2, <2>3
<1> QED BY <1>1, <1>2, <1>3

\* What the loop knows of victim x, that will be cut, and of node e: as long as
\* no node is left doubly black, it is e that lacks a black node.
DWeights(t, x, e) ==
  [y \in Nodes |-> IF y = x THEN (IF y = e /\ t.color[y] = DOUBLE_BLACK THEN 1 ELSE 0)
                   ELSE IF t.color[y] = RED THEN 0
                   ELSE IF y = e /\ t.color[y] = DOUBLE_BLACK THEN 2 ELSE 1]

Leaf(t, x) == \A s \in Sides : t.kid[s][x] = Nil

Lean(t, g, x, e) ==
  /\ \E h : Level(t, g, h, DWeights(t, x, e))
  /\ \A y \in g.nodes : t.color[y] = DOUBLE_BLACK => y \in g.sub[e]
  /\ t.color[x] = DOUBLE_BLACK /\ Leaf(t, x)

DoubleAt(t, g, x, e) ==
  /\ Charted(t, g) /\ NoRedRed(t, g, Nil)
  /\ e \in g.nodes /\ x \in g.sub[e] /\ x \in g.nodes /\ x # t.root

\* Node e of tree r with map m, made from t and g, has the red parent p and so
\* a black sibling.
BlackSibling(t, g, x, e, p, r, m) ==
  /\ DoubleAt(r, m, x, e) /\ m.sub[e] = g.sub[e] /\ m.nodes = g.nodes
  /\ e # r.root /\ r.color[e] = DOUBLE_BLACK /\ r.parent[e] = p /\ r.color[p] = RED
  /\ Lean(t, g, x, e) => Lean(r, m, x, e)

\* Node y of the tree with map g is neither z nor p.
BelowBoth(g, y, z, p) == y \in g.nodes /\ y # z /\ y # p

LEMMA GrandchildBelow ==
  ASSUME NEW t, NEW g, Charted(t, g), NEW x \in g.nodes, NEW o \in Sides, NEW q \in Sides,
         t.kid[o][x] # Nil, t.kid[q][t.kid[o][x]] # Nil
  PROVE  BelowBoth(g, t.kid[q][t.kid[o][x]], t.kid[o][x], x)
BY Grandchildren DEF BelowBoth

\* A red sibling goes up, and the parent becomes red.
LEMMA SiblingTurn ==
  ASSUME NEW t, NEW g, NEW x, NEW e, DoubleAt(t, g, x, e), e # t.root, t.color[e] = DOUBLE_BLACK,
         NEW p, p = t.parent[e], NEW s, s = SideOf(t, e), NEW c, c = t.kid[Other(s)][p],
         c # Nil, t.color[c] = RED
  PROVE  BlackSibling(t, g, x, e, p, Rotate(Colored(t, c, p, BLACK, RED), p, s),
                      TurnedMap(Colored(t, c, p, BLACK, RED), g, p, s))
<1> DEFINE o == Other(s)
           u == Colored(t, c, p, BLACK, RED)
           r == Rotate(u, p, s)
           m == TurnedMap(u, g, p, s)
<1>1. Charted(t, g) /\ NoRedRed(t, g, Nil) /\ e \in g.nodes /\ x \in g.sub[e] /\ x \in g.nodes /\ x # t.root
  BY DEF DoubleAt
<1>2. /\ p \in g.nodes /\ p # e /\ s \in Sides /\ o \in Sides /\ t.kid[s][p] = e
      /\ p \notin g.sub[e] /\ c \in g.nodes /\ c # e /\ c # p
      /\ \A z \in g.sub[c] : z \notin g.sub[e] /\ z # p
  BY <1>1, Siblings
<1>3. /\ o # s /\ (\A q \in Sides : q = s \/ q = o) /\ e \in g.sub[e] /\ c \in g.sub[c] /\ e # Nil
      /\ x # p /\ x # c /\ x # Nil /\ p \in Nodes /\ c \in Nodes /\ x \in Nodes /\ e \in Nodes
  <2>1. o # s /\ \A q \in Sides : q = s \/ q = o
    BY <1>2, TwoSides
  <2>2. e \in g.sub[e] /\ c \in g.sub[c] /\ e # Nil /\ p \in Nodes /\ c \in Nodes /\ x \in Nodes /\ e \in Nodes /\ x # Nil
    BY Zenon, <1>1, <1>2, MapTypes
  <2> QED BY Zenon, <1>1, <1>2, <2>1, <2>2
<1>4. t.color[p] # RED /\ t.color[e] # RED
  BY <1>1, <1>2, ThreeColors DEF NoRedRed
<1>5. /\ Charted(u, g) /\ u.root = t.root /\ u.data = t.data /\ u.parent = t.parent /\ u.kid = t.kid
      /\ \A z \in g.nodes : u.color[z] = IF z = c THEN BLACK ELSE IF z = p THEN RED ELSE t.color[z]
  <2>1. p \in g.nodes /\ c \in g.nodes /\ c # p /\ Charted(t, g)
    BY <1>1, <1>2
  <2>2. BLACK \in Colors /\ RED \in Colors
    BY ThreeColors
  <2>3. IsColored(t, Colored(t, c, p, BLACK, RED), g, c, p, BLACK, RED)
    BY <2>1, <2>2, ColoredCharted
  <2>4. IsColored(t, u, g, c, p, BLACK, RED)
    BY <2>3 DEF u
  <2> HIDE DEF u
  <2> QED BY <2>4 DEF IsColored
<1> HIDE DEF u
<1>6. u.kid[Other(s)][p] = c
  BY <1>5
<1>7. /\ Charted(r, m) /\ r.color = u.color /\ r.root = (IF p = u.root THEN c ELSE u.root)
      /\ \A y \in g.nodes, q \in Sides : r.kid[q][y] = TurnedKid(u, p, s, q, y)
      /\ \A y \in g.nodes : r.parent[y] = TurnedParent(u, p, s, y)
  <2>1. u.kid[Other(s)][p] # Nil
    BY <1>6
  <2>2. Charted(r, m)
    BY Zenon, <1>2, <1>5, <2>1, RotateCharted
  <2> QED BY <1>2, <1>5, <1>6, <2>1, <2>2, RotateFields
<1>8. m.nodes = g.nodes /\ m.sub[e] = g.sub[e]
  <2>1. g \in Maps
    BY <1>1 DEF Charted
  <2> QED BY <1>2, <1>3, <1>6, <2>1 DEF TurnedMap, Maps
<1>9. ASSUME NEW y \in g.nodes, NEW q \in Sides, r.kid[q][y] # Nil, r.color[y] = RED
      PROVE  r.color[r.kid[q][y]] # RED
  <2> DEFINE k == r.kid[q][y]
             b == u.kid[s][c]
  <2>1. \/ y = p /\ q = o /\ k = b
        \/ y = c /\ q = s /\ k = p
        \/ k = c /\ y # p /\ y # c /\ p # u.root /\ y = u.parent[p] /\ q = SideOf(u, p)
        \/ k = u.kid[q][y] /\ k # p /\ k # c /\ ~(y = p /\ q = o) /\ ~(y = c /\ q = s)
    <3>1. u.kid[Other(s)][p] # Nil /\ u.kid[Other(s)][p] = c /\ Charted(u, g) /\ p \in g.nodes /\ s \in Sides
      BY <1>2, <1>5, <1>6
    <3>2. TurnsTo(u, p, s, q, y, Rotate(u, p, s).kid[q][y])
      BY <3>1, RotateLinks
    <3>3. TurnsTo(u, p, s, q, y, k)
      BY <3>2
    <3> HIDE DEF k, r, m
    <3> QED BY Zenon, <3>1, <3>3 DEF TurnsTo
  <2>2. k # Nil /\ u.color[y] = RED
    BY <1>7, <1>9
  <2> HIDE DEF k, r, m
  <2>3. CASE y = p /\ q = o /\ k = b
    <3>1. k \in g.nodes /\ k # c /\ k # p
      <4>1. t.kid[s][c] # Nil /\ k = t.kid[s][c]
        BY <1>5, <2>2, <2>3
      <4>2. /\ t.kid[s][c] \in g.nodes /\ t.kid[s][c] # c /\ t.kid[s][c] # p
        <5>1. t.kid[o][p] # Nil /\ t.kid[s][t.kid[o][p]] # Nil /\ p \in g.nodes /\ s \in Sides /\ o \in Sides
          BY Zenon, <1>2, <4>1
        <5>2. /\ t.kid[s][t.kid[o][p]] \in g.nodes /\ t.kid[s][t.kid[o][p]] # t.kid[o][p]
              /\ t.kid[s][t.kid[o][p]] # p
          <6>1. Charted(t, g)
            BY Zenon, <1>1
          <6>2. BelowBoth(g, t.kid[s][t.kid[o][p]], t.kid[o][p], p)
            <7> HIDE DEF o
            <7> QED BY Zenon, <5>1, <6>1, GrandchildBelow
          <6> QED BY Zenon, <6>2 DEF BelowBoth
        <5> QED BY Zenon, <5>2
      <4> QED BY Zenon, <4>1, <4>2
    <3>2. t.color[k] # RED
      <4>1. k = t.kid[s][c] /\ k # Nil /\ c \in g.nodes /\ s \in Sides /\ t.color[c] = RED
        BY Zenon, <1>2, <1>5, <2>2, <2>3
      <4> HIDE DEF o
      <4> QED BY Zenon, <1>1, <4>1 DEF NoRedRed
    <3> QED BY <1>5, <1>7, <3>1, <3>2 DEF k
  <2>4. CASE k = c
    BY <1>2, <1>5, <1>7, <2>4, ThreeColors DEF k
  <2>5. CASE y = c
    BY <1>5, <2>2, <2>5, <1>2, ThreeColors
  <2>6. CASE k = u.kid[q][y] /\ k # p /\ k # c /\ ~(y = p /\ q = o) /\ y # c
    <3>1. k \in g.nodes
      BY <1>5, <2>2, <2>6, Children
    <3>2. CASE y = p
      <4>1. k = e
        BY Zenon, <1>2, <1>3, <1>5, <2>6, <3>2
      <4> QED BY <1>4, <1>5, <1>7, <2>6, <3>1, <4>1 DEF k
    <3>3. CASE y # p
      <4>1. t.color[y] = RED
        BY <1>5, <2>2, <2>6, <3>3
      <4>2. t.color[k] # RED
        BY <1>1, <1>5, <2>2, <2>6, <4>1 DEF NoRedRed
      <4> QED BY <1>5, <1>7, <2>6, <3>1, <4>2 DEF k
    <3> QED BY <3>2, <3>3
  <2> QED BY Zenon, <2>1, <2>3, <2>4, <2>5, <2>6
<1>10. NoRedRed(r, m, Nil)
  BY Zenon, <1>8, <1>9 DEF NoRedRed
<1>11. e # r.root /\ x # r.root /\ r.color[e] = DOUBLE_BLACK /\ r.color[p] = RED
  <2>1. r.root = c \/ r.root = t.root
    BY <1>5, <1>7
  <2>2. r.color[e] = u.color[e] /\ r.color[p] = u.color[p]
    BY <1>7
  <2>3. u.color[e] = DOUBLE_BLACK /\ u.color[p] = RED
    BY Zenon, <1>1, <1>2, <1>5
  <2> HIDE DEF r
  <2> QED BY Zenon, <2>1, <2>2, <2>3, <1>1, <1>2, <1>3
<1>12. r.parent[e] = p
  <2>1. u.kid[s][c] # e
    <3>1. \A y \in g.nodes, q \in Sides : t.kid[q][y] = e => y = p
      BY <1>1, Parents
    <3> QED BY <1>2, <1>5, <3>1
  <2>2. r.parent[e] = TurnedParent(u, p, s, e)
    BY <1>1, <1>7
  <2> QED BY Zenon, <2>1, <2>2, <1>2, <1>5, <1>6 DEF TurnedParent
<1>13. DoubleAt(r, m, x, e)
  BY <1>1, <1>7, <1>8, <1>10, <1>11 DEF DoubleAt
<1>14. ASSUME Lean(t, g, x, e) PROVE Lean(r, m, x, e)
  <2>1. PICK h : Level(t, g, h, DWeights(t, x, e))
    BY <1>14 DEF Lean
  <2>2. /\ \A y \in g.nodes : t.color[y] = DOUBLE_BLACK => y \in g.sub[e]
        /\ t.color[x] = DOUBLE_BLACK /\ Leaf(t, x)
    BY <1>14 DEF Lean
  <2>3. t.color[p] = BLACK
    <3>1. t.color[p] \in Colors
      BY <1>1, <1>3 DEF Charted, Trees
    <3> QED BY Zenon, <1>2, <1>4, <2>2, <3>1, ThreeColors
  <2>4. \A y \in m.nodes : r.color[y] = DOUBLE_BLACK => y \in m.sub[e]
    BY <1>5, <1>7, <1>8, <2>2, ThreeColors
  <2>5. r.color[x] = DOUBLE_BLACK
    BY <1>1, <1>3, <1>5, <1>7, <2>2
  <2>6. Leaf(r, x)
    <3> SUFFICES ASSUME NEW q \in Sides PROVE r.kid[q][x] = Nil
      BY DEF Leaf
    <3>1. r.kid[q][x] = TurnedKid(u, p, s, q, x) /\ u.kid[q][x] = Nil
      BY <1>1, <1>5, <1>7, <2>2 DEF Leaf
    <3>2. p # Nil
      BY <1>3, NilIsNoNode
    <3> QED BY <1>3, <1>6, <3>1, <3>2 DEF TurnedKid
  <2> DEFINE w == DWeights(t, x, e)
             v == DWeights(r, x, e)
  <2>7. /\ w \in [Nodes -> Int] /\ v \in [Nodes -> Int]
        /\ w[p] = 1 /\ w[c] = 0 /\ v[p] = 0 /\ v[c] = 1
        /\ \A y \in g.nodes : y # p /\ y # c => v[y] = w[y]
    <3>1. w \in [Nodes -> Int] /\ v \in [Nodes -> Int]
      BY DEF DWeights
    <3>2. r.color[p] = RED /\ r.color[c] = BLACK /\ \A y \in g.nodes : y # p /\ y # c => r.color[y] = t.color[y]
      <4> HIDE DEF w, v, o, r
      <4> QED BY <1>2, <1>5, <1>7
    <3> HIDE DEF r
    <3>3. w[p] = 1 /\ w[c] = 0 /\ v[p] = 0 /\ v[c] = 1
      BY Zenon, <1>2, <1>3, <2>3, <3>2, ThreeColors DEF DWeights
    <3>4. \A y \in g.nodes : y \in Nodes
      BY <1>1, MapTypes
    <3>5. \A y \in g.nodes : y # p /\ y # c => v[y] = w[y]
      BY <3>2, <3>4 DEF DWeights
    <3> HIDE DEF w, v
    <3> QED BY <3>1, <3>3, <3>5
  <2> HIDE DEF w, v
  <2>8. h \in [Nodes -> Nat] /\ \A y \in g.nodes, q \in Sides : h[y] = Height(h, t.kid[q][y]) + w[y]
    BY <2>1 DEF Level, w
  <2>9. LevelTurn(u, g, p, s, h, w, v, h[e])
    <3>1. h[p] = h[e] + 1 /\ h[p] = h[c] + 1 /\ h[p] \in Nat /\ h[e] \in Nat /\ h[c] \in Nat
      <4>1. h[p] = Height(h, t.kid[s][p]) + 1 /\ h[p] = Height(h, t.kid[o][p]) + 1
        <5>1. s \in Sides /\ o \in Sides /\ p \in g.nodes /\ w[p] = 1
          BY Zenon, <1>2, <2>7
        <5> HIDE DEF r, o
        <5> QED BY Zenon, <2>8, <5>1
      <4>2. Height(h, t.kid[s][p]) = h[e] /\ Height(h, t.kid[o][p]) = h[c]
        BY Zenon, <1>2, <1>3 DEF Height
      <4> QED BY Zenon, <4>1, <4>2, <1>3, <2>8
    <3>2. Height(h, t.kid[s][c]) = h[c] /\ Height(h, t.kid[o][c]) = h[c]
      <4>1. h[c] = Height(h, t.kid[s][c]) + 0 /\ h[c] = Height(h, t.kid[o][c]) + 0
        <5>1. s \in Sides /\ o \in Sides /\ c \in g.nodes /\ w[c] = 0
          BY Zenon, <1>2, <2>7
        <5> HIDE DEF r, o
        <5> QED BY Zenon, <2>8, <5>1
      <4>2. \A q \in Sides : Height(h, t.kid[q][c]) \in Int
        <5>1. \A q \in Sides : t.kid[q][c] = Nil \/ t.kid[q][c] \in Nodes
          BY <1>1, <1>3 DEF Charted, Trees, Pointers
        <5> QED BY <2>8, <5>1 DEF Height
      <4>3. Height(h, t.kid[s][c]) \in Int /\ Height(h, t.kid[o][c]) \in Int
        BY Zenon, <4>2, <1>2
      <4> HIDE DEF o
      <4> QED BY <4>1, <4>3
    <3>3. Height(h, e) = h[e]
      BY <1>3 DEF Height
    <3> HIDE DEF o
    <3>4. u.kid[Other(s)][p] = c /\ u.kid[s][p] = e
      BY Zenon, <1>2, <1>5, <1>6
    <3>5. Height(h, u.kid[s][c]) = h[c] /\ Height(h, u.kid[Other(s)][c]) = h[c]
      BY Zenon, <3>2, <1>5 DEF o
    <3> DEFINE i == h[e]
    <3>6. /\ i \in Nat /\ v \in [Nodes -> Int]
          /\ \A y \in g.nodes : y # p /\ y # c => v[y] = w[y]
          /\ i = Height(h, u.kid[s][p]) + v[p] /\ i = Height(h, u.kid[s][c]) + v[p]
          /\ h[p] = i + v[c] /\ h[p] = Height(h, u.kid[Other(s)][c]) + v[c]
      <4>1. v[p] = 0 /\ v[c] = 1 /\ v \in [Nodes -> Int] /\ \A y \in g.nodes : y # p /\ y # c => v[y] = w[y]
        BY <2>7
      <4>2. i \in Nat /\ i = Height(h, u.kid[s][p]) + v[p] /\ i = Height(h, u.kid[s][c]) + v[p]
        <5>1. i \in Nat /\ i = h[c] /\ i = h[e]
          BY <3>1
        <5> HIDE DEF i
        <5>2. Height(h, u.kid[s][p]) = i /\ Height(h, u.kid[s][c]) = i
          BY Zenon, <5>1, <3>3, <3>4, <3>5
        <5>3. v[p] = 0 /\ i \in Nat
          BY <4>1, <5>1
        <5> QED BY <5>2, <5>3
      <4>3. h[p] = i + v[c] /\ h[p] = Height(h, u.kid[Other(s)][c]) + v[c]
        BY Zenon, <4>1, <3>1, <3>5
      <4> HIDE DEF i
      <4> QED BY Zenon, <4>1, <4>2, <4>3
    <3> HIDE DEF i
    <3>7. LevelTurn(u, g, p, s, h, w, v, i)
      BY Zenon, <3>4, <3>6 DEF LevelTurn
    <3> QED BY <3>7 DEF i
  <2>10. \E k : Level(r, m, k, v)
    <3>1. LevelOutside(u, g, h, w, {p, u.kid[Other(s)][p]})
      BY <1>5, <2>7, <2>8 DEF LevelOutside
    <3>2. u.kid[Other(s)][p] # Nil
      BY <1>6
    <3> QED BY Zenon, <1>2, <1>5, <2>9, <3>1, <3>2, RotateLevel
  <2> QED BY <2>4, <2>5, <2>6, <2>10 DEF Lean, v
<1>15. BlackSibling(t, g, x, e, p, r, m)
  <2> HIDE DEF r, m
  <2> QED BY Zenon, <1>8, <1>11, <1>12, <1>13, <1>14 DEF BlackSibling
<1> QED BY Zenon, <1>15 DEF u

\* A number of black nodes and those of the node itself.
LEMMA PositiveSum ==
  ASSUME NEW a \in Nat, NEW b, b = 1 \/ b = 2, NEW i, i = a + b
  PROVE  i >= 1
OBVIOUS

\* The sibling and its children are not red: the sibling becomes red, and the
\* parent is the next that lacks a black node, unless it was red.
LEMMA DoubleUp ==
  ASSUME NEW t, NEW g, NEW x, NEW e, DoubleAt(t, g, x, e), e # t.root, t.color[e] = DOUBLE_BLACK,
         NEW p, p = t.parent[e], NEW s, s = SideOf(t, e), NEW c, c = t.kid[Other(s)][p],
         c # Nil, t.color[c] # RED, \A q \in Sides : getColor(t, t.kid[q][c]) # RED,
         NEW cp, cp = (IF t.color[p] = RED THEN BLACK ELSE DOUBLE_BLACK)
  PROVE  LET u == Colored(t, c, p, RED, cp)
         IN  /\ DoubleAt(u, g, x, p) /\ u.root = t.root
             /\ Lean(t, g, x, e) => Lean(u, g, x, p)
<1> DEFINE u == Colored(t, c, p, RED, cp)
<1>1. Charted(t, g) /\ NoRedRed(t, g, Nil) /\ e \in g.nodes /\ x \in g.sub[e] /\ x \in g.nodes /\ x # t.root
  BY DEF DoubleAt
<1>2. /\ p \in g.nodes /\ p # e /\ s \in Sides /\ Other(s) \in Sides /\ t.kid[s][p] = e
      /\ p \notin g.sub[e] /\ g.sub[e] \subseteq g.sub[p] /\ c \in g.nodes /\ c # e /\ c # p
      /\ \A z \in g.sub[c] : z \notin g.sub[e] /\ z # p
  BY <1>1, Siblings
<1>3. /\ (\A q \in Sides : q = s \/ q = Other(s)) /\ e \in g.sub[e] /\ c \in g.sub[c] /\ p \in g.sub[p] /\ e # Nil
      /\ x # p /\ x # c /\ p \in Nodes /\ c \in Nodes /\ x \in Nodes /\ e \in Nodes
  BY Zenon, <1>1, <1>2, TwoSides, MapTypes
<1>4. /\ Charted(u, g) /\ u.root = t.root /\ u.parent = t.parent /\ u.kid = t.kid
      /\ \A z \in g.nodes : u.color[z] = IF z = c THEN RED ELSE IF z = p THEN cp ELSE t.color[z]
  <2>1. RED \in Colors /\ cp \in Colors
    BY ThreeColors
  <2>2. IsColored(t, u, g, c, p, RED, cp)
    BY Zenon, <1>1, <1>2, <2>1, ColoredCharted
  <2> HIDE DEF u
  <2> QED BY <2>2 DEF IsColored
<1> HIDE DEF u
<1>5. cp # RED
  BY ThreeColors
<1>6. \A y \in g.nodes, q \in Sides :
        t.kid[q][y] # Nil => /\ t.kid[q][y] \in g.nodes /\ t.kid[q][y] # y
                             /\ (t.kid[q][y] = e => y = p) /\ (t.kid[q][y] = c => y = p)
  <2>1. \A y \in g.nodes, q \in Sides : t.kid[q][y] # Nil => t.kid[q][y] \in g.nodes /\ t.kid[q][y] # y
    BY Zenon, <1>1, Children
  <2>2. \A y \in g.nodes, q \in Sides : t.kid[q][y] = e => y = p
    BY <1>1, Parents
  <2>3. \A y \in g.nodes, q \in Sides : t.kid[q][y] = c => y = p
    <3>1. p \in g.nodes /\ Other(s) \in Sides /\ t.kid[Other(s)][p] # Nil
      BY Zenon, <1>2
    <3>2. t.kid[Other(s)][p] # t.root /\ t.parent[t.kid[Other(s)][p]] = p
      BY <1>1, <3>1, Children
    <3>3. c # t.root /\ t.parent[c] = p /\ c \in g.nodes
      BY Zenon, <1>2, <3>2
    <3> QED BY <1>1, <3>3, Parents
  <2> QED BY <2>1, <2>2, <2>3
<1>7. ASSUME NEW y \in g.nodes, NEW q \in Sides, t.kid[q][y] # Nil, u.color[y] = RED
      PROVE  u.color[t.kid[q][y]] # RED
  <2> DEFINE k == t.kid[q][y]
  <2>1. k \in g.nodes /\ k # y /\ (k = c => y = p) /\ k # Nil
    BY <1>6, <1>7
  <2>2. y # p
    BY Zenon, <1>2, <1>4, <1>5, <1>7
  <2>3. k # c /\ (k = p => u.color[k] # RED) /\ (k # p => u.color[k] = t.color[k])
    BY Zenon, <1>4, <1>5, <1>2, <2>1, <2>2
  <2>4. CASE y = c
    <3>1. t.color[k] # RED
      BY Zenon, <2>1, <2>4 DEF getColor
    <3> QED BY Zenon, <2>3, <3>1
  <2>5. CASE y # c
    <3>1. t.color[y] = RED
      BY Zenon, <1>4, <1>7, <2>2, <2>5
    <3>2. t.color[k] # RED
      BY <1>1, <2>1, <3>1 DEF NoRedRed
    <3> QED BY <2>3, <3>2
  <2> QED BY <2>4, <2>5
<1>8. NoRedRed(u, g, Nil)
  BY <1>4, <1>7 DEF NoRedRed
<1>9. DoubleAt(u, g, x, p)
  BY Zenon, <1>1, <1>2, <1>4, <1>8 DEF DoubleAt
<1>10. ASSUME Lean(t, g, x, e) PROVE Lean(u, g, x, p)
  <2> DEFINE w == DWeights(t, x, e)
             v == DWeights(u, x, p)
  <2>1. PICK h : Level(t, g, h, w)
    BY <1>10 DEF Lean
  <2>2. /\ \A y \in g.nodes : t.color[y] = DOUBLE_BLACK => y \in g.sub[e]
        /\ t.color[x] = DOUBLE_BLACK /\ Leaf(t, x)
    BY <1>10 DEF Lean
  <2>3. \A y \in g.nodes : u.color[y] = DOUBLE_BLACK => y \in g.sub[p]
    BY Zenon, <1>2, <1>3, <1>4, <2>2, ThreeColors
  <2>4. u.color[x] = DOUBLE_BLACK /\ Leaf(u, x)
    BY Zenon, <1>1, <1>3, <1>4, <2>2 DEF Leaf
  <2>5. t.color[c] = BLACK /\ t.color[p] # DOUBLE_BLACK
    <3>1. t.color[c] \in Colors
      BY Zenon, <1>1, <1>3 DEF Charted, Trees
    <3> QED BY Zenon, <1>2, <1>3, <2>2, <3>1, ThreeColors
  <2>6. /\ w \in [Nodes -> Int] /\ v \in [Nodes -> Int]
        /\ w[c] = 1 /\ v[c] = 0 /\ v[p] = w[p] + 1 /\ w[e] \in {1, 2} /\ v[e] = w[e] - 1
        /\ \A y \in g.nodes : y # p /\ y # c /\ y # e => v[y] = w[y]
    <3>1. w \in [Nodes -> Int] /\ v \in [Nodes -> Int]
      BY DEF DWeights
    <3>2. u.color[c] = RED /\ u.color[p] = cp /\ \A y \in g.nodes : y # p /\ y # c => u.color[y] = t.color[y]
      BY Zenon, <1>2, <1>4
    <3>3. w[c] = 1 /\ v[c] = 0
      BY Zenon, <1>2, <1>3, <2>5, <3>2, ThreeColors DEF DWeights
    <3>4. v[p] = w[p] + 1
      <4>0. p # x /\ p # e /\ p \in Nodes /\ u.color[p] = cp
        BY Zenon, <1>2, <1>3, <3>2
      <4>1. CASE t.color[p] = RED
        <5>1. cp = BLACK
          BY <4>1
        <5>2. w[p] = 0
          BY <4>0, <4>1 DEF DWeights
        <5>3. v[p] = 1
          BY Zenon, <4>0, <5>1, ThreeColors DEF DWeights
        <5> HIDE DEF w, v
        <5> QED BY <5>2, <5>3
      <4>2. CASE t.color[p] # RED
        <5>1. cp = DOUBLE_BLACK
          BY <4>2
        <5>2. w[p] = 1
          BY Zenon, <4>0, <4>2 DEF DWeights
        <5>3. v[p] = 2
          BY Zenon, <4>0, <5>1, ThreeColors DEF DWeights
        <5> HIDE DEF w, v
        <5> QED BY <5>2, <5>3
      <4> QED BY Zenon, <4>1, <4>2
    <3>5. w[e] \in {1, 2} /\ v[e] = w[e] - 1
      <4>1. u.color[e] = DOUBLE_BLACK /\ e # p /\ e \in Nodes
        BY Zenon, <1>1, <1>2, <1>3, <3>2
      <4>2. CASE e = x
        <5>1. w[e] = 1
          BY <4>1, <4>2 DEF DWeights
        <5>2. v[e] = 0
          BY <4>1, <4>2 DEF DWeights
        <5> HIDE DEF w, v
        <5> QED BY <5>1, <5>2
      <4>3. CASE e # x
        <5>1. w[e] = 2
          BY <4>1, <4>3, ThreeColors DEF DWeights
        <5>2. v[e] = 1
          BY <4>1, <4>3, ThreeColors DEF DWeights
        <5> HIDE DEF w, v
        <5> QED BY <5>1, <5>2
      <4> QED BY <4>2, <4>3
    <3>6. ASSUME NEW y \in g.nodes, y # p, y # c, y # e PROVE v[y] = w[y]
      <4>1. y \in Nodes /\ u.color[y] = t.color[y]
        BY Zenon, <1>1, <3>2, <3>6, MapTypes
      <4> QED BY <3>6, <4>1 DEF DWeights
    <3> HIDE DEF w, v
    <3> QED BY Zenon, <3>1, <3>3, <3>4, <3>5, <3>6
  <2> HIDE DEF w, v
  <2>7. h \in [Nodes -> Nat] /\ \A y \in g.nodes, q \in Sides : h[y] = Height(h, t.kid[q][y]) + w[y]
    BY Zenon, <2>1 DEF Level
  <2>8. \A y \in g.nodes, q \in Sides : Height(h, t.kid[q][y]) \in Nat
    BY Zenon, <1>6, <2>7, <1>1, MapTypes DEF Height
  <2>9. h[c] >= 1 /\ h[e] >= 1 /\ h[c] \in Nat /\ h[e] \in Nat
    <3>1. h[c] = Height(h, t.kid[s][c]) + w[c] /\ h[e] = Height(h, t.kid[s][e]) + w[e]
      BY Zenon, <1>1, <1>2, <2>7
    <3>2. Height(h, t.kid[s][c]) \in Nat /\ Height(h, t.kid[s][e]) \in Nat
      BY Zenon, <1>1, <1>2, <2>8
    <3>3. h[c] \in Nat /\ h[e] \in Nat
      BY Zenon, <1>3, <2>7
    <3>4. w[c] = 1 /\ (w[e] = 1 \/ w[e] = 2)
      BY Zenon, <2>6
    <3>5. h[c] >= 1
      BY Zenon, <3>1, <3>2, <3>4, PositiveSum
    <3>6. h[e] >= 1
      BY <3>1, <3>2, <3>4, PositiveSum
    <3> QED BY <3>3, <3>5, <3>6
  <2> DEFINE k == [h EXCEPT ![e] = h[e] - 1, ![c] = h[c] - 1]
  <2>10. /\ k \in [Nodes -> Nat] /\ k[e] = h[e] - 1 /\ k[c] = h[c] - 1
         /\ \A y \in Nodes : y # e /\ y # c => k[y] = h[y]
    <3>1. h \in [Nodes -> Nat] /\ c \in Nodes /\ e \in Nodes /\ c # e
      BY Zenon, <1>2, <1>3, <2>7
    <3>2. h[e] - 1 \in Nat /\ h[c] - 1 \in Nat
      BY <2>9
    <3> QED BY Zenon, <3>1, <3>2
  <2> HIDE DEF k
  <2>11. ASSUME NEW y \in g.nodes, NEW q \in Sides PROVE k[y] = Height(k, t.kid[q][y]) + v[y]
    <3>1. h[y] = Height(h, t.kid[q][y]) + w[y] /\ Height(h, t.kid[q][y]) \in Nat /\ y \in Nodes
      BY Zenon, <1>1, <2>7, <2>8, MapTypes
    <3>2. w[y] \in Int /\ v[y] \in Int
      BY Zenon, <2>6, <3>1
    <3>3. CASE y = p
      <4>1. t.kid[q][y] = e \/ t.kid[q][y] = c
        BY Zenon, <1>2, <1>3, <3>3
      <4>2. Height(k, t.kid[q][y]) = Height(h, t.kid[q][y]) - 1
        BY Zenon, <4>1, <2>10, <1>2, <1>3 DEF Height
      <4>3. k[y] = h[y] /\ v[y] = w[y] + 1
        BY Zenon, <1>2, <2>6, <2>10, <3>1, <3>3
      <4> QED BY <3>1, <3>2, <4>2, <4>3
    <3>4. CASE y # p
      <4>1. Height(k, t.kid[q][y]) = Height(h, t.kid[q][y])
        <5>1. CASE t.kid[q][y] = Nil
          BY <5>1 DEF Height
        <5>2. CASE t.kid[q][y] # Nil
          <6>1. t.kid[q][y] # e /\ t.kid[q][y] # c /\ t.kid[q][y] \in g.nodes
            BY Zenon, <1>6, <3>4, <5>2
          <6>2. t.kid[q][y] \in Nodes
            BY Zenon, <1>1, <6>1, MapTypes
          <6> QED BY Zenon, <2>10, <6>1, <6>2 DEF Height
        <5> QED BY <5>1, <5>2
      <4>2. CASE y = e
        <5>1. k[y] = h[y] - 1 /\ v[y] = w[y] - 1
          BY Zenon, <2>6, <2>10, <4>2
        <5> QED BY <3>1, <3>2, <4>1, <5>1
      <4>3. CASE y = c
        <5>1. k[y] = h[y] - 1 /\ v[y] = 0 /\ w[y] = 1
          BY Zenon, <2>6, <2>10, <4>3
        <5> QED BY <3>1, <3>2, <4>1, <5>1
      <4>4. CASE y # e /\ y # c
        <5>1. k[y] = h[y] /\ v[y] = w[y]
          BY Zenon, <2>6, <2>10, <3>1, <3>4, <4>4
        <5> QED BY <3>1, <3>2, <4>1, <5>1
      <4> QED BY <4>2, <4>3, <4>4
    <3> QED BY Zenon, <3>3, <3>4
  <2>12. Level(u, g, k, v)
    <3>1. k \in [Nodes -> Nat] /\ v \in [Nodes -> Int] /\ u.kid = t.kid
      BY Zenon, <1>4, <2>6, <2>10
    <3> QED BY <2>11, <3>1 DEF Level
  <2> QED BY Zenon, <2>3, <2>4, <2>12 DEF Lean, v
<1> QED BY Zenon, <1>4, <1>9, <1>10 DEF u

\* Before the last rotation, node b, the outer child of the sibling, may be red
\* below a red one and above red ones.
TurnAt(t, g, x, e, p, s, c, b) ==
  /\ Charted(t, g)
  /\ \A y \in g.nodes, q \in Sides :
       y # b /\ t.kid[q][y] # Nil /\ t.kid[q][y] # b /\ t.color[y] = RED => t.color[t.kid[q][y]] # RED
  /\ e \in g.nodes /\ e # t.root /\ p = t.parent[e] /\ s = SideOf(t, e)
  /\ c = t.kid[Other(s)][p] /\ c # Nil /\ b = t.kid[Other(s)][c] /\ b # Nil
  /\ x \in g.sub[e] /\ x \in g.nodes /\ x # t.root

\* What there is around it.
LEMMA Turning ==
  ASSUME NEW t, NEW g, NEW x, NEW e, NEW p, NEW s, NEW c, NEW b, TurnAt(t, g, x, e, p, s, c, b)
  PROVE  /\ p \in g.nodes /\ c \in g.nodes /\ b \in g.nodes
         /\ s \in Sides /\ Other(s) \in Sides /\ Other(s) # s /\ \A q \in Sides : q = s \/ q = Other(s)
         /\ t.kid[s][p] = e /\ e # Nil /\ e # p /\ e # c /\ e # b /\ c # p /\ b # p /\ b # c
         /\ x # p /\ x # c /\ x # b
         /\ p \notin g.sub[e] /\ c \notin g.sub[e] /\ b \notin g.sub[e]
<1>1. /\ Charted(t, g) /\ e \in g.nodes /\ e # t.root /\ p = t.parent[e] /\ s = SideOf(t, e)
      /\ c = t.kid[Other(s)][p] /\ c # Nil /\ b = t.kid[Other(s)][c] /\ b # Nil /\ x \in g.sub[e]
  BY DEF TurnAt
<1>2. /\ p \in g.nodes /\ p # e /\ s \in Sides /\ Other(s) \in Sides /\ t.kid[s][p] = e
      /\ p \notin g.sub[e] /\ c \in g.nodes /\ c # e /\ c # p
      /\ \A z \in g.sub[c] : z \notin g.sub[e] /\ z # p
  <2>1. Charted(t, g) /\ e \in g.nodes /\ e # t.root /\ p = t.parent[e] /\ s = SideOf(t, e) /\ c = t.kid[Other(s)][p]
    BY Zenon, <1>1
  <2>2. c # Nil
    BY Zenon, <1>1
  <2> QED BY <2>1, <2>2, Siblings
<1>3. b \in g.nodes /\ b # c /\ g.sub[b] \subseteq g.sub[c]
  <2>1. Charted(t, g) /\ c \in g.nodes /\ Other(s) \in Sides /\ t.kid[Other(s)][c] # Nil
    BY Zenon, <1>1, <1>2
  <2>2. t.kid[Other(s)][c] \in g.nodes /\ t.kid[Other(s)][c] # c /\ g.sub[t.kid[Other(s)][c]] \subseteq g.sub[c]
    BY <2>1, Children
  <2> QED BY Zenon, <1>1, <2>2
<1>4. b \in g.sub[b] /\ c \in g.sub[c] /\ e \in g.sub[e] /\ e # Nil
  BY Zenon, <1>1, <1>2, <1>3, MapTypes
<1>5. b \in g.sub[c]
  BY <1>3, <1>4
<1>6. b \notin g.sub[e] /\ b # p /\ c \notin g.sub[e]
  BY <1>2, <1>4, <1>5
<1>7. Other(s) # s /\ \A q \in Sides : q = s \/ q = Other(s)
  BY <1>2, TwoSides
<1> QED BY Zenon, <1>1, <1>2, <1>3, <1>4, <1>6, <1>7

\* The tree that is turned, and the tree after it.
Prepared(t, p, c, b) == setColor(Colored(t, c, p, t.color[p], BLACK), b, BLACK)

\* The colors before the rotation at the parent of a doubly black node.
LEMMA PreparedFields ==
  ASSUME NEW t, NEW g, NEW x, NEW e, NEW p, NEW s, NEW c, NEW b, TurnAt(t, g, x, e, p, s, c, b)
  PROVE  LET u == Prepared(t, p, c, b)
         IN  /\ Charted(u, g) /\ u.root = t.root /\ u.data = t.data /\ u.parent = t.parent /\ u.kid = t.kid
             /\ u.color[p] = BLACK /\ u.color[b] = BLACK /\ u.color[c] = t.color[p]
             /\ \A z \in g.nodes : z # p /\ z # c /\ z # b => u.color[z] = t.color[z]
<1> DEFINE v == Colored(t, c, p, t.color[p], BLACK)
           u == setColor(v, b, BLACK)
<1>1. /\ Charted(t, g) /\ p \in g.nodes /\ c \in g.nodes /\ b \in g.nodes /\ c # p /\ b # p /\ b # c
  <2>1. Charted(t, g)
    BY DEF TurnAt
  <2> QED BY <2>1, Turning
<1>2. t.color[p] \in Colors /\ BLACK \in Colors
  <2>1. p \in Nodes
    BY <1>1, MapTypes
  <2> QED BY <1>1, <2>1, ThreeColors DEF Charted, Trees
<1>3. IsColored(t, v, g, c, p, t.color[p], BLACK)
  BY <1>1, <1>2, ColoredCharted
<1> HIDE DEF v
<1>4. Charted(v, g)
  BY <1>3 DEF IsColored
<1>5. IsPainted(v, u, g, b, BLACK)
  BY <1>1, <1>2, <1>4, PaintedCharted
<1> HIDE DEF u
<1>6. /\ Charted(u, g) /\ u.root = t.root /\ u.data = t.data /\ u.parent = t.parent /\ u.kid = t.kid
      /\ u.color[p] = BLACK /\ u.color[b] = BLACK /\ u.color[c] = t.color[p]
      /\ \A z \in g.nodes : z # p /\ z # c /\ z # b => u.color[z] = t.color[z]
  BY <1>1, <1>3, <1>5 DEF IsColored, IsPainted
<1> QED BY <1>6 DEF u, v, Prepared

\* The last rotation: the sibling takes the color of the parent.
LEMMA FinalTurn ==
  ASSUME NEW t, NEW g, NEW x, NEW e, NEW p, NEW s, NEW c, NEW b, TurnAt(t, g, x, e, p, s, c, b)
  PROVE  LET u == Prepared(t, p, c, b)
             r == Rotate(u, p, s)
             m == TurnedMap(u, g, p, s)
         IN  /\ Charted(r, m) /\ m.nodes = g.nodes /\ r.data = t.data /\ x # r.root
             /\ NoRedRed(r, m, Nil)
<1> DEFINE u == Prepared(t, p, c, b)
           r == Rotate(u, p, s)
           m == TurnedMap(u, g, p, s)
<1>1. /\ Charted(t, g) /\ c = t.kid[Other(s)][p] /\ c # Nil /\ b = t.kid[Other(s)][c] /\ b # Nil
      /\ x \in g.nodes /\ x # t.root
  BY DEF TurnAt
<1>2. /\ p \in g.nodes /\ c \in g.nodes /\ b \in g.nodes
      /\ s \in Sides /\ Other(s) \in Sides /\ Other(s) # s /\ \A q \in Sides : q = s \/ q = Other(s)
      /\ c # p /\ b # p /\ b # c /\ x # c
  BY Turning
<1>3. /\ Charted(u, g) /\ u.root = t.root /\ u.data = t.data /\ u.parent = t.parent /\ u.kid = t.kid
      /\ u.color[p] = BLACK /\ u.color[b] = BLACK /\ u.color[c] = t.color[p]
      /\ \A z \in g.nodes : z # p /\ z # c /\ z # b => u.color[z] = t.color[z]
  BY PreparedFields
<1> HIDE DEF u
<1>4. u.kid[Other(s)][p] = c /\ u.kid[Other(s)][p] # Nil
  BY <1>1, <1>3
<1>5. Charted(r, m)
  BY <1>2, <1>3, <1>4, RotateCharted
<1>6. r.data = t.data /\ r.color = u.color /\ r.root \in {c, t.root}
  BY <1>2, <1>3, <1>4, RotateFields
<1>7. m.nodes = g.nodes
  BY <1>1 DEF TurnedMap, Charted, Maps
<1>8. ASSUME NEW y \in g.nodes, NEW q \in Sides, r.kid[q][y] # Nil, r.color[y] = RED
      PROVE  r.color[r.kid[q][y]] # RED
  <2> DEFINE k == r.kid[q][y]
  <2>1. \/ y = p /\ q = Other(s) /\ k = u.kid[s][c]
        \/ y = c /\ q = s /\ k = p
        \/ k = c /\ y # p /\ y # c /\ p # u.root /\ y = u.parent[p] /\ q = SideOf(u, p)
        \/ k = u.kid[q][y] /\ k # p /\ k # c /\ ~(y = p /\ q = Other(s)) /\ ~(y = c /\ q = s)
    <3>1. TurnsTo(u, p, s, q, y, k)
      BY <1>2, <1>3, <1>4, RotateLinks
    <3> HIDE DEF k, r, m
    <3> QED BY <1>4, <3>1 DEF TurnsTo
  <2>2. k # Nil /\ u.color[y] = RED /\ y # p /\ y # b
    BY <1>3, <1>6, <1>8, ThreeColors
  <2>3. SUFFICES u.color[k] # RED
    BY <1>6
  <2> HIDE DEF k, r, m
  <2>4. CASE k = p
    BY <1>3, <2>4, ThreeColors
  <2>5. CASE k = c /\ y # p /\ y # c /\ p # u.root /\ y = u.parent[p]
    <3>1. t.color[y] = RED
      BY <1>3, <2>2, <2>5
    <3>2. \E z \in Sides : t.kid[z][y] = p
      BY <1>1, <1>2, <1>3, <2>5, Parents
    <3>3. t.color[p] # RED
      <4>1. p # Nil /\ p # b /\ y # b
        BY <1>1, <1>2, <2>2, MapTypes
      <4> QED BY Zenon, <3>1, <3>2, <4>1 DEF TurnAt
    <3> QED BY <1>3, <2>5, <3>3
  <2>6. CASE k = u.kid[q][y] /\ k # p /\ k # c /\ ~(y = c /\ q = s)
    <3>1. CASE y = c
      <4>1. k = b
        BY <1>1, <1>2, <1>3, <2>6, <3>1
      <4> QED BY <1>3, <4>1, ThreeColors
    <3>2. CASE y # c /\ k = b
      BY <1>3, <3>2, ThreeColors
    <3>3. CASE y # c /\ k # b
      <4>1. t.color[y] = RED /\ k = t.kid[q][y]
        BY <1>3, <2>2, <2>6, <3>3
      <4>2. t.color[k] # RED
        BY Zenon, <2>2, <3>3, <4>1 DEF TurnAt
      <4>3. k \in g.nodes
        BY <1>1, <2>2, <4>1, Children
      <4> QED BY <1>3, <2>6, <3>3, <4>2, <4>3
    <3> QED BY <3>1, <3>2, <3>3
  <2> QED BY <2>1, <2>2, <2>4, <2>5, <2>6
<1>9. NoRedRed(r, m, Nil)
  BY <1>7, <1>8 DEF NoRedRed
<1> HIDE DEF r, m
<1>10. x # r.root
  BY <1>1, <1>2, <1>6
<1> QED BY <1>5, <1>6, <1>7, <1>9, <1>10 DEF r, m, u

\* If e lacks a black node before it, no node does after it.
LEMMA FinalLevel ==
  ASSUME NEW t, NEW g, NEW x, NEW e, NEW p, NEW s, NEW c, NEW b, TurnAt(t, g, x, e, p, s, c, b),
         Lean(t, g, x, e), t.color[e] = DOUBLE_BLACK, t.color[b] = RED, t.color[c] # RED
  PROVE  LET u == Prepared(t, p, c, b)
             r == Rotate(u, p, s)
         IN  /\ \E k : Level(r, TurnedMap(u, g, p, s), k, DWeights(r, x, Nil))
             /\ Leaf(r, x)
<1> DEFINE u == Prepared(t, p, c, b)
           r == Rotate(u, p, s)
           m == TurnedMap(u, g, p, s)
           w == DWeights(t, x, e)
           v == DWeights(r, x, Nil)
<1>1. /\ Charted(t, g) /\ c = t.kid[Other(s)][p] /\ c # Nil /\ b = t.kid[Other(s)][c] /\ b # Nil
      /\ e \in g.nodes /\ x \in g.nodes /\ e # t.root /\ p = t.parent[e]
  BY Zenon DEF TurnAt
<1>0. Charted(t, g) /\ e \in g.nodes /\ e # t.root
  BY Zenon DEF TurnAt
<1>2. /\ p \in g.nodes /\ c \in g.nodes /\ b \in g.nodes
      /\ s \in Sides /\ Other(s) \in Sides /\ Other(s) # s /\ \A q \in Sides : q = s \/ q = Other(s)
      /\ t.kid[s][p] = e /\ e # Nil /\ e # p /\ e # c /\ e # b /\ c # p /\ b # p /\ b # c
      /\ x # p /\ x # c /\ x # b
      /\ p \notin g.sub[e] /\ c \notin g.sub[e] /\ b \notin g.sub[e]
  BY Turning
<1>3. p \in Nodes /\ c \in Nodes /\ b \in Nodes /\ e \in Nodes /\ x \in Nodes /\ x # Nil
  BY Zenon, <1>1, <1>2, MapTypes
<1>4. /\ Charted(u, g) /\ u.kid = t.kid
      /\ u.color[p] = BLACK /\ u.color[b] = BLACK /\ u.color[c] = t.color[p]
      /\ \A z \in g.nodes : z # p /\ z # c /\ z # b => u.color[z] = t.color[z]
  BY PreparedFields
<1> HIDE DEF u
<1>5. u.kid[Other(s)][p] = c /\ u.kid[Other(s)][p] # Nil
  BY Zenon, <1>1, <1>4
<1>6. r.color = u.color /\ \A y \in g.nodes, q \in Sides : r.kid[q][y] = TurnedKid(u, p, s, q, y)
  BY <1>2, <1>4, <1>5, RotateFields
<1> HIDE DEF r, m
<1>7. /\ \A y \in g.nodes : t.color[y] = DOUBLE_BLACK => y \in g.sub[e]
      /\ t.color[x] = DOUBLE_BLACK /\ Leaf(t, x)
  BY DEF Lean
<1>8. Leaf(r, x)
  <2> SUFFICES ASSUME NEW q \in Sides PROVE r.kid[q][x] = Nil
    BY DEF Leaf
  <2>1. r.kid[q][x] = TurnedKid(u, p, s, q, x) /\ u.kid[q][x] = Nil
    BY Zenon, <1>1, <1>4, <1>6, <1>7 DEF Leaf
  <2>2. p # Nil
    BY <1>3, NilIsNoNode
  <2> QED BY <1>2, <1>5, <2>1, <2>2 DEF TurnedKid
<1>9. t.color[c] = BLACK /\ t.color[p] # DOUBLE_BLACK
  <2>1. t.color[c] \in Colors
    BY Zenon, <1>1, <1>3 DEF Charted, Trees
  <2> QED BY <1>2, <1>7, <2>1, ThreeColors
<1>10. w \in [Nodes -> Int] /\ v \in [Nodes -> Int]
  BY DEF DWeights
<1>11. w[c] = 1 /\ w[b] = 0 /\ v[p] = 1 /\ v[b] = 1
  <2>1. r.color[p] = BLACK /\ r.color[b] = BLACK
    BY <1>4, <1>6
  <2>2. w[c] = 1 /\ w[b] = 0
    BY <1>2, <1>3, <1>9, ThreeColors DEF DWeights
  <2>3. v[p] = 1 /\ v[b] = 1
    BY <1>2, <1>3, <2>1, ThreeColors DEF DWeights
  <2> QED BY <2>2, <2>3
<1>12. v[c] = w[p]
  <2>1. r.color[c] = t.color[p] /\ c # Nil
    BY Zenon, <1>1, <1>4, <1>6
  <2>2. c # x /\ p # x /\ c # Nil /\ p # e
    BY Zenon, <1>2, <2>1
  <2> QED BY <1>3, <1>9, <2>1, <2>2 DEF DWeights
<1>13. w[e] = v[e] + 1
  <2>1. r.color[e] = DOUBLE_BLACK
    BY Zenon, <1>1, <1>2, <1>4, <1>6
  <2>2. CASE e = x
    <3>1. w[e] = 1
      BY <1>3, <2>2 DEF DWeights
    <3>2. v[e] = 0
      BY <1>3, <2>1, <2>2 DEF DWeights
    <3> HIDE DEF w, v
    <3> QED BY <3>1, <3>2
  <2>3. CASE e # x
    <3>1. w[e] = 2
      BY <1>3, <2>3, ThreeColors DEF DWeights
    <3>2. v[e] = 1
      BY <1>2, <1>3, <2>1, <2>3, ThreeColors DEF DWeights
    <3> HIDE DEF w, v
    <3> QED BY <3>1, <3>2
  <2> QED BY <2>2, <2>3
<1>14. ASSUME NEW y \in g.nodes, y # p, y # c, y # b, y # e PROVE v[y] = w[y]
  <2>1. y \in Nodes /\ r.color[y] = t.color[y] /\ y # Nil
    BY <1>0, <1>4, <1>6, <1>14, MapTypes
  <2> QED BY <1>14, <2>1 DEF DWeights
<1> HIDE DEF w, v
<1>15. PICK h : Level(t, g, h, w)
  BY DEF Lean, w
<1>16. h \in [Nodes -> Nat] /\ \A y \in g.nodes, q \in Sides : h[y] = Height(h, t.kid[q][y]) + w[y]
  BY <1>15 DEF Level
<1>17. \A y \in g.nodes, q \in Sides : t.kid[q][y] # Nil => t.kid[q][y] \in g.nodes
  BY Zenon, <1>1, Children
<1>18. \A y \in g.nodes, q \in Sides : Height(h, t.kid[q][y]) \in Nat
  BY Zenon, <1>16, <1>17, <1>1, MapTypes DEF Height
<1>19. h[c] = h[b] + 1 /\ h[c] = Height(h, t.kid[s][c]) + 1 /\ h[p] = h[c] + w[p] /\ h[p] = h[e] + w[p]
  <2>1. /\ h[c] = Height(h, t.kid[Other(s)][c]) + w[c] /\ h[c] = Height(h, t.kid[s][c]) + w[c]
        /\ h[p] = Height(h, t.kid[Other(s)][p]) + w[p] /\ h[p] = Height(h, t.kid[s][p]) + w[p]
    BY <1>2, <1>16
  <2>2. Height(h, t.kid[Other(s)][c]) = h[b] /\ Height(h, t.kid[Other(s)][p]) = h[c] /\ Height(h, t.kid[s][p]) = h[e]
    BY Zenon, <1>1, <1>2 DEF Height
  <2> QED BY <1>11, <2>1, <2>2
<1>20. h[p] \in Nat /\ h[e] \in Nat /\ h[c] \in Nat /\ h[b] \in Nat /\ w[p] \in Int /\ w[e] \in Int /\ v[e] \in Int
  BY <1>3, <1>10, <1>16
<1>21. h[e] = h[c] /\ h[e] = h[b] + 1 /\ h[e] - 1 \in Nat
  <2>1. h[e] = h[c]
    BY <1>19, <1>20
  <2>2. h[e] = h[b] + 1
    BY <1>19, <2>1
  <2> QED BY <1>20, <2>1, <2>2
<1> DEFINE k == [h EXCEPT ![e] = h[e] - 1, ![b] = h[e]]
<1>22. /\ k \in [Nodes -> Nat] /\ k[e] = h[e] - 1 /\ k[b] = h[e]
       /\ \A y \in Nodes : y # e /\ y # b => k[y] = h[y]
  <2>1. h \in [Nodes -> Nat] /\ b \in Nodes /\ e \in Nodes /\ b # e
    BY <1>2, <1>3, <1>16
  <2>2. h[e] - 1 \in Nat /\ h[e] \in Nat
    BY <1>20, <1>21
  <2> QED BY <2>1, <2>2
<1> HIDE DEF k
<1>23. \A y \in g.nodes, q \in Sides : (t.kid[q][y] = e => y = p) /\ (t.kid[q][y] = b => y = c)
  <2>1. \A y \in g.nodes, q \in Sides : t.kid[q][y] = e => y = p
    <3>1. \A y \in g.nodes, q \in Sides : t.kid[q][y] = e => y = t.parent[e]
      BY <1>0, Parents
    <3> QED BY Zenon, <1>1, <3>1
  <2>2. \A y \in g.nodes, q \in Sides : t.kid[q][y] = b => y = c
    <3>1. c \in g.nodes /\ Other(s) \in Sides /\ t.kid[Other(s)][c] # Nil
      BY Zenon, <1>1, <1>2
    <3>2. t.kid[Other(s)][c] # t.root /\ t.parent[t.kid[Other(s)][c]] = c
      BY <1>0, <3>1, Children
    <3>3. b # t.root /\ t.parent[b] = c /\ b \in g.nodes
      BY Zenon, <1>1, <1>2, <3>2
    <3> QED BY <1>0, <3>3, Parents
  <2> QED BY <2>1, <2>2
<1>24. \A y \in g.nodes, q \in Sides : t.kid[q][y] # e /\ t.kid[q][y] # b => Height(k, t.kid[q][y]) = Height(h, t.kid[q][y])
  BY Zenon, <1>1, <1>17, <1>22, MapTypes DEF Height
<1>25. ASSUME NEW y \in g.nodes, y # p, y # c, NEW q \in Sides PROVE k[y] = Height(k, t.kid[q][y]) + v[y]
  <2>1. h[y] = Height(h, t.kid[q][y]) + w[y] /\ Height(h, t.kid[q][y]) \in Nat /\ y \in Nodes
    BY Zenon, <1>1, <1>16, <1>18, MapTypes
  <2>2. w[y] \in Int /\ v[y] \in Int
    BY <1>10, <2>1
  <2>3. Height(k, t.kid[q][y]) = Height(h, t.kid[q][y])
    BY <1>23, <1>24, <1>25
  <2>4. CASE y = e
    <3>1. k[y] = h[y] - 1 /\ w[y] = v[y] + 1
      BY <1>13, <1>22, <2>4
    <3> QED BY <2>1, <2>2, <2>3, <3>1
  <2>5. CASE y = b
    <3>1. k[y] = h[y] + 1 /\ w[y] = 0 /\ v[y] = 1
      BY <1>11, <1>21, <1>22, <2>5
    <3> QED BY <2>1, <2>2, <2>3, <3>1
  <2>6. CASE y # e /\ y # b
    <3>1. k[y] = h[y] /\ v[y] = w[y]
      BY <1>14, <1>22, <1>25, <2>1, <2>6
    <3> QED BY <2>1, <2>2, <2>3, <3>1
  <2> QED BY <2>4, <2>5, <2>6
<1>26. LevelOutside(u, g, k, v, {p, u.kid[Other(s)][p]})
  <2>1. k \in [Nodes -> Nat] /\ v \in [Nodes -> Int] /\ u.kid = t.kid /\ u.kid[Other(s)][p] = c
    BY <1>4, <1>5, <1>10, <1>22
  <2> QED BY <1>25, <2>1 DEF LevelOutside
<1> DEFINE i == h[e]
<1>27. LevelTurn(u, g, p, s, k, v, v, i)
  <2>1. u.kid[s][p] = e /\ u.kid[s][c] = t.kid[s][c] /\ u.kid[Other(s)][c] = b
    BY Zenon, <1>1, <1>2, <1>4
  <2>2. Height(k, e) = h[e] - 1 /\ Height(k, b) = h[e] /\ k[p] = h[p]
    BY Zenon, <1>1, <1>2, <1>3, <1>22 DEF Height
  <2>3. Height(k, t.kid[s][c]) = Height(h, t.kid[s][c]) /\ Height(h, t.kid[s][c]) \in Nat
    <3>1. t.kid[s][c] # b /\ t.kid[s][c] # e
      <4>1. t.kid[Other(s)][c] # Nil /\ c \in g.nodes /\ s \in Sides /\ Other(s) # s
        BY Zenon, <1>1, <1>2
      <4>2. t.kid[s][c] # e
        BY <1>2, <1>23
      <4>3. t.kid[s][c] # t.kid[Other(s)][c]
        <5>1. Other(s) \in Sides
          BY <1>2
        <5>2. \A y \in g.nodes, q \in Sides : t.kid[q][y] = t.kid[Other(s)][c] => y = c /\ q = Other(s)
          BY <1>0, <4>1, <5>1, Children
        <5> QED BY <4>1, <5>2
      <4> QED BY Zenon, <1>1, <4>2, <4>3
    <3> QED BY <1>2, <1>18, <1>24, <3>1
  <2>4. Height(k, t.kid[s][c]) = h[e] - 1
    <3>1. h[e] = Height(h, t.kid[s][c]) + 1
      BY <1>19, <1>21
    <3> QED BY <2>3, <3>1
  <2>5. i \in Nat /\ i = (h[e] - 1) + v[p] /\ k[p] = i + v[c]
    BY <1>11, <1>12, <1>19, <1>20, <2>2
  <2> HIDE DEF i
  <2>6. i = h[e]
    BY DEF i
  <2>7. /\ i = Height(k, u.kid[s][p]) + v[p] /\ i = Height(k, u.kid[s][c]) + v[p]
        /\ k[p] = Height(k, u.kid[Other(s)][c]) + v[c]
    BY <2>1, <2>2, <2>4, <2>5, <2>6
  <2> QED BY <1>5, <1>10, <2>5, <2>7 DEF LevelTurn
<1>28. \E j : Level(r, m, j, v)
  BY <1>2, <1>4, <1>5, <1>26, <1>27, RotateLevel DEF r, m
<1> QED BY <1>8, <1>28 DEF u, r, m, v

\* Node n is the inner child of the sibling c of e.
InnerAt(t, g, x, e, p, s, c, n) ==
  /\ DoubleAt(t, g, x, e) /\ e # t.root /\ t.color[e] = DOUBLE_BLACK
  /\ p = t.parent[e] /\ s = SideOf(t, e) /\ c = t.kid[Other(s)][p] /\ c # Nil /\ t.color[c] # RED
  /\ n = t.kid[s][c] /\ n # Nil /\ t.color[n] # BLACK

\* What there is around it.
LEMMA Inside ==
  ASSUME NEW t, NEW g, NEW x, NEW e, NEW p, NEW s, NEW c, NEW n, InnerAt(t, g, x, e, p, s, c, n)
  PROVE  /\ p \in g.nodes /\ p # e /\ s \in Sides /\ Other(s) \in Sides /\ t.kid[s][p] = e
         /\ p \notin g.sub[e] /\ c \in g.nodes /\ c # e /\ c # p
         /\ n \in g.nodes /\ n # c /\ n # t.root /\ t.parent[n] = c
         /\ n \notin g.sub[e] /\ n # p /\ n # e /\ x # n /\ x # c /\ x # p
         /\ c \notin g.sub[e] /\ e \in g.sub[e] /\ e # Nil /\ c # t.root
<1>1. Charted(t, g) /\ e \in g.nodes /\ x \in g.sub[e] /\ e # t.root
  BY Zenon DEF InnerAt, DoubleAt
<1>2. p = t.parent[e] /\ s = SideOf(t, e) /\ c = t.kid[Other(s)][p] /\ c # Nil
  BY Zenon DEF InnerAt
<1>3. n = t.kid[s][c] /\ n # Nil
  BY Zenon DEF InnerAt
<1>4. /\ p \in g.nodes /\ p # e /\ s \in Sides /\ Other(s) \in Sides /\ t.kid[s][p] = e
      /\ p \notin g.sub[e] /\ c \in g.nodes /\ c # e /\ c # p
      /\ \A z \in g.sub[c] : z \notin g.sub[e] /\ z # p
  BY <1>1, <1>2, Siblings
<1>5. n \in g.nodes /\ n # c /\ n # t.root /\ g.sub[n] \subseteq g.sub[c] /\ t.parent[n] = c
  <2>1. c \in g.nodes /\ s \in Sides /\ t.kid[s][c] # Nil
    BY <1>3, <1>4
  <2>2. /\ t.kid[s][c] \in g.nodes /\ t.kid[s][c] # c /\ t.kid[s][c] # t.root
        /\ g.sub[t.kid[s][c]] \subseteq g.sub[c] /\ t.parent[t.kid[s][c]] = c
    BY <1>1, <2>1, Children
  <2> QED BY <1>3, <2>2
<1>6. e \in g.sub[e] /\ c \in g.sub[c] /\ n \in g.sub[n] /\ e # Nil
  BY <1>1, <1>4, <1>5, MapTypes
<1>7. n \in g.sub[c] /\ n \notin g.sub[e] /\ n # p /\ n # e /\ x # n /\ x # c /\ x # p /\ c \notin g.sub[e]
  BY <1>1, <1>4, <1>5, <1>6
<1>8. c # t.root
  <2>1. p \in g.nodes /\ Other(s) \in Sides /\ t.kid[Other(s)][p] # Nil
    BY Zenon, <1>2, <1>4
  <2>2. t.kid[Other(s)][p] # t.root
    BY <1>1, <2>1, Children
  <2> QED BY <1>2, <2>2
<1> QED BY <1>4, <1>5, <1>6, <1>7, <1>8

\* The sibling and its inner child, which is not black, change their colors, and
\* the child goes up.
LEMMA InnerTurn ==
  ASSUME NEW t, NEW g, NEW x, NEW e, NEW p, NEW s, NEW c, NEW n, InnerAt(t, g, x, e, p, s, c, n)
  PROVE  LET u == Colored(t, n, c, BLACK, RED)
             r == Rotate(u, c, Other(s))
             m == TurnedMap(u, g, c, Other(s))
         IN  /\ TurnAt(r, m, x, e, p, s, n, c) /\ m.nodes = g.nodes /\ r.data = t.data
             /\ Lean(t, g, x, e) => /\ Lean(r, m, x, e) /\ r.color[e] = DOUBLE_BLACK
                                    /\ r.color[c] = RED /\ r.color[n] # RED
<1> DEFINE o == Other(s)
           u == Colored(t, n, c, BLACK, RED)
           r == Rotate(u, c, o)
           m == TurnedMap(u, g, c, o)
<1>1. Charted(t, g) /\ NoRedRed(t, g, Nil) /\ e \in g.nodes /\ x \in g.sub[e] /\ x \in g.nodes /\ x # t.root
  BY Zenon DEF InnerAt, DoubleAt
<1>2. /\ p \in g.nodes /\ p # e /\ s \in Sides /\ o \in Sides /\ t.kid[s][p] = e
      /\ p \notin g.sub[e] /\ c \in g.nodes /\ c # e /\ c # p
  BY Inside
<1>3. n \in g.nodes /\ n # c
  BY Inside
<1>4. /\ e \in g.sub[e] /\ e # Nil
      /\ p \in Nodes /\ c \in Nodes /\ x \in Nodes /\ e \in Nodes /\ n \in Nodes
  BY <1>1, <1>2, <1>3, Inside, MapTypes
<1>5. /\ n \notin g.sub[e] /\ n # p /\ n # e /\ x # n /\ x # c /\ x # p
      /\ c \notin g.sub[e]
  BY Inside
<1>0. t.kid[s][c] = n /\ t.kid[o][p] = c /\ c # Nil /\ n # Nil
  BY Zenon DEF InnerAt
<1>6. o # s /\ Other(o) = s /\ \A q \in Sides : q = s \/ q = o
  BY <1>2, TwoSides
<1>7. c # t.root
  BY Inside
<1>8. /\ Charted(u, g) /\ u.root = t.root /\ u.data = t.data /\ u.parent = t.parent /\ u.kid = t.kid
      /\ \A z \in g.nodes : u.color[z] = IF z = n THEN BLACK ELSE IF z = c THEN RED ELSE t.color[z]
  <2>1. IsColored(t, Colored(t, n, c, BLACK, RED), g, n, c, BLACK, RED)
    BY <1>1, <1>2, <1>3, ThreeColors, ColoredCharted
  <2>2. IsColored(t, u, g, n, c, BLACK, RED)
    BY <2>1 DEF u
  <2> HIDE DEF u
  <2> QED BY <2>2 DEF IsColored
<1> HIDE DEF u
<1>9. u.kid[Other(o)][c] = n /\ u.kid[Other(o)][c] # Nil
  BY <1>0, <1>6, <1>8
<1>10. Charted(r, m)
  BY <1>2, <1>8, <1>9, RotateCharted
<1>11. /\ r.data = t.data /\ r.color = u.color /\ r.root = t.root
       /\ \A y \in g.nodes, q \in Sides : r.kid[q][y] = TurnedKid(u, c, o, q, y)
       /\ \A y \in g.nodes : r.parent[y] = TurnedParent(u, c, o, y)
  <2> HIDE DEF o
  <2>1. /\ r.data = u.data /\ r.color = u.color /\ r.root = (IF c = u.root THEN n ELSE u.root)
        /\ \A y \in g.nodes, q \in Sides : r.kid[q][y] = TurnedKid(u, c, o, q, y)
        /\ \A y \in g.nodes : r.parent[y] = TurnedParent(u, c, o, y)
    BY <1>2, <1>8, <1>9, RotateFields
  <2> HIDE DEF r
  <2> QED BY <1>7, <1>8, <2>1
<1>12. m.nodes = g.nodes /\ m.sub[e] = g.sub[e]
  <2>1. g \in Maps
    BY <1>1 DEF Charted
  <2> HIDE DEF o
  <2> QED BY <1>2, <1>4, <1>5, <1>9, <2>1 DEF TurnedMap, Maps
<1>13. ASSUME NEW y \in g.nodes, NEW q \in Sides,
              y # c, r.kid[q][y] # Nil, r.kid[q][y] # c, r.color[y] = RED
       PROVE  r.color[r.kid[q][y]] # RED
  <2> DEFINE k == r.kid[q][y]
  <2>1. \/ y = c /\ q = Other(o) /\ k = u.kid[o][n]
        \/ y = n /\ q = o /\ k = c
        \/ k = n /\ y # c /\ y # n /\ c # u.root /\ y = u.parent[c] /\ q = SideOf(u, c)
        \/ k = u.kid[q][y] /\ k # c /\ k # n
    <3> HIDE DEF o
    <3>1. TurnsTo(u, c, o, q, y, k)
      BY <1>2, <1>8, <1>9, RotateLinks
    <3> HIDE DEF k, r, m
    <3> QED BY <1>9, <3>1 DEF TurnsTo
  <2>2. k # Nil /\ u.color[y] = RED /\ k # c /\ y # n /\ r.color = u.color
    BY <1>8, <1>11, <1>13, ThreeColors
  <2>3. SUFFICES u.color[k] # RED
    BY <2>2
  <2> HIDE DEF k, r, m, o
  <2>4. CASE k = n
    BY <1>3, <1>8, <2>4, ThreeColors
  <2>5. CASE k = u.kid[q][y] /\ k # n
    <3>1. t.color[y] = RED /\ k = t.kid[q][y]
      BY <1>8, <1>13, <2>2, <2>5
    <3>2. t.color[k] # RED
      BY <1>1, <2>2, <3>1 DEF NoRedRed
    <3>3. k \in g.nodes
      BY <1>1, <2>2, <3>1, Children
    <3> QED BY <1>8, <2>2, <2>5, <3>2, <3>3
  <2> QED BY <1>13, <2>1, <2>2, <2>4, <2>5
<1>14. r.parent[e] = p
  <2>1. u.kid[o][n] # e
    <3>1. \A y \in g.nodes, q \in Sides : t.kid[q][y] = e => y = p
      <4>1. e # t.root /\ p = t.parent[e]
        BY Zenon DEF InnerAt
      <4>2. \A y \in g.nodes, q \in Sides : t.kid[q][y] = e => y = t.parent[e]
        BY <1>1, <4>1, Parents
      <4> QED BY <4>1, <4>2
    <3> QED BY <1>2, <1>3, <1>5, <1>8, <3>1
  <2>2. r.parent[e] = TurnedParent(u, c, o, e)
    BY <1>1, <1>11
  <2> HIDE DEF r, o
  <2>3. t.parent[e] = p
    BY Zenon DEF InnerAt
  <2> QED BY <2>1, <2>2, <2>3, <1>2, <1>5, <1>8, <1>9 DEF TurnedParent
<1>15. r.kid[o][p] = n /\ r.kid[s][p] = e /\ r.kid[o][n] = c
  <2>1. /\ r.kid[o][p] = TurnedKid(u, c, o, o, p) /\ r.kid[s][p] = TurnedKid(u, c, o, s, p)
        /\ r.kid[o][n] = TurnedKid(u, c, o, o, n)
    BY <1>2, <1>3, <1>11
  <2>2. u.kid[o][p] = c /\ u.kid[s][p] = e
    BY <1>0, <1>2, <1>8
  <2> HIDE DEF r, o
  <2> QED BY <1>2, <1>3, <1>5, <1>9, <2>1, <2>2 DEF TurnedKid
<1> HIDE DEF r, m
<1>16. SideOf(r, e) = s
  <2>0. e # t.root
    BY Zenon DEF InnerAt
  <2>1. e \in m.nodes /\ e # r.root /\ p \in m.nodes
    BY <1>1, <1>2, <1>11, <1>12, <2>0
  <2>2. \A y \in m.nodes, q \in Sides : r.kid[q][y] = e => q = SideOf(r, e)
    BY <1>10, <2>1, Parents
  <2> QED BY <1>2, <1>15, <2>1, <2>2
<1>17. TurnAt(r, m, x, e, p, s, n, c)
  <2>1. e # r.root /\ x # r.root /\ x \in m.sub[e] /\ x \in m.nodes /\ e \in m.nodes
    <3>1. e # t.root
      BY DEF InnerAt
    <3> QED BY <1>1, <1>11, <1>12, <3>1
  <2>2. n = r.kid[Other(s)][p] /\ c = r.kid[Other(s)][n] /\ p = r.parent[e] /\ s = SideOf(r, e)
    BY <1>14, <1>15, <1>16
  <2>4. n # Nil /\ c # Nil
    BY <1>0
  <2> HIDE DEF o
  <2>3. \A y \in m.nodes, q \in Sides :
          y # c /\ r.kid[q][y] # Nil /\ r.kid[q][y] # c /\ r.color[y] = RED => r.color[r.kid[q][y]] # RED
    BY <1>12, <1>13
  <2> QED BY <1>10, <2>1, <2>2, <2>3, <2>4 DEF TurnAt
<1>18. ASSUME Lean(t, g, x, e)
       PROVE  /\ Lean(r, m, x, e) /\ r.color[e] = DOUBLE_BLACK
              /\ r.color[c] = RED /\ r.color[n] # RED
  <2> DEFINE w == DWeights(t, x, e)
             v == DWeights(r, x, e)
  <2>1. PICK h : Level(t, g, h, w)
    BY <1>18 DEF Lean
  <2>2. /\ \A y \in g.nodes : t.color[y] = DOUBLE_BLACK => y \in g.sub[e]
        /\ t.color[x] = DOUBLE_BLACK /\ Leaf(t, x)
    BY <1>18 DEF Lean
  <2>3. r.color[n] = BLACK /\ r.color[c] = RED /\ \A y \in g.nodes : y # n /\ y # c => r.color[y] = t.color[y]
    BY <1>2, <1>3, <1>8, <1>11
  <2>4. t.color[c] = BLACK /\ t.color[n] = RED
    <3>1. t.color[c] \in Colors /\ t.color[n] \in Colors
      BY <1>1, <1>4 DEF Charted, Trees
    <3>2. t.color[c] # RED /\ t.color[n] # BLACK
      BY DEF InnerAt
    <3> QED BY <1>2, <1>3, <1>5, <2>2, <3>1, <3>2, ThreeColors
  <2>5. \A y \in m.nodes : r.color[y] = DOUBLE_BLACK => y \in m.sub[e]
    BY <1>12, <2>2, <2>3, ThreeColors
  <2>6. r.color[x] = DOUBLE_BLACK /\ r.color[e] = DOUBLE_BLACK
    <3>1. t.color[e] = DOUBLE_BLACK /\ e # n /\ e # c
      BY <1>2, <1>5 DEF InnerAt
    <3> QED BY <1>1, <1>5, <2>2, <2>3, <3>1
  <2>7. Leaf(r, x)
    <3> SUFFICES ASSUME NEW q \in Sides PROVE r.kid[q][x] = Nil
      BY DEF Leaf
    <3>1. r.kid[q][x] = TurnedKid(u, c, o, q, x) /\ u.kid[q][x] = Nil
      BY <1>1, <1>8, <1>11, <2>2 DEF Leaf
    <3> HIDE DEF o
    <3>2. c # Nil
      BY <1>0
    <3> QED BY <1>5, <1>9, <3>1, <3>2 DEF TurnedKid
  <2>8. /\ w \in [Nodes -> Int] /\ v \in [Nodes -> Int] /\ w[c] = 1 /\ w[n] = 0 /\ v[c] = 0 /\ v[n] = 1
    <3>1. w \in [Nodes -> Int] /\ v \in [Nodes -> Int]
      BY DEF DWeights
    <3>2. w[c] = 1 /\ w[n] = 0
      BY <1>2, <1>4, <1>5, <2>4, ThreeColors DEF DWeights
    <3>3. v[c] = 0 /\ v[n] = 1
      BY <1>4, <1>5, <2>3, ThreeColors DEF DWeights
    <3> QED BY <3>1, <3>2, <3>3
  <2>9. \A y \in g.nodes : y # c /\ y # n => v[y] = w[y]
    <3>1. \A y \in g.nodes : y \in Nodes
      BY <1>1, MapTypes
    <3> QED BY <2>3, <3>1 DEF DWeights
  <2> HIDE DEF w, v
  <2>10. h \in [Nodes -> Nat] /\ \A y \in g.nodes, q \in Sides : h[y] = Height(h, t.kid[q][y]) + w[y]
    BY <2>1 DEF Level
  <2>11. /\ h[c] = h[n] + 1 /\ h[c] = Height(h, t.kid[o][c]) + 1
         /\ h[n] = Height(h, t.kid[o][n]) + 0 /\ h[n] = Height(h, t.kid[s][n]) + 0
    <3> HIDE DEF o
    <3>1. /\ h[c] = Height(h, t.kid[s][c]) + w[c] /\ h[c] = Height(h, t.kid[o][c]) + w[c]
          /\ h[n] = Height(h, t.kid[o][n]) + w[n] /\ h[n] = Height(h, t.kid[s][n]) + w[n]
      BY <1>2, <1>3, <2>10
    <3>2. Height(h, t.kid[s][c]) = h[n]
      BY <1>0 DEF Height
    <3> QED BY <2>8, <3>1, <3>2
  <2>12. \A y \in g.nodes, q \in Sides : Height(h, t.kid[q][y]) \in Nat
    <3>1. \A y \in g.nodes, q \in Sides : t.kid[q][y] # Nil => t.kid[q][y] \in g.nodes
      BY <1>1, Children
    <3> QED BY <2>10, <3>1, <1>1, MapTypes DEF Height
  <2> DEFINE i == h[n]
  <2>13. LevelTurn(u, g, c, o, h, w, v, i)
    <3> HIDE DEF o
    <3>1. /\ Height(h, t.kid[o][c]) \in Nat /\ Height(h, t.kid[o][n]) \in Nat
          /\ Height(h, t.kid[s][n]) \in Nat /\ h[n] \in Nat /\ h[c] \in Nat
      BY <1>2, <1>3, <1>4, <2>10, <2>12
    <3>2. Height(h, t.kid[o][c]) = i /\ Height(h, t.kid[o][n]) = i /\ Height(h, t.kid[s][n]) = i /\ h[c] = i + 1
      BY <2>11, <3>1
    <3>3. i \in Nat
      BY <3>1
    <3> HIDE DEF i
    <3>4. u.kid[Other(o)][c] = n /\ u.kid[o][c] = t.kid[o][c] /\ u.kid[o][n] = t.kid[o][n] /\ u.kid[Other(o)][n] = t.kid[s][n]
      BY <1>6, <1>8, <1>9
    <3>5. i = i + v[c] /\ h[c] = i + v[n]
      BY <2>8, <3>2, <3>3
    <3>6. /\ i = Height(h, u.kid[o][c]) + v[c] /\ i = Height(h, u.kid[o][n]) + v[c]
          /\ h[c] = Height(h, u.kid[Other(o)][n]) + v[n]
      BY <3>2, <3>4, <3>5
    <3> QED BY <2>8, <2>9, <3>3, <3>4, <3>5, <3>6 DEF LevelTurn
  <2>14. \E k : Level(r, m, k, v)
    <3> HIDE DEF i, o
    <3>1. LevelOutside(u, g, h, w, {c, u.kid[Other(o)][c]})
      <4>1. u.kid = t.kid /\ w \in [Nodes -> Int]
        BY <1>8, <2>8
      <4> QED BY <2>10, <4>1 DEF LevelOutside
    <3> QED BY <1>2, <1>8, <1>9, <2>13, <3>1, RotateLevel DEF r, m
  <2>15. Lean(r, m, x, e)
    BY <2>5, <2>6, <2>7, <2>14 DEF Lean, v
  <2> QED BY <2>3, <2>6, <2>15, ThreeColors
<1> QED BY <1>11, <1>12, <1>17, <1>18 DEF u, r, m

\* A state of the loop.
Going(t, e) == [tree |-> t, ptr |-> e, over |-> FALSE]
Ended(t, e) == [tree |-> t, ptr |-> e, over |-> TRUE]

\* The changes that a round makes.
WithTree(c, u)    == [c EXCEPT !.tree = u]
GoneUp(c, u, k)   == [c EXCEPT !.tree = u, !.ptr = k]
BrokenOff(c, u)   == [c EXCEPT !.tree = u, !.over = TRUE]

\* The fields of a state of the loop of fixDeleteRBTree, and when it is done.
LEMMA LoopFields ==
  ASSUME NEW t, NEW e
  PROVE  /\ Going(t, e).tree = t /\ Going(t, e).ptr = e /\ Ended(t, e).tree = t /\ Ended(t, e).ptr = e
         /\ Done(Ended(t, e))
         /\ Done(Going(t, e)) <=> e = t.root \/ getColor(t, e) # DOUBLE_BLACK
BY DEF Going, Ended, Done

\* A round that changes the tree alone.
LEMMA TreeChange ==
  ASSUME NEW t, NEW e, NEW u
  PROVE  WithTree(Going(t, e), u) = Going(u, e)
<1> DEFINE no == FALSE
           c == Going(t, e)
<1>1. c = [tree |-> t, ptr |-> e, over |-> no] /\ Going(u, e) = [tree |-> u, ptr |-> e, over |-> no]
  BY DEF Going
<1> HIDE DEF c, no
<1>2. [c EXCEPT !.tree = u] = [tree |-> u, ptr |-> e, over |-> no]
  BY <1>1
<1> QED BY <1>1, <1>2 DEF c, WithTree

\* A round that changes the tree and the node.
LEMMA NodeChange ==
  ASSUME NEW t, NEW e, NEW u, NEW k
  PROVE  GoneUp(Going(t, e), u, k) = Going(u, k)
<1> DEFINE no == FALSE
           c == Going(t, e)
           r == [c EXCEPT !.tree = u]
<1>1. c = [tree |-> t, ptr |-> e, over |-> no] /\ Going(u, k) = [tree |-> u, ptr |-> k, over |-> no]
  BY DEF Going
<1> HIDE DEF c, no
<1>2. [c EXCEPT !.tree = u, !.ptr = k] = [r EXCEPT !.ptr = k]
  OBVIOUS
<1>3. r = [tree |-> u, ptr |-> e, over |-> no]
  BY <1>1
<1> HIDE DEF r
<1>4. [r EXCEPT !.ptr = k] = [tree |-> u, ptr |-> k, over |-> no]
  BY <1>3
<1> QED BY <1>1, <1>2, <1>4 DEF c, GoneUp

\* A round that breaks off.
LEMMA OverChange ==
  ASSUME NEW t, NEW e, NEW u
  PROVE  BrokenOff(Going(t, e), u) = Ended(u, e)
<1> DEFINE no == FALSE
           c == Going(t, e)
           r == [c EXCEPT !.tree = u]
<1>1. c = [tree |-> t, ptr |-> e, over |-> no] /\ Ended(u, e) = [tree |-> u, ptr |-> e, over |-> TRUE]
  BY DEF Going, Ended
<1> HIDE DEF c, no
<1>2. [c EXCEPT !.tree = u, !.over = TRUE] = [r EXCEPT !.over = TRUE]
  OBVIOUS
<1>3. r = [tree |-> u, ptr |-> e, over |-> no]
  BY <1>1
<1> HIDE DEF r
<1>4. ASSUME NEW v PROVE [r EXCEPT !.over = v] = [tree |-> u, ptr |-> e, over |-> v]
  BY <1>3
<1>5. [r EXCEPT !.over = TRUE] = [tree |-> u, ptr |-> e, over |-> TRUE]
  BY <1>4, Zenon
<1> QED BY <1>1, <1>2, <1>5 DEF c, BrokenOff

\* The nodes around e: its parent, its side, its sibling and the two nephews.
Around(t, e, p, s, c, n, f) ==
  /\ p = t.parent[e] /\ s = SideOf(t, e) /\ c = t.kid[Other(s)][p]
  /\ n = t.kid[s][c] /\ f = t.kid[Other(s)][c]

\* What a round makes of the tree, by its cases.
RoundOf(t, e, p, s, c, n, f) ==
  LET at == Going(t, e)
      d  == DoubleBlackRound(at)
  IN  /\ Done(at) \/ c = Nil => d = at
      /\ ~Done(at) /\ c # Nil /\ t.color[c] = RED =>
           d = Going(Rotate(Colored(t, c, p, BLACK, RED), p, s), e)
      /\ ~Done(at) /\ c # Nil /\ t.color[c] # RED /\ getColor(t, n) = BLACK /\ getColor(t, f) = BLACK =>
           d = Going(Colored(t, c, p, RED, IF t.color[p] = RED THEN BLACK ELSE DOUBLE_BLACK), p)
      /\ ~Done(at) /\ c # Nil /\ t.color[c] # RED /\ getColor(t, f) # BLACK =>
           d = Ended(Rotate(Prepared(t, p, c, f), p, s), e)
      /\ ~Done(at) /\ c # Nil /\ t.color[c] # RED /\ getColor(t, n) # BLACK /\ getColor(t, f) = BLACK =>
           LET r == Rotate(Colored(t, n, c, BLACK, RED), c, Other(s))
               a == r.kid[Other(s)][p]
           IN  d = Ended(Rotate(Prepared(r, p, a, r.kid[Other(s)][a]), p, s), e)

\* A round of fixDeleteRBTree (ll-rb-tree.hpp:183-236), by the colors of the
\* sibling and its children.
LEMMA RoundCases ==
  ASSUME NEW t, NEW e, NEW p, NEW s \in Sides, NEW c, NEW n, NEW f, Around(t, e, p, s, c, n, f)
  PROVE  RoundOf(t, e, p, s, c, n, f)
<1> DEFINE at == Going(t, e)
           d  == DoubleBlackRound(at)
<1>1. at.tree = t /\ at.ptr = e
  BY LoopFields
<1>2. /\ \A u : WithTree(at, u) = Going(u, e)
      /\ \A u, k : GoneUp(at, u, k) = Going(u, k)
      /\ \A u : BrokenOff(at, u) = Ended(u, e)
  <2>1. \A u : WithTree(at, u) = Going(u, e)
    BY TreeChange
  <2>2. \A u, k : GoneUp(at, u, k) = Going(u, k)
    BY NodeChange
  <2>3. \A u : BrokenOff(at, u) = Ended(u, e)
    BY OverChange
  <2> HIDE DEF at
  <2> QED BY <2>1, <2>2, <2>3
<1>0. /\ p = t.parent[e] /\ s = SideOf(t, e) /\ c = t.kid[Other(s)][p]
      /\ n = t.kid[s][c] /\ f = t.kid[Other(s)][c]
  BY DEF Around
<1>3. (s = "left" /\ Other(s) = "right") \/ (s = "right" /\ Other(s) = "left")
  BY TwoSides DEF Sides
<1>4. ASSUME Done(at) \/ c = Nil PROVE d = at
  BY <1>0, <1>1, <1>4 DEF DoubleBlackRound
<1>5. ASSUME ~Done(at), c # Nil, t.color[c] = RED PROVE d = Going(Rotate(Colored(t, c, p, BLACK, RED), p, s), e)
  <2>1. d = WithTree(at, Rotate(Colored(t, c, p, BLACK, RED), p, s))
    BY <1>0, <1>1, <1>5 DEF DoubleBlackRound, getColor, Colored, WithTree
  <2> QED BY <1>2, <2>1, Zenon
<1>6. ASSUME ~Done(at), c # Nil, t.color[c] # RED, getColor(t, n) = BLACK, getColor(t, f) = BLACK
      PROVE  d = Going(Colored(t, c, p, RED, IF t.color[p] = RED THEN BLACK ELSE DOUBLE_BLACK), p)
  <2>1. getColor(t, t.kid["left"][c]) = BLACK /\ getColor(t, t.kid["right"][c]) = BLACK
    BY <1>0, <1>3, <1>6
  <2>2. getColor(t, c) # RED
    BY <1>6 DEF getColor
  <2>3. d = GoneUp(at, Colored(t, c, p, RED, IF t.color[p] = RED THEN BLACK ELSE DOUBLE_BLACK), p)
    BY <1>0, <1>1, <1>6, <2>1, <2>2 DEF DoubleBlackRound, GoneUp, Colored
  <2> QED BY <1>2, <2>3, Zenon
<1>7. ASSUME ~Done(at), c # Nil, t.color[c] # RED, getColor(t, f) # BLACK
      PROVE  d = Ended(Rotate(Prepared(t, p, c, f), p, s), e)
  <2>1. ~(getColor(t, t.kid["left"][c]) = BLACK /\ getColor(t, t.kid["right"][c]) = BLACK)
    BY <1>0, <1>3, <1>7
  <2>2. getColor(t, c) # RED
    BY <1>7 DEF getColor
  <2>3. d = BrokenOff(at, Rotate(Prepared(t, p, c, f), p, s))
    BY <1>0, <1>1, <1>7, <2>1, <2>2 DEF DoubleBlackRound, Prepared, Colored, BrokenOff
  <2> QED BY <1>2, <2>3, Zenon
<1>8. ASSUME ~Done(at), c # Nil, t.color[c] # RED, getColor(t, n) # BLACK, getColor(t, f) = BLACK
      PROVE  LET r == Rotate(Colored(t, n, c, BLACK, RED), c, Other(s))
                 a == r.kid[Other(s)][p]
             IN  d = Ended(Rotate(Prepared(r, p, a, r.kid[Other(s)][a]), p, s), e)
  <2>1. ~(getColor(t, t.kid["left"][c]) = BLACK /\ getColor(t, t.kid["right"][c]) = BLACK)
    BY <1>0, <1>3, <1>8
  <2>2. getColor(t, c) # RED
    BY <1>8 DEF getColor
  <2> DEFINE r == Rotate(Colored(t, n, c, BLACK, RED), c, Other(s))
             a == r.kid[Other(s)][p]
  <2>3. d = BrokenOff(at, Rotate(Prepared(r, p, a, r.kid[Other(s)][a]), p, s))
    BY <1>0, <1>1, <1>8, <2>1, <2>2 DEF DoubleBlackRound, Prepared, Colored, BrokenOff
  <2> HIDE DEF r
  <2>4. d = Ended(Rotate(Prepared(r, p, a, r.kid[Other(s)][a]), p, s), e)
    BY <1>2, <2>3, Zenon
  <2> QED BY <2>4 DEF r
<1> HIDE DEF at, d
<1>9. /\ Done(at) \/ c = Nil => d = at
      /\ ~Done(at) /\ c # Nil /\ t.color[c] = RED =>
           d = Going(Rotate(Colored(t, c, p, BLACK, RED), p, s), e)
      /\ ~Done(at) /\ c # Nil /\ t.color[c] # RED /\ getColor(t, n) = BLACK /\ getColor(t, f) = BLACK =>
           d = Going(Colored(t, c, p, RED, IF t.color[p] = RED THEN BLACK ELSE DOUBLE_BLACK), p)
      /\ ~Done(at) /\ c # Nil /\ t.color[c] # RED /\ getColor(t, f) # BLACK =>
           d = Ended(Rotate(Prepared(t, p, c, f), p, s), e)
  BY <1>4, <1>5, <1>6, <1>7
<1> QED BY <1>8, <1>9 DEF at, d, RoundOf

\* A node that lacks a black node has a sibling.
LEMMA LeanSibling ==
  ASSUME NEW t, NEW g, NEW x, NEW e, DoubleAt(t, g, x, e), Lean(t, g, x, e), e # t.root, t.color[e] = DOUBLE_BLACK
  PROVE  t.kid[Other(SideOf(t, e))][t.parent[e]] # Nil
<1> DEFINE p == t.parent[e]
           s == SideOf(t, e)
           w == DWeights(t, x, e)
<1>1. Charted(t, g) /\ e \in g.nodes /\ e \in Nodes /\ e # Nil
  BY MapTypes DEF DoubleAt
<1>2. p \in g.nodes /\ s \in Sides /\ Other(s) \in Sides /\ t.kid[s][p] = e
  BY <1>1, Siblings
<1> HIDE DEF p, s
<1>3. w[e] = 1 \/ w[e] = 2
  BY <1>1, ThreeColors DEF DWeights
<1>4. w \in [Nodes -> Int] /\ p \in Nodes
  BY <1>1, <1>2, MapTypes DEF DWeights
<1> HIDE DEF w
<1>5. PICK h : Level(t, g, h, w)
  BY DEF Lean, w
<1>6. h \in [Nodes -> Nat] /\ \A y \in g.nodes, q \in Sides : h[y] = Height(h, t.kid[q][y]) + w[y]
  BY <1>5 DEF Level
<1>7. h[e] >= 1
  <2>1. h[e] = Height(h, t.kid[s][e]) + w[e]
    BY <1>1, <1>2, <1>6
  <2>2. t.kid[s][e] # Nil => t.kid[s][e] \in Nodes
    BY <1>1, <1>2, Children, MapTypes
  <2>3. Height(h, t.kid[s][e]) \in Nat
    BY <1>6, <2>2 DEF Height
  <2> QED BY <1>3, <2>1, <2>3, PositiveSum
<1>8. h[p] = h[e] + w[p] /\ h[p] = Height(h, t.kid[Other(s)][p]) + w[p]
  <2>1. h[p] = Height(h, t.kid[s][p]) + w[p] /\ h[p] = Height(h, t.kid[Other(s)][p]) + w[p]
    BY <1>2, <1>6
  <2> QED BY <1>1, <1>2, <2>1 DEF Height
<1>9. ASSUME t.kid[Other(s)][p] = Nil PROVE FALSE
  <2>1. h[p] = 0 + w[p]
    BY <1>8, <1>9 DEF Height
  <2>2. h[e] \in Int /\ w[p] \in Int
    BY <1>1, <1>4, <1>6
  <2> QED BY <1>7, <1>8, <2>1, <2>2
<1> QED BY <1>9 DEF p, s

\* After the loop: the victim is still there, and if it was lean at the start
\* then no black node is missing once the victim has gone.
Final(t, g, x) == Charted(t, g) /\ NoRedRed(t, g, Nil) /\ x \in g.nodes /\ x # t.root
Freed(t, g, x) == Leaf(t, x) /\ \E k : Level(t, g, k, DWeights(t, x, Nil))

\* The loop comes nearer to its end: it is there, or the node is one with a
\* bigger subtree, or the parent has become red.
Nearer(t, g, e, u, m, k) ==
  \/ Done(Going(u, k))
  \/ /\ t.color[t.parent[e]] # RED
     /\ \/ g.sub[e] \subseteq m.sub[k] /\ k \notin g.sub[e]
        \/ k = e /\ m.sub[k] = g.sub[e] /\ u.color[u.parent[k]] = RED

\* What is known after a round from t and e.
RoundGoes(t, g, x, e, d) ==
  \E u, m, k :
    /\ m.nodes = g.nodes /\ u.data = t.data
    /\ \/ d = Going(u, k) /\ DoubleAt(u, m, x, k) /\ (Lean(t, g, x, e) => Lean(u, m, x, k) /\ Nearer(t, g, e, u, m, k))
       \/ d = Ended(u, k) /\ k \in m.nodes /\ Final(u, m, x) /\ (Lean(t, g, x, e) => Freed(u, m, x))

\* What is known before it.
RoundFrom(t, g, x, e, p, s, c, n, f) ==
  /\ DoubleAt(t, g, x, e) /\ e # t.root /\ t.color[e] = DOUBLE_BLACK /\ ~Done(Going(t, e))
  /\ Around(t, e, p, s, c, n, f) /\ RoundOf(t, e, p, s, c, n, f) /\ c # Nil

\* The round with a red sibling.
LEMMA RoundRed ==
  ASSUME NEW t, NEW g, NEW x, NEW e, NEW p, NEW s, NEW c, NEW n, NEW f,
         RoundFrom(t, g, x, e, p, s, c, n, f), t.color[c] = RED
  PROVE  RoundGoes(t, g, x, e, DoubleBlackRound(Going(t, e)))
<1>1. DoubleAt(t, g, x, e) /\ e # t.root /\ t.color[e] = DOUBLE_BLACK /\ ~Done(Going(t, e)) /\ c # Nil
  BY DEF RoundFrom
<1>2. p = t.parent[e] /\ s = SideOf(t, e) /\ c = t.kid[Other(s)][p]
  BY DEF RoundFrom, Around
<1> DEFINE r == Rotate(Colored(t, c, p, BLACK, RED), p, s)
           m == TurnedMap(Colored(t, c, p, BLACK, RED), g, p, s)
<1>3. DoubleBlackRound(Going(t, e)) = Going(r, e)
  BY <1>1 DEF RoundFrom, RoundOf
<1>4. /\ DoubleAt(r, m, x, e) /\ m.sub[e] = g.sub[e] /\ m.nodes = g.nodes
      /\ e # r.root /\ r.color[e] = DOUBLE_BLACK /\ r.parent[e] = p /\ r.color[p] = RED
      /\ Lean(t, g, x, e) => Lean(r, m, x, e)
  <2>1. BlackSibling(t, g, x, e, p, r, m)
    BY Zenon, <1>1, <1>2, SiblingTurn
  <2> HIDE DEF r, m
  <2> QED BY Zenon, <2>1 DEF BlackSibling
<1>5. r.data = t.data
  <2>1. Charted(t, g) /\ e \in g.nodes
    BY <1>1 DEF DoubleAt
  <2>2. p \in g.nodes /\ c \in g.nodes /\ c # p /\ s \in Sides
    BY <1>1, <1>2, <2>1, Siblings
  <2>3. IsColored(t, Colored(t, c, p, BLACK, RED), g, c, p, BLACK, RED)
    BY <2>1, <2>2, ThreeColors, ColoredCharted
  <2> DEFINE u == Colored(t, c, p, BLACK, RED)
  <2>4. Charted(u, g) /\ u.data = t.data /\ u.kid[Other(s)][p] = c
    <3> HIDE DEF u
    <3>1. IsColored(t, u, g, c, p, BLACK, RED)
      BY <2>3 DEF u
    <3> QED BY <1>2, <3>1 DEF IsColored
  <2> HIDE DEF u
  <2>5. Rotate(u, p, s).data = u.data
    BY <1>1, <2>2, <2>4, RotateFields
  <2> QED BY <2>4, <2>5 DEF u
<1> HIDE DEF r, m
<1>6. t.color[p] # RED
  <2>1. NoRedRed(t, g, Nil) /\ Charted(t, g) /\ e \in g.nodes
    BY <1>1 DEF DoubleAt
  <2>2. p \in g.nodes /\ Other(s) \in Sides
    BY <1>1, <1>2, <2>1, Siblings
  <2>3. t.kid[Other(s)][p] # Nil /\ t.color[t.kid[Other(s)][p]] = RED
    BY <1>1, <1>2
  <2> QED BY <2>1, <2>2, <2>3 DEF NoRedRed
<1>7. Nearer(t, g, e, r, m, e)
  BY <1>2, <1>4, <1>6 DEF Nearer
<1> QED BY <1>3, <1>4, <1>5, <1>7 DEF RoundGoes

\* The round with a sibling that is not red and has black children.
LEMMA RoundUp ==
  ASSUME NEW t, NEW g, NEW x, NEW e, NEW p, NEW s, NEW c, NEW n, NEW f,
         RoundFrom(t, g, x, e, p, s, c, n, f), t.color[c] # RED, getColor(t, n) = BLACK, getColor(t, f) = BLACK
  PROVE  RoundGoes(t, g, x, e, DoubleBlackRound(Going(t, e)))
<1>1. DoubleAt(t, g, x, e) /\ e # t.root /\ t.color[e] = DOUBLE_BLACK /\ ~Done(Going(t, e)) /\ c # Nil
  BY DEF RoundFrom
<1>2. p = t.parent[e] /\ s = SideOf(t, e) /\ c = t.kid[Other(s)][p]
  BY DEF RoundFrom, Around
<1>3. n = t.kid[s][c] /\ f = t.kid[Other(s)][c]
  BY DEF RoundFrom, Around
<1> DEFINE cp == IF t.color[p] = RED THEN BLACK ELSE DOUBLE_BLACK
           u == Colored(t, c, p, RED, cp)
<1>4. Charted(t, g) /\ e \in g.nodes /\ t \in Trees
  BY <1>1 DEF DoubleAt, Charted
<1>5. /\ p \in g.nodes /\ c \in g.nodes /\ c # p /\ s \in Sides /\ p \notin g.sub[e] /\ g.sub[e] \subseteq g.sub[p]
  BY <1>1, <1>2, <1>4, Siblings
<1>6. p \in Nodes /\ c \in Nodes /\ p # Nil
  BY <1>4, <1>5, MapTypes
<1>8. DoubleBlackRound(Going(t, e)) = Going(u, p)
  BY <1>1 DEF RoundFrom, RoundOf
<1>9. \A q \in Sides : getColor(t, t.kid[q][c]) # RED
  BY <1>3, <1>5, TwoSides, ThreeColors
<1>10. DoubleAt(u, g, x, p) /\ (Lean(t, g, x, e) => Lean(u, g, x, p))
  BY <1>1, <1>2, <1>9, DoubleUp
<1>11. u.data = t.data /\ u.root = t.root /\ u.color[p] = cp
  BY <1>4, <1>5, <1>6 DEF Trees, Colored
<1>12. Nearer(t, g, e, u, g, p)
  <2>1. CASE t.color[p] = RED
    <3>1. Done(Going(u, p))
      <4>1. getColor(u, p) # DOUBLE_BLACK
        BY <1>6, <1>11, <2>1, ThreeColors DEF getColor
      <4> HIDE DEF u
      <4> QED BY <4>1, LoopFields
    <3> QED BY <3>1 DEF Nearer
  <2>2. CASE t.color[p] # RED
    BY Zenon, <1>2, <1>5, <2>2 DEF Nearer
  <2> QED BY <2>1, <2>2
<1> HIDE DEF u
<1> QED BY <1>8, <1>10, <1>11, <1>12 DEF RoundGoes

\* The round that ends the loop, without and with the first rotation.
LEMMA RoundOuter ==
  ASSUME NEW t, NEW g, NEW x, NEW e, NEW p, NEW s, NEW c, NEW n, NEW f,
         RoundFrom(t, g, x, e, p, s, c, n, f), t.color[c] # RED, getColor(t, f) # BLACK
  PROVE  RoundGoes(t, g, x, e, DoubleBlackRound(Going(t, e)))
<1>1. DoubleAt(t, g, x, e) /\ e # t.root /\ t.color[e] = DOUBLE_BLACK /\ ~Done(Going(t, e)) /\ c # Nil
  BY DEF RoundFrom
<1>2. p = t.parent[e] /\ s = SideOf(t, e) /\ c = t.kid[Other(s)][p] /\ f = t.kid[Other(s)][c]
  BY Zenon DEF RoundFrom, Around
<1> DEFINE r == Rotate(Prepared(t, p, c, f), p, s)
           m == TurnedMap(Prepared(t, p, c, f), g, p, s)
<1>3. DoubleBlackRound(Going(t, e)) = Ended(r, e)
  BY <1>1 DEF RoundFrom, RoundOf
<1>4. f # Nil /\ t.color[f] # BLACK
  BY DEF getColor
<1>5. Charted(t, g) /\ NoRedRed(t, g, Nil) /\ e \in g.nodes /\ x \in g.sub[e] /\ x \in g.nodes /\ x # t.root
  BY <1>1 DEF DoubleAt
<1>6. TurnAt(t, g, x, e, p, s, c, f)
  <2>1. \A y \in g.nodes, q \in Sides :
          y # f /\ t.kid[q][y] # Nil /\ t.kid[q][y] # f /\ t.color[y] = RED => t.color[t.kid[q][y]] # RED
    BY <1>5 DEF NoRedRed
  <2> QED BY Zenon, <1>1, <1>2, <1>4, <1>5, <2>1 DEF TurnAt
<1>7. Charted(r, m) /\ m.nodes = g.nodes /\ r.data = t.data /\ x # r.root /\ NoRedRed(r, m, Nil)
  BY <1>6, FinalTurn
<1>8. Final(r, m, x)
  BY <1>5, <1>7 DEF Final
<1>9. ASSUME Lean(t, g, x, e) PROVE Freed(r, m, x)
  <2>1. f \in g.nodes /\ f \notin g.sub[e]
    BY <1>6, Turning
  <2>2. f \in Nodes
    BY <1>5, <2>1, MapTypes
  <2>3. t.color[f] \in Colors
    BY <1>5, <2>2 DEF Charted, Trees
  <2>4. t.color[f] # DOUBLE_BLACK
    BY <1>9, <2>1 DEF Lean
  <2>5. t.color[f] = RED
    BY <1>4, <2>3, <2>4, ThreeColors
  <2> QED BY <1>1, <1>6, <1>9, <2>5, FinalLevel DEF Freed
<1> HIDE DEF r, m
<1> QED BY <1>3, <1>5, <1>7, <1>8, <1>9 DEF RoundGoes

\* The round with a sibling that is not red and whose inner child alone is red.
LEMMA RoundInner ==
  ASSUME NEW t, NEW g, NEW x, NEW e, NEW p, NEW s, NEW c, NEW n, NEW f,
         RoundFrom(t, g, x, e, p, s, c, n, f), t.color[c] # RED, getColor(t, n) # BLACK, getColor(t, f) = BLACK
  PROVE  RoundGoes(t, g, x, e, DoubleBlackRound(Going(t, e)))
<1>1. DoubleAt(t, g, x, e) /\ e # t.root /\ t.color[e] = DOUBLE_BLACK /\ ~Done(Going(t, e)) /\ c # Nil
  BY DEF RoundFrom
<1>2. p = t.parent[e] /\ s = SideOf(t, e) /\ c = t.kid[Other(s)][p] /\ n = t.kid[s][c]
  BY Zenon DEF RoundFrom, Around
<1>3. n # Nil /\ t.color[n] # BLACK
  BY DEF getColor
<1>4. InnerAt(t, g, x, e, p, s, c, n)
  BY Zenon, <1>1, <1>2, <1>3 DEF InnerAt
<1> DEFINE v == Rotate(Colored(t, n, c, BLACK, RED), c, Other(s))
           a == v.kid[Other(s)][p]
           b == v.kid[Other(s)][a]
           k == TurnedMap(Colored(t, n, c, BLACK, RED), g, c, Other(s))
           r == Rotate(Prepared(v, p, a, b), p, s)
           m == TurnedMap(Prepared(v, p, a, b), k, p, s)
<1>5. DoubleBlackRound(Going(t, e)) = Ended(r, e)
  BY <1>1 DEF RoundFrom, RoundOf
<1>6. /\ TurnAt(v, k, x, e, p, s, n, c) /\ k.nodes = g.nodes /\ v.data = t.data
      /\ Lean(t, g, x, e) => /\ Lean(v, k, x, e) /\ v.color[e] = DOUBLE_BLACK
                             /\ v.color[c] = RED /\ v.color[n] # RED
  BY <1>4, InnerTurn
<1> HIDE DEF v, k
<1>7. a = n /\ b = c
  BY Zenon, <1>6 DEF TurnAt
<1> HIDE DEF a, b
<1>8. TurnAt(v, k, x, e, p, s, a, b)
  BY <1>6, <1>7
<1>9. Charted(r, m) /\ m.nodes = k.nodes /\ r.data = v.data /\ x # r.root /\ NoRedRed(r, m, Nil)
  BY <1>8, FinalTurn
<1>10. Final(r, m, x)
  <2>1. x \in g.nodes
    BY <1>1 DEF DoubleAt
  <2> QED BY <1>6, <1>9, <2>1 DEF Final
<1>11. ASSUME Lean(t, g, x, e) PROVE Freed(r, m, x)
  <2>1. Lean(v, k, x, e) /\ v.color[e] = DOUBLE_BLACK /\ v.color[b] = RED /\ v.color[a] # RED
    BY <1>6, <1>7, <1>11
  <2> QED BY <1>8, <2>1, FinalLevel DEF Freed
<1> HIDE DEF r, m
<1>12. e \in g.nodes
  BY <1>1 DEF DoubleAt
<1> QED BY <1>5, <1>6, <1>9, <1>10, <1>11, <1>12 DEF RoundGoes

\* Every round.
LEMMA RoundStep ==
  ASSUME NEW t, NEW g, NEW x, NEW e, DoubleAt(t, g, x, e), ~Done(Going(t, e))
  PROVE  RoundGoes(t, g, x, e, DoubleBlackRound(Going(t, e)))
<1> DEFINE p == t.parent[e]
           s == SideOf(t, e)
           c == t.kid[Other(s)][p]
           n == t.kid[s][c]
           f == t.kid[Other(s)][c]
           d == DoubleBlackRound(Going(t, e))
<1>1. Charted(t, g) /\ e \in g.nodes /\ e # Nil
  BY MapTypes DEF DoubleAt
<1>2. e # t.root /\ t.color[e] = DOUBLE_BLACK
  <2>1. e # t.root /\ getColor(t, e) = DOUBLE_BLACK
    BY LoopFields
  <2> QED BY <1>1, <2>1 DEF getColor
<1>3. s \in Sides
  BY <1>1, <1>2, Siblings
<1>4. Around(t, e, p, s, c, n, f)
  BY DEF Around
<1> HIDE DEF p, s, c, n, f
<1>5. RoundOf(t, e, p, s, c, n, f)
  BY <1>3, <1>4, RoundCases
<1>6. CASE c = Nil
  <2>1. ~Lean(t, g, x, e)
    <3>1. c = t.kid[Other(SideOf(t, e))][t.parent[e]]
      BY DEF c, s, p
    <3> QED BY <1>2, <1>6, <3>1, LeanSibling
  <2>2. d = Going(t, e)
    BY <1>5, <1>6 DEF RoundOf
  <2> HIDE DEF d
  <2>3. g.nodes = g.nodes /\ t.data = t.data /\ d = Going(t, e) /\ DoubleAt(t, g, x, e)
    BY <2>2
  <2>4. RoundGoes(t, g, x, e, d)
    BY <2>1, <2>3 DEF RoundGoes
  <2> QED BY <2>4 DEF d
<1>7. CASE c # Nil
  <2>1. RoundFrom(t, g, x, e, p, s, c, n, f)
    BY <1>2, <1>4, <1>5, <1>7 DEF RoundFrom
  <2> HIDE DEF d
  <2>2. t.color[c] = RED => RoundGoes(t, g, x, e, DoubleBlackRound(Going(t, e)))
    BY <2>1, RoundRed
  <2>3. t.color[c] # RED /\ getColor(t, n) = BLACK /\ getColor(t, f) = BLACK
          => RoundGoes(t, g, x, e, DoubleBlackRound(Going(t, e)))
    BY <2>1, RoundUp
  <2>4. t.color[c] # RED /\ getColor(t, f) # BLACK => RoundGoes(t, g, x, e, DoubleBlackRound(Going(t, e)))
    BY <2>1, RoundOuter
  <2>5. t.color[c] # RED /\ getColor(t, n) # BLACK /\ getColor(t, f) = BLACK
          => RoundGoes(t, g, x, e, DoubleBlackRound(Going(t, e)))
    BY <2>1, RoundInner
  <2> QED BY <2>2, <2>3, <2>4, <2>5, Zenon
<1> QED BY <1>6, <1>7

\* The loop has come to its end: no black node is missing.
LEMMA LeanAtEnd ==
  ASSUME NEW t, NEW g, NEW x, NEW e, DoubleAt(t, g, x, e), Lean(t, g, x, e), Done(Going(t, e))
  PROVE  Freed(t, g, x)
<1> DEFINE w == DWeights(t, x, e)
           v == DWeights(t, x, Nil)
<1>1. Charted(t, g) /\ e \in g.nodes /\ e # Nil /\ x # t.root /\ g.nodes \subseteq Nodes
  BY MapTypes DEF DoubleAt
<1>2. e = t.root \/ t.color[e] # DOUBLE_BLACK
  BY <1>1, LoopFields DEF getColor
<1>3. \A y \in g.nodes : y # t.root => v[y] = w[y]
  <2> SUFFICES ASSUME NEW y \in g.nodes, y # t.root PROVE v[y] = w[y]
    OBVIOUS
  <2>1. y \in Nodes /\ y # Nil
    BY <1>1, MapTypes
  <2>2. ~(y = e /\ t.color[y] = DOUBLE_BLACK)
    BY <1>2
  <2> QED BY <2>1, <2>2 DEF DWeights
<1>4. v \in [Nodes -> Int]
  BY DEF DWeights
<1>5. t.root # Nil => v[t.root] >= 0
  <2>1. t.root # Nil => t.root \in Nodes
    BY <1>1 DEF Charted, Rooted
  <2>2. \A y \in Nodes : v[y] = 0 \/ v[y] = 1 \/ v[y] = 2
    BY DEF DWeights
  <2> HIDE DEF v
  <2> QED BY <2>1, <2>2
<1> HIDE DEF v
<1>6. PICK h : Level(t, g, h, w)
  BY DEF Lean
<1> HIDE DEF w
<1>7. \E k : Level(t, g, k, v)
  BY <1>1, <1>3, <1>4, <1>5, <1>6, RootLevel
<1>8. Leaf(t, x)
  BY DEF Lean
<1> QED BY <1>7, <1>8 DEF Freed, v

\* A state of the loop that began with the tree t, its map g and the node x.
InLoop(c, m, t, g, x) ==
  /\ m.nodes = g.nodes /\ c.tree.data = t.data
  /\ \E u, k :
       \/ c = Going(u, k) /\ DoubleAt(u, m, x, k) /\ (Lean(t, g, x, x) => Lean(u, m, x, k))
       \/ c = Ended(u, k) /\ k \in m.nodes /\ Final(u, m, x) /\ (Lean(t, g, x, x) => Freed(u, m, x))

\* It is as far as it must be after i rounds.
Far(c, m, i) ==
  \/ Done(c) \/ Cardinality(m.sub[c.ptr]) >= i + 1
  \/ c.tree.color[c.tree.parent[c.ptr]] = RED /\ i + 1 <= MaxNodes

\* A round of the loop keeps what the loop relies on, and gets further.
LEMMA LoopStep ==
  ASSUME NEW t, NEW g, NEW x, NEW c, NEW m, InLoop(c, m, t, g, x),
         NEW i \in Nat, Lean(t, g, x, x) => Far(c, m, i)
  PROVE  \E n : InLoop(DoubleBlackRound(c), n, t, g, x) /\ (Lean(t, g, x, x) => Far(DoubleBlackRound(c), n, i + 1))
<1> DEFINE d == DoubleBlackRound(c)
<1>1. CASE Done(c)
  <2>1. d = c
    BY Zenon, <1>1 DEF DoubleBlackRound
  <2>2. Far(c, m, i + 1)
    BY <1>1 DEF Far
  <2> QED BY <2>1, <2>2
<1>2. CASE ~Done(c)
  <2>1. PICK u, k : c = Going(u, k) /\ DoubleAt(u, m, x, k) /\ (Lean(t, g, x, x) => Lean(u, m, x, k))
    BY <1>2, LoopFields DEF InLoop
  <2>2. RoundGoes(u, m, x, k, d)
    BY <1>2, <2>1, RoundStep
  <2> HIDE DEF d
  <2>3. c.tree = u /\ c.ptr = k
    BY <2>1, LoopFields
  <2>4. m.nodes = g.nodes /\ u.data = t.data
    BY <2>3 DEF InLoop
  <2>5. PICK r, n, z :
          /\ n.nodes = m.nodes /\ r.data = u.data
          /\ \/ d = Going(r, z) /\ DoubleAt(r, n, x, z) /\ (Lean(u, m, x, k) => Lean(r, n, x, z) /\ Nearer(u, m, k, r, n, z))
             \/ d = Ended(r, z) /\ z \in n.nodes /\ Final(r, n, x) /\ (Lean(u, m, x, k) => Freed(r, n, x))
    BY <2>2 DEF RoundGoes
  <2>6. d.tree = r /\ d.ptr = z
    BY <2>5, LoopFields
  <2>7. InLoop(d, n, t, g, x)
    BY <2>1, <2>4, <2>5, <2>6 DEF InLoop
  <2>8. ASSUME Lean(t, g, x, x) PROVE Far(d, n, i + 1)
    <3>1. CASE d = Ended(r, z)
      BY <3>1, LoopFields DEF Far
    <3>2. CASE d = Going(r, z) /\ DoubleAt(r, n, x, z) /\ Nearer(u, m, k, r, n, z)
      <4>1. CASE Done(Going(r, z))
        BY <3>2, <4>1 DEF Far
      <4>2. CASE /\ u.color[u.parent[k]] # RED
                 /\ \/ m.sub[k] \subseteq n.sub[z] /\ z \notin m.sub[k]
                    \/ z = k /\ n.sub[z] = m.sub[k] /\ r.color[r.parent[z]] = RED
        <5>1. Cardinality(m.sub[k]) >= i + 1
          BY <1>2, <2>3, <2>8, <4>2 DEF Far
        <5>2. Charted(u, m) /\ k \in m.nodes
          BY <2>1 DEF DoubleAt
        <5>3. m.sub[k] \in SUBSET Nodes
          BY <5>2, MapTypes
        <5>4. CASE m.sub[k] \subseteq n.sub[z] /\ z \notin m.sub[k]
          <6>1. Charted(r, n) /\ z \in n.nodes
            BY <3>2 DEF DoubleAt
          <6>2. n.sub[z] \in SUBSET Nodes /\ z \in n.sub[z] /\ m.sub[k] \in SUBSET n.sub[z]
            BY <5>4, <6>1, MapTypes
          <6>3. /\ Cardinality(m.sub[k]) \in Nat /\ Cardinality(n.sub[z]) \in Nat
                /\ Cardinality(m.sub[k]) < Cardinality(n.sub[z])
            BY <5>4, <6>2, SmallerSet
          <6>4. Cardinality(n.sub[z]) >= (i + 1) + 1
            BY <5>1, <6>3
          <6> QED BY <2>6, <6>4 DEF Far
        <5>5. CASE z = k /\ n.sub[z] = m.sub[k] /\ r.color[r.parent[z]] = RED
          <6>1. u.parent[k] \in Nodes /\ u.parent[k] \notin m.sub[k]
            <7>1. k # u.root
              BY <1>2, <2>1, LoopFields
            <7>2. u.parent[k] \in m.nodes /\ u.parent[k] \notin m.sub[k]
              BY <5>2, <7>1, Siblings
            <7> QED BY <5>2, <7>2, MapTypes
          <6>2. Nodes \in SUBSET Nodes /\ m.sub[k] \in SUBSET Nodes
            BY <5>3
          <6>3. Cardinality(m.sub[k]) < Cardinality(Nodes) /\ Cardinality(m.sub[k]) \in Nat
            BY <6>1, <6>2, SmallerSet
          <6>4. Cardinality(Nodes) = MaxNodes /\ MaxNodes \in Nat
            BY NodesAreFinite
          <6>5. (i + 1) + 1 <= MaxNodes
            BY <5>1, <6>3, <6>4
          <6> QED BY <2>6, <5>5, <6>5 DEF Far
        <5> QED BY <4>2, <5>4, <5>5
      <4> QED BY <3>2, <4>1, <4>2 DEF Nearer
    <3> QED BY <2>1, <2>5, <2>8, <3>1, <3>2
  <2> QED BY <2>7, <2>8 DEF d
<1> QED BY <1>1, <1>2

\* The loop keeps the nodes, and it comes to its end if x was lean.
LEMMA FixDoubleBlackEnds ==
  ASSUME NEW o, NEW x, NEW t, t = [o EXCEPT !.color[x] = DOUBLE_BLACK], NEW g, DoubleAt(t, g, x, x)
  PROVE  \E m : LET c == FixDoubleBlack(o, x)
                IN  /\ Final(c.tree, m, x) /\ m.nodes = g.nodes /\ c.tree.data = t.data
                    /\ Lean(t, g, x, x) => Done(c) /\ Freed(c.tree, m, x)
<1> DEFINE V == {c \in [tree : Trees, ptr : Nodes, over : BOOLEAN] : \E m : InLoop(c, m, t, g, x)}
           F == [c \in V |-> DoubleBlackRound(c)]
           a == [tree |-> t, ptr |-> x, over |-> FALSE]
           after == CHOOSE f : f = [i \in 0..MaxNodes |->
                      IF i = 0 THEN [tree |-> [o EXCEPT !.color[x] = DOUBLE_BLACK], ptr |-> x, over |-> FALSE]
                      ELSE DoubleBlackRound(f[i - 1])]
           Holds(c, i) == \E m : InLoop(c, m, t, g, x) /\ (Lean(t, g, x, x) => Far(c, m, i))
<1>1. MaxNodes \in Nat
  BY NodesAreFinite
<1>2. ASSUME NEW c, NEW m, InLoop(c, m, t, g, x) PROVE c \in V
  <2>1. PICK u, k :
          \/ c = Going(u, k) /\ DoubleAt(u, m, x, k)
          \/ c = Ended(u, k) /\ k \in m.nodes /\ Final(u, m, x)
    BY <1>2 DEF InLoop
  <2>2. Charted(u, m) /\ k \in m.nodes
    BY <2>1 DEF DoubleAt, Final
  <2>3. u \in Trees /\ k \in Nodes
    BY <2>2, MapTypes DEF Charted
  <2>4. c \in [tree : Trees, ptr : Nodes, over : BOOLEAN]
    <3> DEFINE no == FALSE
               yes == TRUE
    <3>1. no \in BOOLEAN /\ yes \in BOOLEAN
      OBVIOUS
    <3>2. Going(u, k) = [tree |-> u, ptr |-> k, over |-> no]
      BY DEF Going
    <3>3. Ended(u, k) = [tree |-> u, ptr |-> k, over |-> yes]
      BY DEF Ended
    <3> HIDE DEF no, yes
    <3>4. [tree |-> u, ptr |-> k, over |-> no] \in [tree : Trees, ptr : Nodes, over : BOOLEAN]
      BY <2>3, <3>1
    <3>5. [tree |-> u, ptr |-> k, over |-> yes] \in [tree : Trees, ptr : Nodes, over : BOOLEAN]
      BY <2>3, <3>1
    <3> QED BY <2>1, <3>2, <3>3, <3>4, <3>5
  <2> QED BY <1>2, <2>4
<1>3. Holds(a, 0)
  <2>1. a = Going(t, x)
    BY DEF Going
  <2> HIDE DEF a
  <2>2. a.tree = t /\ a.ptr = x
    BY <2>1, LoopFields
  <2>3. InLoop(a, g, t, g, x)
    BY <2>1, <2>2 DEF InLoop
  <2>4. Charted(t, g) /\ x \in g.nodes
    BY DEF DoubleAt
  <2>5. g.sub[x] \in SUBSET Nodes /\ x \in g.sub[x]
    BY <2>4, MapTypes
  <2>6. Cardinality(g.sub[x]) > 0 /\ Cardinality(g.sub[x]) \in Nat
    BY <2>5, SmallerSet
  <2>7. Cardinality(g.sub[x]) >= 0 + 1
    BY <2>6
  <2>8. Far(a, g, 0)
    BY <2>2, <2>7 DEF Far
  <2> QED BY <2>3, <2>8
<1>4. a \in V
  <2> HIDE DEF V, a
  <2> QED BY <1>2, <1>3
<1>5. ASSUME NEW c \in V, NEW i \in Nat, Holds(c, i)
      PROVE  DoubleBlackRound(c) \in V /\ Holds(DoubleBlackRound(c), i + 1)
  <2>1. Holds(DoubleBlackRound(c), i + 1)
    <3>1. PICK m : InLoop(c, m, t, g, x) /\ (Lean(t, g, x, x) => Far(c, m, i))
      BY <1>5
    <3> QED BY <3>1, LoopStep
  <2> HIDE DEF V
  <2> QED BY <1>2, <2>1
<1>6. \A c \in V : DoubleBlackRound(c) \in V
  <2> SUFFICES ASSUME NEW c \in V PROVE DoubleBlackRound(c) \in V
    OBVIOUS
  <2>1. PICK m : InLoop(c, m, t, g, x)
    OBVIOUS
  <2>2. Far(c, m, 0)
    <3>1. CASE Done(c)
      BY <3>1 DEF Far
    <3>2. CASE ~Done(c)
      <4>1. PICK u, k : c = Going(u, k) /\ DoubleAt(u, m, x, k)
        BY <2>1, <3>2, LoopFields DEF InLoop
      <4>2. Charted(u, m) /\ k \in m.nodes /\ c.ptr = k
        BY <4>1, LoopFields DEF DoubleAt
      <4>3. m.sub[k] \in SUBSET Nodes /\ k \in m.sub[k]
        BY <4>2, MapTypes
      <4>4. Cardinality(m.sub[k]) > 0 /\ Cardinality(m.sub[k]) \in Nat
        BY <4>3, SmallerSet
      <4>5. Cardinality(m.sub[c.ptr]) >= 0 + 1
        BY <4>2, <4>4
      <4> QED BY <4>5 DEF Far
    <3> QED BY <3>1, <3>2
  <2>3. Holds(c, 0)
    BY <2>1, <2>2
  <2> HIDE DEF V, Holds
  <2> QED BY <1>5, <2>3
<1>7. F \in [V -> V]
  <2> HIDE DEF V
  <2> QED BY <1>6
<1> HIDE DEF V, Holds, a
<1>8. after \in [0..MaxNodes -> V] /\ after = [i \in 0..MaxNodes |-> IF i = 0 THEN a ELSE DoubleBlackRound(after[i - 1])]
  <2>1. PICK f : f \in Rounds(MaxNodes, V, a, F)
    <3> HIDE DEF F
    <3> QED BY <1>1, <1>4, <1>7, Iteration
  <2>2. f = [i \in 0..MaxNodes |-> IF i = 0 THEN a ELSE F[f[i - 1]]] /\ f \in [0..MaxNodes -> V]
    BY <2>1 DEF Rounds
  <2>3. \A i \in 0..MaxNodes : i # 0 => i - 1 \in 0..MaxNodes
    BY <1>1
  <2>4. \A i \in 0..MaxNodes : i # 0 => F[f[i - 1]] = DoubleBlackRound(f[i - 1])
    BY <2>2, <2>3
  <2>5. f = [i \in 0..MaxNodes |-> IF i = 0 THEN a ELSE DoubleBlackRound(f[i - 1])]
    <3> HIDE DEF F
    <3> QED BY <2>2, <2>4
  <2>6. after = [i \in 0..MaxNodes |-> IF i = 0 THEN a ELSE DoubleBlackRound(after[i - 1])]
    BY <2>5 DEF a
  <2> HIDE DEF after
  <2>7. after[0] = a
    BY <1>1, <2>6
  <2>8. ASSUME NEW i \in 0..(MaxNodes - 1), after[i] \in V PROVE after[i + 1] \in V
    <3>1. i + 1 \in 0..MaxNodes /\ i + 1 # 0 /\ (i + 1) - 1 = i
      BY <1>1
    <3>2. after[i + 1] = DoubleBlackRound(after[i])
      BY <2>6, <3>1
    <3> QED BY <1>6, <2>8, <3>2
  <2> DEFINE T == {i \in 0..MaxNodes : after[i] \in V}
  <2>9. 0 \in T /\ \A i \in 0..(MaxNodes - 1) : i \in T => i + 1 \in T
    BY <1>1, <1>4, <2>7, <2>8
  <2>10. \A i \in 0..MaxNodes : i \in T
    <3> HIDE DEF T
    <3> QED BY <1>1, <2>9, UpTo
  <2>11. \A i \in 0..MaxNodes : after[i] \in V
    BY <2>10
  <2> HIDE DEF T
  <2> QED BY <2>6, <2>11
<1>9. FixDoubleBlack(o, x) = after[MaxNodes]
  BY DEF FixDoubleBlack
<1> HIDE DEF after
<1>10. Holds(after[MaxNodes], MaxNodes)
  <2> DEFINE T == {i \in 0..MaxNodes : Holds(after[i], i)}
  <2>1. 0 \in T
    <3>1. after[0] = a
      BY <1>1, <1>8
    <3> QED BY <1>1, <1>3, <3>1
  <2>2. ASSUME NEW i \in 0..(MaxNodes - 1), i \in T PROVE i + 1 \in T
    <3>1. i + 1 \in 0..MaxNodes /\ i + 1 # 0 /\ (i + 1) - 1 = i /\ i \in Nat /\ i \in 0..MaxNodes
      BY <1>1
    <3>2. after[i + 1] = DoubleBlackRound(after[i]) /\ after[i] \in V
      BY <1>8, <3>1
    <3>3. Holds(after[i + 1], i + 1)
      BY <1>5, <2>2, <3>1, <3>2
    <3> QED BY <3>1, <3>3
  <2>3. MaxNodes \in T
    <3>1. MaxNodes \in 0..MaxNodes
      BY <1>1
    <3> HIDE DEF T
    <3> QED BY <1>1, <2>1, <2>2, <3>1, UpTo
  <2> QED BY <2>3
<1> DEFINE z == after[MaxNodes]
<1> HIDE DEF z
<1>11. PICK m : InLoop(z, m, t, g, x) /\ (Lean(t, g, x, x) => Far(z, m, MaxNodes))
  BY <1>10 DEF Holds, z
<1>12. PICK u, k :
         \/ z = Going(u, k) /\ DoubleAt(u, m, x, k) /\ (Lean(t, g, x, x) => Lean(u, m, x, k))
         \/ z = Ended(u, k) /\ k \in m.nodes /\ Final(u, m, x) /\ (Lean(t, g, x, x) => Freed(u, m, x))
  BY <1>11 DEF InLoop
<1>13. z.tree = u /\ z.ptr = k /\ m.nodes = g.nodes /\ u.data = t.data
  BY <1>11, <1>12, LoopFields DEF InLoop
<1>14. Final(u, m, x)
  BY <1>12 DEF DoubleAt, Final
<1>15. ASSUME Lean(t, g, x, x) PROVE Done(z) /\ Freed(u, m, x)
  <2>1. Done(z)
    <3>1. m.sub[k] \in SUBSET Nodes
      <4>1. Charted(u, m) /\ k \in m.nodes
        BY <1>12 DEF DoubleAt, Final
      <4> QED BY <4>1, MapTypes
    <3>2. Cardinality(m.sub[k]) \in Nat /\ Cardinality(m.sub[k]) <= MaxNodes
      BY <3>1, SmallerSet
    <3>3. ~(Cardinality(m.sub[k]) >= MaxNodes + 1) /\ ~(MaxNodes + 1 <= MaxNodes)
      BY <1>1, <3>2
    <3> QED BY <1>11, <1>13, <1>15, <3>3 DEF Far
  <2>2. Freed(u, m, x)
    BY <1>12, <1>15, <2>1, LeanAtEnd
  <2> QED BY <2>1, <2>2
<1> QED BY <1>9, <1>13, <1>14, <1>15 DEF z

-----------------------------------------------------------------------------
(***************************************************************************)
(* fixDeleteRBTree.                                                        *)
(***************************************************************************)

\* A tree that has lost its root is as good as new.
EmptyMap == [nodes |-> {}, pos |-> [y \in Nodes |-> 0], sub |-> [y \in Nodes |-> {y}]]

\* The empty tree is sound and even.
LEMMA EmptySound ==
  Sound(EmptyTree, EmptyMap) /\ Even(EmptyTree, EmptyMap) /\ EmptyTree.color \in [Nodes -> {RED}]
<1>1. /\ EmptyTree \in Trees /\ EmptyTree.root = Nil /\ EmptyTree.color = [y \in Nodes |-> RED]
      /\ \A y \in Nodes : EmptyTree.parent[y] = Nil /\ \A s \in Sides : EmptyTree.kid[s][y] = Nil
  BY NilIsNoNode, ThreeColors DEF EmptyTree, Trees
<1>2. EmptyMap \in Maps /\ EmptyMap.nodes = {}
  BY DEF EmptyMap, Maps
<1>3. Charted(EmptyTree, EmptyMap)
  <2>1. Placed(EmptyTree, EmptyMap) /\ Joined(EmptyTree, EmptyMap) /\ Rooted(EmptyTree, EmptyMap)
    BY <1>1, <1>2 DEF Placed, Joined, Rooted
  <2>2. Apart(EmptyMap) /\ Closed(EmptyTree, EmptyMap) /\ Topped(EmptyTree, EmptyMap) /\ Tight(EmptyMap)
    BY <1>2 DEF Apart, Closed, Topped, Tight
  <2>3. Vacancies(EmptyTree, EmptyMap) /\ Sorted(EmptyTree, EmptyMap)
    BY <1>1, <1>2 DEF Vacancies, Vacant, Sorted
  <2> QED BY <1>1, <1>2, <2>1, <2>2, <2>3 DEF Charted
<1>4. Sound(EmptyTree, EmptyMap)
  BY <1>1, <1>2, <1>3 DEF Sound, NoRedRed
<1>5. Level(EmptyTree, EmptyMap, [y \in Nodes |-> 0], Weights(EmptyTree))
  BY <1>2 DEF Level, Weights
<1> QED BY <1>1, <1>2, <1>4, <1>5 DEF Even

\* The child slot of a node changes, and the parent of the new child.
LEMMA ReplaceFields ==
  ASSUME NEW t, NEW g, Charted(t, g), NEW x \in g.nodes, x # t.root, NEW c \in Pointers
  PROVE  LET v == Replace(t, x, c)
         IN  v \in Trees /\ v.root = t.root /\ v.data = t.data /\ v.color = t.color
<1> DEFINE v  == Replace(t, x, c)
           up == t.parent[x]
           kid0 == [t.kid EXCEPT ![SideOf(t, x)][up] = c]
           parent0 == Put(t.parent, c, up)
<1>1. t \in Trees
  BY DEF Charted
<1>2. up \in Nodes /\ SideOf(t, x) \in Sides
  BY Parents, MapTypes
<1>3. kid0 \in [Sides -> [Nodes -> Pointers]]
  BY <1>1, <1>2 DEF Trees
<1>4. parent0 \in [Nodes -> Pointers]
  BY <1>1, <1>2, NilIsNoNode DEF Trees, Put
<1>5. v = [t EXCEPT !.kid = kid0, !.parent = parent0]
  BY <1>1 DEF Replace, Trees
<1> HIDE DEF kid0, parent0, v
<1>6. v \in Trees /\ v.root = t.root /\ v.data = t.data /\ v.color = t.color
  BY <1>1, <1>3, <1>4, <1>5 DEF Trees
<1> QED BY <1>6 DEF v

\* The child of the node cut off, and whether there is one.
OnlyChild(t, x) == IF t.kid["left"][x] # Nil THEN t.kid["left"][x] ELSE t.kid["right"][x]

\* The tree with the node cut off, before and after its child is black.
CutOff(t, x)  == Free(Replace(t, x, OnlyChild(t, x)), x)
CutNow(t, x)  == Free(setColor(Replace(t, x, OnlyChild(t, x)), OnlyChild(t, x), BLACK), x)

\* A node with a child at most.
LEMMA OneChild ==
  ASSUME NEW t, NEW g, Charted(t, g), NEW x \in g.nodes, \E s \in Sides : t.kid[s][x] = Nil
  PROVE  LET c == OnlyChild(t, x)
         IN  /\ c = Nil => Leaf(t, x)
             /\ c # Nil => /\ c \in g.nodes /\ c # x /\ c # t.root
                           /\ \E s \in Sides : c = t.kid[s][x] /\ t.kid[Other(s)][x] = Nil
             /\ \E s \in Sides : c = t.kid[s][x]
             /\ \A s \in Sides : t.kid[s][x] = c \/ t.kid[s][x] = Nil
<1> DEFINE c == OnlyChild(t, x)
<1>1. CASE t.kid["left"][x] # Nil
  <2>1. c = t.kid["left"][x] /\ t.kid["right"][x] = Nil
    BY <1>1 DEF OnlyChild, Sides
  <2>2. t.kid["left"][x] \in g.nodes /\ t.kid["left"][x] # x /\ t.kid["left"][x] # t.root
    BY <1>1, TwoSides, Children
  <2> HIDE DEF c
  <2>3. \A s \in Sides : t.kid[s][x] = c \/ t.kid[s][x] = Nil
    BY <2>1 DEF Sides
  <2> QED BY <1>1, <2>1, <2>2, <2>3, TwoSides DEF c
<1>2. CASE t.kid["left"][x] = Nil
  <2>1. c = t.kid["right"][x]
    BY <1>2 DEF OnlyChild
  <2>2. c # Nil => t.kid["right"][x] \in g.nodes /\ t.kid["right"][x] # x /\ t.kid["right"][x] # t.root
    BY <2>1, TwoSides, Children
  <2> HIDE DEF c
  <2>3. \A s \in Sides : t.kid[s][x] = c \/ t.kid[s][x] = Nil
    BY <1>2, <2>1 DEF Sides
  <2>4. c = Nil => Leaf(t, x)
    BY <2>3 DEF Leaf
  <2> QED BY <1>2, <2>1, <2>2, <2>3, <2>4, TwoSides DEF c
<1> QED BY <1>1, <1>2

\* The links of the tree with the node cut off and its child black.
LEMMA CutNowFields ==
  ASSUME NEW t, NEW g, Charted(t, g), NEW x \in g.nodes, x # t.root, \E s \in Sides : t.kid[s][x] = Nil
  PROVE  LET c == OnlyChild(t, x)
             u == CutNow(t, x)
             m == CutMap(g, x, c)
         IN  /\ Charted(u, m) /\ u.root = t.root
             /\ m.nodes = g.nodes \ (g.sub[x] \ Part(g, c)) /\ x \notin m.nodes /\ (c # Nil => c \in m.nodes)
             /\ \A y \in m.nodes : u.color[y] = IF y = c THEN BLACK ELSE t.color[y]
             /\ \A y \in m.nodes, s \in Sides : u.kid[s][y] = IF t.kid[s][y] = x THEN c ELSE t.kid[s][y]
<1> DEFINE c == OnlyChild(t, x)
           v == Free(Replace(t, x, c), x)
           u == CutNow(t, x)
           m == CutMap(g, x, c)
           r == Replace(t, x, c)
           q == setColor(r, c, BLACK)
<1>1. c = Nil \/ \E s \in Sides : c = t.kid[s][x]
  <2>1. \E s \in Sides : OnlyChild(t, x) = t.kid[s][x]
    <3> HIDE DEF c, v, u, m, r, q
    <3> QED BY OneChild
  <2> QED BY <2>1
<1>2. c \in Pointers /\ c # x /\ (c # Nil => c \in g.nodes)
  <2>1. x # Nil
    BY MapTypes
  <2>2. c # Nil => c \in g.nodes /\ c # x
    BY OneChild
  <2> HIDE DEF c
  <2> QED BY <2>1, <2>2, MapTypes, NilIsNoNode
<1> HIDE DEF c
<1>3. r \in Trees /\ r.root = t.root /\ r.data = t.data /\ r.color = t.color
  BY <1>2, ReplaceFields
<1>4. /\ q \in Trees /\ q.root = r.root /\ q.data = r.data /\ q.parent = r.parent /\ q.kid = r.kid
      /\ \A y \in Nodes : q.color[y] = IF y = c THEN BLACK ELSE r.color[y]
  <2> HIDE DEF r
  <2> QED BY <1>2, <1>3, ThreeColors, ColorFields
<1>5. /\ v \in Trees /\ v.root = t.root
      /\ \A y \in g.nodes, s \in Sides : y # x => v.kid[s][y] = IF t.kid[s][y] = x THEN c ELSE t.kid[s][y]
  BY <1>1, CutFields
<1>6. /\ Charted(v, m) /\ m.nodes = g.nodes \ (g.sub[x] \ Part(g, c)) /\ x \notin m.nodes
      /\ c # Nil => c \in m.nodes
  BY <1>1, CutCharted
<1>7. u = Free(q, x) /\ v = Free(r, x)
  BY DEF CutNow, c
<1> HIDE DEF m, u, v, q, r
<1>8. x \in Nodes
  BY MapTypes
<1>9. /\ u \in Trees /\ u.root = q.root
      /\ u.data[x] = 0 /\ u.color[x] = RED /\ u.parent[x] = Nil /\ \A s \in Sides : u.kid[s][x] = Nil
      /\ \A y \in Nodes : y # x => /\ u.data[y] = q.data[y] /\ u.color[y] = q.color[y] /\ u.parent[y] = q.parent[y]
                                  /\ \A s \in Sides : u.kid[s][y] = q.kid[s][y]
  BY <1>4, <1>7, <1>8, FreeFields
<1>10. /\ v.root = r.root
       /\ v.data[x] = 0 /\ v.color[x] = RED /\ v.parent[x] = Nil /\ \A s \in Sides : v.kid[s][x] = Nil
       /\ \A y \in Nodes : y # x => /\ v.data[y] = r.data[y] /\ v.color[y] = r.color[y] /\ v.parent[y] = r.parent[y]
                                   /\ \A s \in Sides : v.kid[s][y] = r.kid[s][y]
  BY <1>3, <1>7, <1>8, FreeFields
<1>11. u.root = v.root /\ u.data = v.data /\ u.parent = v.parent
  <2>1. \A y \in Nodes : u.data[y] = v.data[y] /\ u.parent[y] = v.parent[y]
    BY <1>4, <1>9, <1>10
  <2>2. /\ u.data \in [Nodes -> Nat] /\ v.data \in [Nodes -> Nat]
        /\ u.parent \in [Nodes -> Pointers] /\ v.parent \in [Nodes -> Pointers]
    BY <1>5, <1>9 DEF Trees
  <2> QED BY <1>4, <1>9, <1>10, <2>1, <2>2
<1>12. u.kid = v.kid
  <2>1. \A s \in Sides : \A y \in Nodes : u.kid[s][y] = v.kid[s][y]
    BY <1>4, <1>9, <1>10
  <2>2. u.kid \in [Sides -> [Nodes -> Pointers]] /\ v.kid \in [Sides -> [Nodes -> Pointers]]
    BY <1>5, <1>9 DEF Trees
  <2>3. \A s \in Sides : u.kid[s] = v.kid[s]
    BY <2>1, <2>2
  <2> QED BY <2>2, <2>3
<1>13. \A y \in Nodes : y # x => u.color[y] = IF y = c THEN BLACK ELSE t.color[y]
  BY <1>3, <1>4, <1>9
<1>14. \A y \in Nodes \ m.nodes : u.color[y] = v.color[y]
  <2> SUFFICES ASSUME NEW y \in Nodes, y \notin m.nodes PROVE u.color[y] = v.color[y]
    OBVIOUS
  <2>1. CASE y = x
    BY <2>1, <1>9, <1>10
  <2>2. CASE y # x
    <3>1. y # c
      BY <1>6, NilIsNoNode
    <3> QED BY <2>2, <3>1, <1>3, <1>10, <1>13
  <2> QED BY <2>1, <2>2
<1>15. Charted(u, m)
  BY <1>6, <1>9, <1>11, <1>12, <1>14, Repaint
<1>16. m.nodes \subseteq g.nodes /\ m.nodes \subseteq Nodes
  BY <1>6, MapTypes
<1>17. \A y \in m.nodes : u.color[y] = IF y = c THEN BLACK ELSE t.color[y]
  BY <1>6, <1>13, <1>16
<1>18. \A y \in m.nodes, s \in Sides : u.kid[s][y] = IF t.kid[s][y] = x THEN c ELSE t.kid[s][y]
  BY <1>5, <1>6, <1>12, <1>16
<1> QED BY <1>5, <1>6, <1>11, <1>15, <1>17, <1>18 DEF u, m, c

\* A node that is cut off at once leaves a sound tree.
LEMMA CutNowSound ==
  ASSUME NEW t, NEW g, Sound(t, g), NEW x \in g.nodes, x # t.root, \E s \in Sides : t.kid[s][x] = Nil
  PROVE  Sound(CutNow(t, x), CutMap(g, x, OnlyChild(t, x)))
<1> DEFINE c == OnlyChild(t, x)
           u == CutNow(t, x)
           m == CutMap(g, x, c)
<1>1. Charted(t, g) /\ NoRedRed(t, g, Nil) /\ (t.root # Nil => t.color[t.root] = BLACK)
  BY DEF Sound
<1>2. /\ Charted(u, m) /\ u.root = t.root
      /\ m.nodes = g.nodes \ (g.sub[x] \ Part(g, c))
      /\ \A y \in m.nodes : u.color[y] = IF y = c THEN BLACK ELSE t.color[y]
      /\ \A y \in m.nodes, s \in Sides : u.kid[s][y] = IF t.kid[s][y] = x THEN c ELSE t.kid[s][y]
  BY <1>1, CutNowFields
<1>3. c # Nil => c # t.root
  BY <1>1, OneChild
<1> HIDE DEF c, u, m
<1>4. ASSUME NEW y \in m.nodes, NEW s \in Sides, u.kid[s][y] # Nil, u.color[y] = RED
      PROVE  u.color[u.kid[s][y]] # RED
  <2>1. u.kid[s][y] \in m.nodes
    BY <1>2, <1>4, Children
  <2>2. CASE u.kid[s][y] = c
    <3>1. u.color[u.kid[s][y]] = BLACK
      BY <1>2, <2>1, <2>2
    <3> QED BY <3>1, ThreeColors
  <2>3. CASE u.kid[s][y] # c
    <3>1. u.kid[s][y] = t.kid[s][y]
      BY <1>2, <1>4, <2>3
    <3>2. t.color[y] = RED
      BY <1>2, <1>4, ThreeColors
    <3>3. y \in g.nodes
      BY <1>2
    <3>4. t.color[t.kid[s][y]] # RED
      BY <1>1, <1>4, <3>1, <3>2, <3>3 DEF NoRedRed
    <3>5. u.color[u.kid[s][y]] = t.color[u.kid[s][y]]
      BY <1>2, <2>1, <2>3
    <3> QED BY <3>1, <3>4, <3>5
  <2> QED BY <2>2, <2>3
<1>5. NoRedRed(u, m, Nil)
  BY <1>4 DEF NoRedRed
<1>6. u.root # Nil => u.color[u.root] = BLACK
  <2> SUFFICES ASSUME u.root # Nil PROVE u.color[u.root] = BLACK
    OBVIOUS
  <2>1. u.root \in m.nodes
    BY <1>2 DEF Charted, Rooted
  <2> QED BY <1>1, <1>2, <2>1
<1> QED BY <1>2, <1>5, <1>6 DEF Sound, u, m, c

\* The heights of an even tree around a node with a child at most.
LEMMA ThinNode ==
  ASSUME NEW t, NEW g, Charted(t, g), NEW x \in g.nodes, \E s \in Sides : t.kid[s][x] = Nil,
         NEW h, Level(t, g, h, Weights(t))
  PROVE  /\ h[x] = Weights(t)[x] /\ (t.color[x] = RED => h[x] = 0) /\ (t.color[x] # RED => h[x] = 1)
         /\ \A s \in Sides : t.kid[s][x] # Nil =>
              /\ t.color[t.kid[s][x]] = RED /\ h[t.kid[s][x]] = 0
              /\ \A q \in Sides : Height(h, t.kid[q][t.kid[s][x]]) = 0
<1>1. h \in [Nodes -> Nat] /\ \A y \in g.nodes, s \in Sides : h[y] = Height(h, t.kid[s][y]) + Weights(t)[y]
  BY DEF Level
<1>2. \A y \in g.nodes : y \in Nodes /\ h[y] \in Nat /\ Weights(t)[y] = IF t.color[y] = RED THEN 0 ELSE 1
  BY <1>1, MapTypes DEF Weights
<1>3. h[x] = Weights(t)[x]
  <2>1. PICK s \in Sides : t.kid[s][x] = Nil
    OBVIOUS
  <2>2. h[x] = Height(h, t.kid[s][x]) + Weights(t)[x] /\ Height(h, t.kid[s][x]) = 0
    BY <1>1, <2>1 DEF Height
  <2> QED BY <1>2, <2>2
<1>4. ASSUME NEW s \in Sides, t.kid[s][x] # Nil
      PROVE  /\ t.color[t.kid[s][x]] = RED /\ h[t.kid[s][x]] = 0
             /\ \A q \in Sides : Height(h, t.kid[q][t.kid[s][x]]) = 0
  <2> DEFINE k == t.kid[s][x]
  <2>1. k \in g.nodes
    BY <1>4, Children
  <2>2. h[x] = Height(h, k) + Weights(t)[x] /\ Height(h, k) = h[k]
    BY <1>1, <1>4 DEF Height
  <2> HIDE DEF k
  <2>3. h[k] = 0
    <3>1. h[k] \in Nat /\ Weights(t)[x] \in Int
      BY <1>2, <2>1
    <3> QED BY <1>3, <2>2, <3>1
  <2>4. \A q \in Sides : 0 = Height(h, t.kid[q][k]) + Weights(t)[k]
    BY <1>1, <2>1, <2>3
  <2>5. \A q \in Sides : Height(h, t.kid[q][k]) \in Nat
    <3> SUFFICES ASSUME NEW q \in Sides PROVE Height(h, t.kid[q][k]) \in Nat
      OBVIOUS
    <3>1. t.kid[q][k] # Nil => t.kid[q][k] \in g.nodes
      BY <2>1, Children
    <3> QED BY <1>2, <3>1 DEF Height
  <2>6. Weights(t)[k] = IF t.color[k] = RED THEN 0 ELSE 1
    BY <1>2, <2>1
  <2>7. \A q \in Sides : Weights(t)[k] = 0 /\ Height(h, t.kid[q][k]) = 0
    BY <2>4, <2>5, <2>6
  <2>8. t.color[k] = RED
    BY <2>6, <2>7, TwoSides
  <2> QED BY <2>3, <2>7, <2>8 DEF k
<1> QED BY <1>2, <1>3, <1>4

\* If it was cut off at once for a good reason, no black node is missing.
LEMMA CutNowEven ==
  ASSUME NEW t, NEW g, Sound(t, g), Even(t, g), NEW x \in g.nodes, x # t.root,
         \E s \in Sides : t.kid[s][x] = Nil, CutsAtOnce(t, x)
  PROVE  Even(CutNow(t, x), CutMap(g, x, OnlyChild(t, x)))
<1> DEFINE c == OnlyChild(t, x)
           u == CutNow(t, x)
           m == CutMap(g, x, c)
<1>1. Charted(t, g) /\ NoRedRed(t, g, Nil)
  BY DEF Sound
<1>2. /\ Charted(u, m)
      /\ m.nodes = g.nodes \ (g.sub[x] \ Part(g, c)) /\ x \notin m.nodes /\ (c # Nil => c \in m.nodes)
      /\ \A y \in m.nodes : u.color[y] = IF y = c THEN BLACK ELSE t.color[y]
      /\ \A y \in m.nodes, s \in Sides : u.kid[s][y] = IF t.kid[s][y] = x THEN c ELSE t.kid[s][y]
  BY <1>1, CutNowFields
<1>3. /\ c # Nil => /\ c \in g.nodes /\ c # x
                    /\ \E s \in Sides : c = t.kid[s][x]
      /\ \A s \in Sides : t.kid[s][x] = c \/ t.kid[s][x] = Nil
  BY <1>1, OneChild
<1>4. PICK h : Level(t, g, h, Weights(t))
  BY DEF Even
<1>5. /\ t.color[x] = RED => h[x] = 0
      /\ t.color[x] # RED => h[x] = 1
      /\ \A s \in Sides : t.kid[s][x] # Nil =>
           /\ t.color[t.kid[s][x]] = RED /\ h[t.kid[s][x]] = 0
           /\ \A q \in Sides : Height(h, t.kid[q][t.kid[s][x]]) = 0
  BY <1>1, <1>4, ThinNode
<1>6. h \in [Nodes -> Nat] /\ \A y \in g.nodes, s \in Sides : h[y] = Height(h, t.kid[s][y]) + Weights(t)[y]
  BY <1>4 DEF Level
<1> HIDE DEF c, u, m
<1>7. \A y \in m.nodes : y \in g.nodes /\ y \in Nodes /\ y # x
  BY <1>1, <1>2, MapTypes
<1>8. \A y \in m.nodes : u.color[y] # DOUBLE_BLACK
  BY <1>2, <1>7, ThreeColors DEF Even
<1>9. \A y \in m.nodes : y # c => Weights(u)[y] = Weights(t)[y]
  BY <1>2, <1>7 DEF Weights
<1>10. Weights(u) \in [Nodes -> Int]
  BY DEF Weights
<1>11. c = Nil => Level(u, m, h, Weights(u))
  <2> SUFFICES ASSUME c = Nil, NEW y \in m.nodes, NEW s \in Sides
               PROVE  h[y] = Height(h, u.kid[s][y]) + Weights(u)[y]
    BY <1>6, <1>10 DEF Level
  <2>1. h[x] = 0
    <3>1. \A q \in Sides : t.kid[q][x] = Nil
      BY <1>3
    <3>2. getColor(t, x) = RED
      <4>1. \E z \in {x} \cup {t.kid[q][x] : q \in Sides} : getColor(t, z) = RED
        BY DEF CutsAtOnce
      <4>2. getColor(t, Nil) # RED
        BY ThreeColors DEF getColor
      <4> QED BY <3>1, <4>1, <4>2
    <3>3. x # Nil
      BY <1>1, MapTypes
    <3> QED BY <1>5, <3>2, <3>3 DEF getColor
  <2>2. Weights(u)[y] = Weights(t)[y] /\ y \in g.nodes /\ y # c
    BY <1>1, <1>7, <1>9, MapTypes
  <2>3. h[y] = Height(h, t.kid[s][y]) + Weights(t)[y]
    BY <1>6, <2>2
  <2>4. Height(h, u.kid[s][y]) = Height(h, t.kid[s][y])
    BY <1>2, <2>1 DEF Height
  <2> QED BY <2>2, <2>3, <2>4
<1>12. ASSUME c # Nil PROVE \E k : Level(u, m, k, Weights(u))
  <2> DEFINE k == [h EXCEPT ![c] = 1]
  <2>1. PICK o \in Sides : c = t.kid[o][x]
    BY <1>3, <1>12
  <2>2. c \in g.nodes /\ c \in m.nodes /\ c \in Nodes /\ c # x
    BY <1>2, <1>3, <1>7, <1>12
  <2>3. t.color[c] = RED /\ h[c] = 0 /\ \A q \in Sides : Height(h, t.kid[q][c]) = 0
    BY <1>5, <1>12, <2>1
  <2>4. h[x] = 1
    <3>1. t.color[x] # RED
      BY <1>1, <1>12, <2>1, <2>3 DEF NoRedRed
    <3> QED BY <1>5, <3>1
  <2>5. k \in [Nodes -> Nat] /\ k[c] = 1 /\ \A y \in Nodes : y # c => k[y] = h[y]
    BY <1>6, <2>2
  <2> HIDE DEF k
  <2>6. \A y \in g.nodes, q \in Sides : t.kid[q][y] = c => y = x
    BY <1>1, <1>12, <2>1, Children
  <2>7. ASSUME NEW y \in m.nodes, NEW s \in Sides
        PROVE  k[y] = Height(k, u.kid[s][y]) + Weights(u)[y]
    <3>1. y \in g.nodes /\ y \in Nodes /\ y # x
      BY <1>7
    <3>2. t.kid[s][y] # c
      BY <2>6, <3>1
    <3>3. t.kid[s][y] # Nil => t.kid[s][y] \in Nodes
      <4>1. t.kid[s][y] # Nil => t.kid[s][y] \in g.nodes
        BY <1>1, <3>1, Children
      <4> QED BY <1>1, <4>1, MapTypes
    <3>4. Height(k, u.kid[s][y]) = Height(h, t.kid[s][y])
      <4>1. CASE t.kid[s][y] = x
        <5>1. u.kid[s][y] = c /\ x # Nil
          BY <1>1, <1>2, <4>1, MapTypes
        <5> QED BY <1>12, <2>4, <2>5, <4>1, <5>1 DEF Height
      <4>2. CASE t.kid[s][y] # x
        <5>1. u.kid[s][y] = t.kid[s][y]
          BY <1>2, <4>2
        <5> QED BY <2>5, <3>2, <3>3, <5>1 DEF Height
      <4> QED BY <4>1, <4>2
    <3>5. CASE y # c
      <4>1. h[y] = Height(h, t.kid[s][y]) + Weights(t)[y]
        BY <1>6, <3>1
      <4> QED BY <1>9, <2>5, <3>1, <3>4, <3>5, <4>1
    <3>6. CASE y = c
      <4>1. Height(h, t.kid[s][y]) = 0
        BY <2>3, <3>6
      <4>2. Weights(u)[y] = 1
        <5>1. u.color[y] = BLACK
          BY <1>2, <3>6
        <5> QED BY <3>1, <5>1, ThreeColors DEF Weights
      <4> QED BY <2>5, <3>4, <3>6, <4>1, <4>2
    <3> QED BY <3>5, <3>6
  <2>8. Level(u, m, k, Weights(u))
    BY <1>10, <2>5, <2>7 DEF Level
  <2> QED BY <2>8
<1>13. Even(u, m)
  BY <1>8, <1>11, <1>12 DEF Even
<1> QED BY <1>13 DEF u, m, c

\* After the loop, the victim is cut off and the root becomes black.
LEMMA CutAfterSound ==
  ASSUME NEW f, NEW m, NEW x, Final(f, m, x)
  PROVE  LET v == Free(Replace(f, x, Nil), x)
             u == setColor(v, v.root, BLACK)
             n == CutMap(m, x, Nil)
         IN  /\ Sound(u, n)
             /\ Freed(f, m, x) /\ (\A y \in n.nodes : u.color[y] # DOUBLE_BLACK) => Even(u, n)
<1> DEFINE v == Free(Replace(f, x, Nil), x)
           u == setColor(v, v.root, BLACK)
           n == CutMap(m, x, Nil)
<1>1. Charted(f, m) /\ NoRedRed(f, m, Nil) /\ x \in m.nodes /\ x # f.root
  BY DEF Final
<1>2. /\ v \in Trees /\ v.root = f.root
      /\ \A y \in Nodes : y # x => v.color[y] = f.color[y]
      /\ \A y \in m.nodes, s \in Sides : y # x => v.kid[s][y] = IF f.kid[s][y] = x THEN Nil ELSE f.kid[s][y]
  BY <1>1, CutFields
<1>3. Charted(v, n) /\ n.nodes = m.nodes \ (m.sub[x] \ Part(m, Nil)) /\ x \notin n.nodes
  BY <1>1, CutCharted
<1> HIDE DEF v, n
<1>4. \A y \in n.nodes : y \in m.nodes /\ y \in Nodes /\ y # x
  BY <1>1, <1>3, MapTypes
<1>5. \A y \in n.nodes : v.color[y] = f.color[y]
  BY <1>2, <1>4
<1>6. \A y \in n.nodes, s \in Sides : v.kid[s][y] = IF f.kid[s][y] = x THEN Nil ELSE f.kid[s][y]
  BY <1>2, <1>4
<1>7. NoRedRed(v, n, Nil)
  <2> SUFFICES ASSUME NEW y \in n.nodes, NEW s \in Sides, v.kid[s][y] # Nil, v.color[y] = RED
               PROVE  v.color[v.kid[s][y]] # RED
    BY DEF NoRedRed
  <2>1. v.kid[s][y] = f.kid[s][y]
    BY <1>6
  <2>2. v.kid[s][y] \in n.nodes
    BY <1>3, Children
  <2>3. f.color[f.kid[s][y]] # RED
    BY <1>1, <1>4, <1>5, <2>1 DEF NoRedRed
  <2> QED BY <1>5, <2>1, <2>2, <2>3
<1>8. Sound(u, n)
  <2>1. Nil = Nil
    OBVIOUS
  <2> HIDE DEF u
  <2>2. Sound(setColor(v, v.root, BLACK), n)
    BY <1>3, <1>7, BlackRoot
  <2> QED BY <2>2 DEF u
<1>9. /\ u.root = v.root /\ u.kid = v.kid
      /\ \A y \in Nodes : u.color[y] = IF y = v.root THEN BLACK ELSE v.color[y]
  <2>1. v.root \in Pointers
    BY <1>2 DEF Trees
  <2> QED BY <1>2, <2>1, ThreeColors, ColorFields
<1> HIDE DEF u
<1>10. ASSUME Freed(f, m, x), \A y \in n.nodes : u.color[y] # DOUBLE_BLACK
       PROVE  Even(u, n)
  <2>1. Leaf(f, x)
    BY <1>10 DEF Freed
  <2>2. PICK h : Level(f, m, h, DWeights(f, x, Nil))
    BY <1>10 DEF Freed
  <2> DEFINE w == DWeights(f, x, Nil)
  <2>3. w \in [Nodes -> Int] /\ h \in [Nodes -> Nat]
    BY <2>2 DEF Level
  <2>4. \A y \in m.nodes, s \in Sides : h[y] = Height(h, f.kid[s][y]) + w[y]
    BY <2>2 DEF Level
  <2>5. x \in Nodes /\ x # Nil /\ \A y \in Nodes : y # Nil
    BY <1>1, MapTypes, NilIsNoNode
  <2>6. w[x] = 0
    BY <2>5 DEF DWeights
  <2>7. \A y \in Nodes : y # x => w[y] = IF f.color[y] = RED THEN 0 ELSE 1
    BY <2>5 DEF DWeights
  <2> HIDE DEF w
  <2>8. h[x] = 0
    <3>1. f.kid["left"][x] = Nil
      BY <2>1, TwoSides DEF Leaf
    <3>2. h[x] = Height(h, Nil) + 0
      BY <1>1, <2>4, <2>6, <3>1, TwoSides
    <3> QED BY <3>2 DEF Height
  <2>9. Level(v, n, h, w)
    <3> SUFFICES ASSUME NEW y \in n.nodes, NEW s \in Sides
                 PROVE  h[y] = Height(h, v.kid[s][y]) + w[y]
      BY <2>3 DEF Level
    <3>1. h[y] = Height(h, f.kid[s][y]) + w[y]
      BY <1>4, <2>4
    <3>2. Height(h, v.kid[s][y]) = Height(h, f.kid[s][y])
      BY <1>6, <2>5, <2>8 DEF Height
    <3> QED BY <3>1, <3>2
  <2>10. Weights(u) \in [Nodes -> Int] /\ \A y \in Nodes : Weights(u)[y] = IF u.color[y] = RED THEN 0 ELSE 1
    BY DEF Weights
  <2>11. v.root # Nil => Weights(u)[v.root] >= 0
    <3>1. v.root # Nil => v.root \in Nodes
      BY <1>2, NilIsNoNode DEF Trees, Pointers
    <3> QED BY <2>10, <3>1
  <2>12. \A y \in n.nodes : y # v.root => Weights(u)[y] = w[y]
    BY <1>4, <1>5, <1>9, <2>7, <2>10
  <2>13. PICK k : Level(v, n, k, Weights(u))
    <3>1. Weights(u) \in [Nodes -> Int]
      BY <2>10
    <3> QED BY <1>3, <2>9, <2>11, <2>12, <3>1, RootLevel
  <2>14. Level(u, n, k, Weights(u))
    BY <1>9, <2>13 DEF Level
  <2> QED BY <1>10, <2>14 DEF Even
<1> QED BY <1>8, <1>10 DEF v, u, n

\* Before the loop: the victim is black, and so is its child if it has one.
LEMMA LoopStarts ==
  ASSUME NEW t, NEW g, Sound(t, g), NEW x \in g.nodes, \E s \in Sides : t.kid[s][x] = Nil, ~CutsAtOnce(t, x),
         NEW u, u = [t EXCEPT !.color[x] = DOUBLE_BLACK]
  PROVE  /\ DoubleAt(u, g, x, x)
         /\ Even(t, g) => Lean(u, g, x, x)
<1>1. Charted(t, g) /\ NoRedRed(t, g, Nil)
  BY DEF Sound
<1>2. x \in Nodes /\ x # Nil /\ x \in g.sub[x] /\ t \in Trees
  BY <1>1, MapTypes DEF Charted
<1>3. x # t.root /\ t.color[x] # RED /\ \A s \in Sides : t.kid[s][x] # Nil => t.color[t.kid[s][x]] # RED
  BY <1>2 DEF CutsAtOnce, getColor
<1>4. IsPainted(t, u, g, x, DOUBLE_BLACK)
  <2>1. u = setColor(t, x, DOUBLE_BLACK)
    BY <1>2 DEF setColor, Put
  <2> QED BY <1>1, <2>1, ThreeColors, PaintedCharted
<1>5. /\ Charted(u, g) /\ u.root = t.root /\ u.kid = t.kid
      /\ \A z \in g.nodes : u.color[z] = IF z = x THEN DOUBLE_BLACK ELSE t.color[z]
  BY <1>4 DEF IsPainted
<1>6. NoRedRed(u, g, Nil)
  <2> SUFFICES ASSUME NEW y \in g.nodes, NEW s \in Sides, u.kid[s][y] # Nil, u.color[y] = RED
               PROVE  u.color[u.kid[s][y]] # RED
    BY DEF NoRedRed
  <2>1. t.color[y] = RED
    BY <1>5, ThreeColors
  <2>2. t.kid[s][y] # Nil /\ u.kid[s][y] = t.kid[s][y]
    BY <1>5
  <2>3. t.kid[s][y] \in g.nodes
    BY <1>1, <2>2, Children
  <2>4. t.color[t.kid[s][y]] # RED
    BY <1>1, <2>1, <2>2 DEF NoRedRed
  <2> QED BY <1>5, <2>2, <2>3, <2>4, ThreeColors
<1>7. DoubleAt(u, g, x, x)
  BY <1>2, <1>3, <1>5, <1>6 DEF DoubleAt
<1>8. ASSUME Even(t, g) PROVE Lean(u, g, x, x)
  <2>1. PICK h : Level(t, g, h, Weights(t))
    BY <1>8 DEF Even
  <2>2. Leaf(u, x)
    <3>1. \A s \in Sides : t.kid[s][x] # Nil => t.color[t.kid[s][x]] = RED
      BY <1>1, <2>1, ThinNode
    <3>2. \A s \in Sides : u.kid[s][x] = Nil
      BY <1>3, <1>5, <3>1
    <3> QED BY <3>2 DEF Leaf
  <2>3. \A y \in g.nodes : u.color[y] = DOUBLE_BLACK => y \in g.sub[x]
    BY <1>2, <1>5, <1>8 DEF Even
  <2>4. DWeights(u, x, x) \in [Nodes -> Int]
    BY DEF DWeights
  <2>5. \A y \in g.nodes : DWeights(u, x, x)[y] = Weights(t)[y]
    <3> SUFFICES ASSUME NEW y \in g.nodes PROVE DWeights(u, x, x)[y] = Weights(t)[y]
      OBVIOUS
    <3>1. y \in Nodes
      BY <1>1, MapTypes
    <3>2. CASE y = x
      <4>1. DWeights(u, x, x)[y] = 1
        BY <1>5, <3>1, <3>2 DEF DWeights
      <4>2. Weights(t)[y] = 1
        BY <1>3, <3>1, <3>2 DEF Weights
      <4> QED BY <4>1, <4>2
    <3>3. CASE y # x
      <4>1. DWeights(u, x, x)[y] = IF u.color[y] = RED THEN 0 ELSE 1
        BY <3>1, <3>3 DEF DWeights
      <4>2. Weights(t)[y] = IF t.color[y] = RED THEN 0 ELSE 1
        BY <3>1 DEF Weights
      <4> QED BY <1>5, <3>3, <4>1, <4>2
    <3> QED BY <3>2, <3>3
  <2>6. Level(u, g, h, DWeights(u, x, x))
    <3>1. h \in [Nodes -> Nat] /\ \A y \in g.nodes, s \in Sides : h[y] = Height(h, t.kid[s][y]) + Weights(t)[y]
      BY <2>1 DEF Level
    <3>2. \A y \in g.nodes, s \in Sides : h[y] = Height(h, u.kid[s][y]) + DWeights(u, x, x)[y]
      BY <1>5, <2>5, <3>1
    <3> QED BY <2>4, <3>1, <3>2 DEF Level
  <2>7. u.color[x] = DOUBLE_BLACK
    BY <1>5
  <2> QED BY <2>2, <2>3, <2>6, <2>7 DEF Lean
<1> QED BY <1>7, <1>8

\* fixDeleteRBTree keeps the tree sound, though it may lose nodes with the root;
\* it also keeps an even tree even, unless it leaves a node doubly black.  In
\* an even tree it follows no null pointer.
LEMMA FixDeleteSound ==
  ASSUME NEW t, NEW g, Sound(t, g), NEW x \in g.nodes, \E s \in Sides : t.kid[s][x] = Nil
  PROVE  /\ \E m : LET u == fixDeleteRBTree(t, x)
                   IN  /\ Sound(u, m)
                       /\ Even(t, g) /\ (\A y \in Nodes : u.color[y] # DOUBLE_BLACK) => Even(u, m)
         /\ Even(t, g) => EraseEnds(t, x)
<1> DEFINE u == fixDeleteRBTree(t, x)
<1>1. Charted(t, g)
  BY DEF Sound
<1>2. CASE x = t.root
  <2>1. u = EmptyTree
    BY <1>2 DEF fixDeleteRBTree
  <2>2. EraseEnds(t, x)
    BY <1>2 DEF EraseEnds, CutsAtOnce
  <2> QED BY <2>1, <2>2, EmptySound
<1>3. CASE x # t.root /\ CutsAtOnce(t, x)
  <2>1. u = CutNow(t, x)
    BY <1>3 DEF fixDeleteRBTree, CutNow, OnlyChild
  <2>2. Sound(CutNow(t, x), CutMap(g, x, OnlyChild(t, x)))
    BY <1>3, CutNowSound
  <2>3. Even(t, g) => Even(CutNow(t, x), CutMap(g, x, OnlyChild(t, x)))
    BY <1>3, CutNowEven
  <2>4. EraseEnds(t, x)
    BY <1>3 DEF EraseEnds
  <2> HIDE DEF u
  <2>5. /\ Sound(u, CutMap(g, x, OnlyChild(t, x)))
        /\ Even(t, g) => Even(u, CutMap(g, x, OnlyChild(t, x)))
    BY <2>1, <2>2, <2>3
  <2>6. \E m : /\ Sound(u, m)
               /\ Even(t, g) /\ (\A y \in Nodes : u.color[y] # DOUBLE_BLACK) => Even(u, m)
    BY <2>5
  <2> QED BY <2>4, <2>6 DEF u
<1>4. CASE x # t.root /\ ~CutsAtOnce(t, x)
  <2> DEFINE d == [t EXCEPT !.color[x] = DOUBLE_BLACK]
             l == FixDoubleBlack(t, x)
             v == Free(Replace(l.tree, x, Nil), x)
  <2>1. u = setColor(v, v.root, BLACK)
    BY <1>4 DEF fixDeleteRBTree
  <2>2. DoubleAt(d, g, x, x) /\ (Even(t, g) => Lean(d, g, x, x))
    <3>1. d = [t EXCEPT !.color[x] = DOUBLE_BLACK]
      OBVIOUS
    <3> HIDE DEF d
    <3> QED BY <1>4, <3>1, LoopStarts
  <2>3. PICK m : /\ Final(l.tree, m, x)
                 /\ Lean(d, g, x, x) => Done(l) /\ Freed(l.tree, m, x)
    <3>1. d = [t EXCEPT !.color[x] = DOUBLE_BLACK]
      OBVIOUS
    <3> HIDE DEF d
    <3> QED BY <2>2, <3>1, FixDoubleBlackEnds
  <2>4. Even(t, g) => EraseEnds(t, x)
    BY <2>2, <2>3 DEF EraseEnds
  <2> HIDE DEF l, d
  <2> DEFINE n == CutMap(m, x, Nil)
  <2>5. /\ Sound(u, n)
        /\ Freed(l.tree, m, x) /\ (\A y \in n.nodes : u.color[y] # DOUBLE_BLACK) => Even(u, n)
    <3> HIDE DEF u, n
    <3> USE DEF n
    <3> QED BY <2>1, <2>3, CutAfterSound
  <2> HIDE DEF u, v, n
  <2>6. n.nodes \subseteq Nodes
    BY <2>5, MapTypes DEF Sound
  <2>7. Even(t, g) /\ (\A y \in Nodes : u.color[y] # DOUBLE_BLACK) => Even(u, n)
    BY <2>2, <2>3, <2>5, <2>6
  <2>8. \E k : /\ Sound(u, k)
               /\ Even(t, g) /\ (\A y \in Nodes : u.color[y] # DOUBLE_BLACK) => Even(u, k)
    BY <2>5, <2>7
  <2> QED BY <2>4, <2>8 DEF u
<1> QED BY <1>2, <1>3, <1>4

-----------------------------------------------------------------------------
(***************************************************************************)
(* deleteBST.                                                              *)
(***************************************************************************)

\* u has the shape and the colors of t.
SameShape(t, u) == u.root = t.root /\ u.color = t.color /\ u.parent = t.parent /\ u.kid = t.kid

Uncounted(t, x) == [t EXCEPT !.count[x] = t.count[x] - 1]

\* A node counts one less.
LEMMA UncountedFields ==
  ASSUME NEW t \in Trees, NEW x \in Nodes
  PROVE  LET u == Uncounted(t, x) IN u \in Trees /\ SameShape(t, u) /\ u.data = t.data
<1> DEFINE count == [t.count EXCEPT ![x] = t.count[x] - 1]
           u     == Uncounted(t, x)
<1>1. count \in [Nodes -> Int]
  BY DEF Trees
<1>2. u = [t EXCEPT !.count = count]
  BY DEF Uncounted
<1> HIDE DEF count, u
<1>3. u \in Trees /\ SameShape(t, u) /\ u.data = t.data
  BY <1>1, <1>2 DEF Trees, SameShape
<1> QED BY <1>3 DEF u

\* And its data change.
LEMMA RewrittenFields ==
  ASSUME NEW t \in Trees, NEW x \in Nodes, NEW v \in Nat
  PROVE  LET u == [Uncounted(t, x) EXCEPT !.data[x] = v]
         IN  /\ u \in Trees /\ SameShape(t, u)
             /\ \A y \in Nodes : u.data[y] = IF y = x THEN v ELSE t.data[y]
<1> DEFINE w    == Uncounted(t, x)
           data == [t.data EXCEPT ![x] = v]
           u    == [w EXCEPT !.data[x] = v]
<1>1. w \in Trees /\ SameShape(t, w) /\ w.data = t.data
  BY UncountedFields
<1> HIDE DEF w
<1>2. u = [w EXCEPT !.data = data]
  BY <1>1
<1>3. data \in [Nodes -> Nat] /\ \A y \in Nodes : data[y] = IF y = x THEN v ELSE t.data[y]
  BY DEF Trees
<1> HIDE DEF data, u
<1>4. u \in Trees /\ SameShape(t, u) /\ u.data = data
  BY <1>1, <1>2, <1>3 DEF Trees, SameShape
<1> QED BY <1>3, <1>4 DEF u, w

\* Data k parts the nodes of t before node x from those after it.
Parts(t, g, x, k) ==
  /\ k \in Nat /\ k # 0
  /\ \A y \in g.nodes : /\ g.pos[y] < g.pos[x] => t.data[y] <= k
                        /\ g.pos[x] < g.pos[y] => k <= t.data[y]

\* The next data after a node is that of the first node to its right.
LEMMA NextData ==
  ASSUME NEW t, NEW g, Charted(t, g), NEW x \in g.nodes, t.kid["right"][x] # Nil
  PROVE  LET n == Extreme(t, t.kid["right"][x], "left") IN n \in g.nodes /\ Parts(t, g, x, t.data[n])
<1> DEFINE r == t.kid["right"][x]
           n == Extreme(t, r, "left")
<1>0. n = Extreme(t, r, "left")
  OBVIOUS
<1> HIDE DEF n
<1>1. r \in g.nodes /\ \A z \in g.sub[r] : On("right", g.pos[z], g.pos[x])
  BY TwoSides, Children
<1>2. n \in g.sub[r] /\ n \in g.nodes /\ \A z \in g.sub[r] : z = n \/ On("left", g.pos[n], g.pos[z])
  <2> HIDE DEF r
  <2> QED BY <1>0, <1>1, TwoSides, ExtremeNode
<1>3. g.sub[r] \subseteq g.sub[x] /\ x \in g.sub[x]
  BY TwoSides, Children, MapTypes
<1>4. \A z \in g.sub[x] : z = x \/ z \in g.sub[r] \/ g.pos[z] < g.pos[x]
  <2>1. SubSplit(t, g, x) /\ KidPlaced(t, g, x, "left")
    BY TwoSides DEF Charted, Placed
  <2> SUFFICES ASSUME NEW z \in g.sub[x] PROVE z = x \/ z \in g.sub[r] \/ g.pos[z] < g.pos[x]
    OBVIOUS
  <2>2. z = x \/ \E s \in Sides : z \in Part(g, t.kid[s][x])
    BY <2>1 DEF SubSplit
  <2>3. z \in Part(g, t.kid["left"][x]) => g.pos[z] < g.pos[x]
    BY <2>1 DEF KidPlaced, On
  <2>4. z \in Part(g, t.kid["right"][x]) => z \in g.sub[r]
    BY DEF Part
  <2> HIDE DEF r
  <2> QED BY <2>2, <2>3, <2>4 DEF Sides
<1> HIDE DEF r
<1>5. g.pos[x] < g.pos[n] /\ g.pos[x] \in Int /\ g.pos[n] \in Int
  BY <1>1, <1>2, MapTypes DEF On
<1>6. \A y, z \in g.nodes : g.pos[y] < g.pos[z] => t.data[y] <= t.data[z]
  BY DEF Charted, Sorted
<1>7. t.data[n] \in Nat /\ t.data[n] # 0
  BY <1>2, MapTypes
<1>8. ASSUME NEW y \in g.nodes, g.pos[y] < g.pos[x] PROVE t.data[y] <= t.data[n]
  <2>1. g.pos[y] \in Int
    BY MapTypes
  <2>2. g.pos[y] < g.pos[n]
    BY <1>5, <1>8, <2>1
  <2> QED BY <1>2, <1>6, <2>2
<1>9. ASSUME NEW y \in g.nodes, g.pos[x] < g.pos[y] PROVE t.data[n] <= t.data[y]
  <2>1. g.pos[y] \in Int
    BY MapTypes
  <2>2. CASE g.pos[n] < g.pos[y]
    BY <1>2, <1>6, <2>2
  <2>3. CASE g.pos[n] = g.pos[y]
    <3>1. y = n
      BY <1>2, <2>3 DEF Charted, Apart
    <3> QED BY <1>7, <3>1
  <2>4. CASE g.pos[y] < g.pos[n]
    <3>1. n \in g.sub[x] /\ x \in g.sub[x]
      BY <1>2, <1>3
    <3>2. y \in g.sub[x]
      BY <1>9, <2>4, <3>1 DEF Charted, Tight
    <3>3. y # x /\ ~(g.pos[y] < g.pos[x])
      BY <1>5, <1>9, <2>1
    <3>4. y \in g.sub[r]
      BY <1>4, <3>2, <3>3
    <3>5. y = n \/ g.pos[n] < g.pos[y]
      BY <1>2, <3>4 DEF On
    <3> QED BY <1>5, <2>1, <2>4, <3>5
  <2> QED BY <1>5, <2>1, <2>2, <2>3, <2>4
<1>10. Parts(t, g, x, t.data[n])
  BY <1>7, <1>8, <1>9 DEF Parts
<1> QED BY <1>2, <1>10 DEF n, r

\* A state of the deletion of d from t: where it goes on, the data that it looks
\* for are those of a node outside, too, unless they are d.
Deleting(c, t, g, d) ==
  /\ c \in [tree : Trees, at : Pointers, data : Nat, node : Pointers]
  /\ SameShape(t, c.tree) /\ Charted(c.tree, g)
  /\ c.at # Nil => /\ c.at \in g.nodes
                   /\ c.data = d \/ \E z \in g.nodes : z \notin g.sub[c.at] /\ c.tree.data[z] = c.data
  /\ c.node # Nil => c.node \in g.nodes /\ \E s \in Sides : t.kid[s][c.node] = Nil
  /\ \A p \in DataOf(t, g) : p # d => p \in DataOf(c.tree, g)

\* The states that a call may leave.
StateOf(u, x, v, n) == [tree |-> u, at |-> x, data |-> v, node |-> n]

WentTo(c, y)          == [c EXCEPT !.at = y]
Returned(c, w, y)     == [c EXCEPT !.tree = w, !.at = y]
Found(c, w, y, k)     == [c EXCEPT !.tree = w, !.at = y, !.node = k]
Rewritten(c, w, y, z) == [c EXCEPT !.tree = w, !.at = y, !.data = z]

\* What a state has.
LEMMA StateFields ==
  ASSUME NEW u, NEW x, NEW v, NEW n
  PROVE  /\ StateOf(u, x, v, n).tree = u /\ StateOf(u, x, v, n).at = x
         /\ StateOf(u, x, v, n).data = v /\ StateOf(u, x, v, n).node = n
BY DEF StateOf

\* What the changes make of it.
LEMMA StateChange ==
  ASSUME NEW u, NEW x, NEW v, NEW n, NEW w, NEW y, NEW z, NEW k
  PROVE  LET c == StateOf(u, x, v, n)
         IN  /\ WentTo(c, y) = StateOf(u, y, v, n) /\ Returned(c, w, y) = StateOf(w, y, v, n)
             /\ Found(c, w, y, k) = StateOf(w, y, v, k) /\ Rewritten(c, w, y, z) = StateOf(w, y, z, n)
<1> DEFINE c == StateOf(u, x, v, n)
           a == [c EXCEPT !.tree = w]
           b == [a EXCEPT !.at = y]
<1>1. [c EXCEPT !.at = y] = StateOf(u, y, v, n)
  BY DEF StateOf
<1>2. a = StateOf(w, x, v, n)
  BY DEF StateOf
<1>3. b = StateOf(w, y, v, n)
  <2> HIDE DEF a
  <2> QED BY <1>2 DEF StateOf
<1>4. [c EXCEPT !.tree = w, !.at = y] = StateOf(w, y, v, n)
  <2>1. [c EXCEPT !.tree = w, !.at = y] = [[c EXCEPT !.tree = w] EXCEPT !.at = y]
    OBVIOUS
  <2> QED BY <1>3, <2>1
<1>5. [c EXCEPT !.tree = w, !.at = y, !.node = k] = StateOf(w, y, v, k)
  <2>1. [c EXCEPT !.tree = w, !.at = y, !.node = k] = [b EXCEPT !.node = k]
    OBVIOUS
  <2> HIDE DEF a, b
  <2> QED BY <1>3, <2>1 DEF StateOf
<1>6. [c EXCEPT !.tree = w, !.at = y, !.data = z] = StateOf(w, y, z, n)
  <2>1. [c EXCEPT !.tree = w, !.at = y, !.data = z] = [b EXCEPT !.data = z]
    OBVIOUS
  <2> HIDE DEF a, b
  <2> QED BY <1>3, <2>1 DEF StateOf
<1> HIDE DEF c, a, b
<1>7. WentTo(c, y) = StateOf(u, y, v, n) /\ Returned(c, w, y) = StateOf(w, y, v, n)
  BY <1>1, <1>4 DEF WentTo, Returned
<1>8. Found(c, w, y, k) = StateOf(w, y, v, k) /\ Rewritten(c, w, y, z) = StateOf(w, y, z, n)
  BY <1>5, <1>6 DEF Found, Rewritten
<1> QED BY <1>7, <1>8 DEF c

\* The shape of a tree does not change on the way.
LEMMA SameShapeKeeps ==
  ASSUME NEW t, NEW v, SameShape(t, v), NEW u, SameShape(v, u)
  PROVE  SameShape(t, u)
BY DEF SameShape

\* The call stops, with the node x that is to be taken out, or without one.
LEMMA DeletingStops ==
  ASSUME NEW t, NEW g, NEW d, NEW c, Deleting(c, t, g, d), c.at # Nil, NEW k, k = c.node \/ k = c.at,
         k = c.at => \E s \in Sides : c.tree.kid[s][k] = Nil
  PROVE  Deleting(Found(c, Uncounted(c.tree, c.at), Nil, k), t, g, d)
<1> DEFINE v == c.tree
           x == c.at
           w == Uncounted(v, x)
           e == Found(c, w, Nil, k)
<1>1. /\ c \in [tree : Trees, at : Pointers, data : Nat, node : Pointers]
      /\ SameShape(t, v) /\ Charted(v, g) /\ x \in g.nodes
      /\ c.node # Nil => c.node \in g.nodes /\ \E s \in Sides : t.kid[s][c.node] = Nil
      /\ \A p \in DataOf(t, g) : p # d => p \in DataOf(v, g)
  BY DEF Deleting
<1>2. c = StateOf(v, x, c.data, c.node)
  BY <1>1 DEF StateOf
<1>3. e = StateOf(w, Nil, c.data, k)
  <2> HIDE DEF v, x, w
  <2>1. Found(StateOf(v, x, c.data, c.node), w, Nil, k) = StateOf(w, Nil, c.data, k)
    BY StateChange
  <2> QED BY <1>2, <2>1
<1>4. x \in Nodes /\ v \in Trees
  BY <1>1, MapTypes
<1> HIDE DEF v, e, x
<1>5. w \in Trees /\ SameShape(v, w) /\ w.data = v.data
  BY <1>4, UncountedFields
<1> HIDE DEF w
<1>6. Charted(w, g)
  <2>1. \A y \in Nodes \ g.nodes : w.color[y] = v.color[y]
    BY <1>5 DEF SameShape
  <2> QED BY <1>1, <1>5, <2>1, Repaint DEF SameShape
<1>7. SameShape(t, w)
  BY <1>1, <1>5, SameShapeKeeps
<1>8. e.tree = w /\ e.at = Nil /\ e.data = c.data /\ e.node = k
  BY <1>3, StateFields
<1>9. k # Nil => k \in g.nodes /\ \E s \in Sides : t.kid[s][k] = Nil
  <2>1. CASE k = c.node
    BY <1>1, <2>1
  <2>2. CASE k = x
    BY <1>1, <2>2 DEF SameShape, x, v
  <2> QED BY <2>1, <2>2 DEF x
<1>10. e \in [tree : Trees, at : Pointers, data : Nat, node : Pointers]
  <2>1. c.data \in Nat /\ k \in Pointers
    BY <1>1, <1>4, NilIsNoNode DEF x
  <2> QED BY <1>3, <1>5, <2>1, NilIsNoNode DEF StateOf
<1>11. DataOf(w, g) = DataOf(v, g)
  BY <1>5 DEF DataOf
<1>12. Deleting(e, t, g, d)
  BY <1>1, <1>6, <1>7, <1>8, <1>9, <1>10, <1>11 DEF Deleting
<1> QED BY <1>12 DEF e, w, x, v

\* The call goes down to a child.
LEMMA DeletingDown ==
  ASSUME NEW t, NEW g, NEW d, NEW c, Deleting(c, t, g, d), c.at # Nil, NEW s \in Sides
  PROVE  Deleting(WentTo(c, c.tree.kid[s][c.at]), t, g, d)
<1> DEFINE v == c.tree
           x == c.at
           y == v.kid[s][x]
           e == WentTo(c, y)
<1>1. /\ c \in [tree : Trees, at : Pointers, data : Nat, node : Pointers]
      /\ SameShape(t, v) /\ Charted(v, g) /\ x \in g.nodes
      /\ c.data = d \/ \E z \in g.nodes : z \notin g.sub[x] /\ v.data[z] = c.data
      /\ c.node # Nil => c.node \in g.nodes /\ \E q \in Sides : t.kid[q][c.node] = Nil
      /\ \A p \in DataOf(t, g) : p # d => p \in DataOf(v, g)
  BY DEF Deleting
<1>2. c = StateOf(v, x, c.data, c.node)
  BY <1>1 DEF StateOf
<1>3. e = StateOf(v, y, c.data, c.node)
  <2> HIDE DEF v, x, y
  <2>1. WentTo(StateOf(v, x, c.data, c.node), y) = StateOf(v, y, c.data, c.node)
    BY StateChange
  <2> QED BY <1>2, <2>1
<1> HIDE DEF v, e, x
<1>4. e.tree = v /\ e.at = y /\ e.data = c.data /\ e.node = c.node
  BY <1>3, StateFields
<1>5. y # Nil => y \in g.nodes /\ g.sub[y] \subseteq g.sub[x]
  BY <1>1, Children
<1>6. y \in Pointers
  BY <1>1, <1>5, MapTypes, NilIsNoNode
<1> HIDE DEF y
<1>7. e \in [tree : Trees, at : Pointers, data : Nat, node : Pointers]
  <2>1. v \in Trees /\ c.data \in Nat /\ c.node \in Pointers
    BY <1>1 DEF v
  <2> QED BY <1>3, <1>6, <2>1 DEF StateOf
<1>8. y # Nil => c.data = d \/ \E z \in g.nodes : z \notin g.sub[y] /\ v.data[z] = c.data
  BY <1>1, <1>5
<1>9. Deleting(e, t, g, d)
  BY <1>1, <1>4, <1>5, <1>7, <1>8 DEF Deleting
<1> QED BY <1>9 DEF e, y, x, v

\* The node takes the next data, and the call goes on to delete those.
LEMMA DeletingNext ==
  ASSUME NEW t, NEW g, NEW d, NEW c, Deleting(c, t, g, d), c.at # Nil,
         NEW x, x = c.at, NEW v, v = c.tree, c.data = v.data[x], v.kid["right"][x] # Nil,
         NEW next, next = v.data[Extreme(v, v.kid["right"][x], "left")]
  PROVE  Deleting(Rewritten(c, [Uncounted(v, x) EXCEPT !.data[x] = next], v.kid["right"][x], next), t, g, d)
<1> DEFINE w == [Uncounted(v, x) EXCEPT !.data[x] = next]
           y == v.kid["right"][x]
           n == Extreme(v, y, "left")
           e == Rewritten(c, w, y, next)
<1>1. /\ c \in [tree : Trees, at : Pointers, data : Nat, node : Pointers]
      /\ SameShape(t, v) /\ Charted(v, g) /\ x \in g.nodes
      /\ c.data = d \/ \E z \in g.nodes : z \notin g.sub[x] /\ v.data[z] = c.data
      /\ c.node # Nil => c.node \in g.nodes /\ \E q \in Sides : t.kid[q][c.node] = Nil
      /\ \A p \in DataOf(t, g) : p # d => p \in DataOf(v, g)
  BY DEF Deleting
<1>2. c = StateOf(v, x, c.data, c.node)
  BY <1>1 DEF StateOf
<1>3. e = StateOf(w, y, next, c.node)
  <2> HIDE DEF w, y
  <2>1. Rewritten(StateOf(v, x, c.data, c.node), w, y, next) = StateOf(w, y, next, c.node)
    BY StateChange
  <2> QED BY <1>2, <2>1
<1> HIDE DEF e
<1>4. e.tree = w /\ e.at = y /\ e.data = next /\ e.node = c.node
  <2> HIDE DEF w, y
  <2>1. /\ StateOf(w, y, next, c.node).tree = w /\ StateOf(w, y, next, c.node).at = y
        /\ StateOf(w, y, next, c.node).data = next /\ StateOf(w, y, next, c.node).node = c.node
    BY StateFields
  <2> QED BY Zenon, <1>3, <2>1
<1>5. n = Extreme(v, v.kid["right"][x], "left") /\ next = v.data[n]
  OBVIOUS
<1> HIDE DEF n
<1>6. /\ Parts(v, g, x, next) /\ next \in Nat /\ next # 0
      /\ \A z \in g.nodes : /\ g.pos[z] < g.pos[x] => v.data[z] <= next
                            /\ g.pos[x] < g.pos[z] => next <= v.data[z]
  <2>1. Charted(v, g) /\ x \in g.nodes /\ v.kid["right"][x] # Nil
    BY Zenon, <1>1
  <2> HIDE DEF w, y
  <2>2. Parts(v, g, x, v.data[n])
    BY Zenon, <1>5, <2>1, NextData
  <2>3. Parts(v, g, x, next)
    BY Zenon, <1>5, <2>2
  <2> QED BY Zenon, <2>3 DEF Parts
<1>7. y \in g.nodes /\ g.sub[y] \subseteq g.sub[x] /\ x \notin g.sub[y]
  <2> HIDE DEF w
  <2>1. y = v.kid["right"][x] /\ "right" \in Sides
    BY TwoSides
  <2> HIDE DEF y
  <2> QED BY <1>1, <2>1, Children
<1>8. v \in Trees /\ x \in Nodes /\ y \in Pointers /\ c.node \in Pointers
  BY <1>1, <1>7, MapTypes, NilIsNoNode
<1>9. /\ w \in Trees /\ SameShape(v, w)
      /\ \A z \in Nodes : w.data[z] = IF z = x THEN next ELSE v.data[z]
  BY Zenon, <1>6, <1>8, RewrittenFields
<1> HIDE DEF w, y
<1>10. Charted(w, g)
  <2>1. \A z \in Nodes : w.data[z] = 0 <=> v.data[z] = 0
    <3>1. v.data[x] # 0
      BY <1>1, MapTypes
    <3> QED BY Zenon, <1>6, <1>9, <3>1
  <2>2. Sorted(w, g)
    <3> SUFFICES ASSUME NEW a \in g.nodes, NEW b \in g.nodes, g.pos[a] < g.pos[b]
                 PROVE  w.data[a] <= w.data[b]
      BY DEF Sorted
    <3>1. v.data[a] <= v.data[b]
      BY <1>1 DEF Charted, Sorted
    <3>2. a \in Nodes /\ b \in Nodes /\ g.pos[a] \in Int /\ g.pos[b] \in Int
      BY <1>1, MapTypes
    <3>3. CASE a = x
      <4>1. b # x
        BY <3>2, <3>3
      <4>2. w.data[a] = next /\ w.data[b] = v.data[b]
        BY <1>9, <3>2, <3>3, <4>1
      <4> QED BY Zenon, <1>6, <3>3, <4>2
    <3>4. CASE a # x /\ b = x
      <4>1. w.data[b] = next /\ w.data[a] = v.data[a]
        BY <1>9, <3>2, <3>4
      <4> QED BY Zenon, <1>6, <3>4, <4>1
    <3>5. CASE a # x /\ b # x
      BY <1>9, <3>1, <3>2, <3>5
    <3> QED BY <3>3, <3>4, <3>5
  <2> QED BY <1>1, <1>9, <2>1, <2>2, Rewrite DEF SameShape
<1>11. SameShape(t, w)
  BY <1>1, <1>9, SameShapeKeeps
<1>12. \A p \in DataOf(t, g) : p # d => p \in DataOf(w, g)
  <2> SUFFICES ASSUME NEW p \in DataOf(t, g), p # d PROVE p \in DataOf(w, g)
    OBVIOUS
  <2>1. p \in DataOf(v, g)
    BY <1>1
  <2>2. \A z \in g.nodes : z # x => w.data[z] = v.data[z]
    BY <1>1, <1>9, MapTypes
  <2>3. p = v.data[x] => \E z \in g.nodes : z # x /\ v.data[z] = p
    <3>1. x \in g.sub[x]
      BY <1>1, MapTypes
    <3> QED BY <1>1, <3>1
  <2>4. PICK a \in g.nodes : v.data[a] = p
    BY <2>1 DEF DataOf
  <2>5. PICK b \in g.nodes : b # x /\ v.data[b] = p
    BY <2>3, <2>4
  <2>6. w.data[b] = p
    BY <2>2, <2>5
  <2> QED BY <2>6 DEF DataOf
<1>13. e \in [tree : Trees, at : Pointers, data : Nat, node : Pointers]
  BY Zenon, <1>3, <1>6, <1>8, <1>9 DEF StateOf
<1>14. \E z \in g.nodes : z \notin g.sub[y] /\ w.data[z] = next
  BY <1>1, <1>7, <1>8, <1>9
<1>15. Deleting(e, t, g, d)
  BY Zenon, <1>1, <1>4, <1>7, <1>10, <1>11, <1>12, <1>13, <1>14 DEF Deleting
<1> QED BY Zenon, <1>15 DEF e, y, w

\* Every call.
LEMMA DeletingStep ==
  ASSUME NEW t, NEW g, NEW d, NEW c, Deleting(c, t, g, d)
  PROVE  Deleting(DeleteStep(c), t, g, d)
<1> DEFINE v    == c.tree
           x    == c.at
           less == [v EXCEPT !.count[x] = @ - 1]
           next == v.data[Extreme(v, v.kid["right"][x], "left")]
<1>1. less = Uncounted(v, x)
  BY DEF Uncounted
<1>2. CASE x = Nil
  <2>1. DeleteStep(c) = c
    BY <1>2 DEF DeleteStep
  <2> QED BY <2>1
<1>3. CASE x # Nil
  <2>1. CASE c.data < v.data[x]
    <3>1. DeleteStep(c) = WentTo(c, v.kid["left"][x])
      BY <1>3, <2>1 DEF DeleteStep, WentTo
    <3> QED BY <1>3, <3>1, TwoSides, DeletingDown
  <2>2. CASE ~(c.data < v.data[x]) /\ c.data > v.data[x]
    <3>1. DeleteStep(c) = WentTo(c, v.kid["right"][x])
      BY <1>3, <2>2 DEF DeleteStep, WentTo
    <3> QED BY <1>3, <3>1, TwoSides, DeletingDown
  <2>3. CASE ~(c.data < v.data[x]) /\ ~(c.data > v.data[x]) /\ less.count[x] # 0
    <3>1. DeleteStep(c) = Returned(c, less, Nil)
      BY <1>3, <2>3 DEF DeleteStep, Returned
    <3>2. Returned(c, less, Nil) = Found(c, Uncounted(v, x), Nil, c.node)
      <4>1. c = StateOf(v, x, c.data, c.node)
        BY DEF Deleting, StateOf
      <4> HIDE DEF v, x, less
      <4>2. /\ Returned(StateOf(v, x, c.data, c.node), less, Nil) = StateOf(less, Nil, c.data, c.node)
            /\ Found(StateOf(v, x, c.data, c.node), less, Nil, c.node) = StateOf(less, Nil, c.data, c.node)
        BY StateChange
      <4> QED BY <1>1, <4>1, <4>2
    <3>3. c.node = c.at => \E s \in Sides : c.tree.kid[s][c.node] = Nil
      BY <1>3 DEF Deleting, SameShape
    <3>4. Deleting(Found(c, Uncounted(c.tree, c.at), Nil, c.node), t, g, d)
      BY <1>3, <3>3, DeletingStops
    <3> QED BY <3>1, <3>2, <3>4
  <2>4. CASE /\ ~(c.data < v.data[x]) /\ ~(c.data > v.data[x]) /\ ~(less.count[x] # 0)
             /\ \E s \in Sides : v.kid[s][x] = Nil
    <3>1. DeleteStep(c) = Found(c, less, Nil, x)
      BY <1>3, <2>4 DEF DeleteStep, Found
    <3>2. Deleting(Found(c, Uncounted(c.tree, c.at), Nil, c.at), t, g, d)
      BY <1>3, <2>4, DeletingStops
    <3> QED BY <1>1, <3>1, <3>2
  <2>5. CASE /\ ~(c.data < v.data[x]) /\ ~(c.data > v.data[x]) /\ ~(less.count[x] # 0)
             /\ ~\E s \in Sides : v.kid[s][x] = Nil
    <3>1. DeleteStep(c) = Rewritten(c, [less EXCEPT !.data[x] = next], v.kid["right"][x], next)
      BY <1>3, <2>5 DEF DeleteStep, Rewritten
    <3>2. v.kid["right"][x] # Nil
      BY <2>5, TwoSides
    <3>3. c.data = v.data[x]
      <4>1. c.data \in Nat /\ v \in Trees /\ x \in Nodes
        BY <1>3, MapTypes DEF Deleting
      <4>2. v.data[x] \in Nat
        BY <4>1 DEF Trees
      <4> QED BY <2>5, <4>1, <4>2
    <3> HIDE DEF next, less
    <3>4. next = v.data[Extreme(v, v.kid["right"][x], "left")]
      BY DEF next
    <3>5. Deleting(Rewritten(c, [Uncounted(v, x) EXCEPT !.data[x] = next], v.kid["right"][x], next), t, g, d)
      BY <1>3, <3>2, <3>3, <3>4, DeletingNext
    <3> QED BY <1>1, <3>1, <3>5
  <2> QED BY <2>1, <2>2, <2>3, <2>4, <2>5
<1> QED BY <1>2, <1>3

\* deleteBST keeps the shape of the tree and its order, and all data but those
\* that it deletes; the node that it leaves to be taken out has a child at most.
LEMMA DeleteBSTKeeps ==
  ASSUME NEW t, NEW g, Charted(t, g), NEW d \in Nat
  PROVE  LET c == deleteBST(t, d)
         IN  /\ SameShape(t, c.tree) /\ Charted(c.tree, g)
             /\ c.node \in Pointers
             /\ c.node # Nil => c.node \in g.nodes /\ \E s \in Sides : t.kid[s][c.node] = Nil
             /\ \A p \in DataOf(t, g) : p # d => p \in DataOf(c.tree, g)
<1> DEFINE States == [tree : Trees, at : Pointers, data : Nat, node : Pointers]
           V == {c \in States : Deleting(c, t, g, d)}
           F == [c \in V |-> DeleteStep(c)]
           a == [tree |-> t, at |-> t.root, data |-> d, node |-> Nil]
           after == CHOOSE f : f = [i \in 0..MaxNodes |->
                      IF i = 0 THEN [tree |-> t, at |-> t.root, data |-> d, node |-> Nil]
                      ELSE DeleteStep(f[i - 1])]
<1>1. MaxNodes \in Nat
  BY NodesAreFinite
<1>2. Deleting(a, t, g, d)
  <2>1. a = StateOf(t, t.root, d, Nil)
    BY DEF StateOf
  <2>2. t \in Trees /\ t.root \in Pointers /\ Nil \in Pointers
    BY NilIsNoNode DEF Charted, Trees
  <2>3. a \in States
    BY <2>2
  <2> HIDE DEF a
  <2>4. a.tree = t /\ a.at = t.root /\ a.data = d /\ a.node = Nil
    BY <2>1, StateFields
  <2>5. t.root # Nil => t.root \in g.nodes
    BY DEF Charted, Rooted
  <2>6. SameShape(t, t)
    BY DEF SameShape
  <2> QED BY <2>3, <2>4, <2>5, <2>6 DEF Deleting
<1>3. a \in V
  <2> HIDE DEF a
  <2> QED BY <1>2 DEF Deleting
<1>4. \A c \in V : DeleteStep(c) \in V
  <2> SUFFICES ASSUME NEW c \in V PROVE DeleteStep(c) \in V
    OBVIOUS
  <2>1. Deleting(DeleteStep(c), t, g, d)
    BY DeletingStep
  <2> QED BY <2>1 DEF Deleting
<1>5. F \in [V -> V]
  <2> HIDE DEF V
  <2> QED BY <1>4
<1>6. \A c \in V : Deleting(c, t, g, d)
  OBVIOUS
<1> HIDE DEF V, a
<1>7. after = [i \in 0..MaxNodes |-> IF i = 0 THEN a ELSE DeleteStep(after[i - 1])]
  <2>1. PICK f : f \in Rounds(MaxNodes, V, a, F)
    <3> HIDE DEF F
    <3> QED BY <1>1, <1>3, <1>5, Iteration
  <2>2. f = [i \in 0..MaxNodes |-> IF i = 0 THEN a ELSE F[f[i - 1]]] /\ f \in [0..MaxNodes -> V]
    BY <2>1 DEF Rounds
  <2>3. \A i \in 0..MaxNodes : i # 0 => i - 1 \in 0..MaxNodes
    BY <1>1
  <2>4. \A i \in 0..MaxNodes : i # 0 => F[f[i - 1]] = DeleteStep(f[i - 1])
    BY <2>2, <2>3
  <2>5. f = [i \in 0..MaxNodes |-> IF i = 0 THEN a ELSE DeleteStep(f[i - 1])]
    <3> HIDE DEF F
    <3> QED BY <2>2, <2>4
  <2> QED BY <2>5 DEF a
<1>8. deleteBST(t, d) = after[MaxNodes]
  BY DEF deleteBST
<1> HIDE DEF after
<1>9. after[MaxNodes] \in V
  <2> DEFINE T == {i \in 0..MaxNodes : after[i] \in V}
  <2>1. 0 \in T
    <3>1. after[0] = a
      BY <1>1, <1>7
    <3> QED BY <1>1, <1>3, <3>1
  <2>2. ASSUME NEW i \in 0..(MaxNodes - 1), i \in T PROVE i + 1 \in T
    <3>1. i + 1 \in 0..MaxNodes /\ i + 1 # 0 /\ (i + 1) - 1 = i
      BY <1>1
    <3>2. after[i + 1] = DeleteStep(after[i])
      BY <1>7, <3>1
    <3> QED BY <1>4, <2>2, <3>1, <3>2
  <2>3. MaxNodes \in T
    <3>1. MaxNodes \in 0..MaxNodes
      BY <1>1
    <3> HIDE DEF T
    <3> QED BY <1>1, <2>1, <2>2, <3>1, UpTo
  <2> QED BY <2>3
<1> DEFINE c == after[MaxNodes]
<1> HIDE DEF c
<1>10. Deleting(c, t, g, d)
  BY <1>6, <1>9 DEF c
<1>11. /\ SameShape(t, c.tree) /\ Charted(c.tree, g) /\ c.node \in Pointers
       /\ c.node # Nil => c.node \in g.nodes /\ \E s \in Sides : t.kid[s][c.node] = Nil
       /\ \A p \in DataOf(t, g) : p # d => p \in DataOf(c.tree, g)
  BY <1>10 DEF Deleting
<1> QED BY <1>8, <1>11 DEF c

\* A tree of the same shape and colors is as sound and as even.
LEMMA ShapeKeepsSound ==
  ASSUME NEW t, NEW g, Sound(t, g), NEW u, SameShape(t, u), Charted(u, g)
  PROVE  Sound(u, g) /\ (Even(t, g) => Even(u, g))
<1>1. u.root = t.root /\ u.color = t.color /\ u.kid = t.kid
  BY DEF SameShape
<1>2. Weights(u) = Weights(t)
  BY <1>1 DEF Weights
<1>3. \A h : Level(t, g, h, Weights(t)) => Level(u, g, h, Weights(t))
  BY <1>1 DEF Level
<1>4. Even(t, g) => Even(u, g)
  BY <1>1, <1>2, <1>3 DEF Even
<1>5. Sound(u, g)
  BY <1>1 DEF Sound, NoRedRed
<1> QED BY <1>4, <1>5

\* An erase, whether or not a node is taken out.
LEMMA EraseSound ==
  ASSUME NEW t, NEW g, Sound(t, g), NEW d \in Nat
  PROVE  LET c == deleteBST(t, d)
             u == fixDeleteRBTree(c.tree, c.node)
         IN  /\ Sound(c.tree, g) /\ (Even(t, g) => Even(c.tree, g))
             /\ \A p \in DataOf(t, g) : p # d => p \in DataOf(c.tree, g)
             /\ c.node # Nil =>
                  /\ Even(t, g) => EraseEnds(c.tree, c.node)
                  /\ \E m : Sound(u, m) /\ (Even(t, g) /\ (\A y \in Nodes : u.color[y] # DOUBLE_BLACK) => Even(u, m))
<1> DEFINE c == deleteBST(t, d)
           v == c.tree
           x == c.node
<1>1. /\ SameShape(t, v) /\ Charted(v, g)
      /\ x # Nil => x \in g.nodes /\ \E s \in Sides : t.kid[s][x] = Nil
      /\ \A p \in DataOf(t, g) : p # d => p \in DataOf(v, g)
  <2>1. Charted(t, g)
    BY DEF Sound
  <2> QED BY <2>1, DeleteBSTKeeps
<1> HIDE DEF c
<1>2. Sound(v, g) /\ (Even(t, g) => Even(v, g))
  BY <1>1, ShapeKeepsSound
<1>3. ASSUME x # Nil
      PROVE  /\ Even(t, g) => EraseEnds(v, x)
             /\ \E m : /\ Sound(fixDeleteRBTree(v, x), m)
                       /\ Even(t, g) /\ (\A y \in Nodes : fixDeleteRBTree(v, x).color[y] # DOUBLE_BLACK)
                            => Even(fixDeleteRBTree(v, x), m)
  <2>1. x \in g.nodes /\ \E s \in Sides : v.kid[s][x] = Nil
    BY <1>1, <1>3 DEF SameShape
  <2>2. /\ \E m : /\ Sound(fixDeleteRBTree(v, x), m)
                  /\ Even(v, g) /\ (\A y \in Nodes : fixDeleteRBTree(v, x).color[y] # DOUBLE_BLACK)
                       => Even(fixDeleteRBTree(v, x), m)
        /\ Even(v, g) => EraseEnds(v, x)
    <3> HIDE DEF v, x
    <3> QED BY <1>2, <2>1, FixDeleteSound
  <2> QED BY <1>2, <2>2
<1> QED BY <1>1, <1>2, <1>3 DEF c

-----------------------------------------------------------------------------
(***************************************************************************)
(* The trees of the tuples as values.                                      *)
(***************************************************************************)

\* A tree that has a map, and one that has no black node too few.
GoodTree(t) == \E g : Sound(t, g)
EvenTree(t) == \E g : Sound(t, g) /\ Even(t, g)

\* The data of a tree are those of its map.
LEMMA DataInMap ==
  ASSUME NEW t, NEW g, Sound(t, g)
  PROVE  DataIn(t) = DataOf(t, g) /\ Subtree(t, t.root) = g.nodes
<1>1. Charted(t, g)
  BY DEF Sound
<1>2. Subtree(t, Nil) = {} /\ \A x \in g.nodes : Subtree(t, x) = g.sub[x]
  BY <1>1, SubtreeOfMap
<1>3. IF t.root = Nil THEN g.nodes = {} ELSE t.root \in g.nodes /\ g.sub[t.root] = g.nodes
  BY <1>1 DEF Charted, Rooted
<1>4. Subtree(t, t.root) = g.nodes
  BY <1>2, <1>3
<1> QED BY <1>4 DEF DataIn, DataOf

\* The new tree of a tuple.
LEMMA EmptyIsGood ==
  /\ GoodTree(EmptyTree) /\ EvenTree(EmptyTree) /\ EmptyTree \in Trees
  /\ \A x \in Nodes : EmptyTree.color[x] # DOUBLE_BLACK
<1>1. Sound(EmptyTree, EmptyMap) /\ Even(EmptyTree, EmptyMap)
  BY EmptySound
<1>2. EmptyTree \in Trees
  BY <1>1 DEF Sound, Charted
<1>3. \A x \in Nodes : EmptyTree.color[x] # DOUBLE_BLACK
  BY EmptySound, ThreeColors
<1> QED BY <1>1, <1>2, <1>3 DEF GoodTree, EvenTree

\* insert.
LEMMA InsertGood ==
  ASSUME NEW t, GoodTree(t), Room(t), NEW d \in Nat, d # 0
  PROVE  /\ GoodTree(Insert(t, d)) /\ (EvenTree(t) => EvenTree(Insert(t, d)))
         /\ Insert(t, d) \in Trees
         /\ DataIn(Insert(t, d)) = DataIn(t) \cup {d}
<1> DEFINE u == Insert(t, d)
<1>1. ASSUME NEW g, Sound(t, g)
      PROVE  \E m : Sound(u, m) /\ DataIn(u) = DataIn(t) \cup {d} /\ (Even(t, g) => Even(u, m))
  <2>1. PICK m : Sound(u, m) /\ DataOf(u, m) = DataOf(t, g) \cup {d} /\ (Even(t, g) => Even(u, m))
    BY <1>1, InsertSound
  <2> HIDE DEF u
  <2>2. DataIn(u) = DataOf(u, m) /\ DataIn(t) = DataOf(t, g)
    BY <1>1, <2>1, DataInMap
  <2> QED BY <2>1, <2>2
<1> HIDE DEF u
<1>2. PICK g : Sound(t, g)
  BY DEF GoodTree
<1>3. GoodTree(u) /\ DataIn(u) = DataIn(t) \cup {d} /\ u \in Trees
  <2>1. PICK m : Sound(u, m) /\ DataIn(u) = DataIn(t) \cup {d}
    BY <1>1, <1>2
  <2>2. u \in Trees
    BY <2>1 DEF Sound, Charted
  <2> QED BY <2>1, <2>2 DEF GoodTree
<1>4. ASSUME EvenTree(t) PROVE EvenTree(u)
  <2>1. PICK h : Sound(t, h) /\ Even(t, h)
    BY <1>4 DEF EvenTree
  <2>2. PICK m : Sound(u, m) /\ Even(u, m)
    BY <1>1, <2>1
  <2> QED BY <2>2 DEF EvenTree
<1> QED BY <1>3, <1>4 DEF u

\* erase.
LEMMA EraseGood ==
  ASSUME NEW t, GoodTree(t), NEW d \in Nat
  PROVE  LET c == deleteBST(t, d)
             u == fixDeleteRBTree(c.tree, c.node)
         IN  /\ GoodTree(c.tree) /\ (EvenTree(t) => EvenTree(c.tree)) /\ c.tree \in Trees
             /\ \A p \in DataIn(t) : p # d => p \in DataIn(c.tree)
             /\ c.node # Nil => /\ GoodTree(u) /\ u \in Trees
                                /\ EvenTree(t) /\ ~LeftDouble(u) => EvenTree(u)
                                /\ EvenTree(t) => EraseEnds(c.tree, c.node)
             /\ c.node \in Pointers
<1> DEFINE c == deleteBST(t, d)
           v == c.tree
           x == c.node
           u == fixDeleteRBTree(v, x)
<1>1. ASSUME NEW g, Sound(t, g)
      PROVE  /\ Sound(v, g) /\ (Even(t, g) => Even(v, g))
             /\ \A p \in DataOf(t, g) : p # d => p \in DataOf(v, g)
             /\ x # Nil =>
                  /\ Even(t, g) => EraseEnds(v, x)
                  /\ \E m : Sound(u, m) /\ (Even(t, g) /\ (\A y \in Nodes : u.color[y] # DOUBLE_BLACK) => Even(u, m))
  BY <1>1, EraseSound
<1>2. x \in Pointers
  <2>1. PICK g : Charted(t, g)
    BY DEF GoodTree, Sound
  <2> QED BY <2>1, DeleteBSTKeeps
<1> HIDE DEF c, u
<1>3. PICK g : Sound(t, g)
  BY DEF GoodTree
<1>4. GoodTree(v) /\ v \in Trees /\ \A p \in DataIn(t) : p # d => p \in DataIn(v)
  <2>1. Sound(v, g) /\ \A p \in DataOf(t, g) : p # d => p \in DataOf(v, g)
    BY <1>1, <1>3
  <2>2. DataIn(v) = DataOf(v, g) /\ DataIn(t) = DataOf(t, g)
    BY <1>3, <2>1, DataInMap
  <2>3. v \in Trees
    BY <2>1 DEF Sound, Charted
  <2>4. \A p \in DataIn(t) : p # d => p \in DataIn(v)
    BY <2>1, <2>2
  <2>5. GoodTree(v)
    BY <2>1 DEF GoodTree
  <2> QED BY <2>3, <2>4, <2>5
<1>5. ASSUME x # Nil PROVE GoodTree(u) /\ u \in Trees
  <2>1. PICK m : Sound(u, m)
    BY <1>1, <1>3, <1>5
  <2>2. u \in Trees
    BY <2>1 DEF Sound, Charted
  <2> QED BY <2>1, <2>2 DEF GoodTree
<1>6. ASSUME EvenTree(t)
      PROVE  EvenTree(v) /\ (x # Nil => EraseEnds(v, x) /\ (~LeftDouble(u) => EvenTree(u)))
  <2>1. PICK h : Sound(t, h) /\ Even(t, h)
    BY <1>6 DEF EvenTree
  <2>2. EvenTree(v)
    BY <1>1, <2>1 DEF EvenTree
  <2>3. ASSUME x # Nil PROVE EraseEnds(v, x)
    BY <1>1, <2>1, <2>3
  <2>4. ASSUME x # Nil, ~LeftDouble(u) PROVE EvenTree(u)
    <3>1. \A y \in Nodes : u.color[y] # DOUBLE_BLACK
      BY <2>4 DEF LeftDouble
    <3>2. PICK m : Sound(u, m) /\ Even(u, m)
      BY <1>1, <2>1, <2>4, <3>1
    <3> QED BY <3>2 DEF EvenTree
  <2> QED BY <2>2, <2>3, <2>4
<1> QED BY <1>2, <1>4, <1>5, <1>6 DEF c, u

\* The links of a tree agree, it is in order, and no red node is below a red one.
LEMMA GoodLinks ==
  ASSUME NEW t, GoodTree(t)
  PROVE  LinksAgree(t)
<1>1. PICK g : Sound(t, g)
  BY DEF GoodTree
<1>2. Charted(t, g) /\ NoRedRed(t, g, Nil) /\ (t.root # Nil => t.color[t.root] = BLACK)
  BY <1>1 DEF Sound
<1>3. Subtree(t, t.root) = g.nodes /\ Subtree(t, Nil) = {} /\ \A x \in g.nodes : Subtree(t, x) = g.sub[x]
  BY <1>1, <1>2, DataInMap, SubtreeOfMap
<1>4. t.root # Nil => t.parent[t.root] = Nil
  BY <1>2 DEF Charted, Rooted, Joined, Linked
<1>5. ASSUME NEW x \in g.nodes, NEW s \in Sides, t.kid[s][x] # Nil
      PROVE  t.parent[t.kid[s][x]] = x /\ ~(t.color[x] = RED /\ t.color[t.kid[s][x]] = RED)
  <2>1. t.parent[t.kid[s][x]] = x
    BY <1>2, <1>5, Children
  <2>2. t.color[x] = RED => t.color[t.kid[s][x]] # RED
    BY <1>2, <1>5 DEF NoRedRed
  <2> QED BY <2>1, <2>2
<1>6. ASSUME NEW x \in g.nodes, NEW s \in Sides, NEW y \in Subtree(t, t.kid[s][x])
      PROVE  y \in g.nodes /\ On(s, g.pos[y], g.pos[x])
  <2>1. t.kid[s][x] # Nil
    BY <1>3, <1>6
  <2>2. t.kid[s][x] \in g.nodes /\ \A z \in g.sub[t.kid[s][x]] : On(s, g.pos[z], g.pos[x])
    BY <1>2, <2>1, Children
  <2>3. y \in g.sub[t.kid[s][x]]
    BY <1>3, <1>6, <2>2
  <2> QED BY <1>2, <2>2, <2>3, MapTypes
<1>7. \A x, y \in g.nodes : g.pos[x] < g.pos[y] => t.data[x] <= t.data[y]
  BY <1>2 DEF Charted, Sorted
<1>8. ASSUME NEW x \in g.nodes
      PROVE  /\ \A y \in Subtree(t, t.kid["left"][x]) : t.data[y] <= t.data[x]
             /\ \A y \in Subtree(t, t.kid["right"][x]) : t.data[x] <= t.data[y]
  <2>1. ASSUME NEW y \in Subtree(t, t.kid["left"][x]) PROVE t.data[y] <= t.data[x]
    <3>1. y \in g.nodes /\ On("left", g.pos[y], g.pos[x])
      BY <1>6, TwoSides
    <3> QED BY <1>7, <3>1 DEF On
  <2>2. ASSUME NEW y \in Subtree(t, t.kid["right"][x]) PROVE t.data[x] <= t.data[y]
    <3>1. y \in g.nodes /\ On("right", g.pos[y], g.pos[x])
      BY <1>6, TwoSides
    <3> QED BY <1>7, <3>1 DEF On
  <2> QED BY <2>1, <2>2
<1> QED BY <1>2, <1>3, <1>4, <1>5, <1>8 DEF LinksAgree


\* What a node adds to the number of black nodes on the ways through it.
Blacks(t, y) == IF t.color[y] = BLACK THEN 1 ELSE 0

\* A relation of nodes and numbers that has all the ways from each node down.
Counts(t, A) ==
  /\ <<Nil, 0>> \in A
  /\ \A w \in Nodes, s \in Sides, d \in Nat : <<t.kid[s][w], d>> \in A => <<w, d + Blacks(t, w)>> \in A

\* The recursive function of BlackDepths exists, whatever the links are.
LEMMA DepthsExist ==
  ASSUME NEW t \in Trees
  PROVE  \E f : f = [y \in Pointers |->
                       IF y = Nil THEN {0}
                       ELSE {d + Blacks(t, y) : d \in f[t.kid["left"][y]] \cup f[t.kid["right"][y]]}]
<1> DEFINE R == [y \in Pointers |-> {d \in Nat : \A A \in SUBSET (Pointers \X Nat) : Counts(t, A) => <<y, d>> \in A}]
           Image(y) == {d + Blacks(t, y) : d \in R[t.kid["left"][y]] \cup R[t.kid["right"][y]]}
           Least == {z \in Pointers \X Nat : z[2] \in R[z[1]]}
<1>1. /\ Nil \in Pointers /\ Nil \notin Nodes /\ Nodes \subseteq Pointers
      /\ \A y \in Nodes, s \in Sides : t.kid[s][y] \in Pointers
      /\ \A y \in Nodes : Blacks(t, y) \in Nat
  BY NilIsNoNode DEF Trees, Blacks
<1>2. \A y \in Pointers, d \in Nat : <<y, d>> \in Least <=> d \in R[y]
  <2> HIDE DEF R
  <2> QED OBVIOUS
<1>3. \A y \in Pointers : R[y] \subseteq Nat
  OBVIOUS
<1>4. 0 \in R[Nil]
  <2>1. \A A \in SUBSET (Pointers \X Nat) : Counts(t, A) => <<Nil, 0>> \in A
    BY DEF Counts
  <2> QED BY <1>1, <2>1
<1>5. ASSUME NEW y \in Nodes, NEW s \in Sides, NEW d \in R[t.kid[s][y]] PROVE d + Blacks(t, y) \in R[y]
  <2>1. t.kid[s][y] \in Pointers /\ d \in Nat /\ d + Blacks(t, y) \in Nat
    BY <1>1, <1>3
  <2>2. ASSUME NEW A \in SUBSET (Pointers \X Nat), Counts(t, A) PROVE <<y, d + Blacks(t, y)>> \in A
    <3>1. <<t.kid[s][y], d>> \in A
      BY <2>1, <2>2
    <3> QED BY <2>1, <2>2, <3>1 DEF Counts
  <2> QED BY <1>1, <2>1, <2>2
<1>6. Counts(t, Least)
  <2>1. <<Nil, 0>> \in Least
    <3> HIDE DEF Least, R
    <3> QED BY <1>1, <1>2, <1>4
  <2>2. ASSUME NEW w \in Nodes, NEW s \in Sides, NEW d \in Nat, <<t.kid[s][w], d>> \in Least
        PROVE  <<w, d + Blacks(t, w)>> \in Least
    <3> HIDE DEF Least, R
    <3>1. d \in R[t.kid[s][w]]
      BY <1>1, <1>2, <2>2
    <3>2. d + Blacks(t, w) \in R[w] /\ d + Blacks(t, w) \in Nat
      BY <1>1, <1>5, <3>1
    <3> QED BY <1>1, <1>2, <3>2
  <2> HIDE DEF Least
  <2> QED BY <2>1, <2>2 DEF Counts
<1>7. \A A \in SUBSET (Pointers \X Nat), y \in Pointers : \A d \in R[y] : Counts(t, A) => <<y, d>> \in A
  OBVIOUS
<1>8. R[Nil] = {0}
  <2> SUFFICES ASSUME NEW z \in R[Nil], z # 0 PROVE FALSE
    BY <1>4
  <2> DEFINE A == Least \ {<<Nil, z>>}
  <2>1. Counts(t, A)
    <3>1. <<Nil, 0>> \in A
      BY <1>6 DEF Counts
    <3>2. ASSUME NEW w \in Nodes, NEW s \in Sides, NEW d \in Nat, <<t.kid[s][w], d>> \in A
          PROVE  <<w, d + Blacks(t, w)>> \in A
      <4> HIDE DEF Least
      <4>1. <<w, d + Blacks(t, w)>> \in Least
        BY <1>6, <3>2 DEF Counts
      <4> QED BY <1>1, <4>1
    <3> HIDE DEF A
    <3> QED BY <3>1, <3>2 DEF Counts
  <2>2. A \in SUBSET (Pointers \X Nat) /\ <<Nil, z>> \notin A
    OBVIOUS
  <2> HIDE DEF A, R
  <2> QED BY <1>1, <1>7, <2>1, <2>2
<1>9. ASSUME NEW y \in Nodes PROVE R[y] = Image(y)
  <2>1. Image(y) \subseteq R[y]
    <3> HIDE DEF R
    <3> QED BY <1>5, TwoSides
  <2>2. ASSUME NEW z \in R[y], z \notin Image(y) PROVE FALSE
    <3> DEFINE A == Least \ {<<y, z>>}
    <3>1. Counts(t, A)
      <4>1. <<Nil, 0>> \in A
        <5> HIDE DEF Least, R
        <5> QED BY <1>1, <1>6 DEF Counts
      <4>2. ASSUME NEW w \in Nodes, NEW s \in Sides, NEW d \in Nat, <<t.kid[s][w], d>> \in A
            PROVE  <<w, d + Blacks(t, w)>> \in A
        <5> HIDE DEF Least, R
        <5>1. <<w, d + Blacks(t, w)>> \in Least
          BY <1>6, <4>2 DEF Counts
        <5>2. d \in R[t.kid[s][w]]
          BY <1>1, <1>2, <4>2
        <5>3. w = y => d + Blacks(t, w) # z
          BY <2>2, <5>2 DEF Sides
        <5> QED BY <5>1, <5>3
      <4> HIDE DEF A
      <4> QED BY <4>1, <4>2 DEF Counts
    <3>2. A \in SUBSET (Pointers \X Nat) /\ <<y, z>> \notin A
      OBVIOUS
    <3> HIDE DEF A, R
    <3> QED BY <1>1, <1>7, <2>2, <3>1, <3>2
  <2> HIDE DEF R
  <2> QED BY <2>1, <2>2
<1>10. R = [y \in Pointers |-> IF y = Nil THEN {0} ELSE Image(y)]
  <2>1. \A y \in Pointers : R[y] = IF y = Nil THEN {0} ELSE Image(y)
    <3> HIDE DEF R, Image
    <3> QED BY <1>8, <1>9 DEF Pointers
  <2>2. R = [y \in Pointers |-> R[y]]
    OBVIOUS
  <2> HIDE DEF R, Image
  <2> QED BY <2>1, <2>2
<1> HIDE DEF R
<1> QED BY <1>10

\* In an even tree all ways down from a node have as many black nodes.
LEMMA EvenDepths ==
  ASSUME NEW t, EvenTree(t)
  PROVE  /\ \A x \in Subtree(t, t.root) : t.color[x] \in {RED, BLACK}
         /\ Cardinality(BlackDepths(t, t.root)) = 1
<1>1. PICK g : Sound(t, g) /\ Even(t, g)
  BY DEF EvenTree
<1>2. PICK h : Level(t, g, h, Weights(t))
  BY <1>1 DEF Even
<1>3. Charted(t, g) /\ t \in Trees /\ Subtree(t, t.root) = g.nodes
  BY <1>1, DataInMap DEF Sound, Charted
<1>4. \A x \in g.nodes : x \in Nodes /\ t.color[x] \in {RED, BLACK}
  <2> SUFFICES ASSUME NEW x \in g.nodes PROVE x \in Nodes /\ t.color[x] \in {RED, BLACK}
    OBVIOUS
  <2>1. x \in Nodes
    BY <1>3, MapTypes
  <2>2. t.color[x] \in Colors
    BY <1>3, <2>1 DEF Trees
  <2>3. t.color[x] # DOUBLE_BLACK
    BY <1>1 DEF Even
  <2> QED BY <2>1, <2>2, <2>3 DEF Colors
<1> DEFINE Step(f, y) == IF y = Nil THEN {0}
                         ELSE {d + (IF t.color[y] = BLACK THEN 1 ELSE 0) :
                                 d \in f[t.kid["left"][y]] \cup f[t.kid["right"][y]]}
           depths == CHOOSE f : f = [y \in {Nil} \cup Nodes |-> Step(f, y)]
<1>5. depths = [y \in {Nil} \cup Nodes |-> Step(depths, y)]
  <2>1. PICK f : f = [y \in Pointers |->
                        IF y = Nil THEN {0}
                        ELSE {d + Blacks(t, y) : d \in f[t.kid["left"][y]] \cup f[t.kid["right"][y]]}]
    BY <1>3, DepthsExist
  <2>2. f = [y \in {Nil} \cup Nodes |-> Step(f, y)]
    BY <2>1 DEF Pointers, Blacks
  <2> HIDE DEF Step
  <2> QED BY <2>2
<1> HIDE DEF depths
<1>6. depths[Nil] = {0}
  <2>1. \A y \in {Nil} \cup Nodes : depths[y] = Step(depths, y)
    <3> HIDE DEF Step
    <3> QED BY <1>5
  <2> QED BY <2>1
<1>7. \A y \in Nodes : depths[y] = {d + Blacks(t, y) : d \in depths[t.kid["left"][y]] \cup depths[t.kid["right"][y]]}
  <2>1. \A y \in {Nil} \cup Nodes : depths[y] = Step(depths, y)
    <3> HIDE DEF Step
    <3> QED BY <1>5
  <2>2. \A y \in Nodes : y # Nil
    BY NilIsNoNode
  <2> QED BY <2>1, <2>2 DEF Blacks
<1> HIDE DEF Step
<1>8. /\ h \in [Nodes -> Nat]
      /\ \A y \in g.nodes, s \in Sides : h[y] = Height(h, t.kid[s][y]) + Blacks(t, y)
  <2>1. \A y \in g.nodes : Weights(t)[y] = Blacks(t, y)
    BY <1>4, ThreeColors DEF Weights, Blacks
  <2> QED BY <1>2, <2>1 DEF Level
<1> DEFINE B == {y \in g.nodes : depths[y] # {h[y]}}
<1>9. B = {}
  <2>1. ASSUME NEW y \in g.nodes, \A s \in Sides : t.kid[s][y] # Nil => t.kid[s][y] \notin B
        PROVE  y \notin B
    <3>1. ASSUME NEW s \in Sides PROVE depths[t.kid[s][y]] = {Height(h, t.kid[s][y])}
      <4>1. t.kid[s][y] # Nil => t.kid[s][y] \in g.nodes
        BY <1>3, Children
      <4> QED BY <1>6, <2>1, <4>1 DEF Height
    <3>2. /\ depths[t.kid["left"][y]] = {Height(h, t.kid["left"][y])}
          /\ depths[t.kid["right"][y]] = {Height(h, t.kid["right"][y])}
      BY <3>1, TwoSides
    <3>3. /\ h[y] = Height(h, t.kid["left"][y]) + Blacks(t, y)
          /\ h[y] = Height(h, t.kid["right"][y]) + Blacks(t, y)
      BY <1>8, TwoSides
    <3>4. depths[y] = {d + Blacks(t, y) : d \in depths[t.kid["left"][y]] \cup depths[t.kid["right"][y]]}
      BY <1>4, <1>7
    <3>5. depths[y] = {h[y]}
      <4> HIDE DEF B
      <4>1. \A z : z \in depths[y] <=> z = h[y]
        BY <3>2, <3>3, <3>4
      <4> QED BY <4>1
    <3> QED BY <3>5
  <2>2. B \in SUBSET g.nodes
    OBVIOUS
  <2> HIDE DEF B
  <2> QED BY <1>3, <2>1, <2>2, SubInduction
<1>10. BlackDepths(t, t.root) = depths[t.root]
  BY DEF BlackDepths, depths, Step
<1>11. \E n : depths[t.root] = {n}
  <2>1. t.root # Nil => t.root \in g.nodes
    BY <1>3 DEF Charted, Rooted
  <2>2. CASE t.root = Nil
    BY <1>6, <2>2
  <2>3. CASE t.root # Nil
    BY <1>9, <2>1, <2>3
  <2> QED BY <2>2, <2>3
<1>12. \A n : Cardinality({n}) = 1
  BY FS_Singleton
<1> QED BY <1>3, <1>4, <1>10, <1>11, <1>12

-----------------------------------------------------------------------------
(***************************************************************************)
(* The inductive invariant.                                                *)
(***************************************************************************)

\* Every rule of the table tab is in its place.
TableTyped(tab) ==
  /\ tab \in [Ids -> Rules \cup {NoRule}]
  /\ \A x \in Ids : tab[x] # NoRule => IdOf(tab[x]) = x

\* The rules of it.
RulesOf(tab) == {r \in Rules : tab[IdOf(r)] = r}

Typed ==
  /\ setup \in Setups /\ nUpdates \in 0..(Len(setup.built) + setup.updates)
  /\ tuples \in Seq(Masks) /\ \A i, j \in 1..Len(tuples) : tuples[i] = tuples[j] => i = j
  /\ TableTyped(table)
  /\ tree \in [Masks -> Trees] /\ max \in [Masks -> Int]
  /\ doubled \subseteq Masks

\* The histories: a rule given is in the table, unless it is shadowed.
Histories ==
  /\ given \subseteq Rules /\ IsFiniteSet(given)
  /\ RulesOf(table) \subseteq given
  /\ shadowed \subseteq given /\ shadowed \cap RulesOf(table) = {}
  /\ given \subseteq shadowed \cup RulesOf(table)
  /\ exposed \subseteq RulesOf(table)

\* Every rule has a tuple, and a tuple that has a rule that was not exposed
\* has its priority in the heap.
Heaps ==
  \A r \in RulesOf(table) :
    /\ Exists(r.mask)
    /\ r \notin exposed => r.priority <= max[r.mask] /\ r.priority \in DataIn(tree[r.mask])

TreesGood == \A m \in Masks : GoodTree(tree[m]) /\ (m \notin doubled => EvenTree(tree[m]))

OrderedInv == Typed /\ Histories /\ Heaps /\ TreesGood

\* The places of the rules.
LEMMA Places ==
  /\ \A r \in Rules : IdOf(r) \in Ids /\ r.mask \in Masks /\ r.priority \in Nat /\ r.priority # 0 /\ r # NoRule
  /\ \A r, s \in Rules : r # s => r.priority # s.priority
  /\ \A m \in Masks, p \in Packets : <<m, Key(m, p)>> \in Ids
<1>1. ASSUME NEW r \in Rules
      PROVE  IdOf(r) \in Ids /\ r.mask \in Masks /\ r.priority \in Nat /\ r.priority # 0 /\ r # NoRule
  <2>1. r.mask \in Masks /\ r.key \in SUBSET r.mask /\ r.priority \in Nat /\ r # NoRule
    BY RulesAssumption
  <2>2. r.mask \subseteq Bits
    BY <2>1, MasksAssumption
  <2>3. r.priority > 0
    BY OrderedAssumption
  <2>4. IdOf(r) \in Ids
    BY <2>1, <2>2 DEF IdOf, Ids
  <2> QED BY <2>1, <2>3, <2>4
<1>2. \A r, s \in Rules : r # s => r.priority # s.priority
  BY DistinctPriorities
<1>3. \A m \in Masks, p \in Packets : <<m, Key(m, p)>> \in Ids
  BY MasksAssumption DEF Ids, Key, Packets
<1> QED BY <1>1, <1>2, <1>3

\* What the tuples hold.
LEMMA HeldIs ==
  ASSUME TableTyped(table)
  PROVE  /\ AllHeld = RulesOf(table)
         /\ \A m \in Masks : Held(m) = {r \in RulesOf(table) : r.mask = m}
<1>1. /\ table \in [Ids -> Rules \cup {NoRule}]
      /\ \A x \in Ids : table[x] # NoRule => IdOf(table[x]) = x
  BY DEF TableTyped
<1>2. \A m \in Masks : Held(m) = {r \in RulesOf(table) : r.mask = m}
  <2> SUFFICES ASSUME NEW m \in Masks PROVE Held(m) = {r \in RulesOf(table) : r.mask = m}
    OBVIOUS
  <2>1. ASSUME NEW r \in Held(m) PROVE r \in RulesOf(table) /\ r.mask = m
    <3>1. PICK x \in Ids : x[1] = m /\ r = table[x] /\ r # NoRule
      BY <2>1 DEF Held
    <3>2. r \in Rules /\ IdOf(r) = x
      BY <1>1, <3>1
    <3>3. IdOf(r)[1] = r.mask
      BY DEF IdOf
    <3> QED BY <3>1, <3>2, <3>3 DEF RulesOf
  <2>2. ASSUME NEW r \in RulesOf(table), r.mask = m PROVE r \in Held(m)
    <3>1. r \in Rules /\ table[IdOf(r)] = r /\ IdOf(r) \in Ids /\ r # NoRule
      BY Places DEF RulesOf
    <3>2. IdOf(r)[1] = m
      BY <2>2 DEF IdOf
    <3> QED BY <3>1, <3>2 DEF Held
  <2> QED BY <2>1, <2>2
<1>3. AllHeld = RulesOf(table)
  <2>1. \A r \in RulesOf(table) : r.mask \in Masks
    BY Places DEF RulesOf
  <2> QED BY <1>2, <2>1 DEF AllHeld
<1> QED BY <1>2, <1>3

\* The initial states have the invariant.
LEMMA InitOrderedInv == Init => OrderedInv
<1> SUFFICES ASSUME Init PROVE OrderedInv
  OBVIOUS
<1>1. RulesOf(table) = {}
  BY Places DEF Init, RulesOf
<1>2. Typed
  <2>1. setup \in Setups /\ nUpdates = 0 /\ tuples = <<>> /\ doubled = {}
    BY DEF Init
  <2>2. Len(setup.built) \in Nat /\ setup.updates \in Nat
    BY <2>1, OrderedAssumption
  <2>3. nUpdates \in 0..(Len(setup.built) + setup.updates)
    BY <2>1, <2>2
  <2>4. TableTyped(table)
    BY DEF Init, TableTyped
  <2>5. tree \in [Masks -> Trees] /\ max \in [Masks -> Int]
    BY EmptyIsGood DEF Init
  <2> QED BY <2>1, <2>3, <2>4, <2>5 DEF Typed
<1>3. Histories
  <2>1. IsFiniteSet({})
    BY FS_EmptySet
  <2> QED BY <1>1, <2>1 DEF Init, Histories
<1>4. Heaps
  BY <1>1 DEF Heaps
<1>5. TreesGood
  BY EmptyIsGood DEF Init, TreesGood
<1> QED BY <1>2, <1>3, <1>4, <1>5 DEF OrderedInv

\* Every update counts.
LEMMA UpdateTyped ==
  ASSUME Typed, NEW r \in Rules, Update(r)
  PROVE  setup' \in Setups /\ nUpdates' \in 0..(Len(setup'.built) + setup'.updates)
<1>1. setup \in Setups /\ nUpdates \in 0..(Len(setup.built) + setup.updates)
  BY DEF Typed
<1>2. Len(setup.built) \in Nat /\ setup.updates \in Nat
  BY <1>1, OrderedAssumption
<1>3. setup' = setup /\ nUpdates' = nUpdates + 1 /\ nUpdates < Len(setup.built) + setup.updates
  BY DEF Update
<1> QED BY <1>1, <1>2, <1>3

\* The rules of the table after a rule has gone in, and after one has gone out.
LEMMA TablePut ==
  ASSUME NEW tab, TableTyped(tab), NEW r \in Rules
  PROVE  LET new == [tab EXCEPT ![IdOf(r)] = IF tab[IdOf(r)] = NoRule THEN r ELSE tab[IdOf(r)]]
         IN  /\ TableTyped(new)
             /\ tab[IdOf(r)] = NoRule => RulesOf(new) = RulesOf(tab) \cup {r}
             /\ tab[IdOf(r)] # NoRule => RulesOf(new) = RulesOf(tab)
             /\ new[IdOf(r)] = r <=> r \in RulesOf(new)
<1> DEFINE new == [tab EXCEPT ![IdOf(r)] = IF tab[IdOf(r)] = NoRule THEN r ELSE tab[IdOf(r)]]
<1>1. /\ tab \in [Ids -> Rules \cup {NoRule}]
      /\ \A x \in Ids : tab[x] # NoRule => IdOf(tab[x]) = x
  BY DEF TableTyped
<1>2. IdOf(r) \in Ids /\ r # NoRule /\ \A s \in Rules : IdOf(s) \in Ids
  BY Places
<1>3. \A x \in Ids : new[x] = IF x = IdOf(r) /\ tab[x] = NoRule THEN r ELSE tab[x]
  BY <1>1, <1>2
<1>4. new \in [Ids -> Rules \cup {NoRule}]
  BY <1>1, <1>2
<1> HIDE DEF new
<1>5. TableTyped(new)
  BY <1>1, <1>3, <1>4 DEF TableTyped
<1>6. tab[IdOf(r)] # NoRule => RulesOf(new) = RulesOf(tab)
  BY <1>2, <1>3 DEF RulesOf
<1>7. ASSUME tab[IdOf(r)] = NoRule PROVE RulesOf(new) = RulesOf(tab) \cup {r}
  <2>1. ASSUME NEW s \in Rules PROVE new[IdOf(s)] = s <=> tab[IdOf(s)] = s \/ s = r
    <3>1. CASE IdOf(s) = IdOf(r)
      <4>1. new[IdOf(s)] = r /\ tab[IdOf(s)] = NoRule
        BY <1>2, <1>3, <1>7, <3>1
      <4>2. s # NoRule
        BY Places
      <4> QED BY <4>1, <4>2
    <3>2. CASE IdOf(s) # IdOf(r)
      BY <1>2, <1>3, <3>2
    <3> QED BY <3>1, <3>2
  <2> QED BY <2>1 DEF RulesOf
<1>8. new[IdOf(r)] = r <=> r \in RulesOf(new)
  BY DEF RulesOf
<1> QED BY <1>5, <1>6, <1>7, <1>8 DEF new

\* The table without a rule that it had.
LEMMA TableCleared ==
  ASSUME NEW tab, TableTyped(tab), NEW r \in Rules, tab[IdOf(r)] = r
  PROVE  LET new == [tab EXCEPT ![IdOf(r)] = NoRule]
         IN  TableTyped(new) /\ RulesOf(new) = RulesOf(tab) \ {r}
<1> DEFINE new == [tab EXCEPT ![IdOf(r)] = NoRule]
<1>1. /\ tab \in [Ids -> Rules \cup {NoRule}]
      /\ \A x \in Ids : tab[x] # NoRule => IdOf(tab[x]) = x
  BY DEF TableTyped
<1>2. IdOf(r) \in Ids /\ \A s \in Rules : IdOf(s) \in Ids /\ s # NoRule
  BY Places
<1>3. \A x \in Ids : new[x] = IF x = IdOf(r) THEN NoRule ELSE tab[x]
  BY <1>1, <1>2
<1>4. new \in [Ids -> Rules \cup {NoRule}]
  BY <1>1, <1>2
<1> HIDE DEF new
<1>5. TableTyped(new)
  BY <1>1, <1>3, <1>4 DEF TableTyped
<1>6. ASSUME NEW s \in Rules PROVE new[IdOf(s)] = s <=> tab[IdOf(s)] = s /\ s # r
  <2>1. CASE IdOf(s) = IdOf(r)
    <3>1. new[IdOf(s)] = NoRule /\ tab[IdOf(s)] = r
      BY <1>2, <1>3, <2>1
    <3> QED BY <1>2, <3>1
  <2>2. CASE IdOf(s) # IdOf(r)
    BY <1>2, <1>3, <2>2
  <2> QED BY <2>1, <2>2
<1>7. RulesOf(new) = RulesOf(tab) \ {r}
  BY <1>6 DEF RulesOf
<1> QED BY <1>5, <1>7 DEF new

\* The tuples after a rule has got one.
LEMMA TuplesPut ==
  ASSUME tuples \in Seq(Masks), \A i, j \in 1..Len(tuples) : tuples[i] = tuples[j] => i = j, NEW m \in Masks
  PROVE  LET new == TuplesWith(m)
         IN  /\ new \in Seq(Masks) /\ \A i, j \in 1..Len(new) : new[i] = new[j] => i = j
             /\ \E i \in 1..Len(new) : new[i] = m
             /\ \A k : Exists(k) => \E i \in 1..Len(new) : new[i] = k
<1> DEFINE new == TuplesWith(m)
<1>1. Len(tuples) \in Nat /\ \A i \in 1..Len(tuples) : tuples[i] \in Masks
  OBVIOUS
<1>2. CASE Exists(m)
  BY <1>2 DEF TuplesWith, Exists
<1>3. CASE ~Exists(m)
  <2>1. new = Append(tuples, m)
    BY <1>3 DEF TuplesWith
  <2>2. /\ new \in Seq(Masks) /\ Len(new) = Len(tuples) + 1
        /\ new[Len(tuples) + 1] = m /\ \A i \in 1..Len(tuples) : new[i] = tuples[i]
    <3>1. /\ Append(tuples, m) \in Seq(Masks) /\ Len(Append(tuples, m)) = Len(tuples) + 1
          /\ Append(tuples, m)[Len(tuples) + 1] = m
          /\ \A i \in 1..Len(tuples) : Append(tuples, m)[i] = tuples[i]
      BY <1>1
    <3> QED BY <2>1, <3>1
  <2> HIDE DEF new
  <2>3. \A i \in 1..Len(tuples) : tuples[i] # m
    BY <1>3 DEF Exists
  <2>4. ASSUME NEW i \in 1..Len(new), NEW j \in 1..Len(new), new[i] = new[j] PROVE i = j
    <3>1. i \in 1..Len(tuples) \/ i = Len(tuples) + 1
      BY <1>1, <2>2
    <3>2. j \in 1..Len(tuples) \/ j = Len(tuples) + 1
      BY <1>1, <2>2
    <3> QED BY <2>2, <2>3, <2>4, <3>1, <3>2
  <2>5. Len(tuples) + 1 \in 1..Len(new) /\ \A i \in 1..Len(tuples) : i \in 1..Len(new)
    BY <1>1, <2>2
  <2>6. \A k : Exists(k) => \E i \in 1..Len(new) : new[i] = k
    BY <2>2, <2>5 DEF Exists
  <2>7. \E i \in 1..Len(new) : new[i] = m
    BY <2>2, <2>5
  <2> QED BY <2>2, <2>4, <2>6, <2>7 DEF new
<1> QED BY <1>2, <1>3

\* The rule is in its place after it, or it is shadowed.
LEMMA InsertHistories ==
  ASSUME OrderedInv, NEW r \in Rules, InsertRule(r)
  PROVE  Histories' /\ TableTyped(table')
<1>1. /\ given \subseteq Rules /\ IsFiniteSet(given) /\ RulesOf(table) \subseteq given
      /\ shadowed \subseteq given /\ shadowed \cap RulesOf(table) = {}
      /\ given \subseteq shadowed \cup RulesOf(table) /\ exposed \subseteq RulesOf(table)
  BY DEF OrderedInv, Histories
<1>2. /\ table' = [table EXCEPT ![IdOf(r)] = IF table[IdOf(r)] = NoRule THEN r ELSE table[IdOf(r)]]
      /\ given' = given \cup {r}
      /\ shadowed' = IF table'[IdOf(r)] = r THEN shadowed \ {r} ELSE shadowed \cup {r}
      /\ exposed' = exposed \ {r}
  BY DEF InsertRule
<1>3. /\ TableTyped(table')
      /\ table[IdOf(r)] = NoRule => RulesOf(table') = RulesOf(table) \cup {r}
      /\ table[IdOf(r)] # NoRule => RulesOf(table') = RulesOf(table)
      /\ table'[IdOf(r)] = r <=> r \in RulesOf(table')
  <2>1. TableTyped(table)
    BY DEF OrderedInv, Typed
  <2> QED BY <1>2, <2>1, TablePut
<1>4. RulesOf(table') = RulesOf(table) \cup {r} \/ RulesOf(table') = RulesOf(table)
  BY <1>3
<1>5. IsFiniteSet(given')
  BY <1>1, <1>2, FS_AddElement
<1>6. given' \subseteq Rules /\ RulesOf(table') \subseteq given' /\ shadowed' \subseteq given'
  BY <1>1, <1>2, <1>4
<1>7. CASE r \in RulesOf(table')
  <2>1. shadowed' = shadowed \ {r}
    BY <1>2, <1>3, <1>7
  <2> QED BY <1>1, <1>2, <1>3, <1>4, <1>5, <1>6, <1>7, <2>1 DEF Histories
<1>8. CASE r \notin RulesOf(table')
  <2>1. shadowed' = shadowed \cup {r}
    BY <1>2, <1>3, <1>8
  <2> QED BY <1>1, <1>2, <1>3, <1>4, <1>5, <1>6, <1>8, <2>1 DEF Histories
<1> QED BY <1>7, <1>8

\* insertRule keeps the invariant.
LEMMA InsertKeeps ==
  ASSUME OrderedInv, NEW r \in Rules, InsertRule(r)
  PROVE  OrderedInv'
<1> DEFINE m == r.mask
           p == r.priority
           t == tree[m]
<1>1. Typed /\ Heaps /\ TreesGood
  BY DEF OrderedInv
<1>2. m \in Masks /\ p \in Nat /\ p # 0
  BY Places
<1>3. /\ Update(r) /\ Room(t)
      /\ tuples' = TuplesWith(m)
      /\ tree' = [tree EXCEPT ![m] = Insert(t, p)]
      /\ max' = [max EXCEPT ![m] = MaxWith(m, p)]
      /\ exposed' = exposed \ {r} /\ doubled' = doubled
  BY DEF InsertRule, TreeWith
<1>4. Histories' /\ TableTyped(table')
  BY InsertHistories
<1>5. /\ tree \in [Masks -> Trees] /\ max \in [Masks -> Int] /\ doubled \subseteq Masks
      /\ tuples \in Seq(Masks) /\ \A i, j \in 1..Len(tuples) : tuples[i] = tuples[j] => i = j
  BY <1>1 DEF Typed
<1>6. GoodTree(t) /\ (m \notin doubled => EvenTree(t))
  BY <1>1, <1>2 DEF TreesGood
<1>7. /\ GoodTree(Insert(t, p)) /\ (EvenTree(t) => EvenTree(Insert(t, p)))
      /\ Insert(t, p) \in Trees /\ DataIn(Insert(t, p)) = DataIn(t) \cup {p}
  <2> HIDE DEF m, p, t
  <2> QED BY <1>2, <1>3, <1>6, InsertGood
<1>8. /\ tuples' \in Seq(Masks) /\ \A i, j \in 1..Len(tuples') : tuples'[i] = tuples'[j] => i = j
      /\ Exists(m)' /\ \A k : Exists(k) => Exists(k)'
  <2> HIDE DEF m, p, t
  <2>1. /\ TuplesWith(m) \in Seq(Masks)
        /\ \A i, j \in 1..Len(TuplesWith(m)) : TuplesWith(m)[i] = TuplesWith(m)[j] => i = j
        /\ \E i \in 1..Len(TuplesWith(m)) : TuplesWith(m)[i] = m
        /\ \A k : Exists(k) => \E i \in 1..Len(TuplesWith(m)) : TuplesWith(m)[i] = k
    BY <1>2, <1>5, TuplesPut
  <2> QED BY <1>3, <2>1 DEF Exists
<1> HIDE DEF m, p, t
<1>9. /\ tree'[m] = Insert(t, p) /\ \A k \in Masks : k # m => tree'[k] = tree[k]
      /\ tree' \in [Masks -> Trees]
  BY <1>2, <1>3, <1>5, <1>7
<1>10. /\ MaxWith(m, p) \in Int /\ MaxWith(m, p) >= max[m] /\ MaxWith(m, p) >= p /\ max[m] \in Int
  BY <1>2, <1>5 DEF MaxWith
<1>11. /\ max'[m] = MaxWith(m, p) /\ \A k \in Masks : k # m => max'[k] = max[k]
       /\ max' \in [Masks -> Int]
  BY <1>2, <1>3, <1>5, <1>10
<1>12. Typed'
  BY <1>1, <1>3, <1>4, <1>5, <1>8, <1>9, <1>11, UpdateTyped DEF Typed
<1>13. TreesGood'
  BY <1>1, <1>3, <1>6, <1>7, <1>9 DEF TreesGood
<1>14. Heaps'
  <2> SUFFICES ASSUME NEW s \in RulesOf(table')
               PROVE  /\ Exists(s.mask)'
                      /\ s \notin exposed' => s.priority <= max'[s.mask] /\ s.priority \in DataIn(tree'[s.mask])
    BY DEF Heaps
  <2>1. s \in Rules /\ s.mask \in Masks /\ s.priority \in Nat
    BY Places DEF RulesOf
  <2>2. s = r \/ s \in RulesOf(table)
    <3>1. TableTyped(table)
      BY <1>1 DEF Typed
    <3>2. table' = [table EXCEPT ![IdOf(r)] = IF table[IdOf(r)] = NoRule THEN r ELSE table[IdOf(r)]]
      BY DEF InsertRule
    <3>3. RulesOf(table') \subseteq RulesOf(table) \cup {r}
      BY <3>1, <3>2, TablePut
    <3> QED BY <3>3
  <2>3. CASE s = r
    <3>1. s.mask = m /\ s.priority = p
      BY <2>3 DEF m, p
    <3>2. p <= max'[m]
      BY <1>2, <1>10, <1>11
    <3>3. p \in DataIn(tree'[m])
      BY <1>7, <1>9
    <3> QED BY <1>8, <3>1, <3>2, <3>3
  <2>4. CASE s # r /\ s \in RulesOf(table)
    <3>1. /\ Exists(s.mask)
          /\ s \notin exposed => s.priority <= max[s.mask] /\ s.priority \in DataIn(tree[s.mask])
      BY <1>1, <2>4 DEF Heaps
    <3>2. s \notin exposed' => s \notin exposed
      BY <1>3, <2>4
    <3>3. ASSUME s \notin exposed PROVE s.priority <= max'[s.mask] /\ s.priority \in DataIn(tree'[s.mask])
      <4>1. CASE s.mask = m
        <5>1. s.priority <= max[m] /\ s.priority \in DataIn(t)
          BY <3>1, <3>3, <4>1 DEF t
        <5>2. s.priority <= max'[m]
          BY <1>10, <1>11, <2>1, <5>1
        <5>3. s.priority \in DataIn(tree'[m])
          BY <1>7, <1>9, <5>1
        <5> QED BY <4>1, <5>2, <5>3
      <4>2. CASE s.mask # m
        BY <1>9, <1>11, <2>1, <3>1, <3>3, <4>2
      <4> QED BY <4>1, <4>2
    <3>4. Exists(s.mask)'
      BY <1>8, <3>1
    <3> QED BY <3>2, <3>3, <3>4
  <2> QED BY <2>2, <2>3, <2>4
<1> QED BY <1>4, <1>12, <1>13, <1>14 DEF OrderedInv

\* The maximum that erase leaves is an integer.
LEMMA MaxTyped ==
  ASSUME NEW t, GoodTree(t), NEW d \in Nat
  PROVE  LET c == deleteBST(t, d)
         IN  c.node # Nil => MaxAfter(c.tree, c.node) \subseteq Int
<1> DEFINE c == deleteBST(t, d)
           v == c.tree
           x == c.node
<1>1. PICK g : Charted(t, g)
  BY DEF GoodTree, Sound
<1>2. Charted(v, g) /\ (x # Nil => x \in g.nodes)
  BY <1>1, DeleteBSTKeeps
<1> HIDE DEF c
<1>3. \A z \in g.nodes : z \in Nodes /\ v.data[z] \in Nat
  <2>1. v \in Trees
    BY <1>2 DEF Charted
  <2>2. \A z \in g.nodes : z \in Nodes
    BY <1>2, MapTypes
  <2> QED BY <2>1, <2>2 DEF Trees
<1>4. ASSUME x # Nil PROVE MaxAfter(v, x) \subseteq Int
  <2> DEFINE right == v.kid["right"][x]
  <2>1. x \in g.nodes /\ "right" \in Sides
    BY <1>2, <1>4 DEF Sides
  <2>2. v.data[x] \in Int
    BY <1>3, <2>1
  <2>3. ASSUME right # Nil PROVE v.data[Extreme(v, right, "right")] \in Int
    <3>1. right \in g.nodes
      <4>1. v.kid["right"][x] # Nil
        BY <2>3
      <4> QED BY <1>2, <2>1, <4>1, Children
    <3> HIDE DEF right
    <3>2. Extreme(v, right, "right") \in g.nodes
      BY <1>2, <2>1, <3>1, ExtremeNode
    <3> QED BY <1>3, <3>2
  <2>4. Garbage \subseteq Int
    BY OrderedAssumption
  <2> QED BY <2>2, <2>3, <2>4 DEF MaxAfter
<1> QED BY <1>4 DEF c

\* The histories after a rule has left its tuple.
LEMMA DeleteHistories ==
  ASSUME OrderedInv, NEW r \in Rules, DeleteRule(r)
  PROVE  /\ Histories' /\ TableTyped(table') /\ r \in RulesOf(table)
         /\ RulesOf(table') = RulesOf(table) \ {r}
         /\ Held(r.mask) = {s \in RulesOf(table) : s.mask = r.mask}
<1>1. /\ given \subseteq Rules /\ IsFiniteSet(given) /\ RulesOf(table) \subseteq given
      /\ shadowed \subseteq given /\ shadowed \cap RulesOf(table) = {}
      /\ given \subseteq shadowed \cup RulesOf(table) /\ exposed \subseteq RulesOf(table)
  BY DEF OrderedInv, Histories
<1>2. /\ table[IdOf(r)] = r
      /\ table' = [table EXCEPT ![IdOf(r)] = NoRule]
      /\ given' = given \ {r} /\ shadowed' = shadowed
      /\ exposed' = exposed \ {r} \/ exposed' = (exposed \cup Held(r.mask)) \ {r}
  BY DEF DeleteRule
<1>3. TableTyped(table) /\ r.mask \in Masks
  BY Places DEF OrderedInv, Typed
<1>4. r \in RulesOf(table) /\ TableTyped(table') /\ RulesOf(table') = RulesOf(table) \ {r}
  <2>1. r \in RulesOf(table)
    BY <1>2 DEF RulesOf
  <2> QED BY <1>2, <1>3, <2>1, TableCleared
<1>5. Held(r.mask) = {s \in RulesOf(table) : s.mask = r.mask}
  BY <1>3, HeldIs
<1>6. IsFiniteSet(given')
  BY <1>1, <1>2, FS_RemoveElement
<1>7. exposed' \subseteq RulesOf(table')
  BY <1>1, <1>2, <1>4, <1>5
<1>8. /\ given' \subseteq Rules /\ RulesOf(table') \subseteq given'
      /\ shadowed' \subseteq given' /\ shadowed' \cap RulesOf(table') = {}
      /\ given' \subseteq shadowed' \cup RulesOf(table')
  BY <1>1, <1>2, <1>4
<1> QED BY <1>4, <1>5, <1>6, <1>7, <1>8 DEF Histories

\* deleteRule of a rule that the tuple holds keeps the invariant.
LEMMA DeleteKeeps ==
  ASSUME OrderedInv, NEW r \in Rules, DeleteRule(r)
  PROVE  OrderedInv'
<1> DEFINE m == r.mask
           p == r.priority
           t == tree[m]
           cut == deleteBST(t, p)
           u == fixDeleteRBTree(cut.tree, cut.node)
<1>1. Typed /\ Heaps /\ TreesGood
  BY DEF OrderedInv
<1>2. m \in Masks /\ p \in Nat /\ p # 0
  BY Places
<1>3. Update(r) /\ tuples' = tuples
  BY DEF DeleteRule
<1>4. \/ /\ cut.node = Nil /\ tree' = [tree EXCEPT ![m] = cut.tree] /\ exposed' = exposed \ {r}
         /\ max' = max /\ doubled' = doubled
      \/ /\ cut.node # Nil
         /\ tree' = [tree EXCEPT ![m] = u]
         /\ \E v \in MaxAfter(cut.tree, cut.node) : max' = [max EXCEPT ![m] = v]
         /\ exposed' = (exposed \cup Held(m)) \ {r}
         /\ doubled' = IF LeftDouble(tree'[m]) THEN doubled \cup {m} ELSE doubled
  BY DEF DeleteRule
<1>5. GoodTree(t) /\ (m \notin doubled => EvenTree(t))
  BY <1>1, <1>2 DEF TreesGood
<1>6. /\ GoodTree(cut.tree) /\ (EvenTree(t) => EvenTree(cut.tree)) /\ cut.tree \in Trees
      /\ \A q \in DataIn(t) : q # p => q \in DataIn(cut.tree)
      /\ cut.node # Nil => /\ GoodTree(u) /\ u \in Trees
                           /\ EvenTree(t) /\ ~LeftDouble(u) => EvenTree(u)
  <2> HIDE DEF m, p, t
  <2> QED BY <1>2, <1>5, EraseGood
<1>7. cut.node # Nil => MaxAfter(cut.tree, cut.node) \subseteq Int
  <2> HIDE DEF m, p, t
  <2> QED BY <1>2, <1>5, MaxTyped
<1>8. /\ Histories' /\ TableTyped(table') /\ r \in RulesOf(table)
      /\ RulesOf(table') = RulesOf(table) \ {r}
      /\ Held(m) = {s \in RulesOf(table) : s.mask = m}
  BY DeleteHistories
<1>9. /\ tree \in [Masks -> Trees] /\ max \in [Masks -> Int] /\ doubled \subseteq Masks
      /\ tuples \in Seq(Masks) /\ \A i, j \in 1..Len(tuples) : tuples[i] = tuples[j] => i = j
  BY <1>1 DEF Typed
<1>10. \A s \in RulesOf(table) : s \in Rules /\ s.mask \in Masks /\ (s.mask = m /\ s # r => s.priority # p)
  <2>1. \A s \in RulesOf(table) : s \in Rules
    BY DEF RulesOf
  <2> QED BY <2>1, Places
<1>11. \A s \in RulesOf(table) :
         /\ Exists(s.mask)
         /\ s \notin exposed => s.priority <= max[s.mask] /\ s.priority \in DataIn(tree[s.mask])
  BY <1>1 DEF Heaps
<1>12. \A k : Exists(k) => Exists(k)'
  BY <1>3 DEF Exists
<1> HIDE DEF m, p, cut, u
<1>13. CASE cut.node = Nil
  <2>1. /\ tree' = [tree EXCEPT ![m] = cut.tree] /\ exposed' = exposed \ {r}
        /\ max' = max /\ doubled' = doubled
    BY <1>4, <1>13
  <2>2. /\ tree'[m] = cut.tree /\ \A k \in Masks : k # m => tree'[k] = tree[k]
        /\ tree' \in [Masks -> Trees]
    BY <1>2, <1>6, <1>9, <2>1
  <2>3. Typed'
    BY <1>1, <1>3, <1>8, <1>9, <2>1, <2>2, UpdateTyped DEF Typed
  <2>4. TreesGood'
    BY <1>1, <1>5, <1>6, <2>1, <2>2 DEF TreesGood
  <2>5. Heaps'
    <3> SUFFICES ASSUME NEW s \in RulesOf(table')
                 PROVE  /\ Exists(s.mask)'
                        /\ s \notin exposed' => s.priority <= max'[s.mask] /\ s.priority \in DataIn(tree'[s.mask])
      BY DEF Heaps
    <3>1. s \in RulesOf(table) /\ s # r
      BY <1>8
    <3>2. s.mask \in Masks /\ (s.mask = m => s.priority # p) /\ Exists(s.mask)'
      BY <1>10, <1>11, <1>12, <3>1
    <3>3. ASSUME s \notin exposed' PROVE s.priority <= max'[s.mask] /\ s.priority \in DataIn(tree'[s.mask])
      <4>1. s.priority <= max[s.mask] /\ s.priority \in DataIn(tree[s.mask])
        BY <1>11, <2>1, <3>1, <3>3
      <4>2. CASE s.mask = m
        BY <1>6, <2>1, <2>2, <3>2, <4>1, <4>2
      <4>3. CASE s.mask # m
        BY <2>1, <2>2, <3>2, <4>1, <4>3
      <4> QED BY <4>2, <4>3
    <3> QED BY <3>2, <3>3
  <2> QED BY <1>8, <2>3, <2>4, <2>5 DEF OrderedInv
<1>14. CASE cut.node # Nil
  <2>1. PICK v \in MaxAfter(cut.tree, cut.node) :
          /\ tree' = [tree EXCEPT ![m] = u]
          /\ max' = [max EXCEPT ![m] = v]
          /\ exposed' = (exposed \cup Held(m)) \ {r}
          /\ doubled' = IF LeftDouble(tree'[m]) THEN doubled \cup {m} ELSE doubled
    BY <1>4, <1>14
  <2>2. /\ tree'[m] = u /\ \A k \in Masks : k # m => tree'[k] = tree[k]
        /\ tree' \in [Masks -> Trees]
    BY <1>2, <1>6, <1>9, <1>14, <2>1
  <2>3. /\ \A k \in Masks : k # m => max'[k] = max[k]
        /\ max' \in [Masks -> Int]
    <3>1. v \in Int
      BY <1>7, <1>14
    <3> QED BY <1>2, <1>9, <2>1, <3>1
  <2>4. doubled \subseteq doubled' /\ doubled' \subseteq Masks /\ (m \notin doubled' => ~LeftDouble(u))
    BY <1>2, <1>9, <2>1, <2>2
  <2>5. Typed'
    BY <1>1, <1>3, <1>8, <1>9, <2>2, <2>3, <2>4, UpdateTyped DEF Typed
  <2>6. TreesGood'
    <3> SUFFICES ASSUME NEW k \in Masks
                 PROVE  GoodTree(tree'[k]) /\ (k \notin doubled' => EvenTree(tree'[k]))
      BY DEF TreesGood
    <3>1. CASE k = m
      BY <1>5, <1>6, <1>14, <2>2, <2>4, <3>1
    <3>2. CASE k # m
      BY <1>1, <2>2, <2>4, <3>2 DEF TreesGood
    <3> QED BY <3>1, <3>2
  <2>7. Heaps'
    <3> SUFFICES ASSUME NEW s \in RulesOf(table')
                 PROVE  /\ Exists(s.mask)'
                        /\ s \notin exposed' => s.priority <= max'[s.mask] /\ s.priority \in DataIn(tree'[s.mask])
      BY DEF Heaps
    <3>1. s \in RulesOf(table) /\ s # r
      BY <1>8
    <3>2. s.mask \in Masks /\ Exists(s.mask)'
      BY <1>10, <1>11, <1>12, <3>1
    <3>3. ASSUME s \notin exposed' PROVE s.mask # m /\ s \notin exposed
      BY <1>8, <2>1, <3>1, <3>3
    <3> QED BY <1>11, <2>2, <2>3, <3>1, <3>2, <3>3
  <2> QED BY <1>8, <2>5, <2>6, <2>7 DEF OrderedInv
<1> QED BY <1>13, <1>14

\* deleteRule of another rule than its place has keeps the invariant.
LEMMA NothingKeeps ==
  ASSUME OrderedInv, NEW r \in Rules, DeleteNothing(r)
  PROVE  OrderedInv'
<1>1. /\ Update(r) /\ table[IdOf(r)] # r
      /\ given' = given \ {r} /\ shadowed' = shadowed \ {r}
      /\ UNCHANGED <<tuples, table, tree, max, exposed, doubled>>
  BY DEF DeleteNothing, tupleVars
<1>2. r \notin RulesOf(table) /\ RulesOf(table') = RulesOf(table)
  BY <1>1 DEF RulesOf
<1>3. Histories'
  <2>1. /\ given \subseteq Rules /\ IsFiniteSet(given) /\ RulesOf(table) \subseteq given
        /\ shadowed \subseteq given /\ shadowed \cap RulesOf(table) = {}
        /\ given \subseteq shadowed \cup RulesOf(table) /\ exposed \subseteq RulesOf(table)
    BY DEF OrderedInv, Histories
  <2>2. IsFiniteSet(given')
    BY <1>1, <2>1, FS_RemoveElement
  <2> QED BY <1>1, <1>2, <2>1, <2>2 DEF Histories
<1>4. Typed'
  <2>1. Typed
    BY DEF OrderedInv
  <2> QED BY <1>1, <2>1, UpdateTyped DEF Typed
<1>5. Heaps' /\ TreesGood'
  BY <1>1, <1>2 DEF OrderedInv, Heaps, TreesGood, Exists
<1> QED BY <1>3, <1>4, <1>5 DEF OrderedInv

\* Each step keeps the invariant.
LEMMA NextOrderedInv == OrderedInv /\ [Next]_vars => OrderedInv'
<1> SUFFICES ASSUME OrderedInv, [Next]_vars PROVE OrderedInv'
  OBVIOUS
<1>1. CASE UNCHANGED vars
  BY <1>1 DEF OrderedInv, Typed, Histories, Heaps, TreesGood, Exists, vars, tupleVars
<1>2. CASE Next
  BY <1>2, InsertKeeps, DeleteKeeps, NothingKeeps DEF Next
<1> QED BY <1>1, <1>2

\* The invariant holds throughout: rules are in their places, each that no erase
\* may have lost has its priority in the heap of its tuple, and the trees are
\* sound.
THEOREM TuplesOrdered == Spec => []OrderedInv
<1>1. Init => OrderedInv
  BY InitOrderedInv
<1>2. OrderedInv /\ [Next]_vars => OrderedInv'
  BY NextOrderedInv
<1> QED BY <1>1, <1>2, PTL DEF Spec

-----------------------------------------------------------------------------
(***************************************************************************)
(* What the runs check, for all values of the constants.                   *)
(***************************************************************************)

\* The variables keep their types, and every rule is in its place.
LEMMA InvTyped == OrderedInv => TypeOK
<1> SUFFICES ASSUME OrderedInv PROVE TypeOK
  OBVIOUS
<1>1. Typed /\ Histories
  BY DEF OrderedInv
<1>2. \A r \in AllHeld : table[IdOf(r)] = r
  BY <1>1, HeldIs DEF Typed, RulesOf
<1>3. \A i \in 1..Len(tuples) : tuples[i] \in Masks
  BY <1>1 DEF Typed
<1>4. given \subseteq Rules /\ shadowed \subseteq given /\ exposed \subseteq given
  BY <1>1 DEF Histories
<1>5. table \in [Ids -> Rules \cup {NoRule}]
  BY <1>1 DEF Typed, TableTyped
<1> QED BY <1>1, <1>2, <1>3, <1>4, <1>5 DEF TypeOK, Typed

\* Every variable has its type throughout (tss.cpp with the ordered tuples of
\* tuple.hpp): after any insertions and removals every link of a tree leads to
\* a node or is null (ll-rb-tree.hpp), what a table has for a mask and a key is
\* a rule of that mask and key, and the histories name rules only.
THEOREM Types == Spec => []TypeOK
<1>1. OrderedInv => TypeOK
  BY InvTyped
<1> QED BY <1>1, TuplesOrdered, PTL

\* Whatever is inserted and erased, the links of the tree of every tuple agree
\* with each other, it is in order and has no red node below a red one; as long
\* as no erase has left a node doubly black in it (ll-rb-tree.hpp:201) all its
\* ways down have as many black nodes, and no erase of a rule that is there
\* follows a null pointer.
THEOREM Balanced == Spec => []TreesBalanced
<1>1. OrderedInv => TreesBalanced
  <2> SUFFICES ASSUME OrderedInv, NEW m \in Masks
               PROVE  /\ LinksAgree(tree[m])
                      /\ m \notin doubled =>
                           /\ \A x \in Subtree(tree[m], tree[m].root) : tree[m].color[x] \in {RED, BLACK}
                           /\ Cardinality(BlackDepths(tree[m], tree[m].root)) = 1
                           /\ \A r \in Held(m) :
                                LET cut == deleteBST(tree[m], r.priority)
                                IN  cut.node # Nil => EraseEnds(cut.tree, cut.node)
    BY DEF TreesBalanced
  <2>1. GoodTree(tree[m]) /\ (m \notin doubled => EvenTree(tree[m])) /\ TableTyped(table)
    BY DEF OrderedInv, TreesGood, Typed
  <2> DEFINE t == tree[m]
  <2> HIDE DEF t
  <2>2. GoodTree(t) /\ (m \notin doubled => EvenTree(t))
    BY <2>1 DEF t
  <2>3. LinksAgree(t)
    BY <2>2, GoodLinks
  <2>4. ASSUME m \notin doubled
        PROVE  /\ \A x \in Subtree(t, t.root) : t.color[x] \in {RED, BLACK}
               /\ Cardinality(BlackDepths(t, t.root)) = 1
    BY <2>2, <2>4, EvenDepths
  <2>5. ASSUME m \notin doubled, NEW r \in Held(m)
        PROVE  deleteBST(t, r.priority).node # Nil
                 => EraseEnds(deleteBST(t, r.priority).tree, deleteBST(t, r.priority).node)
    <3>1. r \in Rules
      BY <2>1, <2>5, HeldIs DEF RulesOf
    <3>2. r.priority \in Nat
      BY <3>1, Places
    <3> QED BY <2>2, <2>5, <3>2, EraseGood
  <2> QED BY <2>3, <2>4, <2>5 DEF t
<1> QED BY <1>1, TuplesOrdered, PTL

\* The heap of a tuple has the priority of every rule of the tuple and none of
\* them is above its maximum, except those that an erase that took a node out
\* may have lost (priority-heap.hpp:18-27, ll-rb-tree.hpp:162).
THEOREM HeapsKeepRules == Spec => []HeapKeepsHeld
<1>1. OrderedInv => HeapKeepsHeld
  <2>1. ASSUME OrderedInv PROVE HeapKeepsHeld
    <3>1. AllHeld = RulesOf(table)
      BY <2>1, HeldIs DEF OrderedInv, Typed
    <3> QED BY <2>1, <3>1 DEF HeapKeepsHeld, OrderedInv, Heaps
  <2> QED BY <2>1
<1> QED BY <1>1, TuplesOrdered, PTL

\* A finite set of rules that has one that matches has a best one.
LEMMA BestExists ==
  ASSUME NEW S \in SUBSET Rules, IsFiniteSet(S), NEW p
  PROVE  IF \E r \in S : Matches(r, p)
         THEN /\ BestMatch(S, p) \in S /\ Matches(BestMatch(S, p), p)
              /\ \A r \in S : Matches(r, p) => r.priority <= BestMatch(S, p).priority
         ELSE BestMatch(S, p) = NoRule
<1> DEFINE hits == {r \in S : Matches(r, p)}
           b == CHOOSE r \in hits : \A s \in hits : s.priority <= r.priority
<1>1. CASE hits = {}
  BY <1>1 DEF BestMatch
<1>2. CASE hits # {}
  <2>1. \A r \in hits : r.priority \in Nat
    BY RulesAssumption
  <2>2. IsFiniteSet(hits)
    <3>1. hits \subseteq S
      OBVIOUS
    <3> HIDE DEF hits
    <3> QED BY <3>1, FS_Subset
  <2>3. \E t \in hits : \A s \in hits : s.priority <= t.priority
    <3> DEFINE up(r) == {s \in hits : r.priority <= s.priority}
               F == {up(r) : r \in hits}
    <3> HIDE DEF hits
    <3>1. F \subseteq FiniteSubsetsOf(hits) /\ F # {}
      <4>1. ASSUME NEW r \in hits PROVE up(r) \in FiniteSubsetsOf(hits)
        <5>1. up(r) \subseteq hits
          OBVIOUS
        <5> HIDE DEF up
        <5>2. IsFiniteSet(up(r))
          BY <2>2, <5>1, FS_Subset
        <5> QED BY <5>1, <5>2 DEF FiniteSubsetsOf
      <4> HIDE DEF up
      <4> QED BY <1>2, <4>1
    <3>2. PICK A \in F : \A B \in F : ~(B \subseteq A /\ B # A)
      <4> HIDE DEF F
      <4> QED BY <3>1, MinimalSet
    <3>3. PICK t \in hits : A = up(t)
      OBVIOUS
    <3>4. ASSUME NEW s \in hits PROVE s.priority <= t.priority
      <4> SUFFICES ASSUME ~(s.priority <= t.priority) PROVE FALSE
        OBVIOUS
      <4>1. up(s) \subseteq A /\ t \in A /\ t \notin up(s)
        BY <2>1, <3>3
      <4> QED BY <3>2, <4>1
    <3> QED BY <3>4
  <2>4. b \in hits /\ \A s \in hits : s.priority <= b.priority
    <3> HIDE DEF hits
    <3> QED BY <2>3, Zenon
  <2>5. BestMatch(S, p) = b
    BY <1>2 DEF BestMatch
  <2> HIDE DEF b
  <2> QED BY <2>4, <2>5
<1> QED BY <1>1, <1>2

\* A search goes through the tuples one after the other: if with tuple number b
\* it has the rule that no rule of V is better than, it has that rule at the end.
LEMMA SearchEnds ==
  ASSUME NEW p \in Packets, NEW V, NoRule \in V,
         tuples \in Seq(Masks),
         \A m \in Masks : table[<<m, Key(m, p)>>] \in V
  PROVE  \E f : /\ Answer(p) = f[Len(tuples)]
                /\ f \in [0..Len(tuples) -> V]
                /\ f[0] = NoRule
                /\ \A i \in 1..Len(tuples) :
                     f[i] = IF Skipped(tuples[i], f[i - 1]) THEN f[i - 1]
                            ELSE Better(f[i - 1], table[<<tuples[i], Key(tuples[i], p)>>])
<1> DEFINE n == Len(tuples)
           Step(i, v) == IF Skipped(tuples[i], v) THEN v
                         ELSE Better(v, table[<<tuples[i], Key(tuples[i], p)>>])
           step == [k \in 1..n |-> [v \in V |-> Step(k, v)]]
           after == CHOOSE f : f = [i \in 0..n |-> IF i = 0 THEN NoRule ELSE Step(i, f[i - 1])]
<1>1. n \in Nat /\ \A i \in 1..n : tuples[i] \in Masks
  OBVIOUS
<1>2. \A i \in 1..n : \A v \in V : Step(i, v) \in V
  BY <1>1 DEF Better
<1>3. Answer(p) = after[n]
  BY DEF Answer
<1> HIDE DEF Step
<1>4. \A k \in 1..n : \A v \in V : step[k][v] = Step(k, v)
  OBVIOUS
<1> HIDE DEF n, step
<1>5. PICK f : f \in Stepwise(n, V, NoRule, step)
  BY <1>1, <1>2, <1>4, RecursionUpTo
<1>6. f \in [0..n -> V] /\ f[0] = NoRule /\ \A k \in 1..n : f[k] = step[k][f[k - 1]]
  BY <1>5 DEF Stepwise
<1>7. \A k \in 0..n : f[k] = IF k = 0 THEN NoRule ELSE Step(k, f[k - 1])
  <2> SUFFICES ASSUME NEW k \in 0..n, k # 0 PROVE f[k] = Step(k, f[k - 1])
    BY <1>6
  <2>1. k \in 1..n /\ k - 1 \in 0..n
    BY <1>1
  <2> QED BY <1>4, <1>6, <2>1
<1>8. f = [i \in 0..n |-> IF i = 0 THEN NoRule ELSE Step(i, f[i - 1])]
  BY <1>6, <1>7
<1>9. after = [i \in 0..n |-> IF i = 0 THEN NoRule ELSE Step(i, after[i - 1])]
  BY <1>8
<1> HIDE DEF after
<1>10. after[0] = NoRule /\ \A i \in 1..n : after[i] = Step(i, after[i - 1])
  <2>1. 0 \in 0..n /\ \A i \in 1..n : i \in 0..n /\ i # 0
    BY <1>1
  <2> QED BY <1>9, <2>1
<1>11. \A i \in 0..n : after[i] \in V
  <2> DEFINE T == {i \in 0..n : after[i] \in V}
  <2>1. 0 \in T
    BY <1>1, <1>10
  <2>2. ASSUME NEW k \in 0..(n - 1), k \in T PROVE k + 1 \in T
    <3>1. k + 1 \in 1..n /\ k + 1 \in 0..n /\ (k + 1) - 1 = k
      BY <1>1
    <3> QED BY <1>2, <1>10, <2>2, <3>1
  <2> HIDE DEF T
  <2>3. \A k \in 0..n : k \in T
    BY <1>1, <2>1, <2>2, UpTo
  <2> QED BY <2>3 DEF T
<1>12. after \in [0..n -> V]
  <2>1. \A g : g = [i \in 0..n |-> IF i = 0 THEN NoRule ELSE Step(i, g[i - 1])] => g = [i \in 0..n |-> g[i]]
    OBVIOUS
  <2>2. after = [i \in 0..n |-> after[i]]
    BY <1>9, <2>1
  <2> QED BY <1>11, <2>2
<1> QED BY <1>3, <1>10, <1>12 DEF n, Step

\* The answer when no rule of the tuples is better than best, which the heap
\* of its tuple has, or when no rule of them matches.
LEMMA SearchFinds ==
  ASSUME OrderedInv, NEW p \in Packets, NEW best,
         \/ best = NoRule /\ \A r \in RulesOf(table) : ~Matches(r, p)
         \/ /\ best \in RulesOf(table) \ exposed /\ Matches(best, p)
            /\ \A r \in RulesOf(table) : Matches(r, p) => r.priority <= best.priority
  PROVE  Answer(p) = best
<1> DEFINE V == {NoRule} \cup {r \in RulesOf(table) : Matches(r, p)}
           n == Len(tuples)
<1>1. /\ table \in [Ids -> Rules \cup {NoRule}]
      /\ \A x \in Ids : table[x] # NoRule => IdOf(table[x]) = x
      /\ tuples \in Seq(Masks) /\ max \in [Masks -> Int]
  BY DEF OrderedInv, Typed, TableTyped
<1>2. ASSUME NEW m \in Masks PROVE table[<<m, Key(m, p)>>] \in V
  <2>1. <<m, Key(m, p)>> \in Ids
    BY Places
  <2> SUFFICES ASSUME table[<<m, Key(m, p)>>] # NoRule PROVE table[<<m, Key(m, p)>>] \in V
    OBVIOUS
  <2> DEFINE r == table[<<m, Key(m, p)>>]
  <2>2. r \in Rules /\ IdOf(r) = <<m, Key(m, p)>>
    BY <1>1, <2>1
  <2>3. r.mask = m /\ r.key = Key(m, p)
    BY <2>2 DEF IdOf
  <2>4. table[IdOf(r)] = r
    BY <2>2
  <2> HIDE DEF r
  <2>5. r \in V
    BY <2>2, <2>3, <2>4 DEF RulesOf, Matches
  <2> QED BY <2>5 DEF r
<1>3. PICK f : /\ Answer(p) = f[n]
               /\ f \in [0..n -> V]
               /\ f[0] = NoRule
               /\ \A i \in 1..n :
                    f[i] = IF Skipped(tuples[i], f[i - 1]) THEN f[i - 1]
                           ELSE Better(f[i - 1], table[<<tuples[i], Key(tuples[i], p)>>])
  <2>1. NoRule \in V
    OBVIOUS
  <2> HIDE DEF V
  <2> QED BY <1>1, <1>2, <2>1, SearchEnds
<1>4. n \in Nat /\ n \in 0..n /\ \A i \in 1..n : tuples[i] \in Masks
  BY <1>1
<1>5. CASE best = NoRule /\ \A r \in RulesOf(table) : ~Matches(r, p)
  <2>1. V = {NoRule}
    BY <1>5
  <2> HIDE DEF V, n
  <2>2. f[n] \in V
    BY <1>3, <1>4
  <2> QED BY <1>3, <1>5, <2>1, <2>2
<1>6. CASE /\ best \in RulesOf(table) \ exposed /\ Matches(best, p)
           /\ \A r \in RulesOf(table) : Matches(r, p) => r.priority <= best.priority
  <2>1. /\ best \in Rules /\ best # NoRule /\ best.mask \in Masks /\ best.priority \in Nat
        /\ table[IdOf(best)] = best /\ best \in V
    BY <1>6, Places DEF RulesOf
  <2>2. ASSUME NEW v \in V PROVE v = NoRule \/ v = best \/ (v.priority \in Nat /\ v.priority < best.priority)
    <3> SUFFICES ASSUME v # NoRule, v # best PROVE v.priority \in Nat /\ v.priority < best.priority
      OBVIOUS
    <3>1. v \in RulesOf(table) /\ Matches(v, p)
      BY <2>2
    <3> HIDE DEF V
    <3>2. v.priority <= best.priority
      BY <1>6, <3>1
    <3>3. v \in Rules
      BY <3>1 DEF RulesOf
    <3>4. v.priority # best.priority /\ v.priority \in Nat
      BY <2>1, <3>3, Places
    <3> QED BY <2>1, <3>2, <3>4
  <2>3. Exists(best.mask) /\ best.priority <= max[best.mask]
    BY <1>6 DEF OrderedInv, Heaps
  <2>4. PICK b \in 1..n : tuples[b] = best.mask
    BY <2>3 DEF Exists
  <2>5. table[<<tuples[b], Key(tuples[b], p)>>] = best
    BY <1>6, <2>1, <2>4 DEF Matches, IdOf
  <2>6. b \in 1..n
    OBVIOUS
  <2> DEFINE T == {k \in 0..n : k >= b => f[k] = best}
  <2> HIDE DEF V, n
  <2>7. ASSUME NEW v \in V PROVE Better(best, v) = best
    BY <2>1, <2>2, <2>7 DEF Better
  <2>8. 0 \in T
    BY <1>4, <2>6
  <2>9. ASSUME NEW k \in 0..(n - 1), k \in T PROVE k + 1 \in T
    <3>1. k + 1 \in 1..n /\ k + 1 \in 0..n /\ (k + 1) - 1 = k /\ k \in 0..n
      BY <1>4
    <3>2. f[k + 1] = IF Skipped(tuples[k + 1], f[k]) THEN f[k]
                     ELSE Better(f[k], table[<<tuples[k + 1], Key(tuples[k + 1], p)>>])
      BY <1>3, <3>1
    <3>3. f[k] \in V
      BY <1>3, <3>1
    <3>4. CASE f[k] = best
      <4>1. table[<<tuples[k + 1], Key(tuples[k + 1], p)>>] \in V
        BY <1>2, <1>4, <3>1
      <4>2. f[k + 1] = best
        BY <2>7, <3>2, <3>4, <4>1
      <4> QED BY <3>1, <4>2
    <3>5. CASE f[k] # best /\ k + 1 = b
      <4>1. f[k] = NoRule \/ (f[k].priority \in Nat /\ f[k].priority < best.priority)
        BY <2>2, <3>3, <3>5
      <4>2. max[best.mask] \in Int
        BY <1>1, <2>1
      <4>3. ~Skipped(tuples[k + 1], f[k])
        BY <2>1, <2>3, <2>4, <3>5, <4>1, <4>2 DEF Skipped
      <4>4. f[k + 1] = Better(f[k], best)
        BY <2>5, <3>2, <3>5, <4>3
      <4>5. f[k + 1] = best
        BY <2>1, <4>1, <4>4 DEF Better
      <4> QED BY <3>1, <4>5
    <3>6. CASE f[k] # best /\ k + 1 # b
      <4>1. ~(k >= b)
        BY <2>9, <3>6
      <4>2. ~(k + 1 >= b)
        BY <2>6, <3>1, <3>6, <4>1
      <4> QED BY <3>1, <4>2
    <3> QED BY <3>4, <3>5, <3>6
  <2> HIDE DEF T
  <2>10. n \in T
    BY <1>4, <2>8, <2>9, UpTo
  <2>11. n >= b
    BY <1>4, <2>6
  <2> QED BY <1>3, <2>10, <2>11 DEF T
<1> QED BY <1>5, <1>6

\* The search of the tuples in any order, which skips those whose maximum is no
\* better than what it has, answers with the best of the rules given (tss.cpp,
\* tuple.hpp), unless that rule found its key in use or an erase may have lost
\* the maximum of its tuple.
THEOREM OrderedAnswers == Spec => []AnswerBest
<1>1. OrderedInv => AnswerBest
  <2> SUFFICES ASSUME OrderedInv, NEW p \in Packets,
                      BestMatch(given, p) = NoRule \/ BestMatch(given, p) \notin shadowed \cup exposed
               PROVE  Answer(p) = BestMatch(given, p)
    BY DEF AnswerBest
  <2> DEFINE best == BestMatch(given, p)
  <2>1. /\ given \in SUBSET Rules /\ IsFiniteSet(given) /\ RulesOf(table) \subseteq given
        /\ given \subseteq shadowed \cup RulesOf(table)
    BY DEF OrderedInv, Histories
  <2>2. IF \E r \in given : Matches(r, p)
        THEN /\ best \in given /\ Matches(best, p)
             /\ \A r \in given : Matches(r, p) => r.priority <= best.priority
        ELSE best = NoRule
    BY <2>1, BestExists
  <2>3. best = NoRule \/ best \notin shadowed \cup exposed
    OBVIOUS
  <2> HIDE DEF best
  <2>4. CASE \E r \in given : Matches(r, p)
    <3>1. best \in Rules /\ best # NoRule
      BY <2>1, <2>2, <2>4, Places
    <3>2. best \in RulesOf(table) \ exposed
      BY <2>1, <2>2, <2>3, <2>4, <3>1
    <3>3. Answer(p) = best
      BY <2>1, <2>2, <2>4, <3>2, SearchFinds
    <3> QED BY <3>3 DEF best
  <2>5. CASE ~\E r \in given : Matches(r, p)
    <3>1. best = NoRule /\ \A r \in RulesOf(table) : ~Matches(r, p)
      BY <2>1, <2>2, <2>5
    <3>2. Answer(p) = best
      BY <3>1, SearchFinds
    <3> QED BY <3>2 DEF best
  <2> QED BY <2>4, <2>5
<1> QED BY <1>1, TuplesOrdered, PTL
=============================================================================
