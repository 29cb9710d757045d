---------------------------- MODULE MinPathCover ----------------------------
(***************************************************************************)
(* class/graph/mpc.cpp: as few paths as possible through the tuples, by a  *)
(* maximum matching of each tuple with the next one of its path.           *)
(*                                                                         *)
(* The nodes are the tuples 1..Len(ms) in the order of their creation, and *)
(* ms their masks.  A matching is a record: pre and pip are the partners   *)
(* before and after a node, 0 for none, seen the nodes this round visited, *)
(* found whether the last try succeeded.                                   *)
(***************************************************************************)
EXTENDS RuleSpace, SequencesExt

\* GraphEdge(i, j): tuple i covers tuple j.
Edge(ms, i, j) == i # j /\ Cover(ms[i], ms[j])

\* add puts each edge in front of those of its node.
Successors(ms, x) == Reverse(SelectSeq([i \in DOMAIN ms |-> i], LAMBDA y : Edge(ms, x, y)))

\* init, and the memset of erfenpipei
Unmatched(ms) ==
  [pre   |-> [i \in DOMAIN ms |-> 0], pip |-> [i \in DOMAIN ms |-> 0],
   seen  |-> {}, found |-> FALSE]

RECURSIVE dfs(_, _, _, _)

\* Mutant of dfs: a partner that is taken is not moved to another one.
dfsGreedy(ms, x, ys, s) ==
  LET free == SelectSeq(ys, LAMBDA y : s.pre[y] = 0)
  IN  IF free = <<>> THEN [s EXCEPT !.found = FALSE]
      ELSE [s EXCEPT !.found = TRUE, !.pre[free[1]] = x, !.pip[x] = free[1]]

\* The search for a partner of x among ys: one that is free, or one whose
\* own predecessor finds another.
dfs(ms, x, ys, s) ==
  IF ys = <<>> THEN [s EXCEPT !.found = FALSE]
  ELSE LET y    == Head(ys)
           mark == [s EXCEPT !.seen = @ \cup {y}]
           free == IF s.pre[y] = 0 THEN [mark EXCEPT !.found = TRUE]
                   ELSE dfs(ms, s.pre[y], Successors(ms, s.pre[y]), mark)
       IN  IF y \in s.seen THEN dfs(ms, x, Tail(ys), s)
           ELSE IF free.found THEN [free EXCEPT !.pre[y] = x, !.pip[x] = y]
           ELSE dfs(ms, x, Tail(ys), free)

\* erfenpipei: a round for each node.
Matching(ms) ==
  FoldLeft(LAMBDA s, x : dfs(ms, x, Successors(ms, x), [s EXCEPT !.seen = {}]),
           Unmatched(ms), [i \in DOMAIN ms |-> i])

RECURSIVE Follow(_, _)
\* The nodes that the links of f lead to from i.
Follow(f, i) == IF f[i] = 0 THEN <<>> ELSE <<f[i]>> \o Follow(f, f[i])

\* bubbleSort: neighbours change places when the second covers the first.
Swapped(ms, path, j) ==
  IF Edge(ms, path[j + 1], path[j])
  THEN [path EXCEPT ![j] = path[j + 1], ![j + 1] = path[j]] ELSE path

bubbleSort(ms, path) ==
  LET pass(p, k) == FoldLeft(LAMBDA q, j : Swapped(ms, q, j), p, [j \in 1..k |-> j])
  IN  FoldLeft(pass, path, [i \in 1..(Len(path) - 1) |-> Len(path) - i])

\* minimumPathCovering: from each node that is on no path yet, the nodes
\* before it and those after it, then sorted.
minimumPathCovering(ms) ==
  LET s         == Matching(ms)
      path(i)   == <<i>> \o Follow(s.pre, i) \o Follow(s.pip, i)
      with(ps, i) == IF \E k \in DOMAIN ps : i \in Range(ps[k]) THEN ps
                     ELSE Append(ps, bubbleSort(ms, path(i)))
  IN  FoldLeft(with, <<>>, [i \in DOMAIN ms |-> i])

=============================================================================
