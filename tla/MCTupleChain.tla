---------------------------- MODULE MCTupleChain ----------------------------
(***************************************************************************)
(* Small rule spaces for TupleChain.                                       *)
(***************************************************************************)
EXTENDS TupleChain

R(m, k, p) == [mask |-> m, key |-> k, priority |-> p]

\* Three nested masks and two keys in each of the longer ones.
Bits3  == {1, 2, 3}
Masks3 == {{1}, {1, 2}, {1, 2, 3}}
Rules3 == {R({1}, {1}, 1), R({1, 2}, {1}, 2), R({1, 2}, {1, 2}, 3),
           R({1, 2, 3}, {1, 3}, 4), R({1, 2, 3}, {1, 2, 3}, 5)}

\* Five nested masks with one rule each that matches {1, 2, 3, 4}, a rule
\* that meets only the shortest of them, and a mask that is nested with
\* some of the five only.
Bits4  == {1, 2, 3, 4}
Masks6 == {{}, {1}, {2}, {1, 2}, {1, 2, 3}, {1, 2, 3, 4}}
Rules6 == {R({}, {}, 0), R({1}, {1}, 1), R({2}, {2}, 2), R({1, 2}, {1, 2}, 3),
           R({1, 2, 3}, {1, 2, 3}, 4), R({1, 2, 3, 4}, {1, 3, 4}, 5),
           R({1, 2, 3, 4}, {1, 2, 3, 4}, 6)}

=============================================================================
