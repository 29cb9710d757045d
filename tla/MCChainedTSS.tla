---------------------------- MODULE MCChainedTSS ----------------------------
(***************************************************************************)
(* A small rule space for ChainedTSS: two tuples that no chain can share,  *)
(* one below and one above both.                                           *)
(***************************************************************************)
EXTENDS ChainedTSS

R(m, k, p) == [mask |-> m, key |-> k, priority |-> p]

Bits2  == {1, 2}
Masks4 == {{}, {1}, {2}, {1, 2}}
Rules5 == {R({}, {}, 1), R({1, 2}, {}, 3), R({1}, {1}, 4), R({2}, {2}, 5),
           R({1, 2}, {1, 2}, 6)}
Rules6 == Rules5 \cup {R({2}, {}, 2)}

=============================================================================
