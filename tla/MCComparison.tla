---------------------------- MODULE MCComparison ----------------------------
(***************************************************************************)
(* Two fields of two and three bits.  Mixed has rules of every kind that   *)
(* ExTupleChains tells apart; Shared has rules with a common bit, which    *)
(* HeadTuple and the single tree hash first, and under it a leaf with      *)
(* chains and a node with a list; Apart needs two tuples of TupleMerge;    *)
(* Few is answered by lists.                                               *)
(***************************************************************************)
EXTENDS Comparison

R(m, k, p) == [mask |-> m, key |-> k, priority |-> p]

Bits5     == 1..5
Fields    == << <<1, 2>>, <<3, 4, 5>> >>
Threshold2 == << {1, 2}, {3, 4} >>
Relaxed2  == << << {}, {1} >>, << {}, {3, 4} >> >>
Cal2      == << [m \in {{}, {1}, {1, 2}} |-> m \ {2}],
                [m \in {{}, {3}, {3, 4}, {3, 4, 5}} |-> m \ {5}] >>

Every  == R({}, {}, 1)
Src1 == R({1}, {1}, 2)
Dst1 == R({3}, {}, 3)
Src2 == R({1, 2}, {1, 2}, 4)
Dst2 == R({3, 4}, {3}, 5)
Two1 == R({1, 3}, {1, 3}, 6)
Dst3 == R({3, 4, 5}, {3, 5}, 7)
Mix2 == R({1, 3, 4}, {1, 3}, 8)
Mix3 == R({1, 3, 4, 5}, {1, 3, 5}, 9)
Mix4 == R({1, 3, 4, 5}, {1, 3}, 10)
Src0 == R({1, 2}, {}, 11)
Both == R({1, 2, 3, 4}, {1, 2, 3}, 12)
Two0 == R({1, 3}, {}, 13)

Mixed  == [built |-> <<Every, Src2, Dst2, Dst3, Mix2>>, fed |-> {Dst1, Mix3, Mix4, Both}, updates |-> 3]
Shared == [built |-> <<Src1, Src2, Two1, Mix2, Two0>>, fed |-> {Mix3, Src0, Both, Dst3}, updates |-> 3]
Apart  == [built |-> <<Src2, Dst2, Dst3>>, fed |-> {Dst1, Mix2, Both}, updates |-> 3]
Few    == [built |-> <<Mix2>>, fed |-> {Src1, Two1, Mix3, Dst1}, updates |-> 2]

AllSetups == {Mixed, Shared, Apart, Few}
AllRules  == UNION {{s.built[i] : i \in 1..Len(s.built)} \cup s.fed : s \in AllSetups}
AllMasks  == {r.mask : r \in AllRules}

=============================================================================
