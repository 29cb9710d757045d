----------------------------- MODULE MCRuleFiles -----------------------------
(***************************************************************************)
(* Fields of three bits with ports of two, all ranges for one port, and    *)
(* rule files with up to five of seven masks in any order.                 *)
(***************************************************************************)
EXTENDS RuleFiles

Item(d, l) == [data |-> d, len |-> l]

Addrs   == {Item(0, 0), Item(4, 1), Item(4, 2), Item(6, 2)}
SRanges == {<<l, r>> : l, r \in Ports} \ {<<2, 0>>, <<2, 1>>, <<3, 0>>, <<3, 1>>, <<3, 2>>}
DRanges == {<<0, 3>>, <<1, 2>>}
AllRows == [addr : Addrs, sp : SRanges, dp : DRanges]

AllItems == Addrs \cup {Item(0, 1)}

AllBits  == (1..3) \X (1..3)
AllMasks == SUBSET AllBits

Lens == {<<0, 0, 0>>, <<1, 0, 0>>, <<0, 1, 0>>, <<1, 1, 0>>, <<1, 0, 1>>, <<2, 1, 1>>, <<2, 2, 0>>}
LineOf(i, lens) == [priority |-> i, action |-> i, items |-> [j \in 1..3 |-> Item(0, lens[j])]]
AllFiles ==
  UNION {{[i \in 1..n |-> LineOf(i, f[i])] :
            f \in {g \in [1..n -> Lens] : \A i, j \in 1..n : g[i] = g[j] => i = j}} : n \in 1..5}

=============================================================================
