------------------------------ MODULE PortRange ------------------------------
(***************************************************************************)
(* pkt-cla-helper.cpp: a range of ports as prefixes, and a row of a        *)
(* ClassBench file as one rule per pair of prefixes.                       *)
(***************************************************************************)
EXTENDS Integers, FiniteSetsExt, Sequences

CONSTANT PortBits   \* 16 in the code
ASSUME PortBitsAssumption == PortBits \in Nat \ {0}

Ports == 0..(2^PortBits - 1)

\* __builtin_ctz of a port, cut to PortBits; for 0 the builtin is undefined,
\* and every value may come out.
TrailingZeros(x) ==
  IF x = 0 THEN 0..PortBits ELSE {Max({k \in 0..PortBits : x % 2^k = 0})}

\* Mutant of BlockBits: blocks may reach the port after the range.
BlockBitsPast(x, right, z) == Max({k \in 0..z : x + 2^k - 1 <= right + 1})

\* The inner loop: a block of z bits from x is made smaller until it fits.
BlockBits(x, right, z) == Max({k \in 0..z : x + 2^k - 1 <= right})

\* split_one_port_range: the vectors that it may return.
split_one_port_range(left, right) ==
  LET prefix(x, k) == [port |-> x, mask |-> PortBits - k]
      from[x \in Nat] ==
        IF x >= right THEN {<<>>}
        ELSE UNION {LET k == BlockBits(x, right, z)
                    IN  {<<prefix(x, k)>> \o s : s \in from[x + 2^k]} : z \in TrailingZeros(x)}
  IN  IF left > right THEN {<<>>}
      ELSE IF left = right THEN {<<prefix(left, 0)>>}
      ELSE from[left]

PortsOf(pfx) == pfx.port .. (pfx.port + 2^(PortBits - pfx.mask) - 1)

\* split_pc_rules: the rules that a row adds, for each pair of port prefixes.
split_pc_rules(row) ==
  {{[row |-> row, s_port |-> s[i], d_port |-> d[j]] : i \in DOMAIN s, j \in DOMAIN d} :
     s \in split_one_port_range(row.sp[1], row.sp[2]),
     d \in split_one_port_range(row.dp[1], row.dp[2])}

=============================================================================
