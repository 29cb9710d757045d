------------------------------ MODULE RuleFiles ------------------------------
(***************************************************************************)
(* data/rule.cpp, data/update.cpp and data/traffic.cpp: the rule, update,  *)
(* template and traffic files that are made from ClassBench rows or from   *)
(* routing prefixes, what is loaded from them, and the chains that a       *)
(* chained classifier then builds.                                         *)
(*                                                                         *)
(* A line of a file has a priority, an action and items, each the data and *)
(* the prefix length of a field.  Of the five fields of a row the source   *)
(* address and the ports are here: the other two are like an address.      *)
(***************************************************************************)
EXTENDS MinPathCover, PortRange

CONSTANTS
  FieldBits,   \* the width of a field, 32 in the code
  Rows,        \* what a ClassBench row may be: addr, an item; sp and dp, pairs of ports
  rrc_vec,     \* items that the routing table has
  FieldNb,     \* the fields of a rule made of them
  RuleNb,      \* the number of rules asked for, without those to insert
  Share,       \* 10 in the code: for that many rules one is inserted, one deleted
  GivenFiles,  \* rule files from elsewhere: sequences of lines
  MaxRows      \* bound: rows read

ASSUME FilesAssumption ==
  /\ FieldBits \in Nat /\ PortBits <= FieldBits
  /\ FieldNb \in Nat \ {0} /\ RuleNb \in Nat /\ Share \in Nat \ {0} /\ MaxRows \in Nat
  \* An address has no bit behind its prefix.
  /\ \A item \in rrc_vec \cup {row.addr : row \in Rows} :
       item.data \in 0..(2^FieldBits - 1) /\ item.data % 2^(FieldBits - item.len) = 0

VARIABLES
  source,      \* where the rules come from: "rows", "prefixes" or "given"
  step,        \* what comes next: "make", "load", "chain" or "done"
  pc_vec,      \* the rules of each row that was read
  files,       \* the three files
  traffic,     \* the traffic for the rules, and the one for after the updates
  rules,       \* the rules that were loaded
  insertions, deletions,   \* the updates that were loaded
  updated,     \* the rules loaded from the template file
  paths        \* the chains of the rules' tuples, as numbers of tuples

vars == <<source, step, pc_vec, files, traffic, rules, insertions, deletions, updated, paths>>

NoFiles ==
  [rule     |-> [n |-> 0, lines |-> <<>>],
   update   |-> [ins |-> 0, del |-> 0, lines |-> <<>>],
   template |-> [n |-> 0, lines |-> <<>>]]

NoTraffic ==
  [match |-> [n |-> 0, packets |-> <<>>], update |-> [n |-> 0, packets |-> <<>>]]

Init ==
  /\ source \in {"rows", "prefixes", "given"}
  /\ step = "make"
  /\ pc_vec = <<>> /\ files = NoFiles /\ traffic = NoTraffic
  /\ rules = <<>> /\ insertions = <<>> /\ deletions = <<>> /\ updated = <<>>
  /\ paths = <<>>

-----------------------------------------------------------------------------
(***************************************************************************)
(* Making the files.                                                       *)
(***************************************************************************)

SameData(a, b) == \A j \in DOMAIN a : a[j].data = b[j].data

\* Mutant of Before: the other way round.
BeforeFalling(a, b) ==
  \E j \in DOMAIN a : /\ a[j].data > b[j].data
                      /\ \A k \in 1..(j - 1) : a[k].data = b[k].data

\* rule_item compares the data only, so that rule_set has one rule with it.
Before(a, b) ==
  \E j \in DOMAIN a : /\ a[j].data < b[j].data
                      /\ \A k \in 1..(j - 1) : a[k].data = b[k].data

\* The order of a std::set of rules with different data.
InOrder(rule_set) ==
  [i \in 1..Cardinality(rule_set) |->
     CHOOSE x \in rule_set : Cardinality({y \in rule_set : Before(y, x)}) = i - 1]

\* Mutant of TemplateLines: the inserted rules are numbered from one.
TemplateLinesRestarted(vec, rule_nb, delete_nb) ==
  [i \in 1..(Len(vec) - delete_nb) |->
     LET k == i + delete_nb
     IN  [priority |-> IF k <= rule_nb THEN k ELSE k - rule_nb, action |-> k, items |-> vec[k]]]

TemplateLines(vec, rule_nb, delete_nb) ==
  [i \in 1..(Len(vec) - delete_nb) |->
     [priority |-> i + delete_nb, action |-> i + delete_nb, items |-> vec[i + delete_nb]]]

\* createRules: the rules in their order, those after the first rule_nb to be
\* inserted, the first of them to be deleted.
createRules(rule_set, rule_nb) ==
  LET vec       == InOrder(rule_set)
      insert_nb == Len(vec) - rule_nb
      delete_nb == rule_nb \div Share
      line(i)   == [priority |-> i, action |-> i, items |-> vec[i]]
      update(i) == [type |-> IF i <= delete_nb THEN 0 ELSE 1,
                    line |-> line(IF i <= delete_nb THEN i ELSE rule_nb + i - delete_nb)]
  IN  [rule     |-> [n |-> rule_nb, lines |-> [i \in 1..rule_nb |-> line(i)]],
       update   |-> [ins |-> insert_nb, del |-> delete_nb,
                     lines |-> [i \in 1..(delete_nb + insert_nb) |-> update(i)]],
       template |-> [n |-> rule_nb + insert_nb - delete_nb,
                     lines |-> TemplateLines(vec, rule_nb, delete_nb)]]

\* MASK_LEN_32, and the bits of a field that are one.
MaskOf(items) == UNION {{<<j, b>> : b \in 1..items[j].len} : j \in DOMAIN items}
DataOf(items) ==
  UNION {{<<j, b>> : b \in {c \in 1..FieldBits : (items[j].data \div 2^(FieldBits - c)) % 2 = 1}}
         : j \in DOMAIN items}

PacketsOf(vec) == [i \in DOMAIN vec |-> DataOf(vec[i])]

\* Mutant of generateTrafficOfUpadate: the deleted rules get packets too.
generateTrafficOfDeleted(tr_nb, rule_vec, ins_vec, del_set) ==
  [n |-> tr_nb, packets |-> PacketsOf(rule_vec \o ins_vec)]

\* A packet for every rule that stays or comes, with the rule's data.
generateTrafficOfUpadate(tr_nb, rule_vec, ins_vec, del_set) ==
  LET kept == SelectSeq(rule_vec, LAMBDA a : ~\E b \in del_set : SameData(a, b))
  IN  [n |-> tr_nb, packets |-> PacketsOf(kept \o ins_vec)]

\* A packet for every rule.
generateTrafficFromVec(tr_nb, rule_vec) == [n |-> tr_nb, packets |-> PacketsOf(rule_vec)]

\* What is made for the three files; del_set is a set of data.
TrafficOf(made) ==
  LET rule_vec == [i \in 1..made.rule.n |-> made.rule.lines[i].items]
      items(u) == u.line.items
      changes(type) == SelectSeq(made.update.lines, LAMBDA u : u.type = type)
      ins_vec  == [i \in 1..made.update.ins |-> items(changes(1)[i])]
      del_set  == {items(u) : u \in Range(changes(0))}
  IN  [match  |-> generateTrafficFromVec(made.rule.n, rule_vec),
       update |-> generateTrafficOfUpadate(made.rule.n + Len(ins_vec) - Cardinality(del_set),
                                           rule_vec, ins_vec, del_set)]

\* init_pc_vec: one row after the other.
ReadRow ==
  /\ step = "make" /\ source = "rows" /\ Len(pc_vec) < MaxRows
  /\ \E row \in Rows : \E added \in split_pc_rules(row) : pc_vec' = Append(pc_vec, added)
  /\ UNCHANGED <<source, step, files, traffic, rules, insertions, deletions, updated, paths>>

\* FILL_ITEM: a port has the low bits of its field.
ItemsOf(pc) ==
  LET port(p) == [data |-> p.port, len |-> p.mask + FieldBits - PortBits]
  IN  <<pc.row.addr, port(pc.s_port), port(pc.d_port)>>

\* The set of the rules of vec: one that is there keeps others of its data out.
RuleSet(vec) ==
  FoldLeft(LAMBDA S, pcs : S \cup {x \in {ItemsOf(pc) : pc \in pcs} : ~\E y \in S : SameData(x, y)},
           {}, vec)

\* Rows without a rule are left out: no file is made of them
\* (rule.cpp:242-246), so that there is nothing to load.
generatePcRuleFile ==
  /\ step = "make" /\ source = "rows"
  /\ \E k \in DOMAIN pc_vec : pc_vec[k] # {}
  /\ LET S == RuleSet(pc_vec)
     IN  files' = createRules(S, (Cardinality(S) * Share) \div (Share + 1))
  /\ traffic' = TrafficOf(files')
  /\ step' = "load"
  /\ UNCHANGED <<source, pc_vec, rules, insertions, deletions, updated, paths>>

\* Combinations are drawn until there are enough with different data.
generateRuleFile ==
  /\ step = "make" /\ source = "prefixes"
  /\ \E drawn \in [1..(RuleNb + RuleNb \div Share) -> [1..FieldNb -> rrc_vec]] :
       /\ \A i, j \in DOMAIN drawn : SameData(drawn[i], drawn[j]) => i = j
       /\ files' = createRules(Range(drawn), RuleNb)
  /\ traffic' = TrafficOf(files')
  /\ step' = "load"
  /\ UNCHANGED <<source, pc_vec, rules, insertions, deletions, updated, paths>>

TakeFile ==
  /\ step = "make" /\ source = "given"
  /\ \E f \in GivenFiles : files' = [NoFiles EXCEPT !.rule = [n |-> Len(f), lines |-> f]]
  /\ step' = "load"
  /\ UNCHANGED <<source, pc_vec, traffic, rules, insertions, deletions, updated, paths>>

-----------------------------------------------------------------------------
(***************************************************************************)
(* Loading, and the construction of chains.                                *)
(***************************************************************************)

RuleOf(line) ==
  [mask |-> MaskOf(line.items), key |-> Key(MaskOf(line.items), DataOf(line.items)),
   priority |-> line.priority]

loadMultiFieldRule(file) == [i \in 1..file.n |-> RuleOf(file.lines[i])]

\* A request to delete has action 0, whatever the file says.
loadMultiFieldUpdates(file, type) ==
  LET chosen == SelectSeq(file.lines, LAMBDA u : u.type = type)
  IN  [i \in DOMAIN chosen |->
         [rule |-> RuleOf(chosen[i].line), action |-> IF type = 0 THEN 0 ELSE chosen[i].line.action]]

LoadFiles ==
  /\ step = "load"
  /\ rules' = loadMultiFieldRule(files.rule)
  /\ insertions' = loadMultiFieldUpdates(files.update, 1)
  /\ deletions' = loadMultiFieldUpdates(files.update, 0)
  /\ updated' = loadMultiFieldRule(files.template)
  /\ step' = "chain"
  /\ UNCHANGED <<source, pc_vec, files, traffic, paths>>

\* generateResult: max_priority is never raised, so that the last rule of the
\* file that matches gives the action, and 0 stands for none.
generateResult(file, packets) ==
  LET hits(p) == SelectSeq(file.lines, LAMBDA l : Matches(RuleOf(l), p))
  IN  [i \in DOMAIN packets |-> IF hits(packets[i]) = <<>> THEN 0 ELSE Last(hits(packets[i])).action]

\* The masks of the tuples, in the order in which the rules create them.
TupleMasks ==
  FoldLeft(LAMBDA ms, r : IF r.mask \in Range(ms) THEN ms ELSE Append(ms, r.mask), <<>>, rules)

Construct ==
  /\ step = "chain"
  /\ paths' = minimumPathCovering(TupleMasks)
  /\ step' = "done"
  /\ UNCHANGED <<source, pc_vec, files, traffic, rules, insertions, deletions, updated>>

Next ==
  \/ ReadRow \/ generatePcRuleFile \/ generateRuleFile \/ TakeFile
  \/ LoadFiles \/ Construct

Spec == Init /\ [][Next]_vars

-----------------------------------------------------------------------------
(***************************************************************************)
(* Properties.                                                             *)
(***************************************************************************)

\* Each pair of ports of a row is in one rule of the row, and no other port is
\* in any: the blocks of split_one_port_range neither overlap nor overrun.
\* Only the last port of a range may be in none: one that is even, or that
\* comes after blocks from port 0 (pkt-cla-helper.cpp:19).
RowsSplit ==
  LET dropped(range, q) == q = range[2] /\ range[1] < q /\ (q % 2 = 0 \/ range[1] = 0)
      within(range, q)  == range[1] <= q /\ q <= range[2]
  IN  \A k \in DOMAIN pc_vec : \A row \in {pc.row : pc \in pc_vec[k]} :
        \A s, d \in Ports :
          LET n == Cardinality({pc \in pc_vec[k] : s \in PortsOf(pc.s_port) /\ d \in PortsOf(pc.d_port)})
          IN  IF ~within(row.sp, s) \/ ~within(row.dp, d) THEN n = 0
              ELSE n = 1 \/ (n = 0 /\ (dropped(row.sp, s) \/ dropped(row.dp, d)))

\* What the chained classifiers assume of rules (MarkedTuple) is what the made
\* files give: no two rules with the same masks and fields, and of two nested
\* ones the more specific has the higher priority, the inserted ones included.
\* Priorities come from sorting by data alone (rule-traffic.hpp:29), which has
\* to order nested rules although it never looks at their lengths.
PrioritiesNested ==
  (source # "given" /\ step \in {"chain", "done"}) =>
    LET all == Range(rules) \cup {u.rule : u \in Range(insertions)}
    IN  DistinctIn(all) /\ NestedIn(all)

\* The template file, from which the results after the updates are computed,
\* has the rules that the update file turns the rule file into: the numbers in
\* the heads of three files and the lines that go to each agree.
TemplateIsUpdated ==
  (source # "given" /\ step \in {"chain", "done"}) =>
    Range(updated) = (Range(rules) \ {u.rule : u \in Range(deletions)})
                     \cup {u.rule : u \in Range(insertions)}

\* The traffic has as many packets as its head says, and the packet of each
\* line is answered by the rule of that line and no other (all match traffic,
\* rule-traffic.hpp:106): no rule of higher priority covers its data, and
\* generateResult finds the best rule though it does not compare priorities
\* (data/traffic.cpp:293-297).
TrafficAnswered ==
  (source # "given" /\ step = "load") =>
    \A pair \in {<<files.rule, traffic.match>>, <<files.template, traffic.update>>} :
      LET file == pair[1]  sent == pair[2]
      IN  /\ sent.n = Len(sent.packets) /\ sent.n = file.n
          /\ \A i \in 1..sent.n :
               /\ BestMatch(Range(loadMultiFieldRule(file)), sent.packets[i]) = RuleOf(file.lines[i])
               /\ generateResult(file, sent.packets)[i] = file.lines[i].action

\* Every tuple is on one path, a path is nested from its first tuple to its
\* last, as the chain it becomes needs it (mpc.cpp:86), and there are no more
\* paths than tuples of which none covers another, so none could be saved.
LeastCover ==
  step = "done" =>
    LET ms == TupleMasks
        unrelated(A) == \A i, j \in A : ~Edge(ms, i, j)
    IN  /\ \A i \in DOMAIN ms :
             Cardinality({<<k, l>> \in (1..Len(paths)) \X (1..Len(ms)) :
                            l \in DOMAIN paths[k] /\ paths[k][l] = i}) = 1
        /\ \A k \in DOMAIN paths : \A l \in 2..Len(paths[k]) : Edge(ms, paths[k][l - 1], paths[k][l])
        /\ \E A \in SUBSET (DOMAIN ms) : unrelated(A) /\ Cardinality(A) = Len(paths)

=============================================================================
