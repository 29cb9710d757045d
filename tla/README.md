# TupleChain: models, checks and proofs

TupleChain is a C++ library of packet classifiers. A classifier holds a set of
rules, each with a mask and a value per header field and a priority, and answers
for a packet with the matching rule of highest priority. The library's own
contribution is the *tuple chain*: tuples (all rules of one mask) ordered by mask
inclusion, with *markers* left in the shorter tuples so that a binary search over
the chain finds the answer, and with rules inserted and erased one at a time while
packets are being classified. This directory holds TLA+ modules that model that
core, TLC configurations that check it on small instances, and proofs that TLAPS
checks for every instance. Paths below are relative to the repository's root.

## 1. The system

### Components

| Component | State | Operations |
|---|---|---|
| Packet classification (`src/class/packet-classification.*`) | `m_rules`, `m_defaultRule` | `constructWithRules`, `matchPacket`, `processUpdate` (insert if `action`, else delete), linear `search` |
| Hash table (`src/class/multifield-hash.*`, `key-value.*`) | map from field arrays to pointers, one shared temporary key | `insert` (keeps an existing key), `erase`, `search` with or without a mask |
| Tuple (`src/class/tuple.*`) | mask, table; `OrderedTuple` also a priority heap | `insert`, `erase`, `search`, `cover` |
| Marked tuple (`src/class/marked-tuple.*`) | table, `m_entries`, `m_searchTable`, `prev/next/succ/fail`; entries with `type`, `rule`, `owners` | `insert`, `erase`, `searchEntry`, `insertMarker`, `leaveMarkers`; of entries `refresh`, `addMarker`, `setRule` |
| Tuple chain (`src/class/tuple-chain.*`) | `m_tuples`, `m_head`, `m_nTuples` | `insertTuple`, `getOptTuple`, `search` |
| Tuple space search (`src/class/tss.*`) | tuples by mask | construction, `search` pruned by `maxPriority`, `deleteRule` |
| Chained tuple space search (`src/class/c-tss.*`) | chains, `m_searchChain`, threshold | `finalizeConstruction`, `search`, `insertRule`, `insertTuple` |
| Minimum path cover (`src/class/graph/mpc.cpp`) | matching arrays | `dfs`, `erfenpipei`, `minimumPathCovering` |
| Head tuple chains (`src/class/head-tuple.*`, `hc-tss.*`) | head mask, one tree per chain and head key | `insert`, `search` |
| Priority heap (`src/class/priority-heap.hpp`, `ll-rb-tree.hpp`) | red-black tree with counts, `max` | `insert`, `erase` |
| Extended tuple chains (`src/class/tuple-node.*`, `ec-tss.*`) | tree of nodes, leaves are chained classifiers | construction, `search`, `insertRule`, `deleteRule` |
| Less specific rule list (`src/class/lsp-rule-list.*`) | an array of lists | `insertRule`, `deleteRule`, `search` |
| Range tuple search, tuple merge (`src/class/rtss.*`, `tm.*`) | relaxed tuples, ordered lists | construction, `matchPacket`, updates |
| Pruned search (`src/class/tss-pr.*`, `pruned-field.*`) | tries and bit maps per field | construction, `insertRule`, search |
| Low-level classifiers (`src/pc/*`) | links and tables copied from a classifier above | construction, search |
| Update managers (`src/dummy-update-manager.cpp`, `src/fib-update-manager.cpp`) | a buffer with head and tail, an emulator thread | `start`, `pullUpdates`, `stop` |
| Packet I/O (`src/dummy-io.cpp`, `src/ll-dummy-io.cpp`) | rx and tx rings, an emulator thread | `pullPackets`, `pushPackets` |
| Benchmark, threads (`src/benchmark.cpp`, `src/pp-thread.cpp`) | the worker loop, a stop flag | `run`, `updateSimulation`, `emulation` |
| Port ranges (`src/pkt-cla-helper.cpp`) | none | `split_one_port_range`, `split_pc_rules` |
| Rule and traffic data (`src/data/*`) | files | generators, readers |

### How they interact

`benchmark.cpp` constructs a classifier from a rule file, then either runs through
packets and updates (`updateSimulation`, which ends with a check of every answer) or
runs a loop that pulls updates from an update manager and packets from a packet ring
(`emulation`); the two producers are threads of their own, and the loop is the only
thread that touches the classifier. A chained classifier asks `minimumPathCovering`
to cut its tuples into chains, hands every tuple to a chain, asks all chains for each
packet and keeps the best answer. A chain asks its tuples; a tuple calls its `prev`
to leave markers, and entries call their owners in the tuples above to pass a rule on.
Head tuple chains replace the chain's search by trees of their own over the same
tuples; extended tuple chains put a tree of exact-match nodes in front.

### What is hard

*Sequences of updates.* Markers, owners and the rules that markers carry must stay
right through every order of tuple insertions, rule insertions and rule erasures; each
operation repairs only the part of the chain it knows about and trusts the rest.
*Stale copies.* A marker holds a copy of the best rule below it, a classifier a latch
that says which of its structures is searched, a heap a maximum.
*Boundaries.* The threshold between scan and hash, empty intervals of the search tree,
the first and last port of a range, rings that wrap.
*Threads.* Producer and worker share head and tail without locks.

### What makes the components correct

* Chain: nested tuples; markers for every entry in all shorter tuples; owner links
  through which a refresh finds what it must change; markers carry the best rule below;
  a search is logarithmic, ends, and answers like the linear list.
* Chained classifier: the best answer over its chains is the linear list's, on both
  sides of the latch, after updates as well.
* Path cover: every tuple in exactly one path, paths nested, as few as possible.
* Heap: the maximum is the maximum of what was inserted and not erased.
* Tree of nodes, head tuple, rule lists: the linear list's answer.
* Feeds and rings: in order, nothing lost or repeated, never more than asked for.

## 2. The modules and what they are over

In the order in which they were written, the core first.

| Module | Models | Over |
|---|---|---|
| `RuleSpace` | masks, keys, rules, packets, the best match | |
| `MarkedTuple` | entries, markers, refresh, insert, erase, the search of one tuple | `RuleSpace` |
| `ChainLinks` | where a tuple joins a chain, what that does to the entries, the search tree | `MarkedTuple` |
| `TupleChain` | one chain: insertion of tuples and rules, erasure, binary search | `ChainLinks` |
| `Classifier` | the abstract specification: a set of rules, and answers that are the best match | `RuleSpace` |
| `ChainedTuples` | a chained classifier as a value: path covers, hosts for tuples, updates, answers | `ChainLinks` |
| `ChainedTSS` | several chains, the latch, `m_rules`, the merge of answers; refines `Classifier` | `ChainedTuples` |
| `Threads` | the stop flag, launching and joining the emulator threads | |
| `PacketRing` | `DummyIO` and its low-level copy: the rings between emulator thread and worker | `Threads` |
| `UpdateFeed` | the dummy update manager: its emulator thread, its buffer, `pullUpdates` | `Threads` |
| `FibFeed` | the update manager for forwarding tables, from its file to the worker | `Threads` |
| `Emulation` | the worker's loop over them and how it stops | the three above |
| `CountedTree` | the red-black tree whose nodes count insertions | |
| `OrderedTSS` | tuple space search, a heap per tuple | `RuleSpace`, `CountedTree` |
| `TupleNodes` | the tree of tables, with chained classifiers as leaves | `ChainedTuples` |
| `ExtendedChains` | one such tree; three such trees and the less specific rule list | `TupleNodes` |
| `HeadChains` | the head tuple and the trees it keeps of each chain | `ChainedTuples`, `CountedTree` |
| `RelaxedTuples` | range tuple search and tuple merge | `RuleSpace` |
| `PrunedTuples` | tuples pruned by their fields | `RuleSpace` |
| `LowLevel` | what the three low-level classifiers take from a classifier, and their searches | `TupleNodes` |
| `Comparison` | one of these classifiers, built and updated as `benchmark.cpp` does | `LowLevel`; `ExtendedChains` to `PrunedTuples` by `INSTANCE` |
| `MinPathCover` | the matching, the paths, the sort of each path | `RuleSpace` |
| `PortRange` | ranges of ports as prefixes, a row as rules | |
| `RuleFiles` | rule, update, template and traffic files, what is loaded from them, the chains built of it | `MinPathCover`, `PortRange` |
| `MCTupleChain`, `MCChainedTSS`, `MCEmulation`, `MCOrderedTSS`, `MCComparison`, `MCRuleFiles` | values of the constants for TLC | |
| `NatExtrema` | least and greatest naturals, recursion up to a bound | |
| `ChainLinksProofs` | lemmas about one chain as a value: its markers and owners, and which rules its markers carry | `ChainLinks` |
| `TupleChainProofs` | theorems about one chain | `TupleChain`, `ChainLinksProofs` |
| `ChainedTSSProofs` | lemmas about several chains: how they are built, joined by tuples, updated and searched; theorems about the chained classifier | `ChainedTSS`, `ChainLinksProofs` |
| `EmulationProofs` | theorems about the rings, about the two feeds and about all of the emulation | `Emulation` |
| `CountedTreeProofs` | lemmas about the red-black tree as a value: its shape, its rotations, insertion | `CountedTree` |
| `OrderedTSSProofs` | lemmas about erasing from that tree: the search for a victim, the loop that repairs the tree, the cut; theorems about tuple space search and its heaps | `OrderedTSS`, `CountedTreeProofs` |
| `ComparisonProofs` | theorems about pruned tuples, range tuple search and tuple merge | `Comparison` |

Left of the plan: theorems about the trees of nodes and of heads in `Comparison`, and about the files
of `RuleFiles`, whose augmenting search is a recursive operator.

## 3. The modules in detail

### `RuleSpace`

A multi-field bit vector is the set of the positions of its one bits: `fields & mask` is an
intersection, `cover` an inclusion. A rule is a record of mask, key and priority. Three assumptions
on the constants say what vectors and rules are: `BitsAssumption` (a vector has finitely many
bits), `MasksAssumption` and `RulesAssumption` (a key has no bit outside its mask: the code hashes
`rule->fields` unmasked).

### `MarkedTuple`

Two more assumptions say what a rule file is: `DistinctRules` (the files are written from a set) and
`NestedPriority` (the more specific of two nested rules comes later in the file and so has the
higher priority: `TupleChain::search` takes the last hit for the best one).

All entries of all tuples are one function `ent` from pairs (mask, key) to records of
`bits` (`type`), `rule`, `owners`, `inTable`, `dead`. Pointers to entries are such pairs.
`dead` counts the entries of that key which `erase` has taken out of `m_table`: they stay
in `m_entries` with type 0 and a null rule, are met by a scan before the live entry of the
same key, and still get markers from `leaveMarkers`. The recursions of the code are
written in closed form:

* `InsertMarkers(c, ent, i, K)`, the calls `prev->insertMarker` for the entries of keys `K`
  at level `i`: a call goes down to level `j` when no level between has an entry of the
  key in its table (`GoesDownTo`); every entry it reaches gets the caller as an owner
  (`NewOwners`), and a new one the rule of the nearest entry below (`RuleBelow`).
* `Refresh(c, ent, i, K, newRule)`: a refresh passes from a pure marker to its owners
  and stops at every entry whose type is not `MARKER` (`Reaches`).

`LeaveMarkers`, `InsertAt`, `SetRule`, `EraseAt` and the search of one tuple (`Hit`,
`HitRule`, `HitMarker`) follow the functions of those names. `owners` is a set where the
code has a vector: a second entry of the same owner changes nothing a refresh does.

### `ChainLinks`

The parts of `tuple-chain.cpp` that need no state of a chain: `IsSlot` and `Fits` (the loop that
looks for a place and the test that refuses a tuple), `Shift` and `Link` (the tuple is put in
and linked with its two neighbours), `Filled` (the entries of a tuple outside any chain), and
`Root`, the tree that `getOptTuple` builds. A link `succ` or `fail` is an interval of levels:
`lo .. hi - 1` is a subtree, `Root` its root.

### `TupleChain`

`chain` is the sequence of masks, `ent` the entries. `BuildTuple` adds a filled tuple at the
head, as `finalizeConstruction` does from the last tuple of a path to the first; after
`EndBuild` the chain serves `InsertTuple` and `InsertRule` (the two cases of `insertRule`),
`EraseRule`, and searches. The links `succ` and `fail` are recomputed for the whole chain by
every `insertTuple` and therefore are no state. A search
is one `Probe` per turn of its loop, then `EndSearch` and `Return`. Updates and searches do
not interleave, since one thread makes all calls; the search is split into steps so that its
invariant and its length can be stated.

`promoted` is a history variable: the markers that an insert gave a rule, until that rule
is erased. `MaxDead` bounds how often one entry is erased for good; `MaxTuples` is
`MAX_TUPLES`.

### `Classifier`

The abstract specification, which is the linear list of `packet-classification.cpp`: `held` is
`m_rules`; rules come and go one at a time; a call of `matchPacket` (`Ask`) is answered with the
best match of the rules held at that time and returns (`Answer`, `Return`, under weak fairness).

### `ChainedTSS`

`c-tss.cpp` over `tss.cpp`, as a state machine; `ChainedTuples` has what its actions share with
the classifiers that hold chained classifiers as values (`Built`, `WithRule`, `WithoutRule`,
`AnswerOf`; `Spoiled` says when an answer may be wrong). `tuples` is the key set of
`m_tupleMap`, `chains` is `m_chains`, `rules` is `m_rules`, `latched` is `m_searchChain`, and
`ent` holds the entries of all tuples, each of which is in one chain at most.

* `Construct` fills the tuples and, when there are more rules than the threshold, takes *any*
  least path cover of their masks (`PathCovers`) and links its chains. Which cover
  `minimumPathCovering` finds depends on the order of the tuples, so nothing more is assumed of it;
  that it is a least cover by nested paths is `LeastCover` of `RuleFiles`. A file without rules is
  left out: then `src/class/c-tss.cpp:31` stays in list mode even with threshold 0, as it does in
  the model for few rules with a greater one.
* `InsertTuple` is `insertRule` for a new mask: the first chain that accepts the tuple takes it,
  or it becomes a chain of its own; in list mode as well, where the other tuples are in no chain.
  `InsertRule` and `DeleteRule` work on an existing tuple. `DeleteRule` leaves `rules` alone, as
  `TupleSpaceSearch::deleteRule` does.
* `StartSearch`, then `SearchList` (list mode) or one `SearchChain` per chain and `EndSearch`, then
  `Return`. The descent of one chain (`ChainAnswer`) is one step here and many in `TupleChain`.

`InOrder` says whether rules are inserted in the order of the update files, in which
every inserted rule follows, in priority, the ones before it (`data/rule.cpp` cuts the
end off a sorted list). `gone` and `promoted` are history: the rules deleted and not given again,
and the markers that an insert gave a rule. `MaxDead` bounds how often an entry is erased for good.
`DistinctPriorities` assumes that no two rules have the same priority, as the lines of a rule file
have their numbers for priorities: the answers of several chains are compared by it.

### `Threads`, `PacketRing`, `UpdateFeed`, `FibFeed`, `Emulation`

`Benchmark::emulation` runs a worker between two emulator threads, without a lock. `Threads` holds
what they all share: `globalStopRequested` and the `running` flag of each thread;
`terminateThread` is `Terminate`, then `Join`. `LastPower` is a loop that the ring and the feed both
have: it doubles a number as long as that is not above one more than a count.

`PacketRing` is `DummyIO`, and `ll-dummy-io.cpp`, which does the same with plain functions. A packet
is its position in `m_packetBuffer`. The emulator moves `m_rxTail` by any number of packets
(`Flush`; the clock decides), computes how many have come back (`Count`) and moves `m_txHead`
(`Take`), for which a build may read `m_txTail` once more. `pulling` says which of three functions
the worker calls: the pull that copies, the one that cuts slices, or the low-level one, whose slices
run on behind the end of the buffer. A pull is one step: it reads `m_rxTail` once, and everything
else it touches only the worker writes. `MaskOf` is the computation of `m_packs_nb_mask`; the
low-level ring cuts the file to a power of two.

`UpdateFeed` is the dummy update manager. `updatesBuffer[bufferTail ++] = ...` is two stores,
`Store` and `FinishStore`; no barrier orders them, and `tailFirst` says which one the build does
first. A slot that was never written holds `Unwritten`. `PullUpdates` leaves `nUpdates`
alone when nothing is pending, as the code does, and `nUpdates` starts with an arbitrary value,
since the worker's variable is not initialised.

`FibFeed` is the update manager for forwarding tables. A file is given by the times of its
insertions and of its deletions, which is all of an update that the feed looks at but the route; and
the routes number the insertions. Its thread loads the file (`FibLoad`): the updates are sorted by
route, which is the same for all deletions, so that the sort, which is not stable, may leave those
in any order (`Sorted`); they get numbers (`Numbered`), and the two lists are merged by time
(`Merged`). Then the clock moves the tail (`FibTick`) to `TailFor` of the number that is due: what
the code calls a mask is a single bit, so that the tail is one of two positions. `FibPull` reads
that tail and, unlike its interface says, does not cut the batch.

`Emulation` is the worker's loop: `Loop`, `WantUpdates` and `ApplyNext` for each update, or
`WantFibUpdates`, `WantPackets`, `Push`, and in the end `Finish`. With a count above 0 and a
null pointer it crashes (`Crash`), and the process ends. `manager` is the update manager (`m_um`
may be null). `TEST_IO` of `ll-benchmark.cpp` is the same loop over the low-level ring. `Setups`
bounds the instance: how many packets the file has, how many are sent, what pulls them, which
manager.

### `CountedTree`, `OrderedTSS`

A tree of `ll-rb-tree.hpp` is a record of functions over node numbers, one operator per function,
with a side where the code has two mirror images: `Rotate`, `FixRedRed`, `Insert`, `deleteBST`,
`fixDeleteRBTree`. `MaxNodes` is the memory. A loop or a recursion of the code is a function that
starts from its arguments and applies one operator per round: `RedRedRound` for the repair after an
insertion, `PathTo` for the way down, `DeleteStep` for the search for a victim, whose recursion also
moves data between nodes, `DoubleBlackRound` for the repair before a deletion. A round after the last
one changes nothing (`Done`), so that `MaxNodes` rounds are enough, and `EraseEnds` says that the
last loop has come to its end without following a null pointer.

`OrderedTSS` has one table and one heap per tuple. A setup has the rules of the file, in their order
(`built`), and those that updates may give or take. `doubled` is a history: the tuples in whose tree
an erase has left a node doubly black. Two things the code does are easily lost: `HashTable::insert` keeps the rule that a key has and reports
success, so that the heap takes a priority whose rule is nowhere; and after a node was taken out of
a tree the heap computes its maximum from that node, which is freed: `MaxAfter` allows the node's
children and data, and any value of `Garbage`. `shadowed` and `exposed` are the rules these two may
have hurt.

### `TupleNodes`, `ExtendedChains`, `HeadChains`, `RelaxedTuples`, `PrunedTuples`

A node of `TupleNodes` is a record with its mask, list, and entries by key; an entry is a rule, a
leaf (a chained classifier as a value) or a node below. `Trees` is `constructionTree` for any
choice of least covers in the leaves, built level by level; `NodeWith`, `NodeWithout`, `Found` are
`insert`, `erase` and `searchTree`, each along the way that the fields take down the tree (`WayOf`),
which an update leaves where the rule belongs (`WayOfRule`). `ExtendedChains` has the single tree of
`ExChainedTupleSpaceSearch`, whose construction the code runs inside an assertion (here: the result
is not looked at, as in a build without assertions), and `ExTupleChains` with its three trees and the array of rule lists, side
by side.

`HeadChains` keeps, by key under the mask that all rules have in common, one tree per chain; the
tree is a `CountedTree` of the tuples' positions. `RelaxedTuples` has both classifiers of
relaxed tuples: masks are compared as numbers, field by field, as the code compares them.
`PrunedTuples`: the tries and bit maps are headers that the repository does not contain; a trie
is the set of its prefixes, and a tuple number beyond the size of the bit map may be kept or
lost.

### `LowLevel`

`createTuple` copies the links of a chain, `descend` is the loop that searches it in the hash tables
only; `LowChains`, `LowTree`, `LowTuples` are the three searches. They hold pointers into the
classifier they were made from and have no updates of their own.

### `Comparison`

One classifier (`unit`) is constructed with the rules of a setup and gets its updates in any
order, each rule inserted once at most, like the files do. Two assumptions say what the code gives it:
`SetupsAssumption` (a rule's priority is its position in the files, counted from one) and
`PrefixesAssumption` (the masks of rules are prefixes in both fields, those of `dim` are prefixes from
the empty one on, and `cal` shortens a prefix or leaves it). `given` and `gone` are history: the
rules given and not deleted, and those deleted; `lost` are rules that `TupleMerge` found no
tuple for. A search changes nothing, so that the properties quantify over all packets in every
state instead of having search actions.

### `MinPathCover`, `PortRange`, `RuleFiles`

`dfs` is the augmenting search with its shared marks, `minimumPathCovering` the paths it leaves,
each sorted by `bubbleSort`. `split_one_port_range` is a set of vectors, since the count of
trailing zeros of port 0 is undefined. `RuleFiles` goes from rows of ports and addresses
(`ReadRow`, `generatePcRuleFile`), from routing prefixes (`generateRuleFile`) or from a file
that is given (`TakeFile`) to the three files and two traffics, loads them (`LoadFiles`), and
builds the chains (`Construct`). A field is a number with a prefix length, because the sort that
decides the priorities compares numbers; loading makes bits of it. Rows that yield no rule, for
which the code returns before it writes anything (`src/data/rule.cpp:242-246`), are left out.

The mutated definitions (named "Mutant of ...") stand next to the definitions they
replace: each is a plausible bug that the property it is listed with detects.

## 4. What TLC checks

The first four runs use `MCTupleChain`, the next three `MCChainedTSS`.

| Run | Instance | Result |
|---|---|---|
| `chain_updates` | masks {1}, {1,2}, {1,2,3}, five rules, threshold 1, one final erasure per entry; 202,780 states | passes |
| `chain_search` | six masks of which at most five form a chain, one mask comparable with some only, seven rules, threshold 0, no erasures for good (`MaxDead` 0); 106,921 states | passes |
| `search_after_insert` | `chain_updates` with threshold 0, no erasures | `SearchIsBest` is violated |
| `search_after_erase` | `chain_updates` | `SearchBestUnlessPromoted` is violated |
| `classifier_in_order` | masks {}, {1}, {2}, {1,2}, six rules, threshold 0, inserts in the order of the update files; 73,627 states | passes |
| `classifier_any_order` | the same masks, five rules, threshold 1, inserts in any order; 339,571 states | passes |
| `list_after_delete` | five rules, threshold 2 | `ListAnswerIsBest` is violated |
| `emulation` | `MCEmulation`: rings of three and four packets with seven sent, a low-level ring of four from five; a ring of two beside a feed of two insertions and two deletions with three slots; a ring beside forwarding updates of six files, one of them not in order of time; batches of two; 395,641 states | passes |
| `pull_nothing` | the ring of two and the dummy feed | `NumberIsPending` is violated |
| `ordered_tuples` | `MCOrderedTSS`: one tree with six keys and six updates, two tuples with six rules and five updates, a tree built from ten rules with three updates; 93,111 states | passes |
| `comparison` | `MCComparison`: two fields of two and three bits, thirteen rules in four setups, threshold 2, up to three updates after the construction; 15,485 states | passes |
| `rule_files` | `MCRuleFiles`: two rows, ports of two bits in fields of three, all ranges; two rules and one to insert from five prefixes; rule files with up to five of seven masks in any order; 219,318 states | passes |

`chain_updates` checks
* `TypeOK`;
* `MarkersComplete`: everything listed in a tuple has a marker in the table of every shorter
  tuple. A search that misses a tuple never looks at longer ones, and `erase` dereferences
  the marker in `prev`;
* `OwnersLinked`: the marker in `prev` has the entry as an owner, so that a refresh finds it;
* `EntriesNeeded`: an entry is in the table exactly as long as it has a rule or an owner;
* `MarkersFresh`: a pure marker carries the best rule below it, unless an entry below it
  was promoted from a marker by an insert;
* `SearchBestUnlessStale`: the answer is that of a linear scan, unless the packet has the key of
  a promoted entry, or of a dead one in a scanned tuple. With the two violations this says
  exactly which updates spoil a search, and of which packets;
* `UpdatesExact` (an action property): a call of `InsertTuple(r)` or `InsertRule(r)` adds the rule `r`,
  which was not installed, one of `EraseRule(r)` takes away `r`, which was, no other rule comes or
  goes with it, and a search changes none;
* `SearchReturns` (liveness): every search ends.

Three masks are the fewest with a tuple between two others, where promoting an entry,
inserting a tuple and refreshing through two levels all happen; threshold 1 makes every
tuple start as a scan and become hashed.

`chain_search` checks `ChainNested`, `SearchFindsLongest` (a search ends at the longest tuple
with an entry for the packet, with its rule, unless a scan meets a dead entry) and `SearchLogarithmic` (at most
2 + log2(n - 1) probes, n the number of tuples). Five tuples give a tree of three levels
below the head with an uneven split.

`classifier_in_order` checks, with tuples that are hashed from their first entry,
* `TypeOK` of `ChainedTSS`;
* `TuplesChained`: once the chains are searched, every tuple is in exactly one of them, after
  every construction and every `insertTuple`;
* `OwnersInChain`: no owner link leads from one chain into another;
* `Implements`: `ChainedTSS` refines `Classifier`. `held` is the set of installed rules; the steps
  through the chains are stutters until the last, which is `Answer`. The liveness of
  `Classifier` is part of it.

The masks {1} and {2} cannot share a chain and {} and {1,2} fit on either side, so that there
are two chains, several least covers, and a choice of the host for a new tuple.

`classifier_any_order` checks `AnswerExplained`: with inserts in any order and tuples that start as
scans, the only wrong answers of the chains are those to packets that have the key of a promoted entry
or of a dead one in a scanned tuple, and the only rules that the list answers with although they are
not installed are deleted ones.
Threshold 1 makes a classifier of one rule answer from its list and any other from its chains.

`emulation` checks, in every interleaving of the threads,
* `TypeOK` of `Emulation`: heads and tails stay inside their buffers;
* `PacketsInOrder`: a worker that copies packets gets those of the file in order, round and round, and
  none that was not sent, whatever their number. One that takes slices does so of a file of 2^k
  packets; files of another size are excepted, since the head is masked and the tail is not (with
  three packets the head reaches 3, past every tail, and the worker gets nothing any more). A slice
  of the low-level ring may run on behind the buffer, up to a batch, where it should start again;
* `ReceivedWerePushed`: the emulator counts no packet that was not pushed, with 2^k packets;
* `AppliedInOrder`: the classifier gets no update twice, and in the order in which they were stored.
  In a build that writes the slot before `bufferTail` each is the one of its slot. A build that
  writes `bufferTail` first may hand over a slot that is not written yet, and the update that comes
  to that slot is lost;
* `BufferByTime`: the merged forwarding updates are in order of time, unless the sort by route had
  put the deletions out of order;
* `FibPulledInOrder`: the worker gets them in the order of the buffer, never reads behind it and
  never gets one before it is due, with two exceptions that the "mask" causes: a buffer one short of
  a power of two has its tail behind its end, and one of a power of two is pulled again and again;
* `EmulationEnds` (liveness): whichever emulator asks first, the worker leaves its loop and both
  threads are joined, unless it has crashed.

Seven packets wrap rings of three and four, with the tail jumping any distance; batches of two
are cut by the end of a ring of three. Three slots are fewer than the four updates, so that the
feed stops because the buffer is full, because one list is exhausted, or because it is told to.
Files of two to six forwarding updates are those around a power of two, and 13 due updates
(`MaxDue`) are two rounds of the longest. The run has no deadlock check: the emulation is
supposed to end.

`ordered_tuples` checks
* `TypeOK` of `OrderedTSS`, with the links, colors and counts of each tree (`Trees`);
* `TreesBalanced`: whatever is inserted and erased, each tree is in order, has no red node below a
  red one, and its links agree; and as long as no erase has left a node doubly black, it has equally
  many black nodes on all paths, and no erase of a rule that is there follows a null pointer;
* `HeapKeepsHeld`: the maximum bounds the priorities of the rules that a tuple holds, and each of
  them is in the tree; only rules that were there when a node was taken out may be missing;
* `AnswerBest`: the answer is the best match, unless that rule met a key in use or may have been
  lost by the heap.

Six keys and six updates make trees with every rotation; two tuples are the fewest where one is ever
skipped; and ten nodes are a tree with a black leaf whose sibling and parent are black, from where
the repair goes up and leaves a node doubly black. `Garbage` has values below, among and above the
priorities.

`comparison` checks, of each classifier after its construction and after each update, for all 32
packets,
* `TypeOK`;
* `HeadAnswers`: the trees of a head answer with the best match, unless a chain's entry is
  stale, or the best match came later and does not cover the head's mask (its packets have other
  keys);
* `RulesPlacedOnce`: a tree holds each rule at one place, the place an erase looks for;
* `TreeAnswers`: one tree, and three trees with the list, answer with the best match, unless a
  leaf is met whose chains do not;
* `RangeAnswers`: range tuple search answers with the best match, unless a deleted rule matches
  better: `deleteRule` compares actions, and a request to delete has action 0, so that every rule
  stays;
* `MergeAnswers`: so does tuple merge, whose `deleteRule` is empty, unless the best match was
  inserted when no tuple accepted it, and dropped;
* `PrunedAnswers`: pruning loses a rule only if an update made its tuple, with a number beyond
  bit maps that have a tenth in reserve;
* `LowLevelAnswers`: the low-level classifiers answer with the best match, as `ll-benchmark.cpp` checks
  after it has built them (they take no updates), unless they are made from a classifier that
  answers from its list, which has no chains, or from a tree whose root was refused.

Two fields are what the three trees, the list and the calibrated masks need, and three bits make
prefixes longer than the thresholds of the fields. The setups have rules of every kind that
`checkSpecific` tells apart, common bits for the head and the single tree, none, and fewer rules
than a chained classifier chains; threshold 2 makes tuples that are scanned and tuples that are
hashed, leaves with chains and with lists, nodes with a table and nodes with a list.

`rule_files` checks
* `RowsSplit`: the rules of a row take each pair of ports of its ranges once and no other; only
  the last port of a range may be lost, when it is even or the range starts at port 0, which the
  code does in every such case;
* `PrioritiesNested`: files made by the generators keep what the chained classifiers assume:
  rules are distinct, and of nested ones the more specific has the higher priority, though rules
  are sorted, and compared as equal, by their data alone;
* `TemplateIsUpdated`: the template file is what the update file makes of the rule file;
* `TrafficAnswered`: packet number i of the traffic is answered by rule number i, by the best
  match and by `generateResult`, which takes the last match because it never raises its maximum
  (and which nothing calls);
* `LeastCover`: the chains take every tuple once, are nested, and are as few as there are
  pairwise unrelated tuples.

It assumes that prefixes from elsewhere have no bit behind their length, which `FilesAssumption`
states. `Share` is 2 instead of 10, so that files of two rules have an update of each kind.

Fairness. `WF_vars(Search)` in the classifiers: the loop of `search` and its return run in the
calling thread with nothing to wait for; nothing is assumed of updates or of new searches. In
`Emulation` each of the three threads is weakly fair, which is what the operating system
promises, and so is the clock, since `test_seconds` pass. The other runs check no liveness: each of
their actions is a call that returns.

### Four disagreements with what the repository says

`Benchmark::updateSimulation` (`src/benchmark.cpp:138-152`) compares every answer after a
series of updates with a precomputed one and exits at the first difference. The code
does not always pass it, as the first three show.

* `search_after_insert`. `Entry::setRule` sets the `RULE` bit and then calls `refresh`, which
  returns at once because the entry is not a pure marker any more. Markers above keep the rule
  they had. Rule {1}/{1} inserted onto a marker of a rule of {1,2,3} is missed by a packet whose
  search ends at the marker in {1,2}. The generator of update files inserts only the last rules
  of a sorted list, which hides the case.
* `search_after_erase`. An erased entry stays in `m_entries`. In a tuple that is still scanned
  the search meets it and lets its null rule replace the rule it had found in a shorter tuple.
* `list_after_delete`. A classifier of few rules answers from `m_rules`. `deleteRule`
  (`src/class/tss.cpp:97-104`) takes a rule out of its tuple and not out of `m_rules`, so a
  deleted rule still answers. The linear list's `deleteRule` does remove it.
* `pull_nothing`. `pullUpdates` promises "the actual number of pending update requests"
  (`src/update-manager.hpp:35`). When none is pending it returns a null pointer and no number
  (`src/dummy-update-manager.cpp:96`), and the worker applies as many updates from there as it
  had got before.

### Disagreements that are exceptions of a property

The checks of `benchmark.cpp:138-152` and `ll-benchmark.cpp:70-72, 169` are made of every classifier,
and more of them fail. Each property states what the check demands, and names the packets or the
classifiers that are excepted; these have no violating run of their own.

* Range tuple search and tuple merge keep deleted rules (`src/class/rtss.cpp:167`,
  `src/class/tm.cpp:98`), and tuple merge drops an inserted rule that no tuple accepts
  (`src/class/tm.cpp:86`): `RangeAnswers` and `MergeAnswers`.
* A rule inserted into `hc-tss` may not cover the head, so that its packets have other keys
  (`src/class/head-tuple.cpp:17`): `HeadAnswers`.
* An update may make a tuple whose number is beyond the bit maps of `tss-pr`
  (`src/class/tss-pr.cpp:40`): `PrunedAnswers`.
* A heap may take a priority for a rule that its table refused, and computes its maximum from a
  freed node: `HeapKeepsHeld` and `AnswerBest`.
* Low-level chains of a classifier that answers from its list do not exist, and every packet gets the
  default action (`src/class/ll-tc.cpp:29`); a tree whose root was refused has no table to search
  (`src/class/ll-etc.cpp:246`): `LowLevelAnswers`.
* Where a chained classifier is a leaf of a tree or of a head, what the first three runs above show of
  it spoils the answers of the tree as well: `TreeAnswers`, `HeadAnswers`.

### What the code does and nothing contradicts

These too are exceptions of the properties, but no doc, test or comment of the repository says
otherwise.

The repair before a deletion (`fixDeleteRBTree`, `src/class/ll-rb-tree.hpp:176-239`) moves the double
black of a node to its parent when the sibling and its children are black, and goes on from there. It
never makes the node itself black again, and the victim is the only one that is cut. From eight nodes
on the tree then keeps a node with the color `DOUBLE_BLACK`, which later calls take for neither red
nor black: the tree is no longer balanced, and an erase may come to a node without a sibling and
follow a null pointer. Links, order and the rule that no red node is below a red one stay right all
the same, which is what an insertion needs. `doubled` marks the trees it happened to.

Others: the last port of a range is dropped (`src/pkt-cla-helper.cpp:19`); the tail of forwarding
updates moves by a bit (`src/fib-update-manager.cpp:67`); slices lose their place in a file of other
than 2^k packets (`src/dummy-io.cpp:87`), and low-level ones overrun (`src/ll-dummy-io.cpp:94`).

## 5. What is proved

The theorems hold for every value of the constants that satisfies the assumptions in the modules,
where the runs have one instance. TLC evaluates those assumptions in the runs, and each invariant
below was checked by TLC before it was proved.

### One chain

`TupleChainProofs` proves, for every set of masks and rules that satisfies the assumptions
of `RuleSpace` and `MarkedTuple`, every threshold and every bound (`TypeCorrect` needs no more than
`MasksAssumption`, `RulesAssumption` and the assumptions on the bounds):

| Theorem | States |
|---|---|
| `TypeCorrect` | `Spec => []TypeOK` |
| `ChainOrdered` | `Spec => []ChainNested` |
| `EntriesAreNeeded` | `Spec => []EntriesNeeded` |
| `MarkersAreComplete` | `Spec => []MarkersComplete` |
| `OwnersAreLinked` | `Spec => []OwnersLinked` |
| `SearchIsExact` | `Spec => []SearchFindsLongest` |
| `MarkersAreFresh` | `Spec => []MarkersFresh` |
| `SearchIsBestUnlessStale` | `Spec => []SearchBestUnlessStale` |
| `UpdatesAreExact` | `Spec => UpdatesExact` |
| `SearchIsLogarithmic` | `Spec => []SearchLogarithmic` |

*Entries and markers.* Masks of a chain are nested (`ChainNested`), so that an entry belongs to
one level and its key at a lower level is determined (`IdThrough`). `EntriesNeeded` and
`ListedInChain` are inductive over it; they need, for `erase`, that what is cleared has
owners or leaves the table. The heart is `Complete(c, e, n)`: in the first `n` tuples every
listed entry has markers in all shorter tuples and is an owner of the one in `prev`.
`insertMarker` stops at the first entry it meets, which by induction hypothesis has its own
markers; stating completeness for all shorter levels, and not for neighbours only, makes that
one step instead of an induction over levels. A tuple that joins the middle is linked in
two steps, from below and then for the tuple above it; the longer tuples are complete because
they are complete down to that tuple. `erase` takes only entries without owners out of a
table, and an entry without owners is nobody's marker.

*Fresh markers.* That a marker carries the best rule below it is not inductive as it stands: a
refresh starts at one entry and follows owners, and an owner may be several levels up, since a tuple
that joins between a marker and its owner leaves that link where it is. `FreshInv` therefore speaks of
two levels. `FreshAt`: a pure marker has the rule of the nearest entry below it that has one, whenever
that entry was not promoted and there is none in between; `Skips`: wherever an owner link leaves a
level out, the entry there has no rule, or was given it later (`promoted`). `Skips` is why a refresh
stops at a rule (`RuleStopsRefresh`), completeness is why it gets to every pure marker below the next
one (`PureColumnReached`), and `NestedPriority` makes the nearest rule the best one.

*The search.* `SearchInv` is the loop invariant: levels below `lo` hit, levels from `hi` on do not,
`best` is the rule of the last level below `lo`. It needs completeness twice: a miss at a
level means misses above it, a hit without a marker means misses above it as well. With fresh
markers the rule of that last level is the best match. `Halves` bounds the length of the search: after
`k + 1` probes the levels that are left, times 2^k, are at most the length of the chain less
one.

*Updates.* `UpdatesAreExact` ties each update to the rule it was called with. It needs that markers and
refreshes change no entry that has a rule of its own, that a rule is at its own mask and key and
nowhere else, that tuples outside the chain have no entries (`NoEntryOutside`), and of `EntriesNeeded`
the part that says which entries have a rule at all.

### The chained classifier

`ChainedTSSProofs` proves this of `ChainedTSS`, for any least cover that the construction takes, any
thresholds and bounds, and whichever chain accepts a new tuple:

| Theorem | States |
|---|---|
| `TypesKept` | `Spec => []TypeOK` |
| `TuplesInOneChain` | `Spec => []TuplesChained` |
| `OwnersStayInChain` | `Spec => []OwnersInChain` |
| `AnswersExplained` | `Spec => []AnswerExplained` |
| `ImplementsTheList` | for inserts in order and threshold 0, `Spec => Abstract!Init /\ [][Abstract!Next]_(Abstract!vars)`: every behaviour is one of the linear list |

The invariant `TSSInv` says that the chains divide the tuples (`ChainsDivide`) and that each chain
is `Good`: complete, with the two parts of `FreshInv`. The lemmas about one chain hold for a chain
as a value, so that all that is new is the frame: an operation on one chain leaves the entries of
tuples elsewhere alone (`InsertMarkersAlone` and its like), hence every other chain good
(`OthersGood`). `TupleJoins` does this for a tuple that joins a chain or founds one, in list mode
too, where the other tuples are on no chain and count as chains of one. The construction is a
recursion from the last tuple of each path to the first; `DownwardRecursion` shows that such a
recursive function exists, which TLA+ does not give for free, and `BuildChainGood` that the chain it
ends with is good. The search of one chain is defined by recursion over intervals, and
`AnswersExist` and `ByLength` are the existence and the induction for it. `SearchSoFar` says that
what the merge has kept is the best match of the chains searched so far (`BestOfBoth`).

`ImplementsTheList` is the refinement, step by step: `InsertTuple`, `InsertRule` and `DeleteRule`
add or remove one rule of `held`, `StartSearch` asks, `EndSearch` answers with the best match, and
all other steps stutter. For the answer two things must never happen. No marker is promoted: every
entry of a good chain is there for some rule that was given, at its level or above
(`ListedForRule`), so that an insert which follows all others in priority, and hence covers none of
them, never meets an entry at its own place (`NothingToPromote`). And no dead entry is met, since
with threshold 0 every tuple with an entry is hashed (`NoneScanned`). `InOrderInv` has these as
invariants.

### The feeds and the rings

`EmulationProofs` proves, for every setup, batch, buffer and set of update
files that the assumptions of `Emulation` and its parts allow, and for every interleaving:

| Theorem | States |
|---|---|
| `EmulationTypes` | `Spec => []TypeOK` |
| `UpdatesInOrder` | `Spec => []AppliedInOrder` |
| `BufferInOrder` | `Spec => []BufferByTime` |
| `FibPullsInOrder` | `Spec => []FibPulledInOrder` |
| `RingPullsInOrder` | `Spec => []PacketsInOrder` |
| `RingCountsPushed` | `Spec => []ReceivedWerePushed` |

`UpdatesInOrder` rests on `FeedInv`. `Written` is the number of slots that are written for good:
the tail, or one less while a build that moves the tail first is between its two stores.
`FeedTyped` has the bounds; `SlotsFilled` says that the slots below `Written` hold updates, of
each kind in rising order and all among those counted in `stored`, and that the slots above are
unwritten; `WorkerInStep` relates the number of updates applied to the head and the worker's
index in its batch; `AppliedFromSlots` ties each applied update to the slot of its number, and
that is where the exception for builds that move the tail first enters: the theorem is that every
update is the one of its slot in the other builds, and that in these an update is lost at worst,
never repeated and never moved. A worker with a null
pointer and a count crashes before it applies anything, which is why the invariant needs nothing
of `nUpdates` then.

`BufferInOrder` is about the merge of two lists of any length. `MergedSteps` gives the merge by the
number of insertions taken after each step; with both lists in order of time, the update that is not
taken is never earlier than the one that is (`MergedByTime`).

`FibPullsInOrder` rests on `FibRounds`: with `q` whole rounds pulled and the head at 0 or at the
bit, the tail has moved `2 q` times, or once more (`RoundsPulled`). The tail that the worker reads is
the parity of that count, so that a head which differs from it means one more move, and a worker that
missed two moves reads the same tail as if it had missed none: it pulls nothing, and later than it might,
but never too much. That a round is shorter than two moves of the tail (`LastPowerBounds`) makes what
is pulled no more than what is due (`RoundsAreDue`).

`RingPullsInOrder` has the conditions of its property: copies from files of any size, slices from files
of 2^k, and no more of a low-level slice than that it holds the right packets or goes on behind the
buffer. `RingInv` says that heads and tails are counts modulo the size: `rxTail` is `nSent % size`;
`rxHead` is `pulled` modulo the size, save that it may stand behind the buffer (`HeadAtPulled`,
with a number of whole rounds as witness); `txTail` is `pushed % size`; and `txHead` is the
position of some count between what was received and what was pushed (`HeadAtTaken`). That count
cannot be `nReceived` itself: a build that reads `m_txTail` twice moves the head further than it
counts. A distance between two positions is then never more than the distance of the counts
(`Distance`), which is all that the order and the count need. The lemmas about `%` are the
arithmetic of that.

### The heaps and their trees

`OrderedTSSProofs` proves, for every rule space, every file of rules, every sequence of updates and
any number of nodes:

| Theorem | States |
|---|---|
| `TuplesOrdered` | `Spec => []OrderedInv` |
| `Types` | `Spec => []TypeOK` |
| `Balanced` | `Spec => []TreesBalanced` |
| `HeapsKeepRules` | `Spec => []HeapKeepsHeld` |
| `OrderedAnswers` | `Spec => []AnswerBest` |

*Maps.* `Subtree` and the black depths are found by walks and recursions, about which nothing can be
proved by induction over the tree. So a tree is looked at together with a map of it: the nodes that
are in use, a position for each, from left to right, and the nodes below each (`Charted`). A map says
locally, for each node and its children, what the words "below", "left of" and "in order" mean
globally, and an operation is an operation on the tree and on its map: a rotation leaves all positions
as they are (`TurnedMap`), a new leaf takes a position between two others (`LeafMap`, which doubles
the positions to make room), a cut closes the gap (`CutMap`). `SubtreeOfMap` says that the walks find
what the map has. `Sound` is what holds between two calls: a map, no red node below a red one, a black
root. `Even` is the balance: there are heights such that each node is as high as either of its
children and its own weight more.

*Loops.* A loop is the sequence of its states (`Rounds`), over which `NatExtrema` has the induction.
The repair after an insertion has one red node below a red one at most, which moves up
(`RedAt`). The repair before a deletion has one node that lacks a black one, `DoubleAt`, and as long as
no node was left doubly black (`Lean`), weights that count that node twice: with these the tree is
even, so that the node has a sibling, and each round moves it up, ends the loop, or turns the tree once so
that the sibling is black (`RoundGoes`, `Far`), and the loop ends within `MaxNodes` rounds. Without
`Lean` nothing is known of siblings, and the rounds still keep the map. `deleteBST` copies data
upwards while it goes down to the victim; the data are in order before and after, and the victim has
one child at most (`Deleting`).

*The classifier.* `OrderedInv` is the table with its histories (`Histories`: a rule that is given is in the
table or shadowed), `Heaps` (the maximum bounds the priorities of the rules not exposed, and the tree
has them), and `TreesGood` (each tree has a map, and an even one unless it is in `doubled`). It is
inductive. The best match is then found by an induction over the tuples: none of the tuples before
its own can hide it, and no later one replaces it (`SearchFinds`).

### The relaxed and the pruned tuples

`ComparisonProofs` proves this of `Comparison`, for all fields, masks, setups and thresholds that its
assumptions allow, any order of the file and any sequence of updates:

| Theorem | States |
|---|---|
| `AlwaysFiled` | `Spec => []ComparisonFiled` |
| `PruningKeepsAnswers` | `Spec => []PrunedAnswers` |
| `RangeAlwaysAnswers` | `Spec => []RangeAnswers` |
| `MergeAlwaysAnswers` | `Spec => []MergeAnswers` |

The invariant `ComparisonFiled` has three parts. `Given` is about the histories, for every classifier.
`PrunedFiled`: tuples have one number each, and both fields have the prefix of every rule whose
tuple's number fits the bit maps; since a number never changes, the intersection of what the fields
find for a packet has the tuple of its best match. `RelaxedFiled` says `ListsHold` of both relaxed
classifiers: every list is in order of priority and of rules that its mask covers, the maximum of a
tuple bounds them, and every rule is in the list of a tuple that is there. Without the order the first match of a list would not be its best
(`FirstMatchIs`), and without the bound a tuple could be skipped that has the answer
(`RelaxedAnswerIs`). What is found is the best of all rules that were taken; unless that one was
deleted, it is the best of those that are left (`BestOfFewer`). Without the covering a key would not determine the list.

What is left to show is that a rule's tuple covers it. The code compares masks as numbers, which says
nothing of arbitrary masks. Of two prefixes of a field, the one that is no greater as a number is
contained in the other (`PrefixOrder`, from `NumberUp`), and rules have prefixes: so the relaxed mask
is covered (`RangeMaskIs`), and so is a tuple of `TupleMerge` that accepts a rule
(`AcceptedCovers`). That an inserted rule finds no tuple, and that deletions do not reach the lists
(`TakeRuleIs`), is part of what is proved.

### What is only model-checked

* `SearchReturns`, `EmulationEnds`, and the fairness in `Implements`: liveness is out of the
  prover's reach.
* `TypeOK`, `HeadAnswers`, `RulesPlacedOnce`, `TreeAnswers` and `LowLevelAnswers` of `Comparison`:
  the trees of nodes are built and changed by recursion over levels of records, and the heads go down a
  red-black tree that later updates turn.
* The properties of `RuleFiles`: the augmenting search of `MinPathCover` is a recursive operator, of
  which the prover knows nothing, and the splitting of ranges is arithmetic on powers of two.

Induction over data is out of its reach in general, since the library's rules for it take an
operator as a parameter. Where a recursion is bounded (the levels of a chain, the updates of a
file) `NatExtrema` has what replaces it: an induction over a set of numbers (`UpTo`), and that a
recursion up to a bound has a solution (`RecursionUpTo`). The recursions of `MarkedTuple` are
written in closed form for the same reason.

## 6. What is not modelled

* Support code: logging, clocks, the configuration file, thread placement, and the vendored hash
  map (`src/hash/sparsepp`), of which only "a map from keys to pointers" is used. The hash map
  alone is about half of the repository's lines, which is why the map of definitions to lines
  covers a smaller share of the whole than of the classifiers.
* The tries and bit maps behind the pruned search, which are not in the repository.
* In the data: reading and printing lines, traffic drawn at random, conversions between formats,
  and the data of virtual routers, which belong to a lookup that is not in the repository. In
  `benchmark.cpp`: loading and reloading, statistics, memory accounting (`totalMemory`).
* A failed allocation, the abort at `MAX_TUPLES`, and sizes beyond a model's: the edges of the
  cover graph are kept in an array of 100005 without a test (`src/class/graph/mpc.cpp:20`),
  which 448 nested tuples exceed; a mask length of 0 shifts a 32-bit value by 32
  (`src/class/lsp-rule-list.cpp:159`), which no configuration has.
* Three bodies that nothing calls: `LLRBTree::erase`, `RTuple::List`, and `search5` of the
  low-level leaf, which is `search` written out for five fields.
