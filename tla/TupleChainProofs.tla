-------------------------- MODULE TupleChainProofs --------------------------
(***************************************************************************)
(* Proofs about TupleChain, for every rule space, chain length, threshold  *)
(* and number of erasures.                                                 *)
(***************************************************************************)
EXTENDS TupleChain, ChainLinksProofs

-----------------------------------------------------------------------------
(***************************************************************************)
(* Type correctness.                                                       *)
(***************************************************************************)

\* Every variable has its type in every reachable state, and a search never
\* leaves the levels of its chain (tuple-chain.cpp:53-64 and 66-90).
THEOREM TypeCorrect == Spec => []TypeOK
<1> USE DEF TypeOK
<1>1. Init => TypeOK
  <2> SUFFICES ASSUME Init PROVE TypeOK
    OBVIOUS
  <2>1. Absent \in Entries
    BY DEF Absent, Entries
  <2>2. chain \in Seq(Masks) /\ pkt \in Packets
    BY DEF Init, Packets
  <2> QED BY <2>1, <2>2 DEF Init
<1>2. TypeOK /\ [Next]_vars => TypeOK'
  <2> SUFFICES ASSUME TypeOK, [Next]_vars PROVE TypeOK'
    OBVIOUS
  <2>1. ASSUME NEW m \in Masks, BuildTuple(m) PROVE TypeOK'
    <3> DEFINE c == Shift(chain, m, 1)
    <3>1. c \in Seq(Masks) /\ Len(c) = Len(chain) + 1 /\ 1 \in 1..Len(c)
      <4>1. 1 \in 1..(Len(chain) + 1)
        OBVIOUS
      <4> QED BY <4>1, ShiftProperties
    <3>2. PICK F \in SUBSET Rules : ent' = Link(c, Filled(ent, F), 1)
      BY <2>1 DEF BuildTuple
    <3>3. Filled(ent, F) \in [Ids -> Entries]
      BY FilledType
    <3> HIDE DEF c
    <3>4. ent' \in [Ids -> Entries]
      BY <3>1, <3>2, <3>3, LinkType
    <3>5. chain' = c
      BY <2>1 DEF BuildTuple, c
    <3> QED BY <2>1, <3>1, <3>4, <3>5 DEF BuildTuple, searchVars
  <2>2. CASE EndBuild
    BY <2>2 DEF EndBuild, chainVars, searchVars
  <2>3. ASSUME NEW r \in Rules, InsertTuple(r) PROVE TypeOK'
    <3>1. PICK i \in 1..(Len(chain) + 1) :
            LET c == Shift(chain, r.mask, i)
                e == Link(c, ent, i)
            IN  /\ chain' = c
                /\ ent' = InsertAt(c, e, i, r)
                /\ promoted' = IF e[<<r.mask, r.key>>].inTable
                               THEN promoted \cup {<<r.mask, r.key>>} ELSE promoted
      BY <2>3 DEF InsertTuple
    <3> DEFINE c == Shift(chain, r.mask, i)
               e == Link(c, ent, i)
    <3>2. /\ chain' = c
          /\ ent' = InsertAt(c, e, i, r)
          /\ promoted' = promoted \/ promoted' = promoted \cup {<<r.mask, r.key>>}
      BY <3>1
    <3>3. c \in Seq(Masks) /\ Len(c) = Len(chain) + 1 /\ i \in 1..Len(c)
      BY RuleIdType, ShiftProperties
    <3> HIDE DEF c, e
    <3>4. e \in [Ids -> Entries]
      BY <3>3, LinkType DEF e
    <3>5. ent' \in [Ids -> Entries]
      BY <3>2, <3>3, <3>4, InsertAtType
    <3>6. promoted' \subseteq Ids
      <4>1. promoted \subseteq Ids /\ <<r.mask, r.key>> \in Ids
        BY RuleIdType
      <4>2. promoted' = promoted \/ promoted' = promoted \cup {<<r.mask, r.key>>}
        BY <3>2
      <4> QED BY <4>1, <4>2
    <3> QED BY <2>3, <3>2, <3>3, <3>5, <3>6 DEF InsertTuple, searchVars
  <2>4. ASSUME NEW r \in Rules, InsertRule(r) PROVE TypeOK'
    <3>1. PICK i \in 1..Len(chain) : ent' = InsertAt(chain, ent, i, r)
      BY <2>4 DEF InsertRule
    <3>2. ent' \in [Ids -> Entries]
      BY <3>1, InsertAtType
    <3>3. promoted' \subseteq Ids
      BY <2>4, RuleIdType DEF InsertRule
    <3> QED BY <2>4, <3>2, <3>3 DEF InsertRule, searchVars
  <2>5. ASSUME NEW r \in Rules, EraseRule(r) PROVE TypeOK'
    <3>1. PICK i \in 1..Len(chain) : ent' = EraseAt(chain, ent, i, r)
      BY <2>5 DEF EraseRule
    <3>2. ent' \in [Ids -> Entries]
      BY <3>1, EraseAtType
    <3> QED BY <2>5, <3>2 DEF EraseRule, searchVars
  <2>6. ASSUME NEW p \in Packets, StartSearch(p) PROVE TypeOK'
    BY <2>6 DEF StartSearch, chainVars
  <2>7. CASE Probe
    <3> DEFINE mid == Root(lo, hi)
               x   == Id(chain, mid, pkt)
    <3>1. /\ lo \in Nat /\ hi \in Nat /\ 1 <= lo /\ lo < hi /\ hi <= Len(chain) + 1
          /\ Len(chain) \in Nat
      BY <2>7 DEF Probe
    <3>2. mid \in lo..(hi - 1)
      BY <3>1, RootInside
    <3>3. mid \in 1..Len(chain)
      BY <3>1, <3>2
    <3>4. x \in Ids
      BY <3>3, IdType DEF Packets
    <3>5. /\ chain' = chain /\ ent' = ent /\ promoted' = promoted
          /\ pc' = pc /\ pkt' = pkt /\ probes' = probes + 1
      BY <2>7 DEF Probe, chainVars
    <3>6. \/ best' = HitRule(ent, x) /\ lo' = mid + 1 /\ hi' \in {hi, mid + 1}
          \/ best' = best /\ lo' = lo /\ hi' = mid
      BY <2>7 DEF Probe
    <3> HIDE DEF mid, x
    <3>7. best' \in Rules \cup {NoRule}
      BY <3>4, <3>6, HitRuleType
    <3>8. /\ lo' \in Nat /\ hi' \in Nat
          /\ 1 <= lo' /\ lo' <= Len(chain) + 1 /\ hi' <= Len(chain) + 1
      BY <3>1, <3>2, <3>6
    <3> QED BY <3>5, <3>7, <3>8
  <2>8. CASE EndSearch
    BY <2>8 DEF EndSearch, chainVars, searchVars
  <2>9. CASE Return
    BY <2>9 DEF Return, chainVars, Packets
  <2>10. CASE UNCHANGED vars
    BY <2>10 DEF vars, chainVars, searchVars
  <2> QED
    BY <2>1, <2>2, <2>3, <2>4, <2>5, <2>6, <2>7, <2>8, <2>9, <2>10 DEF Next, Search
<1> QED BY <1>1, <1>2, PTL DEF Spec

-----------------------------------------------------------------------------
(***************************************************************************)
(* The order of the chain.                                                 *)
(***************************************************************************)

\* The tuples of the chain are strictly nested in every reachable state:
\* insertTuple (tuple-chain.cpp:17-51) puts a mask into its one slot.
THEOREM ChainOrdered == Spec => []ChainNested
<1>1. Init => ChainNested
  BY DEF Init, ChainNested
<1>2. TypeOK /\ ChainNested /\ [Next]_vars => ChainNested'
  <2> SUFFICES ASSUME TypeOK, ChainNested, [Next]_vars PROVE ChainNested'
    OBVIOUS
  <2>1. chain \in Seq(Masks) /\ Nested(chain)
    BY DEF TypeOK, ChainNested, Nested
  <2>2. ASSUME NEW m \in Masks, BuildTuple(m) PROVE ChainNested'
    <3>1. chain' = Shift(chain, m, 1) /\ Fits(chain, m, 1) /\ 1 \in 1..(Len(chain) + 1)
      BY <2>1, <2>2 DEF BuildTuple
    <3>2. \A j \in 1..Len(chain) : chain[j] # m
      BY <2>2 DEF BuildTuple, InChain
    <3>3. IsSlot(chain, m, 1)
      <4>1. ASSUME 1 <= Len(chain) PROVE ~(chain[1] \subseteq m)
        <5>1. 1 \in 1..Len(chain)
          BY <2>1, <4>1
        <5>2. m \subseteq chain[1] /\ chain[1] # m
          BY <3>1, <3>2, <4>1, <5>1 DEF Fits, Cover
        <5> QED BY <5>2
      <4> QED BY <4>1 DEF IsSlot, Cover
    <3>4. Nested(chain')
      BY <2>1, <3>1, <3>2, <3>3, ShiftNested
    <3> QED BY <3>4 DEF ChainNested, Nested
  <2>3. ASSUME NEW r \in Rules, InsertTuple(r) PROVE ChainNested'
    <3>1. PICK i \in 1..(Len(chain) + 1) : /\ IsSlot(chain, r.mask, i)
                                           /\ Fits(chain, r.mask, i)
                                           /\ chain' = Shift(chain, r.mask, i)
      BY <2>3 DEF InsertTuple
    <3>2. \A j \in 1..Len(chain) : chain[j] # r.mask
      BY <2>3 DEF InsertTuple, InChain
    <3>3. Nested(chain')
      BY <2>1, <3>1, <3>2, RuleIdType, ShiftNested
    <3> QED BY <3>3 DEF ChainNested, Nested
  <2>4. CASE UNCHANGED chain
    BY <2>4 DEF ChainNested
  <2> QED
    BY <2>2, <2>3, <2>4 DEF Next, Search, EndBuild, InsertRule, EraseRule, StartSearch,
       Probe, EndSearch, Return, vars, chainVars, searchVars
<1> QED BY <1>1, <1>2, TypeCorrect, PTL DEF Spec

-----------------------------------------------------------------------------
(***************************************************************************)
(* EntriesNeeded: three facts about each entry, and where entries are.     *)
(***************************************************************************)

\* An entry is in its table exactly as long as it has a rule or an owner,
\* and only entries of tuples of the chain exist: what insert, erase and
\* insertMarker (marked-tuple.cpp:63-136) keep true.
THEOREM EntriesAreNeeded == Spec => []EntriesNeeded
<1> DEFINE I == (\A x \in Ids : Consistent(ent, x)) /\ ListedIn(ent, chain)
<1>1. EntriesNeeded <=> I
  BY DEF EntriesNeeded, Consistent, ListedIn, InChain
<1>2. Init => I
  <2> SUFFICES ASSUME Init, NEW x \in Ids PROVE Consistent(ent, x) /\ ~Listed(ent[x])
    BY DEF ListedIn
  <2>1. ent[x] = Absent
    BY DEF Init
  <2> QED BY <2>1 DEF Absent, Consistent, Listed
<1>3. TypeOK /\ I /\ [Next]_vars => I'
  <2> SUFFICES ASSUME TypeOK, I, [Next]_vars PROVE I'
    OBVIOUS
  <2>1. chain \in Seq(Masks) /\ ent \in [Ids -> Entries]
    BY DEF TypeOK
  <2>2. ASSUME NEW m \in Masks, BuildTuple(m) PROVE I'
    <3> DEFINE c == Shift(chain, m, 1)
    <3>1. PICK F \in SUBSET {r \in Rules : r.mask = m} : ent' = Link(c, Filled(ent, F), 1)
      BY <2>2 DEF BuildTuple
    <3>2. 1 \in 1..(Len(chain) + 1)
      BY <2>1
    <3>3. c \in Seq(Masks) /\ c[1] = m /\ 1 \in 1..Len(c) /\ ListedIn(ent, c)
      BY <2>1, <3>2, ShiftProperties, ShiftListedIn
    <3>4. F \in SUBSET Rules /\ \A r \in F : r.mask = m
      OBVIOUS
    <3>5. chain' = c
      BY <2>2 DEF BuildTuple
    <3> HIDE DEF c
    <3>6. Filled(ent, F) \in [Ids -> Entries] /\ \A x \in Ids : Consistent(Filled(ent, F), x)
      BY <2>1, <3>4, FilledType, FilledConsistent
    <3>7. ListedIn(Filled(ent, F), c)
      <4> SUFFICES ASSUME NEW x \in Ids, Listed(Filled(ent, F)[x])
                   PROVE  \E j \in 1..Len(c) : c[j] = x[1]
        BY DEF ListedIn
      <4>1. CASE Filled(ent, F)[x] = ent[x]
        BY <3>3, <4>1 DEF ListedIn
      <4>2. CASE Filled(ent, F)[x] # ent[x]
        <5>1. PICK r \in F : x = <<r.mask, r.key>>
          BY <2>1, <3>4, <4>2, FilledEntry
        <5> QED BY <3>3, <3>4, <5>1
      <4> QED BY <4>1, <4>2
    <3>8. ListedIn(ent', c) /\ \A x \in Ids : Consistent(ent', x)
      BY <3>1, <3>3, <3>6, <3>7, LinkListedIn, LinkConsistent
    <3> QED BY <3>5, <3>8 DEF ListedIn, Consistent
  <2>3. ASSUME NEW r \in Rules, InsertTuple(r) PROVE I'
    <3>1. PICK i \in 1..(Len(chain) + 1) :
            /\ chain' = Shift(chain, r.mask, i)
            /\ ent' = InsertAt(Shift(chain, r.mask, i), Link(Shift(chain, r.mask, i), ent, i), i, r)
      BY <2>3 DEF InsertTuple
    <3> DEFINE c == Shift(chain, r.mask, i)
               e == Link(c, ent, i)
    <3>2. chain' = c /\ ent' = InsertAt(c, e, i, r)
      BY <3>1
    <3>3. /\ c \in Seq(Masks) /\ c[i] = r.mask /\ i \in 1..Len(c)
          /\ ListedIn(ent, c)
      <4>1. r.mask \in Masks
        BY RuleIdType
      <4>2. c \in Seq(Masks) /\ Len(c) = Len(chain) + 1 /\ c[i] = r.mask
        BY <2>1, <4>1, ShiftProperties
      <4>3. ListedIn(ent, c)
        BY <2>1, <4>1, ShiftListedIn
      <4> HIDE DEF c
      <4> QED BY <2>1, <4>2, <4>3
    <3> HIDE DEF c
    <3>4. /\ e \in [Ids -> Entries]
          /\ \A x \in Ids : Consistent(e, x)
          /\ ListedIn(e, c)
      BY <2>1, <3>3, LinkType, LinkConsistent, LinkListedIn
    <3> HIDE DEF e
    <3>5. (\A x \in Ids : Consistent(ent', x)) /\ ListedIn(ent', c)
      BY <3>2, <3>3, <3>4, InsertAtConsistent, InsertAtListedIn
    <3> QED BY <3>2, <3>5 DEF ListedIn, Consistent
  <2>4. ASSUME NEW r \in Rules, InsertRule(r) PROVE I'
    <3>1. PICK i \in 1..Len(chain) : chain[i] = r.mask /\ ent' = InsertAt(chain, ent, i, r)
      BY <2>4 DEF InsertRule
    <3>2. chain' = chain
      BY <2>4 DEF InsertRule
    <3>3. (\A x \in Ids : Consistent(ent', x)) /\ ListedIn(ent', chain)
      BY <2>1, <3>1, InsertAtConsistent, InsertAtListedIn
    <3> QED BY <3>2, <3>3 DEF ListedIn, Consistent
  <2>5. ASSUME NEW r \in Rules, EraseRule(r) PROVE I'
    <3>1. PICK i \in 1..Len(chain) : chain[i] = r.mask /\ ent' = EraseAt(chain, ent, i, r)
      BY <2>5 DEF EraseRule
    <3>2. chain' = chain /\ ent[<<r.mask, r.key>>].inTable
      BY <2>5 DEF EraseRule, HoldsRule
    <3>3. \A x \in Ids : Consistent(ent', x) /\ (Listed(ent'[x]) <=> Listed(ent[x]))
      BY <2>1, <3>1, <3>2, EraseAtConsistent, EraseAtListed
    <3> QED BY <3>2, <3>3 DEF ListedIn, Consistent
  <2>6. CASE UNCHANGED chainVars
    BY <2>6 DEF chainVars, ListedIn, Consistent
  <2> QED
    BY <2>2, <2>3, <2>4, <2>5, <2>6 DEF Next, Search, EndBuild, StartSearch,
       Probe, EndSearch, Return, vars
<1> HIDE DEF I
<1>4. Spec => []I
  BY <1>2, <1>3, TypeCorrect, PTL DEF Spec
<1> QED BY <1>1, <1>4, PTL

-----------------------------------------------------------------------------
(***************************************************************************)
(* The markers: whatever a tuple lists has its marker in every tuple below *)
(* it, and is an owner of the one in prev.                                 *)
(***************************************************************************)

\* What MarkersComplete and OwnersLinked say is kept by every action.
LEMMA CompleteStep ==
  ASSUME TypeOK, ChainNested, EntriesNeeded, Complete(chain, ent, Len(chain)),
         ChainNested', [Next]_vars
  PROVE  Complete(chain, ent, Len(chain))'
<1>1. /\ chain \in Seq(Masks) /\ ent \in [Ids -> Entries] /\ Len(chain) \in Nat
      /\ Nested(chain) /\ Nested(chain')
      /\ \A x \in Ids : Consistent(ent, x)
  BY DEF TypeOK, ChainNested, Nested, EntriesNeeded, Consistent
<1>2. ASSUME NEW m \in Masks, BuildTuple(m) PROVE Complete(chain', ent', Len(chain'))
  <2>1. PICK F \in SUBSET {r \in Rules : r.mask = m} :
          ent' = Link(Shift(chain, m, 1), Filled(ent, F), 1)
    BY <1>2 DEF BuildTuple
  <2>2. chain' = Shift(chain, m, 1) /\ \A j \in 1..Len(chain) : chain[j] # m
    BY <1>2 DEF BuildTuple, InChain
  <2>3. F \in SUBSET Rules /\ \A r \in F : r.mask = m
    OBVIOUS
  <2>4. Filled(ent, F) \in [Ids -> Entries]
    BY <1>1, <2>3, FilledType
  <2>5. Complete(chain, Filled(ent, F), Len(chain))
    <3>1. ASSUME NEW j \in 1..Len(chain), NEW k \in SUBSET chain[j]
          PROVE  Filled(ent, F)[<<chain[j], k>>] = ent[<<chain[j], k>>]
      <4>1. <<chain[j], k>> \in Ids
        BY <1>1, KeyEntry
      <4>2. ~ \E r \in F : <<chain[j], k>> = <<r.mask, r.key>>
        BY <2>2, <2>3
      <4> QED BY <4>1, <4>2 DEF Filled
    <3>2. Len(chain) \in 0..Len(chain)
      BY <1>1
    <3> QED BY <1>1, <3>1, <3>2, CompleteSame
  <2>6. 1 \in 1..(Len(chain) + 1) /\ Len(chain') = Len(chain) + 1
    BY <1>1, <2>2, ShiftProperties
  <2> QED BY <1>1, <2>1, <2>2, <2>4, <2>5, <2>6, LinkComplete
<1>3. ASSUME NEW r \in Rules, InsertTuple(r) PROVE Complete(chain', ent', Len(chain'))
  <2>1. PICK i \in 1..(Len(chain) + 1) :
          /\ chain' = Shift(chain, r.mask, i)
          /\ ent' = InsertAt(Shift(chain, r.mask, i), Link(Shift(chain, r.mask, i), ent, i), i, r)
    BY <1>3 DEF InsertTuple
  <2> DEFINE e == Link(chain', ent, i)
  <2>2. ent' = InsertAt(chain', e, i, r)
    BY <2>1
  <2>3. r.mask \in Masks
    BY RuleIdType
  <2>4. /\ chain' \in Seq(Masks) /\ Len(chain') = Len(chain) + 1 /\ chain'[i] = r.mask
        /\ i \in 1..Len(chain')
    <3>1. /\ Shift(chain, r.mask, i) \in Seq(Masks)
          /\ Len(Shift(chain, r.mask, i)) = Len(chain) + 1
          /\ Shift(chain, r.mask, i)[i] = r.mask
      BY <1>1, <2>3, ShiftProperties
    <3> QED BY <1>1, <2>1, <3>1
  <2>5. e \in [Ids -> Entries]
    BY <1>1, <2>4, LinkType
  <2>6. Complete(chain', e, Len(chain'))
    BY <1>1, <2>1, <2>3, <2>4, LinkComplete
  <2> HIDE DEF e
  <2> QED BY <1>1, <2>2, <2>4, <2>5, <2>6, InsertAtComplete
<1>4. ASSUME NEW r \in Rules, InsertRule(r) PROVE Complete(chain', ent', Len(chain'))
  <2>1. PICK i \in 1..Len(chain) : chain[i] = r.mask /\ ent' = InsertAt(chain, ent, i, r)
    BY <1>4 DEF InsertRule
  <2>2. chain' = chain
    BY <1>4 DEF InsertRule
  <2> QED BY <1>1, <2>1, <2>2, InsertAtComplete
<1>5. ASSUME NEW r \in Rules, EraseRule(r) PROVE Complete(chain', ent', Len(chain'))
  <2>1. PICK i \in 1..Len(chain) : chain[i] = r.mask /\ ent' = EraseAt(chain, ent, i, r)
    BY <1>5 DEF EraseRule
  <2>2. chain' = chain /\ ent[<<r.mask, r.key>>].inTable
    BY <1>5 DEF EraseRule, HoldsRule
  <2> QED BY <1>1, <2>1, <2>2, EraseAtComplete
<1>6. CASE UNCHANGED chainVars
  BY <1>6 DEF chainVars
<1> QED
  BY <1>2, <1>3, <1>4, <1>5, <1>6 DEF Next, Search, EndBuild, StartSearch,
     Probe, EndSearch, Return, vars

LEMMA AlwaysComplete == Spec => []Complete(chain, ent, Len(chain))
<1>1. Init => Complete(chain, ent, Len(chain))
  BY DEF Init, Complete, MarkedBelow, LinkedBelow
<1> DEFINE C == Complete(chain, ent, Len(chain))
<1>2. TypeOK /\ ChainNested /\ EntriesNeeded /\ C /\ ChainNested' /\ [Next]_vars => C'
  BY CompleteStep
<1> QED BY <1>1, <1>2, TypeCorrect, ChainOrdered, EntriesAreNeeded, PTL DEF Spec

\* In every reachable state each entry has its marker in the table of every
\* shorter tuple, so that erase finds the one in prev (marked-tuple.cpp:89)
\* and a search is never cut off from an entry (tuple-chain.cpp:85).
THEOREM MarkersAreComplete == Spec => []MarkersComplete
<1>1. Complete(chain, ent, Len(chain)) => MarkersComplete
  BY DEF Complete, MarkersComplete
<1> QED BY <1>1, AlwaysComplete, PTL

\* In every reachable state each entry is an owner of its marker in prev,
\* so that a refresh can reach it (marked-tuple.cpp:178-180).
THEOREM OwnersAreLinked == Spec => []OwnersLinked
<1>1. Complete(chain, ent, Len(chain)) => OwnersLinked
  BY DEF Complete, LinkedBelow, OwnersLinked
<1> QED BY <1>1, AlwaysComplete, PTL

-----------------------------------------------------------------------------
(***************************************************************************)
(* The search.                                                             *)
(***************************************************************************)

\* All levels below lo have an entry for the packet, and those from hi on
\* have none; bestRule is the rule of the entry just below lo.
SearchInv ==
  (pc \in {"search", "done"} /\ ~PacketDead) =>
    /\ lo <= hi
    /\ \A j \in 1..(lo - 1) : Hit(ent, Id(chain, j, pkt))
    /\ \A j \in hi..Len(chain) : ~Hit(ent, Id(chain, j, pkt))
    /\ best = IF lo = 1 THEN NoRule ELSE ent[Id(chain, lo - 1, pkt)].rule
    /\ pc = "done" => lo >= hi

LEMMA SearchInvStep ==
  ASSUME TypeOK, ChainNested, MarkersComplete, SearchInv, [Next]_vars
  PROVE  SearchInv'
<1>1. /\ chain \in Seq(Masks) /\ ent \in [Ids -> Entries] /\ Len(chain) \in Nat
      /\ Nested(chain) /\ MarkedBelow(chain, ent, Len(chain))
      /\ pkt \in SUBSET Bits /\ lo \in Nat /\ hi \in Nat
  BY DEF TypeOK, ChainNested, Nested, MarkersComplete, Packets
<1>2. ASSUME NEW p \in Packets, StartSearch(p) PROVE SearchInv'
  <2>1. lo' = 1 /\ hi' = Len(chain) + 1 /\ best' = NoRule /\ pc' = "search" /\ chain' = chain
    BY <1>2 DEF StartSearch, chainVars
  <2> QED BY <1>1, <2>1 DEF SearchInv
<1>3. CASE Probe
  <2> DEFINE mid == Root(lo, hi)
             x   == Id(chain, mid, pkt)
  <2>1. /\ chain' = chain /\ ent' = ent /\ pc' = pc /\ pkt' = pkt
        /\ pc = "search" /\ lo < hi /\ 1 <= lo /\ hi <= Len(chain) + 1
    BY <1>3 DEF Probe, chainVars, TypeOK
  <2> SUFFICES ASSUME ~PacketDead
               PROVE  /\ lo' <= hi'
                      /\ \A j \in 1..(lo' - 1) : Hit(ent, Id(chain, j, pkt))
                      /\ \A j \in hi'..Len(chain) : ~Hit(ent, Id(chain, j, pkt))
                      /\ best' = IF lo' = 1 THEN NoRule
                                 ELSE ent[Id(chain, lo' - 1, pkt)].rule
    BY <2>1 DEF SearchInv, PacketDead
  <2>2. mid \in lo..(hi - 1) /\ mid \in 1..Len(chain)
    BY <1>1, <2>1, RootInside
  <2>3. /\ \A j \in 1..(lo - 1) : Hit(ent, Id(chain, j, pkt))
        /\ \A j \in hi..Len(chain) : ~Hit(ent, Id(chain, j, pkt))
        /\ best = IF lo = 1 THEN NoRule ELSE ent[Id(chain, lo - 1, pkt)].rule
    BY <2>1 DEF SearchInv
  <2>4. \A g \in 1..Len(chain) : ~HitsDead(ent, Id(chain, g, pkt))
    BY <1>1, IdType DEF PacketDead, Id
  <2>5. ASSUME NEW j \in 1..Len(chain), Hit(ent, Id(chain, j, pkt)), NEW i \in 1..(j - 1)
        PROVE  Hit(ent, Id(chain, i, pkt)) /\ HitMarker(ent, Id(chain, i, pkt))
    BY <1>1, <2>4, <2>5, HitsGoDown
  <2>6. x \in Ids
    BY <1>1, <2>2, IdType
  <2>7. CASE Hit(ent, x)
    <3>1. /\ best' = HitRule(ent, x) /\ lo' = mid + 1
          /\ hi' = IF HitMarker(ent, x) THEN hi ELSE mid + 1
      BY <1>3, <2>7 DEF Probe
    <3>2. best' = ent[x].rule
      BY <2>2, <2>4, <3>1 DEF HitRule
    <3>3. \A j \in 1..mid : Hit(ent, Id(chain, j, pkt))
      <4> SUFFICES ASSUME NEW j \in 1..mid PROVE Hit(ent, Id(chain, j, pkt))
        OBVIOUS
      <4>1. CASE j = mid
        BY <2>7, <4>1
      <4>2. CASE j < mid
        <5>1. j \in 1..(mid - 1)
          BY <2>2, <4>2
        <5> QED BY <2>2, <2>5, <2>7, <5>1
      <4> QED BY <2>2, <4>1, <4>2
    <3>4. \A j \in hi'..Len(chain) : ~Hit(ent, Id(chain, j, pkt))
      <4>1. CASE HitMarker(ent, x)
        BY <2>3, <3>1, <4>1
      <4>2. CASE ~HitMarker(ent, x)
        <5> SUFFICES ASSUME NEW j \in (mid + 1)..Len(chain), Hit(ent, Id(chain, j, pkt))
                     PROVE  FALSE
          BY <3>1, <4>2
        <5>1. j \in 1..Len(chain) /\ mid \in 1..(j - 1)
          BY <2>2
        <5> QED BY <2>5, <4>2, <5>1
      <4> QED BY <4>1, <4>2
    <3> HIDE DEF mid
    <3>5. lo' <= hi'
      BY <1>1, <2>2, <3>1
    <3>6. lo' - 1 = mid /\ lo' # 1
      BY <1>1, <2>1, <2>2, <3>1
    <3> QED BY <3>2, <3>3, <3>4, <3>5, <3>6
  <2>8. CASE ~Hit(ent, x)
    <3>1. best' = best /\ lo' = lo /\ hi' = mid
      BY <1>3, <2>8 DEF Probe
    <3>2. \A j \in mid..Len(chain) : ~Hit(ent, Id(chain, j, pkt))
      <4> SUFFICES ASSUME NEW j \in mid..Len(chain), Hit(ent, Id(chain, j, pkt))
                   PROVE  FALSE
        OBVIOUS
      <4>1. j \in 1..Len(chain)
        BY <2>2
      <4>2. j # mid
        BY <2>8
      <4>3. mid \in 1..(j - 1)
        BY <2>2, <4>1, <4>2
      <4> QED BY <2>5, <2>8, <4>1, <4>3
    <3> HIDE DEF mid
    <3> QED BY <1>1, <2>2, <2>3, <3>1, <3>2
  <2> QED BY <2>7, <2>8
<1>4. CASE EndSearch
  <2>1. /\ chain' = chain /\ ent' = ent /\ pkt' = pkt /\ lo' = lo /\ hi' = hi /\ best' = best
        /\ pc = "search" /\ lo >= hi
    BY <1>4 DEF EndSearch, chainVars, searchVars
  <2> QED BY <2>1 DEF SearchInv, PacketDead
<1>5. CASE pc' \in {"build", "idle"}
  BY <1>5 DEF SearchInv
<1>6. CASE UNCHANGED vars
  BY <1>6 DEF SearchInv, PacketDead, vars, chainVars, searchVars
<1>7. ASSUME NEW m \in Masks, BuildTuple(m) PROVE pc' \in {"build", "idle"}
  BY <1>7 DEF BuildTuple
<1>8. ASSUME NEW r \in Rules, InsertTuple(r) \/ InsertRule(r) \/ EraseRule(r)
      PROVE  pc' \in {"build", "idle"}
  BY <1>8 DEF InsertTuple, InsertRule, EraseRule
<1>9. EndBuild \/ Return => pc' \in {"build", "idle"}
  BY DEF EndBuild, Return
<1> QED
  BY <1>2, <1>3, <1>4, <1>5, <1>6, <1>7, <1>8, <1>9 DEF Next, Search

\* However the chain was built and updated, a search that meets no dead
\* entry ends at the longest tuple with an entry for the packet and returns
\* that entry's rule: the binary search over the markers
\* (tuple-chain.cpp:66-90) skips no tuple.
THEOREM SearchIsExact == Spec => []SearchFindsLongest
<1>1. Init => SearchInv
  BY DEF Init, SearchInv
<1>2. TypeOK /\ ChainNested /\ MarkersComplete /\ SearchInv /\ [Next]_vars => SearchInv'
  BY SearchInvStep
<1>3. TypeOK /\ SearchInv => SearchFindsLongest
  <2> SUFFICES ASSUME TypeOK, SearchInv, pc = "done", ~PacketDead
               PROVE  \E n \in 0..Len(chain) :
                        /\ \A j \in 1..Len(chain) : Hit(ent, Id(chain, j, pkt)) <=> j <= n
                        /\ best = IF n = 0 THEN NoRule ELSE ent[Id(chain, n, pkt)].rule
    BY DEF SearchFindsLongest
  <2>1. /\ lo <= hi /\ lo >= hi
        /\ \A j \in 1..(lo - 1) : Hit(ent, Id(chain, j, pkt))
        /\ \A j \in hi..Len(chain) : ~Hit(ent, Id(chain, j, pkt))
        /\ best = IF lo = 1 THEN NoRule ELSE ent[Id(chain, lo - 1, pkt)].rule
    BY DEF SearchInv
  <2>2. lo \in Nat /\ hi \in Nat /\ 1 <= lo /\ lo <= Len(chain) + 1 /\ Len(chain) \in Nat
    BY DEF TypeOK
  <2>3. lo = hi /\ lo - 1 \in 0..Len(chain)
    BY <2>1, <2>2
  <2>4. \A j \in 1..Len(chain) : Hit(ent, Id(chain, j, pkt)) <=> j <= lo - 1
    BY <2>1, <2>2, <2>3
  <2>5. best = IF lo - 1 = 0 THEN NoRule ELSE ent[Id(chain, lo - 1, pkt)].rule
    BY <2>1, <2>2
  <2> QED BY <2>3, <2>4, <2>5
<1> QED BY <1>1, <1>2, <1>3, TypeCorrect, ChainOrdered, MarkersAreComplete, PTL DEF Spec

-----------------------------------------------------------------------------
(***************************************************************************)
(* The rules of the markers.                                               *)
(***************************************************************************)

\* The markers of every level are fresh, but for what was promoted, and an
\* owner that skips a level skips no rule that was not.
FreshInv ==
  /\ \A j \in 1..Len(chain) : FreshAt(chain, ent, promoted, j)
  /\ Skips(chain, ent, promoted)

\* A tuple that is not in the chain has no entry.
LEMMA NoEntryOutside ==
  ASSUME TypeOK, EntriesNeeded, NEW m \in Masks, ~InChain(m), NEW k \in SUBSET m
  PROVE  ~Listed(ent[<<m, k>>]) /\ ent[<<m, k>>].bits = {}
<1>1. <<m, k>> \in Ids
  BY MasksAssumption DEF Ids
<1>2. ~Listed(ent[<<m, k>>])
  BY <1>1 DEF EntriesNeeded
<1> QED BY <1>1, <1>2 DEF EntriesNeeded, Listed

LEMMA FreshStep ==
  ASSUME TypeOK, ChainNested, EntriesNeeded, Complete(chain, ent, Len(chain)), FreshInv,
         ChainNested', [Next]_vars
  PROVE  FreshInv'
<1>1. /\ chain \in Seq(Masks) /\ ent \in [Ids -> Entries] /\ Len(chain) \in Nat
      /\ Nested(chain) /\ Nested(chain')
      /\ \A x \in Ids : Consistent(ent, x)
      /\ Skips(chain, ent, promoted)
      /\ \A j \in 1..Len(chain) : FreshAt(chain, ent, promoted, j)
  BY DEF TypeOK, ChainNested, Nested, EntriesNeeded, Consistent, FreshInv
<1>2. ASSUME NEW m \in Masks, BuildTuple(m) PROVE FreshInv'
  <2>1. PICK F \in SUBSET {r \in Rules : r.mask = m} :
          ent' = Link(Shift(chain, m, 1), Filled(ent, F), 1)
    BY <1>2 DEF BuildTuple
  <2>2. chain' = Shift(chain, m, 1) /\ ~InChain(m) /\ promoted' = promoted
    BY <1>2 DEF BuildTuple
  <2>3. F \in SUBSET Rules /\ \A r \in F : r.mask = m
    OBVIOUS
  <2> DEFINE e == Filled(ent, F)
  <2>4. e \in [Ids -> Entries] /\ \A x \in Ids : Consistent(e, x)
    BY <1>1, <2>3, FilledType, FilledConsistent
  <2>5. ASSUME NEW j \in 1..Len(chain), NEW k \in SUBSET chain[j]
        PROVE  e[<<chain[j], k>>] = ent[<<chain[j], k>>]
    <3>1. <<chain[j], k>> \in Ids
      BY <1>1, KeyEntry
    <3>2. ~ \E r \in F : <<chain[j], k>> = <<r.mask, r.key>>
      BY <2>2, <2>3 DEF InChain
    <3> QED BY <3>1, <3>2 DEF Filled
  <2>6. Unmarked(e, m)
    <3> SUFFICES ASSUME NEW k \in SUBSET m PROVE MARKER \notin e[<<m, k>>].bits
      BY DEF Unmarked
    <3> DEFINE x == <<m, k>>
    <3>1. x \in Ids
      BY MasksAssumption DEF Ids
    <3>2. e[x].bits = {RULE} \/ e[x] = ent[x]
      <4> HIDE DEF x
      <4> QED BY <1>1, <2>3, <3>1, FilledEntry
    <3>3. ent[x].bits = {}
      BY <2>2, NoEntryOutside
    <3> HIDE DEF e, x
    <3>4. MARKER \notin e[x].bits
      BY <3>2, <3>3 DEF RULE, MARKER
    <3> QED BY <3>4 DEF x
  <2> HIDE DEF e
  <2>7. Complete(chain, e, Len(chain))
    <3>1. Len(chain) \in 0..Len(chain)
      BY <1>1
    <3> QED BY <1>1, <2>5, <3>1, CompleteSame
  <2>8. Skips(chain, e, promoted)
    BY <1>1, <2>5, SkipsSame
  <2>9. ASSUME NEW j \in 1..Len(chain) PROVE FreshAt(chain, e, promoted, j)
    <3>1. \A g \in 1..j : g \in 1..Len(chain)
      BY <1>1
    <3>2. FreshFrom(chain, ent, promoted, 0, j)
      BY <1>1 DEF FreshAt
    <3>3. FreshFrom(chain, e, promoted, 0, j)
      BY <1>1, <2>5, <3>1, <3>2, FreshSame
    <3> QED BY <3>3 DEF FreshAt
  <2>10. 1 \in 1..(Len(chain) + 1) /\ Nested(Shift(chain, m, 1))
    BY <1>1, <2>2
  <2>11. LET s == Shift(chain, m, 1)
         IN  /\ Skips(s, Link(s, e, 1), promoted)
             /\ \A j \in 1..Len(s) : FreshAt(s, Link(s, e, 1), promoted, j)
    BY <1>1, <2>4, <2>6, <2>7, <2>8, <2>9, <2>10, LinkFresh
  <2>12. ent' = Link(Shift(chain, m, 1), e, 1)
    BY <2>1 DEF e
  <2> QED BY <2>2, <2>11, <2>12 DEF FreshInv
<1>3. ASSUME NEW r \in Rules, InsertTuple(r) PROVE FreshInv'
  <2>1. PICK i \in 1..(Len(chain) + 1) :
          LET c == Shift(chain, r.mask, i)
              e == Link(c, ent, i)
          IN  /\ chain' = c
              /\ ent' = InsertAt(c, e, i, r)
              /\ promoted' = IF e[<<r.mask, r.key>>].inTable
                             THEN promoted \cup {<<r.mask, r.key>>} ELSE promoted
    BY <1>3 DEF InsertTuple
  <2> DEFINE c == Shift(chain, r.mask, i)
             e == Link(c, ent, i)
  <2>2. /\ chain' = c /\ ent' = InsertAt(c, e, i, r)
        /\ promoted' = IF e[<<r.mask, r.key>>].inTable
                       THEN promoted \cup {<<r.mask, r.key>>} ELSE promoted
    BY <2>1
  <2>3. r.mask \in Masks /\ ~InChain(r.mask)
    BY <1>3, RuleIdType DEF InsertTuple
  <2>4. /\ c \in Seq(Masks) /\ Len(c) = Len(chain) + 1 /\ c[i] = r.mask /\ i \in 1..Len(c)
        /\ Nested(c)
    <3>1. c \in Seq(Masks) /\ Len(c) = Len(chain) + 1 /\ c[i] = r.mask
      BY <1>1, <2>3, ShiftProperties
    <3>2. Nested(c)
      BY <1>1, <2>2
    <3> HIDE DEF c
    <3> QED BY <1>1, <3>1, <3>2
  <2>5. Unmarked(ent, r.mask) /\ Unlisted(ent, r.mask)
    <3>1. \A k \in SUBSET r.mask : ~Listed(ent[<<r.mask, k>>]) /\ ent[<<r.mask, k>>].bits = {}
      BY <2>3, NoEntryOutside
    <3> QED BY <3>1 DEF Unmarked, Unlisted
  <2>6. /\ Skips(c, e, promoted)
        /\ \A j \in 1..Len(c) : FreshAt(c, e, promoted, j)
    BY <1>1, <2>3, <2>4, <2>5, LinkFresh
  <2>7. Complete(c, e, Len(c))
    BY <1>1, <2>3, <2>4, LinkComplete
  <2> HIDE DEF c
  <2>8. e \in [Ids -> Entries] /\ \A x \in Ids : Consistent(e, x)
    BY <1>1, <2>4, LinkType, LinkConsistent
  <2> HIDE DEF e
  <2>9. /\ Skips(c, InsertAt(c, e, i, r), promoted')
        /\ \A j \in 1..Len(c) : FreshAt(c, InsertAt(c, e, i, r), promoted', j)
    BY <2>2, <2>4, <2>6, <2>7, <2>8, InsertAtFresh
  <2> QED BY <2>2, <2>9 DEF FreshInv
<1>4. ASSUME NEW r \in Rules, InsertRule(r) PROVE FreshInv'
  <2>1. PICK i \in 1..Len(chain) : chain[i] = r.mask /\ ent' = InsertAt(chain, ent, i, r)
    BY <1>4 DEF InsertRule
  <2>2. chain' = chain
    BY <1>4 DEF InsertRule
  <2>3. promoted' = IF ent[<<r.mask, r.key>>].inTable
                    THEN promoted \cup {<<r.mask, r.key>>} ELSE promoted
    <3>1. Pure(ent[<<r.mask, r.key>>]) <=> ent[<<r.mask, r.key>>].inTable
      BY <1>1, <1>4, PureIfInTable DEF InsertRule
    <3> QED BY <1>4, <3>1 DEF InsertRule
  <2>4. /\ Skips(chain, InsertAt(chain, ent, i, r), promoted')
        /\ \A j \in 1..Len(chain) : FreshAt(chain, InsertAt(chain, ent, i, r), promoted', j)
    BY <1>1, <2>1, <2>3, InsertAtFresh
  <2> QED BY <2>1, <2>2, <2>4 DEF FreshInv
<1>5. ASSUME NEW r \in Rules, EraseRule(r) PROVE FreshInv'
  <2>1. PICK i \in 1..Len(chain) : chain[i] = r.mask /\ ent' = EraseAt(chain, ent, i, r)
    BY <1>5 DEF EraseRule
  <2>2. /\ chain' = chain /\ ent[<<r.mask, r.key>>].inTable
        /\ promoted' = promoted \ {<<r.mask, r.key>>}
    BY <1>5 DEF EraseRule, HoldsRule
  <2>3. /\ Skips(chain, EraseAt(chain, ent, i, r), promoted')
        /\ \A j \in 1..Len(chain) : FreshAt(chain, EraseAt(chain, ent, i, r), promoted', j)
    BY <1>1, <2>1, <2>2, EraseAtFresh
  <2> QED BY <2>1, <2>2, <2>3 DEF FreshInv
<1>6. CASE UNCHANGED chainVars
  BY <1>6 DEF chainVars, FreshInv
<1> QED
  BY <1>2, <1>3, <1>4, <1>5, <1>6 DEF Next, Search, EndBuild, StartSearch,
     Probe, EndSearch, Return, vars

LEMMA AlwaysFresh == Spec => []FreshInv
<1>1. Init => FreshInv
  <2> SUFFICES ASSUME Init PROVE FreshInv
    OBVIOUS
  <2>1. Len(chain) = 0 /\ 1..0 = {}
    BY DEF Init
  <2> QED BY <2>1 DEF FreshInv, Skips
<1> DEFINE C == Complete(chain, ent, Len(chain))
<1>2. /\ TypeOK /\ ChainNested /\ EntriesNeeded /\ C /\ FreshInv
      /\ ChainNested' /\ [Next]_vars
      => FreshInv'
  BY FreshStep
<1> QED BY <1>1, <1>2, TypeCorrect, ChainOrdered, EntriesAreNeeded, AlwaysComplete, PTL DEF Spec

\* The installed rules are rules, and each is at home in its own entry.
LEMMA InstalledRules ==
  ASSUME TypeOK, EntriesNeeded
  PROVE  /\ Installed \in SUBSET Rules
         /\ \A r \in Installed : /\ RULE \in ent[<<r.mask, r.key>>].bits
                                 /\ ent[<<r.mask, r.key>>].rule = r
                                 /\ <<r.mask, r.key>> \in Ids
                                 /\ \E g \in 1..Len(chain) : chain[g] = r.mask
<1> SUFFICES ASSUME NEW r \in Installed
             PROVE  /\ r \in Rules
                    /\ RULE \in ent[<<r.mask, r.key>>].bits
                    /\ ent[<<r.mask, r.key>>].rule = r
                    /\ <<r.mask, r.key>> \in Ids
                    /\ \E g \in 1..Len(chain) : chain[g] = r.mask
  OBVIOUS
<1>1. PICK y \in Ids : RULE \in ent[y].bits /\ r = ent[y].rule
  BY DEF Installed
<1>2. r \in Rules /\ <<r.mask, r.key>> = y
  BY <1>1 DEF EntriesNeeded
<1>3. ent[y].bits # {}
  BY <1>1
<1>4. Listed(ent[y])
  BY <1>3 DEF EntriesNeeded, Listed
<1>5. \E g \in 1..Len(chain) : chain[g] = y[1]
  BY <1>4 DEF EntriesNeeded, InChain
<1>6. y[1] = r.mask
  BY <1>2
<1> QED BY <1>1, <1>2, <1>5, <1>6

\* In every reachable state a marker that no later insert went under holds
\* the best rule below it: leaveMarkers, insertMarker and erase keep it so,
\* through every update order (marked-tuple.cpp:60-131 and 171-202).
THEOREM MarkersAreFresh == Spec => []MarkersFresh
<1>1. TypeOK /\ ChainNested /\ EntriesNeeded /\ FreshInv => MarkersFresh
  <2> SUFFICES ASSUME TypeOK, ChainNested, EntriesNeeded, FreshInv,
                      NEW x \in Ids, Pure(ent[x]), ~PromotedBelow(x)
               PROVE  ent[x].rule = BestMatch(RulesBelow(x), x[2])
    BY DEF MarkersFresh
  <2>1. /\ chain \in Seq(Masks) /\ ent \in [Ids -> Entries] /\ Len(chain) \in Nat
        /\ Nested(chain) /\ \A y \in Ids : Consistent(ent, y)
    BY DEF TypeOK, ChainNested, Nested, EntriesNeeded, Consistent
  <2> DEFINE k == x[2]
             S == RulesBelow(x)
  <2>2. PICK j \in 1..Len(chain) : chain[j] = x[1]
    BY DEF EntriesNeeded, Pure, Listed, InChain
  <2>3. k \in SUBSET chain[j] /\ k \in SUBSET Bits /\ x = <<chain[j], k>>
    BY <2>2, IdsBits
  <2> HIDE DEF k
  <2> DEFINE T == {g \in 1..(j - 1) : RULE \in ent[Id(chain, g, k)].bits}
  <2>4. PICK h \in 0..(j - 1) :
               (h = 0 \/ h \in T) /\ \A g \in (h + 1)..(j - 1) : g \notin T
    <3>1. j - 1 \in Nat /\ T \in SUBSET (1..(j - 1))
      OBVIOUS
    <3> HIDE DEF T
    <3> QED BY <3>1, HighestLevel
  <2>5. Bare(chain, ent, k, h, j)
    <3>1. \A g \in (h + 1)..(j - 1) : g \in 1..(j - 1)
      OBVIOUS
    <3> QED BY <2>4, <3>1 DEF Bare
  <2>6. \A g \in 1..(j - 1) : /\ g \in 1..Len(chain) /\ Id(chain, g, k) \in Ids
                              /\ Cover(chain[g], chain[j]) /\ chain[g] # chain[j]
    <3> SUFFICES ASSUME NEW g \in 1..(j - 1)
                 PROVE  /\ g \in 1..Len(chain) /\ Id(chain, g, k) \in Ids
                        /\ Cover(chain[g], chain[j]) /\ chain[g] # chain[j]
      OBVIOUS
    <3>1. g \in 1..Len(chain) /\ g < j
      OBVIOUS
    <3> QED BY <2>1, <2>3, <3>1, IdType DEF Nested
  <2>7. h # 0 => RULE \in ent[Id(chain, h, k)].bits /\ h \in 1..(j - 1)
    BY <2>4
  <2>8. h # 0 => Id(chain, h, k) \notin promoted
    <3> SUFFICES ASSUME h # 0, Id(chain, h, k) \in promoted PROVE FALSE
      OBVIOUS
    <3>1. Cover(chain[h], x[1]) /\ chain[h] # x[1]
      BY <2>2, <2>6, <2>7
    <3>2. Id(chain, h, k)[1] = chain[h] /\ Key(chain[h], x[2]) = Id(chain, h, k)[2]
      BY DEF Id, k
    <3> QED BY <3>1, <3>2 DEF PromotedBelow
  <2>9. ent[x].rule = RuleAt(chain, ent, k, h)
    <3>1. Settled(chain, ent, promoted, k, h)
      BY <2>7, <2>8 DEF Settled
    <3> QED BY <2>3, <2>5, <3>1 DEF FreshInv, FreshAt, FreshFrom
  <2>10. S \in SUBSET Rules
    BY InstalledRules DEF RulesBelow
  <2>11. ASSUME NEW g \in 1..(j - 1), RULE \in ent[Id(chain, g, k)].bits
         PROVE  ent[Id(chain, g, k)].rule \in S
    <3> DEFINE r == ent[Id(chain, g, k)].rule
    <3>1. r \in Installed
      BY <2>6, <2>11 DEF Installed
    <3>2. <<r.mask, r.key>> = Id(chain, g, k)
      BY <2>6, <2>11 DEF EntriesNeeded
    <3> HIDE DEF r
    <3>3. r.mask = chain[g] /\ r.key = Key(chain[g], k)
      BY <3>2 DEF Id
    <3> QED BY <2>2, <2>6, <3>1, <3>3 DEF RulesBelow, k, r
  <2>12. ASSUME NEW r \in S
         PROVE  \E g \in 1..(j - 1) : /\ RULE \in ent[Id(chain, g, k)].bits
                                      /\ r = ent[Id(chain, g, k)].rule
    <3>1. r \in Installed /\ Cover(r.mask, chain[j]) /\ r.mask # chain[j] /\ Key(r.mask, k) = r.key
      BY <2>2 DEF RulesBelow, k
    <3>2. PICK g \in 1..Len(chain) : chain[g] = r.mask
      BY <3>1, InstalledRules
    <3>3. Id(chain, g, k) = <<r.mask, r.key>>
      BY <3>1, <3>2 DEF Id
    <3>4. g \in 1..(j - 1)
      <4> SUFFICES ASSUME ~(g < j) PROVE FALSE
        BY <2>1
      <4>1. Cover(chain[j], chain[g]) /\ chain[j] # chain[g]
        BY <2>1, <3>1, <3>2 DEF Nested
      <4> QED BY <3>1, <3>2, <4>1, Zenon DEF Cover
    <3>5. RULE \in ent[<<r.mask, r.key>>].bits /\ ent[<<r.mask, r.key>>].rule = r
      BY <3>1, InstalledRules
    <3> QED BY <3>3, <3>4, <3>5
  <2> HIDE DEF S, T
  <2>13. BestMatch(S, k) = RuleAt(chain, ent, k, h)
    <3>1. j - 1 \in 0..Len(chain) /\ (j - 1) + 1 = j
      BY <2>1
    <3>2. h = 0 \/ RULE \in ent[Id(chain, h, k)].bits
      BY <2>7
    <3>3. Bare(chain, ent, k, h, (j - 1) + 1)
      BY <2>5, <3>1
    <3> QED BY <2>1, <2>3, <2>10, <2>11, <2>12, <3>1, <3>2, <3>3, ColumnBest
  <2> QED BY <2>9, <2>13 DEF S, k
<1> QED BY <1>1, TypeCorrect, ChainOrdered, EntriesAreNeeded, AlwaysFresh, PTL

\* Of a packet that meets no promoted entry, and with no dead entry in the
\* way, a search answers the best installed rule, however the chain was
\* built and updated: the two staleness causes of marked-tuple.cpp:52-58 and
\* 190-198 are the only ones.
THEOREM SearchIsBestUnlessStale == Spec => []SearchBestUnlessStale
<1>1. TypeOK /\ ChainNested /\ EntriesNeeded /\ FreshInv /\ SearchFindsLongest
      => SearchBestUnlessStale
  <2> SUFFICES ASSUME TypeOK, ChainNested, EntriesNeeded, FreshInv, SearchFindsLongest,
                      pc = "done", ~PacketDead, ~PacketPromoted
               PROVE  best = BestMatch(Installed, pkt)
    BY DEF SearchBestUnlessStale
  <2>1. /\ chain \in Seq(Masks) /\ ent \in [Ids -> Entries] /\ Len(chain) \in Nat
        /\ Nested(chain) /\ \A y \in Ids : Consistent(ent, y)
        /\ pkt \in SUBSET Bits
    BY DEF TypeOK, ChainNested, Nested, EntriesNeeded, Consistent, Packets
  <2>2. PICK n \in 0..Len(chain) :
          /\ \A j \in 1..Len(chain) : Hit(ent, Id(chain, j, pkt)) <=> j <= n
          /\ best = IF n = 0 THEN NoRule ELSE ent[Id(chain, n, pkt)].rule
    BY DEF SearchFindsLongest
  <2>3. \A g \in 1..Len(chain) : Id(chain, g, pkt) \in Ids
    BY <2>1, IdType
  <2>4. EndsAt(chain, ent, pkt, n)
    <3>1. \A g \in 1..Len(chain) : ~HitsDead(ent, Id(chain, g, pkt))
      BY <2>3 DEF PacketDead, Id
    <3> QED BY <2>2, <3>1 DEF Hit, EndsAt
  <2>5. Installed \in SUBSET Rules
    BY InstalledRules
  <2>6. \A g \in 1..Len(chain) : RULE \in ent[Id(chain, g, pkt)].bits =>
          ent[Id(chain, g, pkt)].rule \in Installed
    BY <2>3 DEF Installed
  <2>7. ASSUME NEW r \in Installed, Matches(r, pkt)
        PROVE  \E g \in 1..Len(chain) : /\ RULE \in ent[Id(chain, g, pkt)].bits
                                        /\ r = ent[Id(chain, g, pkt)].rule
    <3>1. PICK g \in 1..Len(chain) : chain[g] = r.mask
      BY InstalledRules
    <3>2. Id(chain, g, pkt) = <<r.mask, r.key>>
      BY <2>7, <3>1 DEF Id, Matches
    <3> QED BY <3>2, InstalledRules
  <2>8. HasRules(chain, ent, pkt, Installed)
    BY <2>6, <2>7 DEF HasRules
  <2>9. Avoids(chain, pkt, promoted)
    <3>1. \A g \in 1..Len(chain) : Key(Id(chain, g, pkt)[1], pkt) = Id(chain, g, pkt)[2]
      BY DEF Id
    <3> QED BY <3>1 DEF PacketPromoted, Avoids
  <2>10. \A g \in 1..Len(chain) : FreshAt(chain, ent, promoted, g)
    BY DEF FreshInv
  <2>11. BestMatch(Installed, pkt) = IF n = 0 THEN NoRule ELSE ent[Id(chain, n, pkt)].rule
    BY <2>1, <2>4, <2>5, <2>8, <2>9, <2>10, TopBest
  <2> QED BY <2>2, <2>11
<1> QED BY <1>1, TypeCorrect, ChainOrdered, EntriesAreNeeded, AlwaysFresh, SearchIsExact, PTL

-----------------------------------------------------------------------------
(***************************************************************************)
(* The installed rules.                                                    *)
(***************************************************************************)

\* An insert adds the rule it was called with, which was not installed, an
\* erase takes the rule it was called with, which was, and neither loses,
\* changes or adds another: markers and refreshes overwrite no entry that has a
\* rule (marked-tuple.cpp:171-202).  A search changes none.
THEOREM UpdatesAreExact == Spec => UpdatesExact
<1> DEFINE Exact ==
             /\ \A r \in Rules :
                  /\ InsertTuple(r) \/ InsertRule(r) =>
                       r \notin Installed /\ Installed' = Installed \cup {r}
                  /\ EraseRule(r) => r \in Installed /\ Installed' = Installed \ {r}
             /\ (\E p \in Packets : StartSearch(p)) \/ Search => Installed' = Installed
<1>1. TypeOK /\ ChainNested /\ EntriesNeeded /\ EntriesNeeded' /\ [Next]_vars => [Exact]_vars
  <2> SUFFICES ASSUME TypeOK, EntriesNeeded, EntriesNeeded'
               PROVE  Exact
    OBVIOUS
  <2>1. /\ chain \in Seq(Masks) /\ ent \in [Ids -> Entries] /\ Len(chain) \in Nat
        /\ \A y \in Ids : Consistent(ent, y)
    BY DEF TypeOK, EntriesNeeded, Consistent
  <2>2. ASSUME NEW r \in Rules, RULE \notin ent[<<r.mask, r.key>>].bits,
               RULE \in ent'[<<r.mask, r.key>>].bits, ent'[<<r.mask, r.key>>].rule = r,
               \A y \in Ids : y # <<r.mask, r.key>> => SameRule(ent, ent', y)
        PROVE  r \notin Installed /\ Installed' = Installed \cup {r}
    <3> DEFINE x == <<r.mask, r.key>>
    <3>1. x \in Ids
      BY RuleIdType
    <3>2. r \notin Installed
      BY <2>2, InstalledRules
    <3>3. ASSUME NEW s \in Installed' PROVE s \in Installed \cup {r}
      <4>1. PICK y \in Ids : RULE \in ent'[y].bits /\ s = ent'[y].rule
        BY DEF Installed
      <4>2. CASE y = x
        BY <2>2, <4>1, <4>2
      <4>3. CASE y # x
        BY <2>2, <4>1, <4>3 DEF SameRule, Installed
      <4> QED BY <4>2, <4>3
    <3>4. ASSUME NEW s \in Installed PROVE s \in Installed'
      <4>1. PICK y \in Ids : RULE \in ent[y].bits /\ s = ent[y].rule
        BY DEF Installed
      <4>2. y # x
        BY <2>2, <4>1
      <4> QED BY <2>2, <4>1, <4>2 DEF SameRule, Installed
    <3>5. r \in Installed'
      BY <2>2, <3>1 DEF Installed
    <3> QED BY <3>2, <3>3, <3>4, <3>5
  <2>4. ASSUME NEW r \in Rules, InsertTuple(r)
        PROVE  r \notin Installed /\ Installed' = Installed \cup {r}
    <3>1. PICK i \in 1..(Len(chain) + 1) :
            ent' = InsertAt(Shift(chain, r.mask, i), Link(Shift(chain, r.mask, i), ent, i), i, r)
      BY <2>4 DEF InsertTuple
    <3> DEFINE c == Shift(chain, r.mask, i)
               e == Link(c, ent, i)
    <3>2. r.mask \in Masks /\ r.key \in SUBSET r.mask /\ ~InChain(r.mask)
      BY <2>4, RuleIdType DEF InsertTuple
    <3>3. c \in Seq(Masks) /\ Len(c) = Len(chain) + 1 /\ c[i] = r.mask
      BY <2>1, <3>2, ShiftProperties
    <3>4. ent' = InsertAt(c, e, i, r)
      BY <3>1
    <3> HIDE DEF c
    <3>5. i \in 1..Len(c)
      BY <2>1, <3>3
    <3>6. /\ e \in [Ids -> Entries] /\ \A y \in Ids : Consistent(e, y)
          /\ \A y \in Ids : SameRule(ent, e, y)
      BY <2>1, <3>3, <3>5, LinkType, LinkConsistent, LinkSameRule
    <3> HIDE DEF e
    <3>7. ASSUME NEW y \in Ids
          PROVE  /\ y # <<r.mask, r.key>> => SameRule(e, ent', y)
                 /\ y = <<r.mask, r.key>> => RULE \in ent'[y].bits /\ ent'[y].rule = r
      BY <3>3, <3>4, <3>5, <3>6, InsertAtRule
    <3>8. RULE \notin ent[<<r.mask, r.key>>].bits
      <4>1. ent[<<r.mask, r.key>>].bits = {}
        BY <3>2, NoEntryOutside
      <4> QED BY <4>1
    <3>9. \A y \in Ids : y # <<r.mask, r.key>> => SameRule(ent, ent', y)
      BY <3>6, <3>7 DEF SameRule
    <3>10. RULE \in ent'[<<r.mask, r.key>>].bits /\ ent'[<<r.mask, r.key>>].rule = r
      BY <3>7, RuleIdType
    <3> QED BY <2>2, <3>8, <3>9, <3>10
  <2>5. ASSUME NEW r \in Rules, InsertRule(r)
        PROVE  r \notin Installed /\ Installed' = Installed \cup {r}
    <3>1. PICK i \in 1..Len(chain) : chain[i] = r.mask /\ ent' = InsertAt(chain, ent, i, r)
      BY <2>5 DEF InsertRule
    <3>2. ASSUME NEW y \in Ids
          PROVE  /\ y # <<r.mask, r.key>> => SameRule(ent, ent', y)
                 /\ y = <<r.mask, r.key>> => RULE \in ent'[y].bits /\ ent'[y].rule = r
      BY <2>1, <3>1, InsertAtRule
    <3>3. RULE \notin ent[<<r.mask, r.key>>].bits
      BY <2>1, <2>5, PureIfInTable DEF InsertRule
    <3>4. RULE \in ent'[<<r.mask, r.key>>].bits /\ ent'[<<r.mask, r.key>>].rule = r
      BY <3>2, RuleIdType
    <3> QED BY <2>2, <3>2, <3>3, <3>4
  <2>6. ASSUME NEW r \in Rules, EraseRule(r)
        PROVE  r \in Installed /\ Installed' = Installed \ {r}
    <3> DEFINE x == <<r.mask, r.key>>
    <3>1. PICK i \in 1..Len(chain) : ent' = EraseAt(chain, ent, i, r)
      BY <2>6 DEF EraseRule
    <3>2. ASSUME NEW y \in Ids
          PROVE  /\ y # x => SameRule(ent, ent', y)
                 /\ y = x => RULE \notin ent'[y].bits
      BY <2>1, <3>1, EraseAtRule
    <3>3. x \in Ids /\ RULE \in ent[x].bits /\ ent[x].rule = r
      BY <2>6, RuleIdType DEF EraseRule, HoldsRule
    <3>4. r \in Installed
      BY <3>3 DEF Installed
    <3>5. ASSUME NEW s \in Installed' PROVE s \in Installed /\ s # r
      <4>1. PICK y \in Ids : RULE \in ent'[y].bits /\ s = ent'[y].rule
        BY DEF Installed
      <4>2. y # x /\ RULE \in ent[y].bits /\ s = ent[y].rule
        BY <3>2, <4>1 DEF SameRule
      <4>3. <<s.mask, s.key>> = y
        BY <4>2 DEF EntriesNeeded
      <4> QED BY <4>2, <4>3 DEF Installed
    <3>6. ASSUME NEW s \in Installed, s # r PROVE s \in Installed'
      <4>1. PICK y \in Ids : RULE \in ent[y].bits /\ s = ent[y].rule
        BY DEF Installed
      <4>2. y # x
        BY <3>3, <3>6, <4>1
      <4>3. RULE \in ent'[y].bits /\ s = ent'[y].rule
        BY <3>2, <4>1, <4>2 DEF SameRule
      <4> QED BY <4>3 DEF Installed
    <3> QED BY <3>4, <3>5, <3>6
  <2>7. ASSUME (\E p \in Packets : StartSearch(p)) \/ Search PROVE Installed' = Installed
    <3>1. UNCHANGED ent
      BY <2>7 DEF Search, StartSearch, Probe, EndSearch, Return, chainVars
    <3> QED BY <3>1 DEF Installed
  <2> QED BY <2>4, <2>5, <2>6, <2>7
<1>2. Spec => [][Exact]_vars
  BY <1>1, TypeCorrect, ChainOrdered, EntriesAreNeeded, PTL DEF Spec
<1> QED BY <1>2, PTL DEF UpdatesExact


-----------------------------------------------------------------------------
(***************************************************************************)
(* The number of tuples that a search tests.                               *)
(***************************************************************************)

LEMMA PowerSteps ==
  /\ Power[0] = 1
  /\ \A k \in 0..MaxTuples : Power[k] \in Nat
  /\ \A k \in 0..MaxTuples : k # 0 => Power[k] = 2 * Power[k - 1]
<1> DEFINE Rec(f) == f = [k \in 0..MaxTuples |-> IF k = 0 THEN 1 ELSE 2 * f[k - 1]]
           step == [k \in 1..MaxTuples |-> [v \in Nat |-> 2 * v]]
<1>1. MaxTuples \in Nat
  BY BoundsAssumption
<1>2. PICK f : f \in Stepwise(MaxTuples, Nat, 1, step)
  <2>1. 1 \in Nat /\ \A k \in 1..MaxTuples : \A v \in Nat : step[k][v] \in Nat
    OBVIOUS
  <2> HIDE DEF step
  <2> QED BY <1>1, <2>1, RecursionUpTo
<1>3. f \in [0..MaxTuples -> Nat] /\ f[0] = 1 /\ \A k \in 1..MaxTuples : f[k] = 2 * f[k - 1]
  <2>1. f \in [0..MaxTuples -> Nat] /\ f[0] = 1 /\ \A k \in 1..MaxTuples : f[k] = step[k][f[k - 1]]
    BY <1>2 DEF Stepwise
  <2>2. ASSUME NEW k \in 1..MaxTuples PROVE f[k - 1] \in Nat
    <3>1. k - 1 \in 0..MaxTuples
      BY <1>1
    <3> QED BY <2>1, <3>1
  <2> QED BY <2>1, <2>2
<1>4. \A k \in 0..MaxTuples : f[k] = IF k = 0 THEN 1 ELSE 2 * f[k - 1]
  <2>1. \A k \in 0..MaxTuples : k = 0 \/ k \in 1..MaxTuples
    BY <1>1
  <2> QED BY <1>3, <2>1
<1>5. Rec(f)
  BY <1>3, <1>4
<1>6. Rec(Power)
  <2>1. Power = CHOOSE g : Rec(g)
    BY DEF Power
  <2> HIDE DEF Rec
  <2> QED BY <1>5, <2>1
<1>7. \A k \in 0..MaxTuples : Power[k] = IF k = 0 THEN 1 ELSE 2 * Power[k - 1]
  BY <1>6
<1>8. \A k \in 0..MaxTuples : Power[k] \in Nat
  <2> DEFINE T == {k \in 0..MaxTuples : Power[k] \in Nat}
  <2>1. 0 \in T
    BY <1>1, <1>7
  <2>2. ASSUME NEW k \in 0..(MaxTuples - 1), k \in T PROVE k + 1 \in T
    <3>1. k + 1 \in 0..MaxTuples /\ k + 1 # 0 /\ (k + 1) - 1 = k /\ Power[k] \in Nat
      BY <1>1, <2>2
    <3> QED BY <1>7, <3>1
  <2> HIDE DEF T
  <2>3. \A k \in 0..MaxTuples : k \in T
    BY <1>1, <2>1, <2>2, UpTo
  <2> QED BY <2>3 DEF T
<1> QED BY <1>1, <1>7, <1>8


\* In every probe but the first, which tests the shortest tuple, the search
\* halves the levels that are left.
Halves ==
  /\ pc \notin {"search", "done"} => probes = 0
  /\ probes = 0 => pc # "search" \/ (lo = 1 /\ hi = Len(chain) + 1)
  /\ probes >= 1 => lo >= hi \/ lo >= 2
  /\ \A k \in 0..MaxTuples : probes = k + 1 => (hi - lo) * Power[k] <= Len(chain) - 1

\* One turn of the loop leaves at most half of the levels.
LEMMA ProbeHalves ==
  ASSUME TypeOK, Probe
  PROVE  /\ lo' \in Nat /\ hi' \in Nat
         /\ lo = 1 => (lo' = 2 \/ lo' >= hi') /\ hi' - lo' <= hi - 2
         /\ lo >= 2 => lo' >= 2 /\ 2 * (hi' - lo') <= hi - lo
<1> DEFINE mid == Root(lo, hi)
<1>1. lo \in Nat /\ hi \in Nat /\ 1 <= lo /\ lo < hi
  BY DEF TypeOK, Probe
<1>2. mid \in Nat /\ IF lo = 1 THEN mid = 1 ELSE lo <= mid /\ 2 * mid <= lo + hi /\ lo + hi <= 2 * mid + 1
  <2>1. CASE lo = 1
    BY <2>1 DEF Root
  <2>2. CASE lo # 1
    <3>1. mid = (lo + hi) \div 2
      BY <2>2 DEF Root
    <3> HIDE DEF mid
    <3> QED BY <1>1, <2>2, <3>1
  <2> QED BY <2>1, <2>2
<1>3. \/ lo' = mid + 1 /\ (hi' = hi \/ hi' = mid + 1)
      \/ lo' = lo /\ hi' = mid
  BY DEF Probe
<1> HIDE DEF mid
<1>4. lo' \in Nat /\ hi' \in Nat
  BY <1>1, <1>2, <1>3
<1>5. lo = 1 => (lo' = 2 \/ lo' >= hi') /\ hi' - lo' <= hi - 2
  BY <1>1, <1>2, <1>3
<1>6. lo >= 2 => lo' >= 2 /\ 2 * (hi' - lo') <= hi - lo
  BY <1>1, <1>2, <1>3
<1> QED BY <1>4, <1>5, <1>6

LEMMA HalvesStep ==
  ASSUME TypeOK, Halves, SearchLogarithmic, [Next]_vars
  PROVE  Halves' /\ SearchLogarithmic'
<1>1. /\ lo \in Nat /\ hi \in Nat /\ probes \in Nat /\ Len(chain) \in Nat /\ MaxTuples \in Nat
  BY BoundsAssumption DEF TypeOK
<1>2. CASE UNCHANGED <<chain, lo, hi, probes, pc>>
  BY <1>2 DEF Halves, SearchLogarithmic
<1>3. CASE UNCHANGED <<lo, hi, probes>> /\ pc \in {"build", "idle"} /\ pc' \in {"build", "idle"}
  <2>1. probes = 0 /\ probes' = 0
    BY <1>3 DEF Halves
  <2> QED BY <1>1, <1>3, <2>1 DEF Halves, SearchLogarithmic
<1>4. CASE \E p \in Packets : StartSearch(p)
  <2>1. probes' = 0 /\ lo' = 1 /\ hi' = Len(chain) + 1 /\ chain' = chain
    BY <1>4 DEF StartSearch, chainVars
  <2> QED BY <1>1, <2>1 DEF Halves, SearchLogarithmic
<1>5. CASE EndSearch
  BY <1>5 DEF EndSearch, chainVars, searchVars, Halves, SearchLogarithmic
<1>6. CASE Return
  <2>1. probes' = 0 /\ pc' = "idle"
    BY <1>6 DEF Return
  <2> QED BY <1>1, <2>1 DEF Halves, SearchLogarithmic
<1>7. CASE Probe
  <2>1. pc = "search" /\ pc' = pc /\ lo < hi /\ probes' = probes + 1 /\ chain' = chain
    BY <1>7 DEF Probe, chainVars
  <2>2. /\ lo' \in Nat /\ hi' \in Nat
        /\ lo = 1 => (lo' = 2 \/ lo' >= hi') /\ hi' - lo' <= hi - 2
        /\ lo >= 2 => lo' >= 2 /\ 2 * (hi' - lo') <= hi - lo
    BY <1>7, ProbeHalves
  <2>3. 1 <= lo
    BY <2>1 DEF TypeOK
  <2>4. \A k \in 0..MaxTuples : Power[k] \in Nat
    BY PowerSteps
  <2>5. ASSUME NEW k \in 0..MaxTuples, probes' = k + 1
        PROVE  (hi' - lo') * Power[k] <= Len(chain) - 1
    <3>1. CASE probes = 0
      <4>1. k = 0 /\ lo = 1 /\ hi = Len(chain) + 1
        BY <1>1, <2>1, <2>5, <3>1 DEF Halves
      <4>2. hi' - lo' <= Len(chain) - 1 /\ hi' - lo' \in Int
        BY <1>1, <2>2, <4>1
      <4>3. Power[k] = 1
        BY <4>1, PowerSteps
      <4> QED BY <1>1, <4>2, <4>3
    <3>2. CASE probes # 0
      <4>1. k # 0 /\ k - 1 \in 0..MaxTuples /\ probes = (k - 1) + 1
        BY <1>1, <2>1, <2>5, <3>2
      <4>2. lo >= 2
        BY <1>1, <2>1, <3>2 DEF Halves
      <4>3. (hi - lo) * Power[k - 1] <= Len(chain) - 1
        BY <4>1 DEF Halves
      <4>4. Power[k] = 2 * Power[k - 1] /\ Power[k - 1] \in Nat
        BY <2>5, <4>1, PowerSteps
      <4>5. ASSUME NEW a \in Int, NEW b \in Int, 2 * a <= b, NEW w \in Nat
            PROVE  a * (2 * w) <= b * w
        <5> DEFINE d == b - 2 * a
        <5>1. d \in Nat /\ b = 2 * a + d
          BY <4>5
        <5> HIDE DEF d
        <5>2. b * w = a * (2 * w) + d * w /\ d * w \in Nat /\ a * (2 * w) \in Int
          BY <5>1
        <5> QED BY <5>2
      <4> DEFINE a == hi' - lo'
                 b == hi - lo
                 w == Power[k - 1]
      <4>6. a \in Int /\ b \in Int /\ 2 * a <= b /\ w \in Nat
        <5>1. a \in Int /\ b \in Int
          BY <1>1, <2>2
        <5>2. 2 * a <= b
          BY <2>2, <4>2
        <5>3. w \in Nat
          BY <4>4
        <5> QED BY <5>1, <5>2, <5>3
      <4>7. b * w <= Len(chain) - 1 /\ Power[k] = 2 * w
        BY <4>3, <4>4
      <4> HIDE DEF a, b, w
      <4>8. a * (2 * w) <= b * w /\ a * (2 * w) \in Int /\ b * w \in Int
        BY <4>5, <4>6
      <4>9. a * Power[k] <= Len(chain) - 1
        BY <1>1, <4>7, <4>8
      <4> QED BY <4>9 DEF a
    <3> QED BY <3>1, <3>2
  <2>6. probes' >= 1 => lo' >= hi' \/ lo' >= 2
    <3>1. lo = 1 \/ lo >= 2
      BY <1>1, <2>3
    <3> QED BY <2>2, <3>1
  <2>7. Halves'
    BY <1>1, <2>1, <2>5, <2>6 DEF Halves
  <2>8. ASSUME NEW k \in 0..MaxTuples, probes' >= k + 2
        PROVE  Power[k] <= Len(chain) - 1
    <3>1. CASE probes >= k + 2
      BY <3>1 DEF SearchLogarithmic
    <3>2. CASE probes = k + 1
      <4>1. (hi - lo) * Power[k] <= Len(chain) - 1
        BY <3>2 DEF Halves
      <4>2. ASSUME NEW a \in Nat, a >= 1, NEW w \in Nat PROVE a * w >= w /\ a * w \in Nat
        <5> DEFINE d == a - 1
        <5>1. d \in Nat /\ a = d + 1
          BY <4>2
        <5> HIDE DEF d
        <5>2. a * w = d * w + w /\ d * w \in Nat
          BY <5>1
        <5> QED BY <5>2
      <4> DEFINE a == hi - lo
                 w == Power[k]
      <4>3. a \in Nat /\ a >= 1 /\ w \in Nat
        BY <1>1, <2>1, <2>4
      <4>4. a * w <= Len(chain) - 1
        BY <4>1
      <4> HIDE DEF a, w
      <4>5. w <= Len(chain) - 1
        <5>1. a * w >= w /\ a * w \in Nat
          BY <4>2, <4>3
        <5> QED BY <1>1, <4>3, <4>4, <5>1
      <4> QED BY <4>5 DEF w
    <3> QED BY <1>1, <2>1, <2>8, <3>1, <3>2
  <2> QED BY <2>1, <2>7, <2>8 DEF SearchLogarithmic
<1> QED
  BY <1>2, <1>3, <1>4, <1>5, <1>6, <1>7 DEF Next, Search, BuildTuple, EndBuild, InsertTuple, InsertRule,
     EraseRule, vars, chainVars, searchVars

\* A search tests at most 2 + log2(n - 1) of the n tuples of its chain, whatever
\* the entries it meets and the updates before it: the links that getOptTuple sets
\* are those of a binary search (tuple-chain.cpp:39-64, 78-94).
THEOREM SearchIsLogarithmic == Spec => []SearchLogarithmic
<1>1. Init => Halves /\ SearchLogarithmic
  BY DEF Init, Halves, SearchLogarithmic
<1>2. TypeOK /\ Halves /\ SearchLogarithmic /\ [Next]_vars => Halves' /\ SearchLogarithmic'
  BY HalvesStep
<1> QED BY <1>1, <1>2, TypeCorrect, PTL DEF Spec

=============================================================================
