----------------------------- MODULE ChainedTSS -----------------------------
(***************************************************************************)
(* class/c-tss.cpp over tss.cpp and tuple-chain.cpp: the tuples cut into   *)
(* chains by a minimum path cover, the list of all rules that answers      *)
(* instead of the chains when there are few, updates of both, and a search *)
(* that asks one chain after the other and keeps the best answer.          *)
(*                                                                         *)
(* The entries of all tuples of all chains are one function, as every      *)
(* tuple is in at most one chain.  A search of one chain is one step here  *)
(* (TupleChain has it in detail).                                          *)
(***************************************************************************)
EXTENDS ChainedTuples

CONSTANTS
  InOrder,   \* TRUE: rules are inserted in the order of the update files
  MaxDead    \* bound of the model: how often one entry is erased for good

ASSUME ParametersAssumption == InOrder \in BOOLEAN /\ MaxDead \in Nat

\* The priority of a rule is its position in the file, and updates go on
\* counting (rule.cpp:94-95 and 152-153).
ASSUME DistinctPriorities == \A r, s \in Rules : r.priority = s.priority => r = s

VARIABLES
  tuples,    \* the masks in m_tupleMap
  chains,    \* m_chains, each the sequence of its masks
  ent,       \* the entries of every tuple
  rules,     \* m_rules, as a set
  latched,   \* m_searchChain
  pc,        \* "new", "idle", "search" or "done"
  pkt,       \* the fields searched for, {} when there is no search
  turn,      \* the chain that is searched next
  best,      \* bestRule
  gone,      \* history: the rules that were deleted and not given again
  promoted   \* history: the markers that insert gave a rule, not yet erased

tableVars  == <<tuples, chains, ent, rules, latched>>
searchVars == <<pkt, turn, best>>
history    == <<gone, promoted>>
vars       == <<tableVars, searchVars, history, pc>>

-----------------------------------------------------------------------------
Init ==
  /\ tuples = {} /\ chains = <<>> /\ rules = {} /\ latched = FALSE
  /\ ent = [x \in Ids |-> Absent]
  /\ pc = "new"
  /\ pkt = {} /\ turn = 1 /\ best = NoRule
  /\ gone = {} /\ promoted = {}

\* constructWithRules: insertRuleConstruction of every rule, then
\* finalizeConstruction, which builds chains unless there are few rules.  A
\* file without rules is left out: it leaves the classifier answering from its
\* list whatever the threshold (c-tss.cpp:31), as Threshold = 1 lets a file of
\* one rule do.
Construct ==
  /\ pc = "new"
  /\ \E F \in (SUBSET Rules) \ {{}} :
       LET M    == {r.mask : r \in F}
           many == Cardinality(F) > Threshold
           e    == Filled(ent, F)
       IN  /\ tuples' = M /\ rules' = F /\ latched' = many
           /\ \E cs \in IF many THEN PathCovers(M) ELSE {<<>>} :
                chains' = cs /\ ent' = BuildChains(cs, e)
  /\ pc' = "idle"
  /\ UNCHANGED <<searchVars, history>>

\* The rules that were given and not deleted since.
Installed == {ent[x].rule : x \in {y \in Ids : RULE \in ent[y].bits}}

\* The update files hold the rules that follow the constructed ones.
MayInsert(r) == InOrder => \A s \in Installed \cup gone : s.priority < r.priority

\* insertRule of a rule with a new mask: createNewTuple and insertTuple,
\* in list mode as well.
InsertTuple(r) ==
  /\ pc = "idle"
  /\ MayInsert(r)
  /\ r.mask \notin tuples
  /\ LET t == WithTuple(chains, r.mask)
         e == Link(t.chain, ent, t.level)
     IN  /\ chains' = t.all
         /\ ent' = InsertAt(t.chain, e, t.level, r)
         /\ promoted' = IF e[<<r.mask, r.key>>].inTable
                        THEN promoted \cup {<<r.mask, r.key>>} ELSE promoted
  /\ tuples' = tuples \cup {r.mask}
  /\ rules' = rules \cup {r}
  /\ gone' = gone \ {r}
  /\ UNCHANGED <<latched, pc, searchVars>>

\* Mutant of InsertRule: the rule is not put into m_rules.
InsertRuleUnlisted(r) ==
  /\ pc = "idle"
  /\ MayInsert(r)
  /\ r.mask \in tuples
  /\ ~HoldsRule(ent, r)
  /\ ent' = InsertAt(ChainOf(chains, r.mask), ent, Level(ChainOf(chains, r.mask), r.mask), r)
  /\ promoted' = IF Pure(ent[<<r.mask, r.key>>])
                 THEN promoted \cup {<<r.mask, r.key>>} ELSE promoted
  /\ gone' = gone \ {r}
  /\ UNCHANGED <<tuples, chains, rules, latched, pc, searchVars>>

\* insertRule of a rule whose tuple exists.
InsertRule(r) ==
  /\ pc = "idle"
  /\ MayInsert(r)
  /\ r.mask \in tuples
  /\ ~HoldsRule(ent, r)
  /\ ent' = InsertAt(ChainOf(chains, r.mask), ent, Level(ChainOf(chains, r.mask), r.mask), r)
  /\ promoted' = IF Pure(ent[<<r.mask, r.key>>])
                 THEN promoted \cup {<<r.mask, r.key>>} ELSE promoted
  /\ rules' = rules \cup {r}
  /\ gone' = gone \ {r}
  /\ UNCHANGED <<tuples, chains, latched, pc, searchVars>>

\* deleteRule: out of its tuple, but not out of m_rules.
DeleteRule(r) ==
  /\ pc = "idle"
  /\ r.mask \in tuples
  /\ HoldsRule(ent, r)
  /\ ent[<<r.mask, r.key>>].dead < MaxDead
  /\ ent' = EraseAt(ChainOf(chains, r.mask), ent, Level(ChainOf(chains, r.mask), r.mask), r)
  /\ promoted' = promoted \ {<<r.mask, r.key>>}
  /\ gone' = gone \cup {r}
  /\ UNCHANGED <<tuples, chains, rules, latched, pc, searchVars>>

\* Mutant of StartSearch: the chains are counted from the one before the first.
StartSearchBefore(p) ==
  /\ pc = "idle"
  /\ pc' = "search"
  /\ pkt' = p
  /\ turn' = 0
  /\ best' = NoRule
  /\ UNCHANGED <<tableVars, history>>

StartSearch(p) ==
  /\ pc = "idle"
  /\ pc' = "search"
  /\ pkt' = p
  /\ turn' = 1
  /\ best' = NoRule
  /\ UNCHANGED <<tableVars, history>>

\* MATCH_RULES
SearchList ==
  /\ pc = "search"
  /\ ~latched
  /\ best' = BestMatch(rules, pkt)
  /\ pc' = "done"
  /\ UNCHANGED <<tableVars, history, pkt, turn>>

\* Mutant of SearchChain: an answer replaces the one of an earlier chain.
SearchChainLast ==
  /\ pc = "search"
  /\ latched
  /\ turn <= Len(chains)
  /\ LET r == ChainAnswer(ent, chains[turn], pkt)
     IN  best' = IF r = NoRule THEN best ELSE r
  /\ turn' = turn + 1
  /\ UNCHANGED <<tableVars, history, pkt, pc>>

SearchChain ==
  /\ pc = "search"
  /\ latched
  /\ turn <= Len(chains)
  /\ best' = Better(best, ChainAnswer(ent, chains[turn], pkt))
  /\ turn' = turn + 1
  /\ UNCHANGED <<tableVars, history, pkt, pc>>

EndSearch ==
  /\ pc = "search"
  /\ latched
  /\ turn > Len(chains)
  /\ pc' = "done"
  /\ UNCHANGED <<tableVars, history, searchVars>>

Return ==
  /\ pc = "done"
  /\ pc' = "idle"
  /\ pkt' = {} /\ turn' = 1 /\ best' = NoRule
  /\ UNCHANGED <<tableVars, history>>

Search == SearchList \/ SearchChain \/ EndSearch \/ Return

Next ==
  \/ Construct
  \/ \E r \in Rules : InsertTuple(r) \/ InsertRule(r) \/ DeleteRule(r)
  \/ \E p \in Packets : StartSearch(p)
  \/ Search

Spec == Init /\ [][Next]_vars /\ WF_vars(Search)

-----------------------------------------------------------------------------
(***************************************************************************)
(* Properties.                                                             *)
(***************************************************************************)

PacketDead == \E x \in Ids : Key(x[1], pkt) = x[2] /\ HitsDead(ent, x)

PacketPromoted == \E y \in promoted : Key(y[1], pkt) = y[2]

\* Every variable has its type.
TypeOK ==
  /\ tuples \subseteq Masks
  /\ chains \in Seq(Seq(Masks))
  /\ ent \in [Ids -> Entries]
  /\ rules \subseteq Rules /\ gone \subseteq Rules
  /\ latched \in BOOLEAN
  /\ pc \in {"new", "idle", "search", "done"}
  /\ pkt \in Packets
  /\ turn \in 1..(Len(chains) + 1)
  /\ best \in Rules \cup {NoRule}
  /\ promoted \subseteq Ids

\* Once chains are searched, every tuple is in exactly one of them: a tuple in
\* none is never searched, one in two has links of both (c-tss.cpp:140-151).
TuplesChained ==
  latched =>
    \A m \in tuples :
      Cardinality({at \in (1..Len(chains)) \X (1..Cardinality(Masks)) :
                     at[2] <= Len(chains[at[1]]) /\ chains[at[1]][at[2]] = m}) = 1

\* Markers and owners never lead from one chain into another.
OwnersInChain ==
  \A x \in Ids : \A y \in ent[x].owners :
    \E i \in 1..Len(chains) : On(chains[i], x[1]) /\ On(chains[i], y[1])

\* The answer is that of a linear scan of the installed rules, unless a
\* promoted or a dead entry is in its way; in list mode the deleted rules
\* answer as well.
AnswerExplained ==
  (pc = "done" /\ (latched => ~PacketDead /\ ~PacketPromoted)) =>
    best = BestMatch(IF latched THEN Installed ELSE Installed \cup gone, pkt)

\* The answer is that of a linear scan of the installed rules in list mode
\* too, as benchmark.cpp:140-147 checks.  It fails after a deleteRule, which
\* leaves m_rules as it is (tss.cpp:97-104).
ListAnswerIsBest ==
  (pc = "done" /\ ~latched) => best = BestMatch(Installed, pkt)

(***************************************************************************)
(* With updates in the order of the update files and tuples that are       *)
(* hashed from the first entry, the classifier does what the linear list   *)
(* does.                                                                   *)
(***************************************************************************)
Abstract == INSTANCE Classifier WITH
  held   <- Installed,
  phase  <- CASE pc = "search" -> "asked" [] pc = "done" -> "answered" [] OTHER -> pc,
  asked  <- pkt,
  answer <- IF pc = "done" THEN best ELSE NoRule

\* Every answer is the best match of the rules installed at that time, and
\* every call returns.
Implements == Abstract!Spec

=============================================================================
