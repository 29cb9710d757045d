----------------------------- MODULE Classifier -----------------------------
(***************************************************************************)
(* What every classifier promises, which is what the linear list of class/ *)
(* packet-classification.cpp does: it holds a set of rules, single rules   *)
(* come and go, and a packet gets the best of the rules that match it.     *)
(***************************************************************************)
EXTENDS RuleSpace

VARIABLES
  held,    \* m_rules
  phase,   \* "new", "idle", "asked" or "answered"
  asked,   \* the packet, {} when there is none
  answer   \* bestRule

vars == <<held, phase, asked, answer>>

Init == held = {} /\ phase = "new" /\ asked = {} /\ answer = NoRule

\* constructWithRules
Construct ==
  /\ phase = "new"
  /\ held' \in SUBSET Rules
  /\ phase' = "idle"
  /\ UNCHANGED <<asked, answer>>

InsertRule(r) ==
  /\ phase = "idle"
  /\ held' = held \cup {r}
  /\ UNCHANGED <<phase, asked, answer>>

DeleteRule(r) ==
  /\ phase = "idle"
  /\ held' = held \ {r}
  /\ UNCHANGED <<phase, asked, answer>>

\* matchPacket is called with a packet, answers, and returns.
Ask(p) ==
  /\ phase = "idle"
  /\ phase' = "asked"
  /\ asked' = p
  /\ UNCHANGED <<held, answer>>

Answer ==
  /\ phase = "asked"
  /\ phase' = "answered"
  /\ answer' = BestMatch(held, asked)
  /\ UNCHANGED <<held, asked>>

Return ==
  /\ phase = "answered"
  /\ phase' = "idle"
  /\ asked' = {}
  /\ answer' = NoRule
  /\ UNCHANGED held

Next ==
  \/ Construct
  \/ \E r \in Rules : InsertRule(r) \/ DeleteRule(r)
  \/ \E p \in Packets : Ask(p)
  \/ Answer
  \/ Return

\* A call of matchPacket comes to its end.
Spec == Init /\ [][Next]_vars /\ WF_vars(Answer \/ Return)

=============================================================================
