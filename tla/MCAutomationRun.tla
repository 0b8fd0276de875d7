--------------------------- MODULE MCAutomationRun ---------------------------
(***************************************************************************)
(* Small definitions for TLC.  Step names say the verb: a agent, x action, *)
(* q ask_me, w wait.                                                       *)
(***************************************************************************)
EXTENDS AutomationRun

Leaf(s) == [par |-> FALSE, keep |-> FALSE, branches |-> <<<<s>>>>]
Par(bs) == [par |-> TRUE, keep |-> FALSE, branches |-> bs]

KindOf == [a1 |-> "ask_agent", a2 |-> "ask_agent", a3 |-> "ask_agent", x1 |-> "run_action", q1 |-> "ask_me", w1 |-> "wait"]
KindsOf(S) == [s \in S |-> KindOf[s]]

\* Two agents side by side, followed by one more.
ThenStep == {"a1", "a2", "a3"}
ThenKind == KindsOf(ThenStep)
Then == <<Par(<< <<"a1">>, <<"a2">> >>), Leaf("a3")>>

\* One agent with a deadline that the run keeps going over, then an action.
SoloStep == {"a1", "x1"}
SoloKind == KindsOf(SoloStep)
Solo == <<Leaf("a1"), Leaf("x1")>>

\* A question, then an agent.
AskStep == {"q1", "a1"}
AskKind == KindsOf(AskStep)
Ask == <<Leaf("q1"), Leaf("a1")>>

\* A deadline and a wait side by side, then a question here, an action there.
MixStep == {"a1", "q1", "x1", "w1"}
MixKind == KindsOf(MixStep)
Mix == <<Par(<< <<"a1", "q1">>, <<"w1", "x1">> >>)>>

A1 == {"a1"}
X1 == {"x1"}
None == {}
=============================================================================
