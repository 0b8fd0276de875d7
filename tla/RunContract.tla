----------------------------- MODULE RunContract -----------------------------
(***************************************************************************)
(* What the automations engine promises of one run, without saying how:    *)
(*   - a step is begun, may wait, and is settled, and never goes back;     *)
(*   - the effect of a step that cannot be repeated happens at most once,  *)
(*     and only after the step is on record as begun;                      *)
(*   - the run gets one verdict, and nothing is recorded after it.         *)
(***************************************************************************)
CONSTANTS Step, Once   \* Once: the steps whose effect cannot be repeated

VARIABLES verdict, phase, acted

Verdicts == {"succeeded", "failed", "cancelled"}
Phases == {"idle", "begun", "waiting", "settled"}
Later(p) == CASE p = "idle" -> {"begun", "waiting", "settled"}
              [] p = "begun" -> {"waiting", "settled"}
              [] p = "waiting" -> {"settled"}
              [] OTHER -> {}

Init ==
    /\ verdict = "open"
    /\ phase = [s \in Step |-> "idle"]
    /\ acted = {}

\* Record that a step moved on.
Progress(s) ==
    /\ verdict = "open"
    /\ \E p \in Later(phase[s]) : phase' = [phase EXCEPT ![s] = p]
    /\ UNCHANGED <<verdict, acted>>

\* The effect itself is outside the record, and may still happen when the
\* verdict comes in between.
Act(s) ==
    /\ s \in Once \ acted /\ phase[s] = "begun"
    /\ acted' = acted \cup {s}
    /\ UNCHANGED <<verdict, phase>>

Conclude(v) ==
    /\ verdict = "open"
    /\ verdict' = v
    /\ UNCHANGED <<phase, acted>>

Next ==
    \/ \E s \in Step : Progress(s) \/ Act(s)
    \/ \E v \in Verdicts : Conclude(v)

Spec == Init /\ [][Next]_<<verdict, phase, acted>>
=============================================================================
