------------------------------- MODULE DueSweep -------------------------------
(***************************************************************************)
(* The 30 s due-sweep (engine/deadline.rs): it works through a snapshot of *)
(* the due entries, failing an overdue ask_agent and resuming a due wait.  *)
(***************************************************************************)
EXTENDS AdvanceLoop

VARIABLES
    sweep,   \* where sweep_due stands
    due      \* entries of its snapshot it has not come to yet

sweepVars == <<sweep, due>>

SweepState == {"idle", "work", "advancing", "failRun"}

\* The snapshot: entries whose own wake_at has passed, of a run whose
\* run-level wake_at says it is worth looking at.
SweepDue ==
    /\ sweep = "idle" /\ Live /\ cp.wake
    /\ due' \in (SUBSET (Waiting(cp) \cap cp.timer)) \ {{}}
    /\ sweep' = "work"
    /\ UNCHANGED <<storeVars, advVars>>

ResumeWait(s) ==
    /\ sweep = "work" /\ s \in due /\ Kind[s] = "wait"
    /\ due' = due \ {s}
    /\ \/ Refused /\ UNCHANGED want
       \/ Live /\ Patch(SucceedEntry(cp, s)) /\ Lease(s)
    /\ UNCHANGED <<form, lock, walkVars, signal, effect, sweep>>

\* Mutant: the overdue entry fails and nobody advances or finalizes the run.
FailStepQuietly(s) ==
    /\ sweep = "work" /\ s \in due /\ Kind[s] = "ask_agent"
    /\ due' = due \ {s}
    /\ \/ Refused
       \/ Live /\ Patch(FailOutOfBand(cp, s))
    /\ UNCHANGED <<form, advVars, sweep>>

\* fail_step does not look whether the entry still waits.
FailStep(s) ==
    /\ sweep = "work" /\ s \in due /\ Kind[s] = "ask_agent"
    /\ due' = due \ {s}
    /\ \/ Refused /\ UNCHANGED <<want, sweep>>
       \/ LET c == FailOutOfBand(cp, s) IN
          /\ Live /\ Patch(c)
          /\ IF s \in KeepGoing \/ Waiting(c) # {}
             THEN Lease("sweep") /\ sweep' = "advancing"
             ELSE sweep' = "failRun" /\ UNCHANGED want
    /\ UNCHANGED <<form, lock, walkVars, signal, effect>>

SweepFailRun ==
    /\ sweep = "failRun" /\ sweep' = "work"
    /\ Finalize("failed")
    /\ UNCHANGED <<advVars, due>>

\* fail_step awaits the advance it asked for; the rest of the sweep waits too.
SweepAdvanced ==
    /\ sweep = "advancing" /\ "sweep" \notin want /\ lock # "sweep"
    /\ sweep' = "work"
    /\ UNCHANGED <<storeVars, advVars, due>>

SweepRests ==
    /\ sweep = "work" /\ due = {}
    /\ sweep' = "idle"
    /\ UNCHANGED <<storeVars, advVars, due>>

Sweep ==
    \/ SweepDue \/ SweepFailRun \/ SweepAdvanced \/ SweepRests
    \/ \E s \in Step : ResumeWait(s) \/ FailStep(s)

SweepInit == sweep = "idle" /\ due = {}
SweepTypeOK == sweep \in SweepState /\ due \subseteq Step
=============================================================================
