----------------------------- MODULE Interactions -----------------------------
(***************************************************************************)
(* The ask_me verb and InteractionService::respond (interactions.rs).      *)
(***************************************************************************)
EXTENDS AdvanceLoop

\* Find the step's pending row or create one.  ask_me commits no `running`
\* marker, so nothing refuses this on a run that is already terminal.
BeginForm ==
    /\ Dispatch("ask_me")
    /\ form' = [form EXCEPT ![Cur] = "pending"]
    /\ effect' = [effect EXCEPT ![Cur] = IF form[Cur] # "pending" /\ @ < 2 THEN @ + 1 ELSE @]
    /\ pc' = "parkForm"
    /\ UNCHANGED <<status, cp, lockVars, at, copy, parked, stale, signal>>

ParkForm ==
    /\ pc = "parkForm"
    /\ \/ Refused /\ pc' = "sweepForms"
       \/ Live /\ Patch(Recompute(SetStep(cp, Cur, "waiting", FALSE))) /\ pc' = "repark"
    /\ UNCHANGED <<form, at, copy, parked>> /\ Stay

\* The park lost to a finalize: cancel the row created after its sweep.
CancelPendingForRun ==
    /\ pc = "sweepForms"
    /\ SweepForms
    /\ pc' = "repark"
    /\ UNCHANGED <<status, cp, at, copy, parked>> /\ Stay

FormWalk == BeginForm \/ ParkForm \/ CancelPendingForRun

\* The claim and the answers are one transaction; a terminal run or a missing
\* entry rolls the claim back and changes nothing.
Respond(s) ==
    /\ Kind[s] = "ask_me" /\ form[s] = "pending"
    /\ Live /\ cp.step[s] # "none"
    /\ form' = [form EXCEPT ![s] = "answered"]
    /\ Patch(SucceedEntry(cp, s))
    /\ Lease(s)
    /\ UNCHANGED <<lock, walkVars, signal, effect>>
=============================================================================
