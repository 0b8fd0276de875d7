--------------------------- MODULE CheckpointStore ---------------------------
(***************************************************************************)
(* The durable half of one automation run: its row in automation_runs, the *)
(* checkpoint inside it and the run's ask_me rows.  Every operator below   *)
(* is one SQLite transaction of RunStore or InteractionStore, or a helper  *)
(* of engine/checkpoint.rs that mutates a checkpoint inside one.           *)
(*                                                                         *)
(* A definition is a sequence of units.  A unit is either one leaf step or *)
(* a `parallel` block whose branches are sequences of leaves; par says     *)
(* which, keep is the block's own keepGoing.  Wall-clock deadlines are     *)
(* abstracted: an entry either carries a wake_at (it is in timer) or not,  *)
(* and the run-level wake_at is set or null.                               *)
(***************************************************************************)
EXTENDS Naturals, Sequences

CONSTANTS
    Step,        \* the leaf steps of the frozen definition
    Kind,        \* Step -> the leaf's verb
    KeepGoing,   \* the leaves with keepGoing
    Timed,       \* the ask_agent leaves with a timeoutMinutes
    Expects,     \* the ask_agent leaves with an output contract
    Idempotent,  \* the run_action leaves the restart hook calls safe
    Program      \* the definition: a sequence of units

\* "pure" stands for notify and set_variable, which commit no `running` mark.
Kinds == {"ask_agent", "ask_me", "run_action", "wait", "pure"}

Slots == UNION {{<<u, b>> : b \in DOMAIN Program[u].branches} : u \in DOMAIN Program}
Body(sl) == Program[sl[1]].branches[sl[2]]
Parallel(sl) == Program[sl[1]].par

ASSUME ProgramAssumption ==
    /\ Kind \in [Step -> Kinds]
    /\ KeepGoing \subseteq Step
    /\ Timed \cup Expects \subseteq {s \in Step : Kind[s] = "ask_agent"}
    /\ Idempotent \subseteq {s \in Step : Kind[s] = "run_action"}
    /\ Program \in Seq([par : BOOLEAN, keep : BOOLEAN, branches : Seq(Seq(Step))])
    /\ \A u \in DOMAIN Program : ~Program[u].par => Len(Program[u].branches) = 1
    /\ \A sl \in Slots : Body(sl) # <<>>

\* Step ids are unique in a definition, so every leaf has one place.
ASSUME PlaceAssumption ==
    \A s \in Step : \E sl \in Slots : \E k \in DOMAIN Body(sl) :
        /\ Body(sl)[k] = s
        /\ \A tl \in Slots : \A j \in DOMAIN Body(tl) : Body(tl)[j] = s => tl = sl /\ j = k

SlotOf(s) == CHOOSE sl \in Slots : \E k \in DOMAIN Body(sl) : Body(sl)[k] = s

VARIABLES
    status,  \* automation_runs.status
    cp,      \* automation_runs.checkpoint
    form     \* automation_interactions.status of the step's latest row

storeVars == <<status, cp, form>>

StepStatus == {"none", "running", "waiting", "succeeded", "failed"}
LiveStatus == {"running", "waiting"}
TerminalStatus == {"succeeded", "failed", "cancelled"}
Checkpoint == [step : [Step -> StepStatus], timer : SUBSET Step,
               mark : [Slots -> {"none", "succeeded", "failed"}], wake : BOOLEAN]
FormStatus == {"none", "pending", "answered", "cancelled"}

EmptyCheckpoint == [step |-> [s \in Step |-> "none"], timer |-> {},
                    mark |-> [sl \in Slots |-> "none"], wake |-> FALSE]

Live == status \in LiveStatus
Settled(st) == st \in {"succeeded", "failed"}
Waiting(c) == {s \in Step : c.step[s] = "waiting"}

-----------------------------------------------------------------------------
(* engine/checkpoint.rs and engine/markers.rs: checkpoint mutations.       *)

Recompute(c) == [c EXCEPT !.wake = Waiting(c) \cap c.timer # {}]

SetStep(c, s, st, timed) ==
    [c EXCEPT !.step[s] = st, !.timer = IF timed THEN @ \cup {s} ELSE @ \ {s}]

ParkStep(c, s, timed) ==
    IF Settled(c.step[s]) THEN c ELSE Recompute(SetStep(c, s, "waiting", timed))

FailEntry(c, s) == IF c.step[s] = "none" THEN c ELSE SetStep(c, s, "failed", FALSE)

FailEnclosingBranch(c, s) ==
    IF Parallel(SlotOf(s)) THEN [c EXCEPT !.mark[SlotOf(s)] = "failed"] ELSE c

\* What agent_settle and deadline write when a leaf fails outside the walk.
FailOutOfBand(c, s) ==
    Recompute(IF s \in KeepGoing THEN FailEntry(c, s) ELSE FailEnclosingBranch(FailEntry(c, s), s))

\* Mutant: settling one entry clears the deadline of the run.
SucceedEntryClearing(c, s) ==
    IF c.step[s] = "none" THEN c
    ELSE [SetStep(c, s, "succeeded", FALSE) EXCEPT !.wake = FALSE]

\* A waiting entry settled from outside the walk: agent success, wait resume,
\* ask_me answer.  A missing entry stays missing.
SucceedEntry(c, s) ==
    Recompute(IF c.step[s] = "none" THEN c ELSE SetStep(c, s, "succeeded", FALSE))

-----------------------------------------------------------------------------
(* store/run_store.rs and store/interaction_store.rs: transactions.        *)

DeriveRunStatus(c) == IF c.wake \/ Waiting(c) # {} THEN "waiting" ELSE "running"

\* patch_checkpoint past its A8 guard.
Patch(c) == cp' = c /\ status' = DeriveRunStatus(c)

\* assert_not_terminal refused the transaction: nothing is written.
Refused == ~Live /\ UNCHANGED <<status, cp>>

SweepForms == form' = [s \in Step |-> IF form[s] = "pending" THEN "cancelled" ELSE form[s]]

Finalize(v) ==
    \/ /\ Live
       /\ status' = v
       /\ cp' = [cp EXCEPT !.wake = FALSE]
       /\ SweepForms
    \/ Refused /\ UNCHANGED form

StoreInit ==
    /\ status = "running"
    /\ cp = EmptyCheckpoint
    /\ form = [s \in Step |-> "none"]

StoreTypeOK ==
    /\ status \in LiveStatus \cup TerminalStatus
    /\ cp \in Checkpoint
    /\ form \in [Step -> FormStatus]
=============================================================================
