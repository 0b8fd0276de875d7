----------------------------- MODULE AdvanceLoop -----------------------------
(***************************************************************************)
(* Interpreter::advance and the step walk, for one run: the per-run lock,  *)
(* the stale-running policy, the walk of the frozen definition over its    *)
(* own copy of the checkpoint, and the cancel signal that drops the walk.  *)
(*                                                                         *)
(* An action is the code between two await points.  The walk reads `copy`, *)
(* the checkpoint its last own commit returned, while settle, sweep,       *)
(* respond and cancel write `cp` next to it.                               *)
(***************************************************************************)
EXTENDS CheckpointStore

CONSTANT NoOne    \* the lock is free

VARIABLES
    lock,    \* the advance() call that holds the run's mutex
    want,    \* the advance() calls queued on it
    pc,      \* where the holder stands
    at,      \* the walk's position: unit, branch, step of the branch
    copy,    \* the walk's checkpoint
    parked,  \* a branch of the current block has parked in this pass
    stale,   \* `running` entries resolve_stale_running still has to settle
    signal,  \* cancel_requested fires for the registered walk
    effect   \* history: how often each step's external effect was started

lockVars == <<lock, want>>
walkVars == <<pc, at, copy, parked, stale>>
advVars == <<lock, want, pc, at, copy, parked, stale, signal, effect>>

\* The advance() calls: the fresh run, boot reconcile, the due sweep, and one
\* per leaf for what settled it (agent settle, wait resume, ask_me respond).
Callers == {"start", "boot", "sweep"} \cup Step

StartOfWalk == [u |-> 1, b |-> 1, k |-> 1]
Branches == Program[at.u].branches
Here == <<at.u, at.b>>
Cur == Branches[at.b][at.k]

\* Positions of the walk inside its program.
InProgram == at.u <= Len(Program)
InBlock == InProgram /\ at.b <= Len(Branches)
AtLeaf == InBlock /\ at.k <= Len(Branches[at.b])

\* The walk future is alive: a cancel signal drops it at its next await.
WalkPcs == {"walk", "act", "committed", "failed", "markFailed", "start", "parkChat",
            "register", "park", "repark", "parkForm", "sweepForms"}
LeafPcs == WalkPcs \ {"walk"}   \* a leaf is being executed
Pcs == WalkPcs \cup {"idle", "enter", "stale", "reload", "fatal", "done"}

-----------------------------------------------------------------------------
(* RunLocks: the run's mutex.  advance() queues, the mutex admits one.     *)

Lease(c) == want' = want \cup {c}

Acquire(c) ==
    /\ lock = NoOne /\ c \in want
    /\ lock' = c /\ want' = want \ {c}
    /\ pc' = "enter"
    /\ UNCHANGED <<storeVars, at, copy, parked, stale, signal, effect>>

\* The guard drops and advance() returns; clear_cancel unregisters the walk.
Release ==
    /\ lock' = NoOne /\ pc' = "idle" /\ signal' = FALSE
    /\ at' = StartOfWalk /\ copy' = EmptyCheckpoint /\ parked' = FALSE /\ stale' = {}
    /\ UNCHANGED want

-----------------------------------------------------------------------------
(* advance_inner up to the walk.                                           *)

\* Mutant: no stale-running policy, the walk dispatches such an entry again.
ReadRunTrusting ==
    /\ pc = "enter"
    /\ \/ ~Live /\ Release
       \/ /\ Live
          /\ pc' = "stale" /\ stale' = {}
          /\ UNCHANGED <<lockVars, at, copy, parked, signal>>
    /\ UNCHANGED <<storeVars, effect>>

ReadRun ==
    /\ pc = "enter"
    /\ \/ ~Live /\ Release
       \/ /\ Live
          /\ pc' = "stale"
          /\ stale' = {s \in Step : cp.step[s] = "running"} \ Idempotent
          /\ UNCHANGED <<lockVars, at, copy, parked, signal>>
    /\ UNCHANGED <<storeVars, effect>>

\* One `running` entry left by a dead engine: its effect is unknown, it fails.
FailStale(s) ==
    /\ pc = "stale" /\ s \in stale
    /\ \/ Refused /\ Release
       \/ /\ Live
          /\ Patch(FailEntry(cp, s))
          /\ stale' = stale \ {s}
          /\ pc' = IF s \in KeepGoing THEN "stale" ELSE "fatal"
          /\ UNCHANGED <<lockVars, at, copy, parked, signal>>
    /\ UNCHANGED <<form, effect>>

StaleResolved ==
    /\ pc = "stale" /\ stale = {}
    /\ pc' = "reload"
    /\ UNCHANGED <<storeVars, lockVars, at, copy, parked, stale, signal, effect>>

\* The second get_run does not look at the status: a run finalized since the
\* first one is walked until its first commit is refused.
StartWalk ==
    /\ pc = "reload"
    /\ pc' = "walk" /\ copy' = cp /\ at' = StartOfWalk /\ parked' = FALSE
    /\ UNCHANGED <<storeVars, lockVars, stale, signal, effect>>

\* select! takes the cancel branch: the walk future is dropped where it is.
DropWalk ==
    /\ signal /\ pc \in WalkPcs
    /\ Release
    /\ UNCHANGED <<storeVars, effect>>

-----------------------------------------------------------------------------
(* walk_frame, run_branches and run_parallel.                              *)

Stay == UNCHANGED <<lockVars, stale, signal, effect>>

NextLeaf == at' = [at EXCEPT !.k = @ + 1]
NextBranch == at' = [at EXCEPT !.b = @ + 1, !.k = 1]

\* advance_branch: a branch with a marker is settled and is not walked again.
SkipMarkedBranch ==
    /\ pc = "walk" /\ InBlock /\ at.k = 1
    /\ Parallel(Here) /\ copy.mark[Here] # "none"
    /\ NextBranch
    /\ UNCHANGED <<storeVars, pc, copy, parked>> /\ Stay

EnterLeaf ==
    /\ pc = "walk" /\ AtLeaf
    /\ at.k = 1 /\ Parallel(Here) => copy.mark[Here] = "none"

SkipSettledLeaf ==
    /\ EnterLeaf /\ Settled(copy.step[Cur])
    /\ NextLeaf
    /\ UNCHANGED <<storeVars, pc, copy, parked>> /\ Stay

ParkOnWaiting ==
    /\ EnterLeaf /\ copy.step[Cur] = "waiting"
    /\ NextBranch /\ parked' = TRUE
    /\ UNCHANGED <<storeVars, pc, copy>> /\ Stay

\* A leaf that is neither settled nor waiting is dispatched.
Dispatch(kind) == EnterLeaf /\ copy.step[Cur] \in {"none", "running"} /\ Kind[Cur] = kind

\* A walk commit: refused on a terminal run, which ends the advance; otherwise
\* the record it returns becomes the walk's copy and the walk goes on.
Commit(c, goOn) ==
    /\ \/ Refused /\ Release
       \/ /\ Live /\ Patch(c) /\ copy' = c
          /\ goOn
          /\ UNCHANGED <<lockVars, stale, signal>>
    /\ UNCHANGED <<form, effect>>

\* Mutant: the effect comes before anything is on record.
CommitNothing(kind, next) ==
    /\ Dispatch(kind)
    /\ pc' = next
    /\ UNCHANGED <<storeVars, lockVars, at, copy, parked, stale, signal, effect>>

\* run_leaf's pre-effect `running` marker (run_action, ask_agent).
CommitRunning(kind, next) ==
    /\ Dispatch(kind)
    /\ Commit(SetStep(cp, Cur, "running", FALSE), pc' = next /\ UNCHANGED <<at, parked>>)

BeginAction == CommitRunning("run_action", "act")

\* The verb executes: its effect happens and it reports one outcome.  notify
\* and set_variable always complete.
Act ==
    /\ pc = "act" \/ Dispatch("pure")
    /\ effect' = [effect EXCEPT ![Cur] = IF @ < 2 THEN @ + 1 ELSE @]
    /\ pc' \in IF pc = "act" THEN {"committed", "failed"} ELSE {"committed"}
    /\ UNCHANGED <<storeVars, lockVars, at, copy, parked, stale, signal>>

CommitSucceeded ==
    /\ pc = "committed"
    /\ Commit(SetStep(cp, Cur, "succeeded", FALSE),
              pc' = "walk" /\ NextLeaf /\ UNCHANGED parked)

\* A failed leaf ends its branch, or the walk, unless it has keepGoing.
AfterFailure ==
    \/ Cur \in KeepGoing /\ pc' = "walk" /\ NextLeaf
    \/ /\ Cur \notin KeepGoing
       /\ pc' = IF Parallel(Here) THEN "markFailed" ELSE "fatal"
       /\ UNCHANGED at

CommitFailed ==
    /\ pc = "failed"
    /\ Commit(SetStep(cp, Cur, "failed", FALSE), AfterFailure /\ UNCHANGED parked)

MarkBranch(outcome) ==
    Commit([cp EXCEPT !.mark[Here] = outcome], pc' = "walk" /\ NextBranch /\ UNCHANGED parked)

MarkBranchFailed == pc = "markFailed" /\ MarkBranch("failed")

BranchEnd == pc = "walk" /\ InBlock /\ ~AtLeaf

\* The frame of a branch that was entered ran to its end.
MarkBranchDone ==
    /\ BranchEnd /\ Parallel(Here)
    /\ MarkBranch("succeeded")

LeafUnitEnd ==
    /\ BranchEnd /\ ~Parallel(Here)
    /\ NextBranch
    /\ UNCHANGED <<storeVars, pc, copy, parked>> /\ Stay

BeginWait ==
    /\ Dispatch("wait")
    /\ pc' = "park"
    /\ UNCHANGED <<storeVars, at, copy, parked>> /\ Stay

\* The walk's own wait commit, with the wake_at its verb handed it.
Park ==
    /\ pc \in {"park", "repark"}
    /\ Commit(ParkStep(cp, Cur, pc = "park" /\ (Kind[Cur] = "wait" \/ Cur \in Timed)),
              pc' = "walk" /\ NextBranch /\ parked' = TRUE)

\* run_branches' verdict once every branch of the block has had its pass.
FailedBranch == \E b \in DOMAIN Branches : copy.mark[<<at.u, b>>] = "failed"

UnitEnd ==
    /\ pc = "walk" /\ InProgram /\ ~InBlock
    /\ \/ parked /\ Release
       \/ /\ ~parked
          /\ \/ FailedBranch /\ ~Program[at.u].keep /\ pc' = "fatal" /\ UNCHANGED at
             \/ /\ FailedBranch => Program[at.u].keep
                /\ UNCHANGED pc
                /\ at' = [u |-> at.u + 1, b |-> 1, k |-> 1]
          /\ UNCHANGED <<lockVars, copy, parked, stale, signal>>
    /\ UNCHANGED <<storeVars, effect>>

WalkEnd ==
    /\ pc = "walk" /\ ~InProgram
    /\ pc' = "done"
    /\ UNCHANGED <<storeVars, at, copy, parked>> /\ Stay

\* finalize_and_emit with the walk's verdict; it loses to an earlier verdict.
FinalizeWalk ==
    /\ pc \in {"fatal", "done"}
    /\ Finalize(IF pc = "done" THEN "succeeded" ELSE "failed")
    /\ Release
    /\ UNCHANGED effect

-----------------------------------------------------------------------------
AdvanceInit ==
    /\ lock = NoOne /\ want = {"start"} /\ pc = "idle" /\ signal = FALSE
    /\ at = StartOfWalk /\ copy = EmptyCheckpoint /\ parked = FALSE /\ stale = {}
    /\ effect = [s \in Step |-> 0]

Walk ==
    \/ SkipMarkedBranch \/ SkipSettledLeaf \/ ParkOnWaiting
    \/ BeginAction \/ Act \/ CommitSucceeded \/ CommitFailed
    \/ BeginWait \/ Park
    \/ MarkBranchFailed \/ MarkBranchDone \/ LeafUnitEnd \/ UnitEnd \/ WalkEnd

Advance ==
    \/ \E c \in Callers : Acquire(c)
    \/ ReadRun \/ (\E s \in Step : FailStale(s)) \/ StaleResolved \/ StartWalk
    \/ Walk \/ FinalizeWalk

AdvanceTypeOK ==
    /\ lock \in Callers \cup {NoOne}
    /\ want \subseteq Callers
    /\ pc \in Pcs
    /\ at \in [u : 1 .. Len(Program) + 1, b : Nat \ {0}, k : Nat \ {0}]
    /\ pc \in LeafPcs => AtLeaf
    /\ copy \in Checkpoint
    /\ parked \in BOOLEAN
    /\ stale \subseteq Step
    /\ signal \in BOOLEAN
    /\ effect \in [Step -> 0 .. 2]
=============================================================================
