-------------------------- MODULE AutomationRunProofs --------------------------
(***************************************************************************)
(* Theorems about AutomationRun for every program, every set of steps and  *)
(* any number of crashes and cancels.                                      *)
(***************************************************************************)
EXTENDS AutomationRun, TLAPS

-----------------------------------------------------------------------------
(* Places of the program and the helpers of the checkpoint.                *)

\* A unit of the program is a record of sequences of steps.
LEMMA UnitType ==
    ASSUME NEW u \in DOMAIN Program
    PROVE  /\ Program[u].par \in BOOLEAN /\ Program[u].keep \in BOOLEAN
           /\ Program[u].branches \in Seq(Seq(Step))
<1> DEFINE Unit == [par : BOOLEAN, keep : BOOLEAN, branches : Seq(Seq(Step))]
<1>1. Program \in Seq(Unit)
  BY ProgramAssumption
<1>2. Program[u] \in Unit
  <2> HIDE DEF Unit
  <2> QED BY <1>1
<1> QED BY <1>2

\* Every branch of a unit is a slot, and its body is a sequence of steps.
LEMMA SlotBody ==
    ASSUME NEW sl \in Slots
    PROVE  /\ sl[1] \in DOMAIN Program /\ sl[2] \in DOMAIN Program[sl[1]].branches
           /\ Body(sl) \in Seq(Step)
<1>1. PICK u \in DOMAIN Program : \E b \in DOMAIN Program[u].branches : sl = <<u, b>>
  BY DEF Slots
<1>2. PICK b \in DOMAIN Program[u].branches : sl = <<u, b>>
  BY <1>1
<1>3. Program[u].branches \in Seq(Seq(Step))
  BY UnitType
<1> QED BY <1>2, <1>3 DEF Body

\* Every step lies in the branch that enclosing_concurrent_branch looks for.
LEMMA SlotOfStep ==
    ASSUME NEW s \in Step
    PROVE  SlotOf(s) \in Slots /\ \E k \in DOMAIN Body(SlotOf(s)) : Body(SlotOf(s))[k] = s
BY PlaceAssumption DEF SlotOf

\* Wherever the walk stands on a leaf, the leaf is a step and its branch a slot.
LEMMA LeafHere ==
    ASSUME at \in [u : 1 .. Len(Program) + 1, b : Nat \ {0}, k : Nat \ {0}]
    PROVE  /\ InBlock => Here \in Slots /\ Branches \in Seq(Seq(Step))
           /\ AtLeaf => Cur \in Step /\ Cur = Body(Here)[at.k]
<1>1. ASSUME InBlock PROVE Here \in Slots /\ Branches \in Seq(Seq(Step))
  <2>1. at.u \in DOMAIN Program
    BY <1>1, ProgramAssumption DEF InBlock, InProgram
  <2>2. Program[at.u].branches \in Seq(Seq(Step))
    BY <2>1, UnitType
  <2>3. at.b \in DOMAIN Program[at.u].branches
    BY <1>1, <2>2 DEF InBlock, Branches
  <2> QED BY <2>1, <2>2, <2>3 DEF Here, Slots, Branches
<1>2. ASSUME AtLeaf PROVE Cur \in Step /\ Cur = Body(Here)[at.k]
  <2>1. Branches \in Seq(Seq(Step))
    BY <1>1, <1>2 DEF AtLeaf
  <2>2. at.b \in DOMAIN Branches
    BY <1>2, <2>1 DEF AtLeaf, InBlock
  <2>3. Branches[at.b] \in Seq(Step)
    BY <2>1, <2>2
  <2>4. at.k \in DOMAIN Branches[at.b]
    BY <1>2, <2>3 DEF AtLeaf
  <2> QED BY <2>3, <2>4 DEF Cur, Body, Here, Branches
<1> QED BY <1>1, <1>2

LEMMA EmptyType == EmptyCheckpoint \in Checkpoint
BY DEF EmptyCheckpoint, Checkpoint, StepStatus

LEMMA RecomputeType ==
    ASSUME NEW c \in Checkpoint
    PROVE  /\ Recompute(c) \in Checkpoint
           /\ Recompute(c).step = c.step /\ Recompute(c).timer = c.timer /\ Recompute(c).mark = c.mark
BY DEF Recompute, Checkpoint

LEMMA SetStepType ==
    ASSUME NEW c \in Checkpoint, NEW s \in Step, NEW st \in StepStatus, NEW timed \in BOOLEAN
    PROVE  /\ SetStep(c, s, st, timed) \in Checkpoint
           /\ SetStep(c, s, st, timed).step = [c.step EXCEPT ![s] = st]
           /\ SetStep(c, s, st, timed).mark = c.mark
BY DEF SetStep, Checkpoint

LEMMA FailEntryStep ==
    ASSUME NEW c \in Checkpoint, NEW s \in Step, c.step[s] # "none"
    PROVE  FailEntry(c, s).step = [c.step EXCEPT ![s] = "failed"]
BY DEF FailEntry, SetStep, Checkpoint

LEMMA WaitRecord ==
    ASSUME NEW c \in Checkpoint, NEW s \in Step, NEW timed \in BOOLEAN
    PROVE  /\ Recompute(SetStep(c, s, "waiting", timed)) \in Checkpoint
           /\ Recompute(SetStep(c, s, "waiting", timed)).step = [c.step EXCEPT ![s] = "waiting"]
<1> DEFINE d == SetStep(c, s, "waiting", timed)
<1>1. PICK st \in StepStatus : st = "waiting"
  BY DEF StepStatus
<1>2. /\ SetStep(c, s, st, timed) \in Checkpoint
      /\ SetStep(c, s, st, timed).step = [c.step EXCEPT ![s] = st]
  BY SetStepType
<1>3. d \in Checkpoint /\ d.step = [c.step EXCEPT ![s] = "waiting"]
  BY <1>1, <1>2
<1> HIDE DEF d
<1>4. Recompute(d) \in Checkpoint /\ Recompute(d).step = d.step
  BY <1>3, RecomputeType
<1> QED BY <1>3, <1>4 DEF d

LEMMA ParkStepType ==
    ASSUME NEW c \in Checkpoint, NEW s \in Step, NEW timed \in BOOLEAN
    PROVE  /\ ParkStep(c, s, timed) \in Checkpoint
           /\ ParkStep(c, s, timed).step[s] \in {"waiting", "succeeded", "failed"}
           /\ \A t \in Step : t # s => ParkStep(c, s, timed).step[t] = c.step[t]
<1>1. CASE Settled(c.step[s])
  BY <1>1 DEF ParkStep, Settled
<1>2. CASE ~Settled(c.step[s])
  <2>1. /\ ParkStep(c, s, timed) \in Checkpoint
        /\ ParkStep(c, s, timed).step = [c.step EXCEPT ![s] = "waiting"]
    BY <1>2, WaitRecord DEF ParkStep
  <2> QED BY <2>1 DEF Checkpoint
<1> QED BY <1>1, <1>2

LEMMA FailEntryType ==
    ASSUME NEW c \in Checkpoint, NEW s \in Step
    PROVE  FailEntry(c, s) \in Checkpoint
BY SetStepType DEF FailEntry, StepStatus

LEMMA FailOutOfBandType ==
    ASSUME NEW c \in Checkpoint, NEW s \in Step
    PROVE  /\ FailOutOfBand(c, s) \in Checkpoint
           /\ FailOutOfBand(c, s).step = FailEntry(c, s).step
<1> DEFINE e == FailEntry(c, s)
<1>1. e \in Checkpoint
  BY FailEntryType
<1>2. FailEnclosingBranch(e, s) \in Checkpoint /\ FailEnclosingBranch(e, s).step = e.step
  BY <1>1, SlotOfStep DEF FailEnclosingBranch, Checkpoint
<1> HIDE DEF e
<1> QED BY <1>1, <1>2, RecomputeType DEF FailOutOfBand, e

LEMMA SucceedEntryType ==
    ASSUME NEW c \in Checkpoint, NEW s \in Step
    PROVE  /\ SucceedEntry(c, s) \in Checkpoint
           /\ SucceedEntry(c, s).step =
                IF c.step[s] = "none" THEN c.step ELSE [c.step EXCEPT ![s] = "succeeded"]
<1>1. SetStep(c, s, "succeeded", FALSE) \in Checkpoint
  BY SetStepType DEF StepStatus
<1>2. SetStep(c, s, "succeeded", FALSE).step = [c.step EXCEPT ![s] = "succeeded"]
  BY SetStepType DEF StepStatus
<1> QED BY <1>1, <1>2, RecomputeType DEF SucceedEntry

\* A patched run stays live.
LEMMA DeriveLive == ASSUME NEW c PROVE DeriveRunStatus(c) \in LiveStatus
BY DEF DeriveRunStatus, LiveStatus

-----------------------------------------------------------------------------
(* Type correctness.                                                       *)

LEMMA PatchType ==
    ASSUME NEW c \in Checkpoint, Patch(c)
    PROVE  cp' \in Checkpoint /\ status' \in LiveStatus
BY DeriveLive DEF Patch

LEMMA FinalizeType ==
    ASSUME StoreTypeOK, NEW v \in TerminalStatus, Finalize(v)
    PROVE  StoreTypeOK'
<1>1. CASE Live /\ status' = v /\ cp' = [cp EXCEPT !.wake = FALSE] /\ SweepForms
  <2>1. form' \in [Step -> FormStatus]
    BY <1>1 DEF SweepForms, StoreTypeOK, FormStatus
  <2>2. cp' \in Checkpoint
    BY <1>1 DEF StoreTypeOK, Checkpoint
  <2> QED BY <1>1, <2>1, <2>2 DEF StoreTypeOK
<1>2. CASE Refused /\ UNCHANGED form
  BY <1>2 DEF Refused, StoreTypeOK
<1> QED BY <1>1, <1>2 DEF Finalize

LEMMA ReleaseType ==
    ASSUME AdvanceTypeOK, Release, UNCHANGED effect
    PROVE  AdvanceTypeOK'
<1>1. Len(Program) + 1 \in Nat /\ 1 <= Len(Program) + 1
  BY ProgramAssumption
<1>2. at' \in [u : 1 .. Len(Program) + 1, b : Nat \ {0}, k : Nat \ {0}]
  BY <1>1 DEF Release, StartOfWalk
<1> QED BY <1>2, EmptyType DEF Release, AdvanceTypeOK, Pcs, LeafPcs, WalkPcs

Places == [u : 1 .. Len(Program) + 1, b : Nat \ {0}, k : Nat \ {0}]

\* A commit of the walk that leaves it at a well-formed place.
LEMMA CommitType ==
    ASSUME StoreTypeOK, AdvanceTypeOK, NEW c \in Checkpoint, UNCHANGED <<form, effect>>,
           \/ Refused /\ Release
           \/ /\ Live /\ Patch(c) /\ copy' = c /\ UNCHANGED <<lockVars, stale, signal>>
              /\ at' \in Places /\ pc' \in Pcs /\ (pc' \in LeafPcs => AtLeaf')
              /\ parked' \in BOOLEAN
    PROVE  StoreTypeOK' /\ AdvanceTypeOK'
<1>1. CASE Refused /\ Release
  BY <1>1, ReleaseType DEF Refused, StoreTypeOK
<1>2. CASE /\ Live /\ Patch(c) /\ copy' = c /\ UNCHANGED <<lockVars, stale, signal>>
           /\ at' \in Places /\ pc' \in Pcs /\ (pc' \in LeafPcs => AtLeaf')
           /\ parked' \in BOOLEAN
  BY <1>2, PatchType DEF StoreTypeOK, AdvanceTypeOK, Places, lockVars
<1> QED BY <1>1, <1>2

\* The places the walk can move to.
LEMMA MoveType ==
    ASSUME AdvanceTypeOK
    PROVE  /\ at \in Places /\ StartOfWalk \in Places
           /\ [at EXCEPT !.k = @ + 1] \in Places /\ [at EXCEPT !.b = @ + 1, !.k = 1] \in Places
           /\ InProgram => [u |-> at.u + 1, b |-> 1, k |-> 1] \in Places
           /\ InBlock => Here \in Slots
           /\ AtLeaf => Cur \in Step
<1>1. Len(Program) \in Nat
  BY ProgramAssumption
<1>2. at \in Places
  BY DEF AdvanceTypeOK, Places
<1>3. at.k + 1 \in Nat \ {0} /\ at.b + 1 \in Nat \ {0} /\ 1 \in Nat \ {0}
  BY <1>2 DEF Places
<1>4. ASSUME NEW k \in Nat \ {0} PROVE [at EXCEPT !.k = k] \in Places
  BY <1>2 DEF Places
<1>5. ASSUME NEW b \in Nat \ {0}, NEW k \in Nat \ {0} PROVE [at EXCEPT !.b = b, !.k = k] \in Places
  BY <1>2 DEF Places
<1>6. StartOfWalk \in Places /\ (InProgram => [u |-> at.u + 1, b |-> 1, k |-> 1] \in Places)
  BY <1>1, <1>2 DEF Places, InProgram, StartOfWalk
<1>7. (InBlock => Here \in Slots) /\ (AtLeaf => Cur \in Step)
  BY <1>2, LeafHere DEF Places
<1> QED BY <1>2, <1>3, <1>4, <1>5, <1>6, <1>7

\* One step of the walk over leaves and branches.
LEMMA WalkType ==
    ASSUME StoreTypeOK, AdvanceTypeOK, Walk
    PROVE  StoreTypeOK' /\ AdvanceTypeOK'
<1> USE DEF storeVars, lockVars, Stay
<1>1. CASE SkipMarkedBranch
  BY <1>1, MoveType DEF SkipMarkedBranch, NextBranch, AdvanceTypeOK, StoreTypeOK, Places, LeafPcs
<1>2. CASE SkipSettledLeaf
  BY <1>2, MoveType DEF SkipSettledLeaf, EnterLeaf, NextLeaf, AdvanceTypeOK, StoreTypeOK, Places, LeafPcs
<1>3. CASE ParkOnWaiting
  BY <1>3, MoveType DEF ParkOnWaiting, EnterLeaf, NextBranch, AdvanceTypeOK, StoreTypeOK, Places, LeafPcs
<1>4. CASE BeginAction
  <2>1. SetStep(cp, Cur, "running", FALSE) \in Checkpoint
    BY <1>4, MoveType, SetStepType
       DEF BeginAction, CommitRunning, Dispatch, EnterLeaf, StoreTypeOK, StepStatus
  <2>2. AtLeaf
    BY <1>4 DEF BeginAction, CommitRunning, Dispatch, EnterLeaf
  <2>3. UNCHANGED at => (AtLeaf)' 
    BY <2>2 DEF AtLeaf, InBlock, InProgram, Branches
  <2> QED BY <1>4, <2>1, <2>2, <2>3, MoveType, CommitType
          DEF BeginAction, CommitRunning, Commit, Pcs, WalkPcs, AdvanceTypeOK
<1>5. CASE Act
  <2>1. AtLeaf /\ Cur \in Step
    BY <1>5, MoveType DEF Act, Dispatch, EnterLeaf, AdvanceTypeOK, LeafPcs, WalkPcs
  <2>2. AtLeaf'
    BY <1>5, <2>1 DEF Act, AtLeaf, InBlock, InProgram, Branches
  <2>3. effect' \in [Step -> 0 .. 2]
    BY <1>5, <2>1 DEF Act, AdvanceTypeOK
  <2> QED BY <1>5, <2>2, <2>3 DEF Act, AdvanceTypeOK, StoreTypeOK, Pcs, WalkPcs
<1>6. CASE CommitSucceeded
  <2>1. AtLeaf
    BY <1>6 DEF CommitSucceeded, AdvanceTypeOK, LeafPcs, WalkPcs
  <2>2. SetStep(cp, Cur, "succeeded", FALSE) \in Checkpoint
    BY <2>1, MoveType, SetStepType DEF StoreTypeOK, StepStatus
  <2> QED BY <1>6, <2>2, MoveType, CommitType
          DEF CommitSucceeded, Commit, NextLeaf, Pcs, WalkPcs, LeafPcs, AdvanceTypeOK
<1>7. CASE CommitFailed
  <2>1. AtLeaf
    BY <1>7 DEF CommitFailed, AdvanceTypeOK, LeafPcs, WalkPcs
  <2>2. SetStep(cp, Cur, "failed", FALSE) \in Checkpoint
    BY <2>1, MoveType, SetStepType DEF StoreTypeOK, StepStatus
  <2>3. UNCHANGED at => AtLeaf'
    BY <2>1 DEF AtLeaf, InBlock, InProgram, Branches
  <2> QED BY <1>7, <2>2, <2>3, MoveType, CommitType
          DEF CommitFailed, Commit, AfterFailure, NextLeaf, Pcs, WalkPcs, LeafPcs, AdvanceTypeOK
<1>8. CASE BeginWait
  <2>1. AtLeaf'
    BY <1>8 DEF BeginWait, Dispatch, EnterLeaf, AtLeaf, InBlock, InProgram, Branches
  <2> QED BY <1>8, <2>1 DEF BeginWait, AdvanceTypeOK, StoreTypeOK, Pcs, WalkPcs
<1>9. CASE Park
  <2>1. AtLeaf
    BY <1>9 DEF Park, AdvanceTypeOK, LeafPcs, WalkPcs
  <2>2. ParkStep(cp, Cur, pc = "park" /\ (Kind[Cur] = "wait" \/ Cur \in Timed)) \in Checkpoint
    BY <2>1, MoveType, ParkStepType DEF StoreTypeOK
  <2> QED BY <1>9, <2>2, MoveType, CommitType
          DEF Park, Commit, NextBranch, Pcs, WalkPcs, LeafPcs
<1>10. CASE MarkBranchFailed
  <2>1. Here \in Slots
    BY <1>10, MoveType DEF MarkBranchFailed, AdvanceTypeOK, LeafPcs, WalkPcs, AtLeaf
  <2>2. [cp EXCEPT !.mark[Here] = "failed"] \in Checkpoint
    BY <2>1 DEF StoreTypeOK, Checkpoint
  <2> QED BY <1>10, <2>2, MoveType, CommitType
          DEF MarkBranchFailed, MarkBranch, Commit, NextBranch, Pcs, WalkPcs, LeafPcs, AdvanceTypeOK
<1>11. CASE MarkBranchDone
  <2>1. Here \in Slots
    BY <1>11, MoveType DEF MarkBranchDone, BranchEnd
  <2>2. [cp EXCEPT !.mark[Here] = "succeeded"] \in Checkpoint
    BY <2>1 DEF StoreTypeOK, Checkpoint
  <2> QED BY <1>11, <2>2, MoveType, CommitType
          DEF MarkBranchDone, MarkBranch, Commit, NextBranch, Pcs, WalkPcs, LeafPcs, AdvanceTypeOK
<1>12. CASE LeafUnitEnd
  BY <1>12, MoveType DEF LeafUnitEnd, BranchEnd, NextBranch, AdvanceTypeOK, StoreTypeOK, Places, LeafPcs
<1>13. CASE UnitEnd
  <2>1. CASE parked /\ Release
    BY <1>13, <2>1, ReleaseType DEF UnitEnd, StoreTypeOK
  <2>2. CASE ~(parked /\ Release)
    BY <1>13, <2>2, MoveType
       DEF UnitEnd, AdvanceTypeOK, StoreTypeOK, Places, Pcs, LeafPcs, WalkPcs
  <2> QED BY <2>1, <2>2
<1>14. CASE WalkEnd
  BY <1>14, MoveType DEF WalkEnd, AdvanceTypeOK, StoreTypeOK, Places, Pcs, LeafPcs, WalkPcs
<1> QED BY <1>1, <1>2, <1>3, <1>4, <1>5, <1>6, <1>7, <1>8, <1>9, <1>10, <1>11, <1>12, <1>13,
           <1>14 DEF Walk

\* A step of advance(), or of a verb it dispatched that asks a question.
LEMMA AdvanceType ==
    ASSUME StoreTypeOK, AdvanceTypeOK, Advance \/ FormWalk
    PROVE  StoreTypeOK' /\ AdvanceTypeOK'
<1> USE DEF storeVars, lockVars, Stay
<1>1. ASSUME NEW c \in Callers, Acquire(c) PROVE StoreTypeOK' /\ AdvanceTypeOK'
  BY <1>1 DEF Acquire, StoreTypeOK, AdvanceTypeOK, Pcs, LeafPcs, WalkPcs
<1>2. CASE ReadRun
  <2>1. CASE ~Live /\ Release
    BY <1>2, <2>1, ReleaseType DEF ReadRun, StoreTypeOK
  <2>2. CASE Live
    BY <1>2, <2>2 DEF ReadRun, StoreTypeOK, AdvanceTypeOK, Pcs, LeafPcs, WalkPcs
  <2> QED BY <1>2, <2>1, <2>2 DEF ReadRun
<1>3. ASSUME NEW s \in Step, FailStale(s) PROVE StoreTypeOK' /\ AdvanceTypeOK'
  <2>1. CASE Refused /\ Release
    BY <1>3, <2>1, ReleaseType DEF FailStale, Refused, StoreTypeOK
  <2>2. CASE Live
    <3>1. FailEntry(cp, s) \in Checkpoint
      BY FailEntryType DEF StoreTypeOK
    <3> QED BY <1>3, <2>2, <3>1, PatchType
            DEF FailStale, Refused, StoreTypeOK, AdvanceTypeOK, Pcs, LeafPcs, WalkPcs
  <2> QED BY <1>3, <2>1, <2>2 DEF FailStale
<1>4. CASE StaleResolved
  BY <1>4 DEF StaleResolved, StoreTypeOK, AdvanceTypeOK, Pcs, LeafPcs, WalkPcs
<1>5. CASE StartWalk
  BY <1>5, MoveType DEF StartWalk, StoreTypeOK, AdvanceTypeOK, Places, Pcs, LeafPcs, WalkPcs
<1>6. CASE Walk
  BY <1>6, WalkType
<1>7. CASE FinalizeWalk
  <2>1. StoreTypeOK'
    BY <1>7, FinalizeType DEF FinalizeWalk, TerminalStatus
  <2> QED BY <1>7, <2>1, ReleaseType DEF FinalizeWalk
<1>8. CASE FormWalk
  <2>1. AtLeaf /\ Cur \in Step
    BY <1>8, MoveType DEF FormWalk, BeginForm, ParkForm, CancelPendingForRun, Dispatch, EnterLeaf,
       AdvanceTypeOK, LeafPcs, WalkPcs
  <2>2. UNCHANGED at => AtLeaf'
    BY <2>1 DEF AtLeaf, InBlock, InProgram, Branches
  <2>3. CASE BeginForm
    <3>1. form' \in [Step -> FormStatus] /\ effect' \in [Step -> 0 .. 2]
      BY <2>1, <2>3 DEF BeginForm, StoreTypeOK, AdvanceTypeOK, FormStatus
    <3> QED BY <2>2, <2>3, <3>1 DEF BeginForm, StoreTypeOK, AdvanceTypeOK, Pcs, WalkPcs
  <2>4. CASE ParkForm
    <3>1. Recompute(SetStep(cp, Cur, "waiting", FALSE)) \in Checkpoint
      BY <2>1, SetStepType, RecomputeType DEF StoreTypeOK, StepStatus
    <3>2. StoreTypeOK'
      BY <2>4, <3>1, PatchType DEF ParkForm, Refused, StoreTypeOK
    <3> QED BY <2>2, <2>4, <3>2 DEF ParkForm, AdvanceTypeOK, Pcs, WalkPcs
  <2>5. CASE CancelPendingForRun
    <3>1. form' \in [Step -> FormStatus]
      BY <2>5 DEF CancelPendingForRun, SweepForms, StoreTypeOK, FormStatus
    <3> QED BY <2>2, <2>5, <3>1 DEF CancelPendingForRun, StoreTypeOK, AdvanceTypeOK, Pcs, WalkPcs
  <2> QED BY <1>8, <2>3, <2>4, <2>5 DEF FormWalk
<1> QED BY <1>1, <1>2, <1>3, <1>4, <1>5, <1>6, <1>7, <1>8 DEF Advance

\* The ask_agent verb inside the walk.
LEMMA AgentWalkType ==
    ASSUME StoreTypeOK, AdvanceTypeOK, AgentTypeOK, AgentWalk
    PROVE  StoreTypeOK' /\ AdvanceTypeOK' /\ AgentTypeOK'
<1> USE DEF storeVars, lockVars, agentVars, Stay
<1>1. AtLeaf /\ Cur \in Step
  BY MoveType DEF AgentWalk, BeginAgent, CommitRunning, StartChat, ParkChat, Register, Dispatch,
     EnterLeaf, AdvanceTypeOK, LeafPcs, WalkPcs
<1>2. UNCHANGED at => AtLeaf'
  BY <1>1 DEF AtLeaf, InBlock, InProgram, Branches
<1>3. CASE BeginAgent
  <2>1. SetStep(cp, Cur, "running", FALSE) \in Checkpoint
    BY <1>1, SetStepType DEF StoreTypeOK, StepStatus
  <2>2. StoreTypeOK' /\ AdvanceTypeOK'
    BY <1>2, <1>3, <2>1, MoveType, CommitType
       DEF BeginAgent, CommitRunning, Commit, Pcs, WalkPcs, AdvanceTypeOK
  <2> QED BY <1>3, <2>2 DEF BeginAgent, AgentTypeOK
<1>4. CASE StartChat
  <2>1. pc' \in {"repark", "parkChat", "failed"}
    BY <1>4 DEF StartChat
  <2>2. effect' \in [Step -> 0 .. 2]
    <3>1. CASE pc' = "parkChat"
      BY <1>1, <1>4, <3>1 DEF StartChat, AdvanceTypeOK
    <3>2. CASE pc' # "parkChat"
      BY <1>4, <3>2 DEF StartChat, AdvanceTypeOK
    <3> QED BY <3>1, <3>2
  <2>3. chat' \in [Step -> {"none", "open", "ended"}]
    <3>1. CASE pc' = "parkChat"
      BY <1>1, <1>4, <3>1 DEF StartChat, AgentTypeOK
    <3>2. CASE pc' # "parkChat"
      BY <1>4, <3>2 DEF StartChat, AgentTypeOK
    <3> QED BY <3>1, <3>2
  <2>4. UNCHANGED <<storeVars, lockVars, at, copy, parked, stale, signal, heard, told, waits, task>>
    BY <1>4 DEF StartChat
  <2> QED BY <1>2, <2>1, <2>2, <2>3, <2>4 DEF StoreTypeOK, AdvanceTypeOK, AgentTypeOK, Pcs, WalkPcs
<1>5. CASE ParkChat
  <2>1. Recompute(SetStep(cp, Cur, "waiting", Cur \in Timed)) \in Checkpoint
    <3>1. SetStep(cp, Cur, "waiting", TRUE) \in Checkpoint
      BY <1>1, SetStepType DEF StoreTypeOK, StepStatus
    <3>2. SetStep(cp, Cur, "waiting", FALSE) \in Checkpoint
      BY <1>1, SetStepType DEF StoreTypeOK, StepStatus
    <3>3. (Cur \in Timed) = TRUE \/ (Cur \in Timed) = FALSE
      OBVIOUS
    <3>4. SetStep(cp, Cur, "waiting", Cur \in Timed) \in Checkpoint
      BY <3>1, <3>2, <3>3, Zenon
    <3> QED BY <3>4, RecomputeType
  <2>2. StoreTypeOK'
    BY <1>5, <2>1, PatchType DEF ParkChat, Refused, StoreTypeOK
  <2> QED BY <1>1, <1>2, <1>5, <2>2 DEF ParkChat, AdvanceTypeOK, AgentTypeOK, Pcs, WalkPcs
<1>6. CASE Register
  <2>1. task' \in [Step -> TaskState]
    BY <1>1, <1>6 DEF Register, AgentTypeOK, TaskState
  <2> QED BY <1>1, <1>2, <1>6, <2>1 DEF Register, StoreTypeOK, AdvanceTypeOK, AgentTypeOK, Pcs, WalkPcs
<1> QED BY <1>3, <1>4, <1>5, <1>6 DEF AgentWalk

\* A caller that settles a step queues an advance.
LEMMA LeaseType ==
    ASSUME AdvanceTypeOK, NEW c \in Callers, want' = want \/ Lease(c),
           UNCHANGED <<lock, walkVars, signal, effect>>
    PROVE  AdvanceTypeOK'
<1>1. want' \subseteq Callers
  BY DEF Lease, AdvanceTypeOK
<1>2. AtLeaf <=> AtLeaf'
  BY DEF walkVars, AtLeaf, InBlock, InProgram, Branches
<1> QED BY <1>1, <1>2 DEF AdvanceTypeOK, walkVars

LEMMA AdvanceStutter ==
    ASSUME AdvanceTypeOK, UNCHANGED advVars
    PROVE  AdvanceTypeOK'
BY DEF AdvanceTypeOK, advVars, AtLeaf, InBlock, InProgram, Branches

\* The settle path of an agent.
LEMMA SettleType ==
    ASSUME StoreTypeOK, AdvanceTypeOK, AgentTypeOK, NEW s \in Step, Settle(s)
    PROVE  StoreTypeOK' /\ AdvanceTypeOK' /\ AgentTypeOK'
<1> USE DEF storeVars, AgentTypeOK, TaskState
<1>1. CASE Deliver(s)
  <2>1. task' \in [Step -> TaskState]
    BY <1>1 DEF Deliver, DropOutcome, AcceptOutcome, AcceptCorrected, Judge, EndTask
  <2>2. chat' \in [Step -> {"none", "open", "ended"}]
    BY <1>1 DEF Deliver, DropOutcome, AcceptOutcome, AcceptCorrected, Judge, EndTask
  <2>3. waits' \subseteq Step
    BY <1>1 DEF Deliver, DropOutcome, AcceptOutcome, AcceptCorrected, Judge, EndTask
  <2>4. AdvanceTypeOK'
    BY <1>1, AdvanceStutter DEF Deliver
  <2> QED BY <1>1, <2>1, <2>2, <2>3, <2>4 DEF Deliver, StoreTypeOK
<1>2. CASE SucceedWaitingStep(s)
  <2>1. StoreTypeOK'
    BY <1>2, SucceedEntryType, PatchType DEF SucceedWaitingStep, Refused, StoreTypeOK
  <2>2. AdvanceTypeOK'
    BY <1>2, LeaseType DEF SucceedWaitingStep, Callers
  <2> QED BY <1>2, <2>1, <2>2 DEF SucceedWaitingStep, EndTask
<1>3. CASE FailWaitingStep(s)
  <2>1. StoreTypeOK'
    BY <1>3, FailOutOfBandType, PatchType DEF FailWaitingStep, Refused, StoreTypeOK
  <2>2. AdvanceTypeOK'
    BY <1>3, LeaseType DEF FailWaitingStep, Callers
  <2>3. task' \in [Step -> TaskState]
    BY <1>3 DEF FailWaitingStep, EndTask
  <2> QED BY <1>3, <2>1, <2>2, <2>3 DEF FailWaitingStep
<1>4. CASE SettleFailRun(s)
  <2>1. StoreTypeOK'
    BY <1>4, FinalizeType DEF SettleFailRun, TerminalStatus
  <2> QED BY <1>4, <2>1, AdvanceStutter DEF SettleFailRun, EndTask
<1> QED BY <1>1, <1>2, <1>3, <1>4 DEF Settle

\* The due-sweep.
LEMMA SweepType ==
    ASSUME StoreTypeOK, AdvanceTypeOK, SweepTypeOK, Sweep
    PROVE  StoreTypeOK' /\ AdvanceTypeOK' /\ SweepTypeOK'
<1> USE DEF storeVars, SweepTypeOK, SweepState
<1>1. CASE SweepDue
  BY <1>1, AdvanceStutter DEF SweepDue, StoreTypeOK, Waiting
<1>2. CASE SweepFailRun
  <2>1. StoreTypeOK'
    BY <1>2, FinalizeType DEF SweepFailRun, TerminalStatus
  <2> QED BY <1>2, <2>1, AdvanceStutter DEF SweepFailRun
<1>3. CASE SweepAdvanced
  BY <1>3, AdvanceStutter DEF SweepAdvanced, StoreTypeOK
<1>4. CASE SweepRests
  BY <1>4, AdvanceStutter DEF SweepRests, StoreTypeOK
<1>5. ASSUME NEW s \in Step, ResumeWait(s) PROVE StoreTypeOK' /\ AdvanceTypeOK' /\ SweepTypeOK'
  <2>1. StoreTypeOK'
    BY <1>5, SucceedEntryType, PatchType DEF ResumeWait, Refused, StoreTypeOK
  <2>2. AdvanceTypeOK'
    BY <1>5, LeaseType DEF ResumeWait, Callers
  <2> QED BY <1>5, <2>1, <2>2 DEF ResumeWait
<1>6. ASSUME NEW s \in Step, FailStep(s) PROVE StoreTypeOK' /\ AdvanceTypeOK' /\ SweepTypeOK'
  <2>1. StoreTypeOK'
    BY <1>6, FailOutOfBandType, PatchType DEF FailStep, Refused, StoreTypeOK
  <2>2. AdvanceTypeOK'
    BY <1>6, LeaseType DEF FailStep, Callers
  <2> QED BY <1>6, <2>1, <2>2 DEF FailStep
<1> QED BY <1>1, <1>2, <1>3, <1>4, <1>5, <1>6 DEF Sweep

\* Type correctness of the whole run: in particular the walk stands on a leaf of
\* its program whenever it executes one, whatever happened to the checkpoint.
THEOREM TypeCorrect == Spec => []TypeOK
<1>1. Init => TypeOK
  <2> SUFFICES ASSUME Init PROVE TypeOK
    OBVIOUS
  <2>1. StoreTypeOK
    BY EmptyType DEF Init, StoreInit, StoreTypeOK, LiveStatus, FormStatus
  <2>2. AdvanceTypeOK
    <3>1. 1 \in 1 .. Len(Program) + 1
      BY ProgramAssumption
    <3>2. at \in [u : 1 .. Len(Program) + 1, b : Nat \ {0}, k : Nat \ {0}]
      BY <3>1 DEF Init, AdvanceInit, StartOfWalk
    <3>3. effect \in [Step -> 0 .. 2]
      BY DEF Init, AdvanceInit
    <3> QED BY <3>2, <3>3, EmptyType
            DEF Init, AdvanceInit, AdvanceTypeOK, Callers, Pcs, LeafPcs, WalkPcs
  <2>3. AgentTypeOK /\ SweepTypeOK
    BY DEF Init, AgentInit, AgentTypeOK, TaskState, SweepInit, SweepTypeOK, SweepState
  <2>4. up \in BOOLEAN /\ booted \in BOOLEAN /\ dropped \in BOOLEAN
    BY DEF Init
  <2> QED BY <2>1, <2>2, <2>3, <2>4, BoundAssumption DEF Init, TypeOK
<1>2. TypeOK /\ [Next]_vars => TypeOK'
  <2> SUFFICES ASSUME TypeOK, [Next]_vars PROVE TypeOK'
    OBVIOUS
  <2> USE DEF TypeOK, storeVars, agentVars, sweepVars, ctlVars
  <2>1. CASE AdvanceStep
    <3>1. CASE (Advance \/ FormWalk) /\ UNCHANGED <<agentVars, sweepVars, ctlVars>>
      BY <3>1, AdvanceType DEF AgentTypeOK, SweepTypeOK
    <3>2. CASE AgentWalk /\ UNCHANGED <<sweepVars, ctlVars>>
      BY <3>2, AgentWalkType DEF SweepTypeOK
    <3> QED BY <2>1, <3>1, <3>2 DEF AdvanceStep
  <2>2. CASE DropWalkStep
    BY <2>2, ReleaseType DEF DropWalkStep, DropWalk, StoreTypeOK, AgentTypeOK, SweepTypeOK
  <2>3. CASE SweepStep
    BY <2>3, SweepType DEF SweepStep, AgentTypeOK
  <2>4. CASE CancelRequest
    <3>1. AtLeaf <=> AtLeaf'
      BY <2>4 DEF CancelRequest, walkVars, AtLeaf, InBlock, InProgram, Branches
    <3>2. cancels' \in 0 .. MaxCancels
      BY <2>4, BoundAssumption DEF CancelRequest
    <3> QED BY <2>4, <3>1, <3>2
            DEF CancelRequest, walkVars, lockVars, StoreTypeOK, AdvanceTypeOK, AgentTypeOK, SweepTypeOK
  <2>5. CASE CancelFinalize
    BY <2>5, FinalizeType, AdvanceStutter DEF CancelFinalize, TerminalStatus, AgentTypeOK, SweepTypeOK
  <2>6. CASE CancelPurge
    BY <2>6, AdvanceStutter DEF CancelPurge, StoreTypeOK, AgentTypeOK, SweepTypeOK
  <2>7. CASE Crash
    <3>1. NoOne \in Callers \cup {NoOne} /\ StartOfWalk \in Places
      BY MoveType
    <3>2. crashes' \in 0 .. MaxCrashes
      BY <2>7, BoundAssumption DEF Crash
    <3>3. AdvanceTypeOK'
      BY <2>7, <3>1, EmptyType DEF Crash, AdvanceTypeOK, Places, Pcs, LeafPcs, WalkPcs
    <3> QED BY <2>7, <3>2, <3>3 DEF Crash, StoreTypeOK, AgentTypeOK, TaskState, SweepTypeOK, SweepState
  <2>8. CASE Boot
    <3>1. waits' \subseteq Step /\ task' \in [Step -> TaskState]
      BY <2>8 DEF Boot, Agents, TaskState
    <3>2. AtLeaf <=> AtLeaf'
      BY <2>8 DEF Boot, walkVars, AtLeaf, InBlock, InProgram, Branches
    <3>3. want' \subseteq Callers
      BY <2>8 DEF Boot, Callers
    <3> QED BY <2>8, <3>1, <3>2, <3>3
            DEF Boot, walkVars, StoreTypeOK, AdvanceTypeOK, AgentTypeOK, SweepTypeOK
  <2>9. CASE BootDone
    BY <2>9, AdvanceStutter DEF BootDone, StoreTypeOK, AgentTypeOK, SweepTypeOK
  <2>10. ASSUME NEW s \in Step, SettleStep(s) PROVE TypeOK'
    BY <2>10, SettleType DEF SettleStep, SweepTypeOK
  <2>11. ASSUME NEW s \in Step, RespondStep(s) PROVE TypeOK'
    <3>1. StoreTypeOK'
      <4>1. form' \in [Step -> FormStatus]
        BY <2>11 DEF RespondStep, Respond, StoreTypeOK, FormStatus
      <4> QED BY <2>11, <4>1, SucceedEntryType, PatchType DEF RespondStep, Respond, StoreTypeOK
    <3>2. AdvanceTypeOK'
      BY <2>11, LeaseType DEF RespondStep, Respond, Callers
    <3> QED BY <2>11, <3>1, <3>2 DEF RespondStep, AgentTypeOK, SweepTypeOK
  <2>12. ASSUME NEW s \in Step, AgentStep(s) PROVE TypeOK'
    BY <2>12, AdvanceStutter DEF AgentStep, AgentFinishes, StoreTypeOK, AgentTypeOK, SweepTypeOK
  <2>13. ASSUME NEW s \in Step, DropRequest(s) PROVE TypeOK'
    <3>1. AdvanceTypeOK'
      <4>1. CASE lock = s /\ Release
        BY <2>13, <4>1, ReleaseType DEF DropRequest
      <4>2. CASE s \in want /\ want' = want \ {s} /\ UNCHANGED <<lock, walkVars, signal>>
        <5>1. AtLeaf <=> AtLeaf'
          BY <4>2 DEF walkVars, AtLeaf, InBlock, InProgram, Branches
        <5> QED BY <2>13, <4>2, <5>1 DEF DropRequest, walkVars, AdvanceTypeOK
      <4> QED BY <2>13, <4>1, <4>2 DEF DropRequest
    <3> QED BY <2>13, <3>1 DEF DropRequest, StoreTypeOK, AgentTypeOK, SweepTypeOK
  <2>14. ASSUME NEW s \in Step, AgentFinishesUnheard(s) PROVE TypeOK'
    BY <2>14, AdvanceStutter DEF AgentFinishesUnheard, StoreTypeOK, AgentTypeOK, SweepTypeOK
  <2>15. CASE UNCHANGED vars
    BY <2>15, AdvanceStutter DEF vars, StoreTypeOK, AgentTypeOK, SweepTypeOK
  <2> QED BY <2>1, <2>2, <2>3, <2>4, <2>5, <2>6, <2>7, <2>8, <2>9, <2>10, <2>11, <2>12, <2>13,
             <2>14, <2>15 DEF Next, Cancel
<1> QED BY <1>1, <1>2, PTL DEF Spec

-----------------------------------------------------------------------------
(* The inductive invariant.  The walk decides on `copy` while others write *)
(* `cp`; what keeps an effect from happening twice is that only the holder *)
(* of the run lock takes a step out of "none" or into "running", so that   *)
(* the two agree on which steps have not begun, and that no effect is due  *)
(* before the mark of its step is on record.                               *)

Reached == {"waiting", "succeeded", "failed"}
OnLeaf(s) == pc \in LeafPcs /\ Cur = s

\* What the walk believes of the steps it has yet to come to.
WalkAgrees ==
    pc \in WalkPcs => \A s \in Step :
        /\ copy.step[s] = "none" => cp.step[s] = "none" \/ OnLeaf(s)
        /\ Kind[s] = "run_action" => copy.step[s] = cp.step[s]
        /\ s \in Once /\ "running" \in {copy.step[s], cp.step[s]} => OnLeaf(s)

\* What is on record of the leaf the walk executes.
LeafRecord ==
    /\ pc \in {"act", "start", "parkChat"} => cp.step[Cur] = "running"
    /\ pc \in {"register", "markFailed"} => cp.step[Cur] \in Reached
    /\ pc = "parkForm" => cp.step[Cur] = "none"
    /\ pc \in {"act", "start"} /\ Cur \in Once => effect[Cur] = 0
    /\ pc = "act" => Kind[Cur] = "run_action"
    /\ pc \in {"start", "parkChat", "register"} => Kind[Cur] = "ask_agent"
    /\ pc \in {"parkForm", "sweepForms"} => Kind[Cur] = "ask_me"
    /\ pc = "sweepForms" => ~Live

\* Before the walk, every mark of a dead or dropped advance is dealt with.
StaleKnown ==
    /\ pc = "stale" => \A s \in Once : cp.step[s] = "running" => s \in stale
    /\ pc = "reload" => \A s \in Once : cp.step[s] # "running"

\* Only the verbs with a pre-effect mark are ever `running`.
RunningKind ==
    \A s \in Step :
        "running" \in {copy.step[s], cp.step[s]} => Kind[s] \in {"run_action", "ask_agent"}

\* Whoever settles a step from outside the walk settles one that has waited.
OutOfBand ==
    \A s \in Step :
        /\ task[s] # "none" => s \in Agents /\ cp.step[s] \in Reached
        /\ s \in due => cp.step[s] \in Reached

EffectRecorded ==
    \A s \in Once : effect[s] <= 1 /\ (effect[s] > 0 => cp.step[s] # "none")

AskedOnce ==
    Live => \A s \in Step : Kind[s] = "ask_me" =>
        /\ form[s] # "cancelled"
        /\ effect[s] = IF form[s] = "none" THEN 0 ELSE 1
        /\ form[s] = "answered" => cp.step[s] # "none"

EffectInv ==
    /\ WalkAgrees /\ LeafRecord /\ StaleKnown /\ RunningKind /\ OutOfBand
    /\ EffectRecorded /\ AskedOnce

-----------------------------------------------------------------------------
(* Steps that leave the walk where it is, or end it.                       *)

\* Settle tasks and sweep entries only ever come up for steps that have waited.
OnlyReached ==
    \A s \in Step :
        /\ task'[s] # "none" => task[s] # "none" \/ (s \in Agents /\ cp.step[s] \in Reached)
        /\ s \in due' => s \in due \/ cp.step[s] \in Reached

LEMMA SameLeaf ==
    ASSUME UNCHANGED walkVars
    PROVE  Cur' = Cur /\ \A s \in Step : OnLeaf(s)' <=> OnLeaf(s)
BY DEF walkVars, OnLeaf, Cur, Branches

\* The walk stands still and no step changes.
LEMMA StutterInv ==
    ASSUME EffectInv, UNCHANGED <<walkVars, effect>>, cp'.step = cp.step, OnlyReached,
           ~Live => ~Live', Live' => UNCHANGED form
    PROVE  EffectInv'
<1> USE SameLeaf DEF EffectInv, walkVars
<1>1. WalkAgrees'
  BY DEF WalkAgrees
<1>2. LeafRecord'
  BY DEF LeafRecord
<1>3. StaleKnown' /\ RunningKind'
  BY DEF StaleKnown, RunningKind
<1>4. OutOfBand'
  BY DEF OutOfBand, OnlyReached
<1>5. EffectRecorded' /\ AskedOnce'
  BY DEF EffectRecorded, AskedOnce
<1> QED BY <1>1, <1>2, <1>3, <1>4, <1>5

\* The walk ends and no step changes.
LEMMA ReleaseInv ==
    ASSUME EffectInv, Release, UNCHANGED <<effect, task, due>>, cp'.step = cp.step,
           ~Live => ~Live', Live' => UNCHANGED form
    PROVE  EffectInv'
<1> USE DEF EffectInv, Release
<1>1. WalkAgrees' /\ LeafRecord' /\ StaleKnown'
  BY DEF WalkAgrees, LeafRecord, StaleKnown, WalkPcs
<1>2. RunningKind'
  BY DEF RunningKind, EmptyCheckpoint
<1>3. OutOfBand' /\ EffectRecorded' /\ AskedOnce'
  BY DEF OutOfBand, EffectRecorded, AskedOnce
<1> QED BY <1>1, <1>2, <1>3

\* A step that has waited is settled next to the walk.
LEMMA SettledOutside ==
    ASSUME StoreTypeOK, AdvanceTypeOK, EffectInv, UNCHANGED <<walkVars, effect>>,
           NEW s \in Step, cp.step[s] \in Reached, Kind[s] # "run_action",
           NEW st \in {"succeeded", "failed"}, cp'.step = [cp.step EXCEPT ![s] = st],
           OnlyReached, Live, status' \in LiveStatus,
           form' = form \/ (form' = [form EXCEPT ![s] = "answered"] /\ form[s] = "pending")
    PROVE  EffectInv'
<1> USE SameLeaf DEF EffectInv, walkVars, Reached
<1>1. \A t \in Step : t # s => cp'.step[t] = cp.step[t]
  BY DEF StoreTypeOK, Checkpoint
<1>2. cp'.step[s] = st
  BY DEF StoreTypeOK, Checkpoint
<1>3. WalkAgrees'
  BY <1>1, <1>2 DEF WalkAgrees
<1>4. LeafRecord'
  BY <1>1, <1>2, MoveType DEF LeafRecord, AdvanceTypeOK, LeafPcs, WalkPcs, Live, LiveStatus
<1>5. StaleKnown' /\ RunningKind'
  BY <1>1, <1>2 DEF StaleKnown, RunningKind
<1>6. OutOfBand'
  BY <1>1, <1>2 DEF OutOfBand, OnlyReached
<1>7. EffectRecorded'
  BY <1>1, <1>2 DEF EffectRecorded, Once
<1>8. AskedOnce'
  BY <1>1, <1>2 DEF AskedOnce, StoreTypeOK
<1> QED BY <1>3, <1>4, <1>5, <1>6, <1>7, <1>8

-----------------------------------------------------------------------------
(* Steps of the walk.                                                      *)

\* The walk stays inside its own loop and records nothing.
LEMMA StrollInv ==
    ASSUME EffectInv, pc = "walk", pc' \in {"walk", "fatal", "done", "park"},
           UNCHANGED <<storeVars, copy, stale, effect, task, due>>,
           pc' = "park" => UNCHANGED at
    PROVE  EffectInv'
<1> USE DEF EffectInv, storeVars
<1>1. \A s \in Step : ~OnLeaf(s)
  BY DEF OnLeaf, LeafPcs
<1>2. WalkAgrees'
  BY <1>1 DEF WalkAgrees, WalkPcs
<1>3. LeafRecord' /\ StaleKnown' /\ RunningKind'
  BY DEF LeafRecord, StaleKnown, RunningKind
<1>4. OutOfBand' /\ EffectRecorded' /\ AskedOnce'
  BY DEF OutOfBand, EffectRecorded, AskedOnce, Live
<1> QED BY <1>2, <1>3, <1>4

\* A commit after which no step that must not be repeated is `running`.
LEMMA WalkCommitInv ==
    ASSUME EffectInv, Live, NEW c \in Checkpoint, Patch(c), copy' = c,
           UNCHANGED <<form, effect, stale, task, due>>,
           \A s \in Step : c.step[s] = cp.step[s] \/ c.step[s] \in Reached,
           \A s \in Once : c.step[s] # "running",
           pc' \in {"walk", "fatal", "markFailed"},
           pc' = "markFailed" => c.step[Cur'] \in Reached
    PROVE  EffectInv'
<1> USE DEF EffectInv, Patch, Reached
<1>1. WalkAgrees'
  BY DEF WalkAgrees
<1>2. LeafRecord' /\ StaleKnown'
  BY DEF LeafRecord, StaleKnown
<1>3. RunningKind'
  BY DEF RunningKind
<1>4. OutOfBand'
  BY DEF OutOfBand
<1>5. EffectRecorded' /\ AskedOnce'
  BY DEF EffectRecorded, AskedOnce, Once
<1> QED BY <1>1, <1>2, <1>3, <1>4, <1>5

\* A commit of the walk that settles or parks the leaf it stands on.
LEMMA CommitReachedInv ==
    ASSUME StoreTypeOK, AdvanceTypeOK, EffectInv, AtLeaf, pc \in LeafPcs,
           NEW c \in Checkpoint, c.step[Cur] \in Reached,
           \A s \in Step : s # Cur => c.step[s] = cp.step[s],
           UNCHANGED <<form, effect, task, due>>,
           \/ Refused /\ Release
           \/ /\ Live /\ Patch(c) /\ copy' = c /\ UNCHANGED stale
              /\ pc' \in {"walk", "fatal", "markFailed"} /\ (pc' = "markFailed" => UNCHANGED at)
    PROVE  EffectInv'
<1>1. CASE Refused /\ Release
  BY <1>1, ReleaseInv DEF Refused, Live
<1>2. CASE /\ Live /\ Patch(c) /\ copy' = c /\ UNCHANGED stale
           /\ pc' \in {"walk", "fatal", "markFailed"} /\ (pc' = "markFailed" => UNCHANGED at)
  <2>1. \A s \in Once : c.step[s] # "running"
    BY DEF EffectInv, WalkAgrees, OnLeaf, LeafPcs, Reached, Once
  <2>2. UNCHANGED at => Cur' = Cur
    BY DEF Cur, Branches
  <2>3. \A s \in Step : c.step[s] = cp.step[s] \/ c.step[s] \in Reached
    OBVIOUS
  <2> QED BY <1>2, <2>1, <2>2, <2>3, WalkCommitInv
<1> QED BY <1>1, <1>2

\* run_leaf's mark: the leaf has not begun, or it is safe to begin it again.
LEMMA CommitRunningInv ==
    ASSUME StoreTypeOK, AdvanceTypeOK, EffectInv, UNCHANGED <<task, due>>,
           NEW kind \in {"run_action", "ask_agent"}, NEW next \in {"act", "start"},
           kind = "run_action" <=> next = "act",
           CommitRunning(kind, next)
    PROVE  EffectInv'
<1> DEFINE c == SetStep(cp, Cur, "running", FALSE)
<1>1. AtLeaf /\ Cur \in Step /\ pc = "walk" /\ Kind[Cur] = kind /\ copy.step[Cur] \in {"none", "running"}
  BY MoveType DEF CommitRunning, Dispatch, EnterLeaf
<1>2. c \in Checkpoint /\ c.step = [cp.step EXCEPT ![Cur] = "running"]
  BY <1>1, SetStepType DEF StoreTypeOK, StepStatus
<1>3. CASE Refused /\ Release
  BY <1>3, ReleaseInv DEF Refused, Live, CommitRunning, Commit
<1>4. CASE Live /\ Patch(c) /\ copy' = c /\ pc' = next /\ UNCHANGED <<at, stale, form, effect>>
  <2> HIDE DEF c
  <2> USE DEF EffectInv, Patch
  <2>1. Cur' = Cur
    BY <1>4 DEF Cur, Branches
  <2>2. \A s \in Step : ~OnLeaf(s)
    BY <1>1 DEF OnLeaf, LeafPcs
  <2>3. cp'.step[Cur] = "running" /\ \A s \in Step : s # Cur => cp'.step[s] = cp.step[s]
    BY <1>1, <1>2, <1>4 DEF StoreTypeOK, Checkpoint
  <2>4. /\ Cur \in Once => copy.step[Cur] = "none" /\ cp.step[Cur] = "none" /\ effect[Cur] = 0
        /\ cp.step[Cur] \notin Reached
    BY <1>1, <2>2 DEF WalkAgrees, WalkPcs, Once, EffectRecorded, AdvanceTypeOK, Reached
  <2>5. OnLeaf(Cur)'
    BY <1>4, <2>1 DEF OnLeaf, LeafPcs, WalkPcs
  <2>6. WalkAgrees'
    BY <1>1, <1>4, <2>1, <2>2, <2>3, <2>5 DEF WalkAgrees, WalkPcs
  <2>7. LeafRecord' /\ StaleKnown'
    BY <1>1, <1>4, <2>1, <2>3, <2>4 DEF LeafRecord, StaleKnown
  <2>8. RunningKind'
    BY <1>1, <1>4, <2>3 DEF RunningKind
  <2>9. OutOfBand'
    BY <2>3, <2>4 DEF OutOfBand
  <2>10. EffectRecorded'
    BY <1>4, <2>3, <2>4 DEF EffectRecorded, Once
  <2>11. AskedOnce'
    BY <1>1, <1>4, <2>3 DEF AskedOnce
  <2> QED BY <2>6, <2>7, <2>8, <2>9, <2>10, <2>11
<1> QED BY <1>3, <1>4 DEF CommitRunning, Commit

LEMMA ActInv ==
    ASSUME StoreTypeOK, AdvanceTypeOK, EffectInv, UNCHANGED <<task, due>>, Act
    PROVE  EffectInv'
<1> USE DEF EffectInv
<1>1. AtLeaf /\ Cur \in Step /\ Cur' = Cur /\ UNCHANGED <<storeVars, copy, stale>>
  BY MoveType DEF Act, Dispatch, EnterLeaf, AdvanceTypeOK, LeafPcs, WalkPcs, Cur, Branches
<1>2. pc = "act" \/ (pc = "walk" /\ Kind[Cur] = "pure")
  BY DEF Act, Dispatch, EnterLeaf
<1>3. Kind[Cur] # "ask_me" /\ (Cur \in Once => pc = "act")
  BY <1>2 DEF LeafRecord, Once
<1>4. \A s \in Step : s # Cur => effect'[s] = effect[s]
  BY DEF Act, AdvanceTypeOK
<1>5. Cur \in Once => effect'[Cur] = 1
  BY <1>1, <1>3 DEF Act, AdvanceTypeOK, LeafRecord
<1>6. pc' \in {"committed", "failed"}
  BY DEF Act
<1>7. \A s \in Step : OnLeaf(s) => OnLeaf(s)'
  BY <1>1, <1>6 DEF OnLeaf, LeafPcs, WalkPcs
<1>8. WalkAgrees'
  BY <1>1, <1>2, <1>7 DEF WalkAgrees, WalkPcs, storeVars
<1>9. LeafRecord' /\ StaleKnown' /\ RunningKind' /\ OutOfBand'
  BY <1>1, <1>6 DEF LeafRecord, StaleKnown, RunningKind, OutOfBand, storeVars
<1>10. EffectRecorded'
  BY <1>1, <1>3, <1>4, <1>5 DEF EffectRecorded, LeafRecord, storeVars, Once
<1>11. AskedOnce'
  BY <1>1, <1>3, <1>4 DEF AskedOnce, storeVars, Live
<1> QED BY <1>8, <1>9, <1>10, <1>11

\* One step of the walk over leaves and branches.
LEMMA WalkInv ==
    ASSUME StoreTypeOK, AdvanceTypeOK, EffectInv, UNCHANGED <<task, due>>, Walk
    PROVE  EffectInv'
<1> USE DEF storeVars, lockVars, Stay
<1>1. CASE SkipMarkedBranch \/ SkipSettledLeaf \/ ParkOnWaiting \/ LeafUnitEnd \/ WalkEnd \/ BeginWait
  BY <1>1, StrollInv DEF SkipMarkedBranch, SkipSettledLeaf, ParkOnWaiting, LeafUnitEnd, WalkEnd,
     BeginWait, EnterLeaf, Dispatch, BranchEnd
<1>2. CASE BeginAction
  BY <1>2, CommitRunningInv DEF BeginAction
<1>3. CASE Act
  BY <1>3, ActInv
<1>4. CASE CommitSucceeded
  <2>1. pc \in LeafPcs /\ AtLeaf /\ Cur \in Step
    BY <1>4, MoveType DEF CommitSucceeded, AdvanceTypeOK, LeafPcs, WalkPcs
  <2> DEFINE c == SetStep(cp, Cur, "succeeded", FALSE)
  <2>2. c \in Checkpoint /\ c.step = [cp.step EXCEPT ![Cur] = "succeeded"]
    BY <2>1, SetStepType DEF StoreTypeOK, StepStatus
  <2>3. c.step[Cur] \in Reached /\ \A s \in Step : s # Cur => c.step[s] = cp.step[s]
    BY <2>1, <2>2 DEF StoreTypeOK, Checkpoint, Reached
  <2>4. \/ Refused /\ Release
        \/ Live /\ Patch(c) /\ copy' = c /\ UNCHANGED stale /\ pc' = "walk"
    BY <1>4 DEF CommitSucceeded, Commit
  <2>5. UNCHANGED <<form, effect>>
    BY <1>4 DEF CommitSucceeded, Commit
  <2> HIDE DEF c
  <2> QED BY <2>1, <2>2, <2>3, <2>4, <2>5, CommitReachedInv
<1>5. CASE CommitFailed
  <2>1. pc \in LeafPcs /\ AtLeaf /\ Cur \in Step
    BY <1>5, MoveType DEF CommitFailed, AdvanceTypeOK, LeafPcs, WalkPcs
  <2> DEFINE c == SetStep(cp, Cur, "failed", FALSE)
  <2>2. c \in Checkpoint /\ c.step = [cp.step EXCEPT ![Cur] = "failed"]
    BY <2>1, SetStepType DEF StoreTypeOK, StepStatus
  <2>3. c.step[Cur] \in Reached /\ \A s \in Step : s # Cur => c.step[s] = cp.step[s]
    BY <2>1, <2>2 DEF StoreTypeOK, Checkpoint, Reached
  <2>4. \/ Refused /\ Release
        \/ /\ Live /\ Patch(c) /\ copy' = c /\ UNCHANGED stale
           /\ pc' \in {"walk", "fatal", "markFailed"} /\ (pc' = "markFailed" => UNCHANGED at)
    BY <1>5 DEF CommitFailed, Commit, AfterFailure
  <2>5. UNCHANGED <<form, effect>>
    BY <1>5 DEF CommitFailed, Commit
  <2> HIDE DEF c
  <2> QED BY <2>1, <2>2, <2>3, <2>4, <2>5, CommitReachedInv
<1>6. CASE Park
  <2>1. pc \in LeafPcs /\ AtLeaf /\ Cur \in Step
    BY <1>6, MoveType DEF Park, AdvanceTypeOK, LeafPcs, WalkPcs
  <2>2. PICK timed \in BOOLEAN :
           \/ Refused /\ Release
           \/ Live /\ Patch(ParkStep(cp, Cur, timed)) /\ copy' = ParkStep(cp, Cur, timed)
              /\ UNCHANGED stale /\ pc' = "walk"
    BY <1>6 DEF Park, Commit
  <2> DEFINE c == ParkStep(cp, Cur, timed)
  <2>3. c \in Checkpoint
    BY <2>1, ParkStepType DEF StoreTypeOK
  <2>4. c.step[Cur] \in Reached /\ \A s \in Step : s # Cur => c.step[s] = cp.step[s]
    BY <2>1, ParkStepType DEF StoreTypeOK, Reached
  <2>5. UNCHANGED <<form, effect>>
    BY <1>6 DEF Park, Commit
  <2> HIDE DEF c
  <2> QED BY <2>1, <2>2, <2>3, <2>4, <2>5, CommitReachedInv DEF c
<1>7. CASE MarkBranchFailed
  <2>1. pc = "markFailed" /\ pc \in LeafPcs /\ AtLeaf /\ Cur \in Step /\ Here \in Slots
    BY <1>7, MoveType DEF MarkBranchFailed, AdvanceTypeOK, LeafPcs, WalkPcs, AtLeaf
  <2> DEFINE c == [cp EXCEPT !.mark[Here] = "failed"]
  <2>2. c \in Checkpoint /\ c.step = cp.step
    BY <2>1 DEF StoreTypeOK, Checkpoint
  <2>3. \/ Refused /\ Release
        \/ Live /\ Patch(c) /\ copy' = c /\ UNCHANGED stale /\ pc' = "walk"
    BY <1>7 DEF MarkBranchFailed, MarkBranch, Commit
  <2>4. UNCHANGED <<form, effect>>
    BY <1>7 DEF MarkBranchFailed, MarkBranch, Commit
  <2>5. c.step[Cur] \in Reached
    BY <2>1, <2>2 DEF EffectInv, LeafRecord
  <2> HIDE DEF c
  <2> QED BY <2>1, <2>2, <2>3, <2>4, <2>5, CommitReachedInv
<1>8. CASE MarkBranchDone
  <2>1. pc = "walk" /\ Here \in Slots
    BY <1>8, MoveType DEF MarkBranchDone, BranchEnd
  <2> DEFINE c == [cp EXCEPT !.mark[Here] = "succeeded"]
  <2>2. c \in Checkpoint /\ c.step = cp.step
    BY <2>1 DEF StoreTypeOK, Checkpoint
  <2>3. \/ Refused /\ Release
        \/ Live /\ Patch(c) /\ copy' = c /\ UNCHANGED stale /\ pc' = "walk"
    BY <1>8 DEF MarkBranchDone, MarkBranch, Commit
  <2>4. UNCHANGED <<form, effect>>
    BY <1>8 DEF MarkBranchDone, MarkBranch, Commit
  <2>5. \A s \in Once : c.step[s] # "running"
    BY <2>1, <2>2 DEF EffectInv, WalkAgrees, WalkPcs, OnLeaf, LeafPcs, Once
  <2> HIDE DEF c
  <2>6. CASE Refused /\ Release
    BY <2>4, <2>6, ReleaseInv DEF Refused, Live
  <2>7. CASE Live /\ Patch(c) /\ copy' = c /\ UNCHANGED stale /\ pc' = "walk"
    BY <2>2, <2>4, <2>5, <2>7, WalkCommitInv
  <2> QED BY <2>3, <2>6, <2>7
<1>9. CASE UnitEnd
  <2>1. CASE parked /\ Release
    BY <1>9, <2>1, ReleaseInv DEF UnitEnd, Live
  <2>2. CASE ~(parked /\ Release)
    BY <1>9, <2>2, StrollInv DEF UnitEnd
  <2> QED BY <2>1, <2>2
<1> QED BY <1>1, <1>2, <1>3, <1>4, <1>5, <1>6, <1>7, <1>8, <1>9 DEF Walk

LEMMA FinalizeSteps ==
    ASSUME StoreTypeOK, NEW v \in TerminalStatus, Finalize(v)
    PROVE  cp'.step = cp.step /\ (~Live => ~Live') /\ (Live' => UNCHANGED form)
BY DEF StoreTypeOK, Checkpoint, Finalize, Refused, Live, LiveStatus, TerminalStatus

\* A step of advance() itself.
LEMMA AdvanceInv ==
    ASSUME StoreTypeOK, AdvanceTypeOK, EffectInv, UNCHANGED <<task, due>>, Advance
    PROVE  EffectInv'
<1> USE DEF storeVars, lockVars
<1>1. ASSUME NEW c \in Callers, Acquire(c) PROVE EffectInv'
  <2> USE <1>1 DEF Acquire, EffectInv
  <2>1. WalkAgrees' /\ LeafRecord' /\ StaleKnown'
    BY DEF WalkAgrees, LeafRecord, StaleKnown, WalkPcs
  <2>2. RunningKind' /\ OutOfBand' /\ EffectRecorded' /\ AskedOnce'
    BY DEF RunningKind, OutOfBand, EffectRecorded, AskedOnce, Live
  <2> QED BY <2>1, <2>2
<1>2. CASE ReadRun
  <2>1. CASE ~Live /\ Release
    BY <1>2, <2>1, ReleaseInv DEF ReadRun, Live
  <2>2. CASE Live /\ pc' = "stale" /\ UNCHANGED <<cp, status, form, effect, copy>>
               /\ stale' = {s \in Step : cp.step[s] = "running"} \ Idempotent
    <3> USE <2>2 DEF EffectInv
    <3>1. \A s \in Once : s \in Step /\ s \notin Idempotent
      BY ProgramAssumption DEF Once
    <3>2. WalkAgrees' /\ LeafRecord' /\ StaleKnown'
      BY <3>1 DEF WalkAgrees, LeafRecord, StaleKnown, WalkPcs
    <3>3. RunningKind' /\ OutOfBand' /\ EffectRecorded' /\ AskedOnce'
      BY DEF RunningKind, OutOfBand, EffectRecorded, AskedOnce, Live
    <3> QED BY <3>2, <3>3
  <2> QED BY <1>2, <2>1, <2>2 DEF ReadRun
<1>3. ASSUME NEW s \in Step, FailStale(s) PROVE EffectInv'
  <2>1. CASE Refused /\ Release
    BY <1>3, <2>1, ReleaseInv DEF FailStale, Refused, Live
  <2>2. CASE Live /\ Patch(FailEntry(cp, s))
    <3> USE DEF EffectInv
    <3>1. /\ pc = "stale" /\ pc' \in {"stale", "fatal"} /\ stale' = stale \ {s}
          /\ UNCHANGED <<form, effect, copy>> /\ cp' = FailEntry(cp, s)
      BY <1>3, <2>2 DEF FailStale, Refused, Patch
    <3>2. FailEntry(cp, s).step = IF cp.step[s] = "none" THEN cp.step ELSE [cp.step EXCEPT ![s] = "failed"]
      BY SetStepType DEF FailEntry, StoreTypeOK, StepStatus
    <3>3. /\ \A t \in Step : t # s => cp'.step[t] = cp.step[t]
          /\ cp'.step[s] = IF cp.step[s] = "none" THEN "none" ELSE "failed"
      BY <3>1, <3>2 DEF StoreTypeOK, Checkpoint
    <3>4. WalkAgrees' /\ LeafRecord' /\ StaleKnown'
      BY <3>1, <3>3 DEF WalkAgrees, LeafRecord, StaleKnown, WalkPcs, Once
    <3>5. RunningKind' /\ OutOfBand'
      BY <1>3, <3>1, <3>3 DEF RunningKind, OutOfBand, Reached
    <3>6. EffectRecorded' /\ AskedOnce'
      BY <2>2, <3>1, <3>3 DEF EffectRecorded, AskedOnce, Once
    <3> QED BY <3>4, <3>5, <3>6
  <2> QED BY <1>3, <2>1, <2>2 DEF FailStale
<1>4. CASE StaleResolved
  <2> USE <1>4 DEF StaleResolved, EffectInv
  <2>1. WalkAgrees' /\ LeafRecord' /\ StaleKnown'
    BY DEF WalkAgrees, LeafRecord, StaleKnown, WalkPcs
  <2>2. RunningKind' /\ OutOfBand' /\ EffectRecorded' /\ AskedOnce'
    BY DEF RunningKind, OutOfBand, EffectRecorded, AskedOnce, Live
  <2> QED BY <2>1, <2>2
<1>5. CASE StartWalk
  <2> USE <1>5 DEF StartWalk, EffectInv
  <2>1. WalkAgrees' /\ LeafRecord' /\ StaleKnown'
    BY DEF WalkAgrees, LeafRecord, StaleKnown
  <2>2. RunningKind' /\ OutOfBand' /\ EffectRecorded' /\ AskedOnce'
    BY DEF RunningKind, OutOfBand, EffectRecorded, AskedOnce, Live
  <2> QED BY <2>1, <2>2
<1>6. CASE Walk
  BY <1>6, WalkInv
<1>7. CASE FinalizeWalk
  <2>1. cp'.step = cp.step /\ (~Live => ~Live') /\ (Live' => UNCHANGED form)
    BY <1>7, FinalizeSteps DEF FinalizeWalk, TerminalStatus
  <2> QED BY <1>7, <2>1, ReleaseInv DEF FinalizeWalk
<1> QED BY <1>1, <1>2, <1>3, <1>4, <1>5, <1>6, <1>7 DEF Advance

\* The ask_me verb.
LEMMA FormWalkInv ==
    ASSUME StoreTypeOK, AdvanceTypeOK, EffectInv, UNCHANGED <<task, due>>, FormWalk
    PROVE  EffectInv'
<1> USE DEF EffectInv
<1>1. AtLeaf /\ Cur \in Step /\ Cur' = Cur /\ Kind[Cur] = "ask_me" /\ UNCHANGED <<copy, stale>>
  BY MoveType DEF FormWalk, BeginForm, ParkForm, CancelPendingForRun, Dispatch, EnterLeaf, Stay,
     AdvanceTypeOK, LeafPcs, WalkPcs, Cur, Branches, LeafRecord
<1>2. CASE BeginForm
  <2>1. /\ pc = "walk" /\ pc' = "parkForm" /\ UNCHANGED <<status, cp>>
        /\ copy.step[Cur] \in {"none", "running"}
    BY <1>2 DEF BeginForm, Dispatch, EnterLeaf
  <2>2. cp.step[Cur] = "none"
    BY <1>1, <2>1 DEF RunningKind, WalkAgrees, WalkPcs, OnLeaf, LeafPcs
  <2>3. \A s \in Step : s # Cur => form'[s] = form[s] /\ effect'[s] = effect[s]
    BY <1>2 DEF BeginForm, StoreTypeOK, AdvanceTypeOK
  <2>4. /\ form'[Cur] = "pending"
        /\ effect'[Cur] = IF form[Cur] # "pending" /\ effect[Cur] < 2 THEN effect[Cur] + 1 ELSE effect[Cur]
    BY <1>1, <1>2 DEF BeginForm, StoreTypeOK, AdvanceTypeOK
  <2>5. WalkAgrees' /\ LeafRecord' /\ StaleKnown'
    BY <1>1, <2>1, <2>2 DEF WalkAgrees, LeafRecord, StaleKnown, OnLeaf, LeafPcs, WalkPcs
  <2>6. RunningKind' /\ OutOfBand'
    BY <1>1, <1>2, <2>1 DEF RunningKind, OutOfBand
  <2>7. EffectRecorded'
    BY <1>1, <2>1, <2>3 DEF EffectRecorded, Once
  <2>8. AskedOnce'
    <3>1. Live /\ Kind[Cur] = "ask_me" => form[Cur] \in {"none", "pending"}
      BY <1>1, <2>2 DEF AskedOnce, StoreTypeOK, FormStatus
    <3> QED BY <1>1, <2>1, <2>3, <2>4, <3>1 DEF AskedOnce, Live
  <2> QED BY <2>5, <2>6, <2>7, <2>8
<1>3. CASE ParkForm
  <2>1. pc = "parkForm" /\ UNCHANGED <<form, effect>>
    BY <1>3 DEF ParkForm, Stay
  <2>2. CASE Refused /\ pc' = "sweepForms"
    <3> USE <2>1, <2>2 DEF Refused
    <3>1. WalkAgrees' /\ LeafRecord' /\ StaleKnown'
      BY <1>1 DEF WalkAgrees, LeafRecord, StaleKnown, OnLeaf, LeafPcs, WalkPcs, Live
    <3>2. RunningKind' /\ OutOfBand' /\ EffectRecorded' /\ AskedOnce'
      BY <1>1 DEF RunningKind, OutOfBand, EffectRecorded, AskedOnce, Live
    <3> QED BY <3>1, <3>2
  <2>3. CASE Live /\ Patch(Recompute(SetStep(cp, Cur, "waiting", FALSE))) /\ pc' = "repark"
    <3>1. SetStep(cp, Cur, "waiting", FALSE) \in Checkpoint
          /\ SetStep(cp, Cur, "waiting", FALSE).step = [cp.step EXCEPT ![Cur] = "waiting"]
      BY <1>1, SetStepType DEF StoreTypeOK, StepStatus
    <3>2. cp'.step = [cp.step EXCEPT ![Cur] = "waiting"]
      BY <2>3, <3>1, RecomputeType DEF Patch
    <3>3. cp'.step[Cur] = "waiting" /\ \A s \in Step : s # Cur => cp'.step[s] = cp.step[s]
      BY <1>1, <3>2 DEF StoreTypeOK, Checkpoint
    <3>4. WalkAgrees'
      BY <1>1, <2>1, <2>3, <3>3 DEF WalkAgrees, OnLeaf, LeafPcs, WalkPcs
    <3>5. LeafRecord' /\ StaleKnown'
      BY <2>3 DEF LeafRecord, StaleKnown
    <3>6. RunningKind' /\ OutOfBand'
      BY <1>1, <1>3, <3>3 DEF RunningKind, OutOfBand, Reached
    <3>7. EffectRecorded' /\ AskedOnce'
      BY <2>1, <2>3, <3>3 DEF EffectRecorded, AskedOnce, Once
    <3> QED BY <3>4, <3>5, <3>6, <3>7
  <2> QED BY <1>3, <2>2, <2>3 DEF ParkForm
<1>4. CASE CancelPendingForRun
  <2> USE <1>4 DEF CancelPendingForRun, Stay
  <2>1. ~Live' /\ UNCHANGED <<cp, effect>>
    BY DEF LeafRecord, Live
  <2>2. WalkAgrees' /\ LeafRecord' /\ StaleKnown'
    BY <1>1 DEF WalkAgrees, LeafRecord, StaleKnown, OnLeaf, LeafPcs, WalkPcs
  <2>3. RunningKind' /\ OutOfBand' /\ EffectRecorded' /\ AskedOnce'
    BY <1>1, <2>1 DEF RunningKind, OutOfBand, EffectRecorded, AskedOnce
  <2> QED BY <2>2, <2>3
<1> QED BY <1>2, <1>3, <1>4 DEF FormWalk

\* The ask_agent verb inside the walk.
LEMMA AgentWalkInv ==
    ASSUME StoreTypeOK, AdvanceTypeOK, AgentTypeOK, EffectInv, UNCHANGED due, AgentWalk
    PROVE  EffectInv'
<1> USE DEF EffectInv
<1>1. CASE BeginAgent
  BY <1>1, CommitRunningInv DEF BeginAgent, agentVars
<1>2. CASE StartChat
  <2>1. /\ AtLeaf /\ Cur \in Step /\ Cur' = Cur /\ UNCHANGED <<storeVars, copy, stale, task>>
        /\ Kind[Cur] = "ask_agent" /\ Cur \in Once
    BY <1>2, MoveType DEF StartChat, AdvanceTypeOK, LeafPcs, WalkPcs, Cur, Branches, LeafRecord, Once
  <2>2. pc = "start" /\ pc' \in {"repark", "parkChat", "failed"}
    BY <1>2 DEF StartChat
  <2>3. /\ effect'[Cur] \in {0, 1}
        /\ \A s \in Step : s # Cur => effect'[s] = effect[s]
    <3>1. CASE pc' = "parkChat"
      BY <1>2, <2>1, <2>2, <3>1 DEF StartChat, AdvanceTypeOK, LeafRecord
    <3>2. CASE pc' # "parkChat"
      BY <1>2, <2>1, <2>2, <3>2 DEF StartChat, LeafRecord
    <3> QED BY <3>1, <3>2
  <2>4. WalkAgrees' /\ LeafRecord' /\ StaleKnown'
    BY <2>1, <2>2 DEF WalkAgrees, LeafRecord, StaleKnown, OnLeaf, LeafPcs, WalkPcs, storeVars
  <2>5. RunningKind' /\ OutOfBand'
    BY <2>1 DEF RunningKind, OutOfBand, storeVars
  <2>6. EffectRecorded'
    BY <2>1, <2>2, <2>3 DEF EffectRecorded, LeafRecord, storeVars, Once
  <2>7. AskedOnce'
    BY <2>1, <2>3 DEF AskedOnce, storeVars, Live
  <2> QED BY <2>4, <2>5, <2>6, <2>7
<1>3. CASE ParkChat
  <2>1. /\ AtLeaf /\ Cur \in Step /\ Cur' = Cur
        /\ UNCHANGED <<form, copy, effect, stale, task>> /\ pc = "parkChat"
        /\ Kind[Cur] = "ask_agent"
    BY <1>3, MoveType DEF ParkChat, Stay, AdvanceTypeOK, LeafPcs, WalkPcs, Cur, Branches, LeafRecord
  <2>2. CASE Refused /\ pc' = "repark"
    <3> USE <2>1, <2>2 DEF Refused
    <3>1. WalkAgrees' /\ LeafRecord' /\ StaleKnown'
      BY DEF WalkAgrees, LeafRecord, StaleKnown, OnLeaf, LeafPcs, WalkPcs
    <3>2. RunningKind' /\ OutOfBand' /\ EffectRecorded' /\ AskedOnce'
      BY DEF RunningKind, OutOfBand, EffectRecorded, AskedOnce, Live
    <3> QED BY <3>1, <3>2
  <2>3. CASE Live /\ Patch(Recompute(SetStep(cp, Cur, "waiting", Cur \in Timed))) /\ pc' = "register"
    <3>1. PICK timed \in BOOLEAN : timed = (Cur \in Timed)
      <4>1. (Cur \in Timed) = TRUE \/ (Cur \in Timed) = FALSE
        OBVIOUS
      <4>2. TRUE \in BOOLEAN /\ FALSE \in BOOLEAN
        OBVIOUS
      <4> QED BY <4>1, <4>2, Zenon
    <3>2. Patch(Recompute(SetStep(cp, Cur, "waiting", timed)))
      BY <2>3, <3>1, Zenon
    <3>3. PICK st \in StepStatus : st = "waiting"
      BY DEF StepStatus
    <3>4. SetStep(cp, Cur, st, timed) \in Checkpoint
          /\ SetStep(cp, Cur, st, timed).step = [cp.step EXCEPT ![Cur] = st]
      BY <2>1, SetStepType DEF StoreTypeOK
    <3>5. cp'.step = [cp.step EXCEPT ![Cur] = "waiting"]
      BY <3>2, <3>3, <3>4, RecomputeType DEF Patch
    <3>6. cp'.step[Cur] = "waiting" /\ \A s \in Step : s # Cur => cp'.step[s] = cp.step[s]
      BY <2>1, <3>5 DEF StoreTypeOK, Checkpoint
    <3>7. WalkAgrees'
      BY <2>1, <2>3, <3>6 DEF WalkAgrees, OnLeaf, LeafPcs, WalkPcs
    <3>8. LeafRecord' /\ StaleKnown'
      BY <2>1, <2>3, <3>6 DEF LeafRecord, StaleKnown, Reached
    <3>9. RunningKind' /\ OutOfBand'
      BY <1>3, <2>1, <3>6 DEF RunningKind, OutOfBand, Reached
    <3>10. EffectRecorded' /\ AskedOnce'
      BY <2>1, <2>3, <3>6 DEF EffectRecorded, AskedOnce, Once
    <3> QED BY <3>7, <3>8, <3>9, <3>10
  <2> QED BY <1>3, <2>2, <2>3 DEF ParkChat
<1>4. CASE Register
  <2>1. /\ AtLeaf /\ Cur \in Step /\ Cur' = Cur
        /\ UNCHANGED <<storeVars, copy, effect, stale>> /\ pc = "register" /\ pc' = "park"
        /\ Kind[Cur] = "ask_agent" /\ cp.step[Cur] \in Reached
    BY <1>4, MoveType DEF Register, Stay, AdvanceTypeOK, LeafPcs, WalkPcs, Cur, Branches, LeafRecord
  <2>2. \A s \in Step : s # Cur => task'[s] = task[s]
    BY <1>4 DEF Register, AgentTypeOK
  <2>3. WalkAgrees' /\ LeafRecord' /\ StaleKnown'
    BY <2>1 DEF WalkAgrees, LeafRecord, StaleKnown, OnLeaf, LeafPcs, WalkPcs, storeVars
  <2>4. RunningKind' /\ OutOfBand'
    BY <1>4, <2>1, <2>2 DEF RunningKind, OutOfBand, storeVars, Agents
  <2>5. EffectRecorded' /\ AskedOnce'
    BY <2>1 DEF EffectRecorded, AskedOnce, storeVars, Live
  <2> QED BY <2>3, <2>4, <2>5
<1> QED BY <1>1, <1>2, <1>3, <1>4 DEF AgentWalk

\* What settling a step that has waited writes, and to which status.
LEMMA OutsideWrite ==
    ASSUME StoreTypeOK, NEW s \in Step, cp.step[s] \in Reached, NEW c,
           c \in {SucceedEntry(cp, s), FailOutOfBand(cp, s)}, Patch(c)
    PROVE  /\ \E st \in {"succeeded", "failed"} : cp'.step = [cp.step EXCEPT ![s] = st]
           /\ status' \in LiveStatus
<1>1. cp.step[s] # "none" /\ cp \in Checkpoint
  BY DEF Reached, StoreTypeOK
<1>2. SucceedEntry(cp, s).step = [cp.step EXCEPT ![s] = "succeeded"]
  BY <1>1, SucceedEntryType
<1>3. FailOutOfBand(cp, s).step = FailEntry(cp, s).step
  BY <1>1, FailOutOfBandType
<1>4. FailEntry(cp, s).step = [cp.step EXCEPT ![s] = "failed"]
  BY <1>1, SetStepType DEF FailEntry, StepStatus
<1>5. c.step = [cp.step EXCEPT ![s] = "succeeded"] \/ c.step = [cp.step EXCEPT ![s] = "failed"]
  BY <1>2, <1>3, <1>4
<1> QED BY <1>5, DeriveLive DEF Patch

\* The settle path of an agent.
LEMMA SettleInv ==
    ASSUME StoreTypeOK, AdvanceTypeOK, AgentTypeOK, EffectInv, UNCHANGED due,
           NEW s \in Step, Settle(s)
    PROVE  EffectInv'
<1> USE DEF walkVars
<1>1. CASE Deliver(s)
  <2>1. UNCHANGED <<storeVars, walkVars, effect>>
    BY <1>1 DEF Deliver, advVars
  <2>2. OnlyReached
    BY <1>1 DEF Deliver, DropOutcome, AcceptOutcome, AcceptCorrected, Judge, EndTask, OnlyReached, AgentTypeOK
  <2> QED BY <2>1, <2>2, StutterInv DEF storeVars, Live
<1>2. ASSUME task[s] # "none", Live, UNCHANGED <<form, walkVars, effect>>,
             NEW c, c \in {SucceedEntry(cp, s), FailOutOfBand(cp, s)}, Patch(c),
             \A t \in Step : t # s => task'[t] = task[t]
      PROVE  EffectInv'
  <2>1. cp.step[s] \in Reached /\ s \in Agents
    BY <1>2 DEF EffectInv, OutOfBand
  <2>2. PICK st \in {"succeeded", "failed"} : cp'.step = [cp.step EXCEPT ![s] = st]
    BY <1>2, <2>1, OutsideWrite
  <2>3. status' \in LiveStatus
    BY <1>2, <2>1, OutsideWrite
  <2>4. OnlyReached
    BY <1>2, <2>1 DEF OnlyReached
  <2>5. Kind[s] # "run_action"
    BY <2>1 DEF Agents
  <2> QED BY <1>2, <2>1, <2>2, <2>3, <2>4, <2>5, SettledOutside
<1>3. ASSUME UNCHANGED <<storeVars, walkVars, effect>>, task[s] # "none",
             \A t \in Step : t # s => task'[t] = task[t]
      PROVE  EffectInv'
  <2>1. OnlyReached
    BY <1>3 DEF OnlyReached
  <2> QED BY <1>3, <2>1, StutterInv DEF storeVars, Live
<1>4. CASE SucceedWaitingStep(s)
  <2>1. \A t \in Step : t # s => task'[t] = task[t]
    BY <1>4 DEF SucceedWaitingStep, EndTask, AgentTypeOK
  <2>2. CASE Refused
    BY <1>3, <1>4, <2>1, <2>2 DEF SucceedWaitingStep, Refused, storeVars
  <2>3. CASE Live /\ Patch(SucceedEntry(cp, s))
    BY <1>2, <1>4, <2>1, <2>3 DEF SucceedWaitingStep
  <2> QED BY <1>4, <2>2, <2>3 DEF SucceedWaitingStep
<1>5. CASE FailWaitingStep(s)
  <2>1. \A t \in Step : t # s => task'[t] = task[t]
    BY <1>5 DEF FailWaitingStep, EndTask, AgentTypeOK
  <2>2. CASE Refused
    BY <1>3, <1>5, <2>1, <2>2 DEF FailWaitingStep, Refused, storeVars
  <2>3. CASE Live /\ Patch(FailOutOfBand(cp, s))
    BY <1>2, <1>5, <2>1, <2>3 DEF FailWaitingStep
  <2> QED BY <1>5, <2>2, <2>3 DEF FailWaitingStep
<1>6. CASE SettleFailRun(s)
  <2>1. OnlyReached
    BY <1>6 DEF SettleFailRun, EndTask, AgentTypeOK, OnlyReached
  <2>2. cp'.step = cp.step /\ (~Live => ~Live') /\ (Live' => UNCHANGED form)
    BY <1>6, FinalizeSteps DEF SettleFailRun, TerminalStatus
  <2> QED BY <1>6, <2>1, <2>2, StutterInv DEF SettleFailRun, advVars
<1> QED BY <1>1, <1>4, <1>5, <1>6 DEF Settle

\* The due-sweep.
LEMMA SweepInv ==
    ASSUME StoreTypeOK, AdvanceTypeOK, SweepTypeOK, EffectInv, UNCHANGED task, Sweep
    PROVE  EffectInv'
<1> USE DEF walkVars
<1>1. CASE SweepDue \/ SweepAdvanced \/ SweepRests
  <2>1. OnlyReached
    BY <1>1 DEF SweepDue, SweepAdvanced, SweepRests, OnlyReached, Waiting, Reached
  <2>2. UNCHANGED <<storeVars, walkVars, effect>>
    BY <1>1 DEF SweepDue, SweepAdvanced, SweepRests, advVars
  <2> QED BY <2>1, <2>2, StutterInv DEF storeVars, Live
<1>2. CASE SweepFailRun
  <2>1. OnlyReached
    BY <1>2 DEF SweepFailRun, OnlyReached
  <2>2. cp'.step = cp.step /\ (~Live => ~Live') /\ (Live' => UNCHANGED form)
    BY <1>2, FinalizeSteps DEF SweepFailRun, TerminalStatus
  <2> QED BY <1>2, <2>1, <2>2, StutterInv DEF SweepFailRun, advVars
<1>3. ASSUME NEW s \in Step, ResumeWait(s) \/ FailStep(s) PROVE EffectInv'
  <2>1. s \in due /\ due' = due \ {s} /\ UNCHANGED <<form, walkVars, effect>> /\ Kind[s] # "run_action"
    BY <1>3 DEF ResumeWait, FailStep
  <2>2. OnlyReached /\ cp.step[s] \in Reached
    BY <2>1 DEF OnlyReached, EffectInv, OutOfBand
  <2>3. CASE Refused
    BY <2>1, <2>2, <2>3, StutterInv DEF Refused, Live
  <2>4. CASE Live /\ \E c \in {SucceedEntry(cp, s), FailOutOfBand(cp, s)} : Patch(c)
    <3>1. PICK st \in {"succeeded", "failed"} : cp'.step = [cp.step EXCEPT ![s] = st]
      BY <2>2, <2>4, OutsideWrite
    <3>2. status' \in LiveStatus
      BY <2>2, <2>4, OutsideWrite
    <3> QED BY <2>1, <2>2, <2>4, <3>1, <3>2, SettledOutside
  <2>5. Refused \/ (Live /\ \E c \in {SucceedEntry(cp, s), FailOutOfBand(cp, s)} : Patch(c))
    BY <1>3 DEF ResumeWait, FailStep
  <2> QED BY <2>3, <2>4, <2>5
<1> QED BY <1>1, <1>2, <1>3 DEF Sweep

LEMMA RespondInv ==
    ASSUME StoreTypeOK, AdvanceTypeOK, EffectInv, UNCHANGED <<task, due>>, NEW s \in Step, Respond(s)
    PROVE  EffectInv'
<1>1. /\ Kind[s] = "ask_me" /\ form[s] = "pending" /\ Live /\ cp.step[s] # "none"
      /\ form' = [form EXCEPT ![s] = "answered"] /\ Patch(SucceedEntry(cp, s))
      /\ UNCHANGED <<walkVars, effect>>
  BY DEF Respond
<1>2. cp.step[s] \in Reached
  BY <1>1 DEF EffectInv, RunningKind, StoreTypeOK, Checkpoint, StepStatus, Reached
<1>3. PICK st \in {"succeeded", "failed"} : cp'.step = [cp.step EXCEPT ![s] = st]
  BY <1>1, <1>2, OutsideWrite
<1>4. status' \in LiveStatus
  BY <1>1, <1>2, OutsideWrite
<1>5. OnlyReached
  BY DEF OnlyReached
<1> QED BY <1>1, <1>2, <1>3, <1>4, <1>5, SettledOutside

\* The invariant holds of a fresh run and no step of anybody breaks it.
LEMMA EffectInvInit == Init => EffectInv
<1> SUFFICES ASSUME Init PROVE EffectInv
  OBVIOUS
<1> USE DEF Init, StoreInit, AdvanceInit, AgentInit, SweepInit, EmptyCheckpoint
<1>1. WalkAgrees /\ LeafRecord /\ StaleKnown
  BY DEF WalkAgrees, LeafRecord, StaleKnown, WalkPcs
<1>2. RunningKind /\ OutOfBand
  BY DEF RunningKind, OutOfBand
<1>3. EffectRecorded /\ AskedOnce
  BY DEF EffectRecorded, AskedOnce, Once
<1> QED BY <1>1, <1>2, <1>3 DEF EffectInv

LEMMA EffectInvNext ==
    ASSUME TypeOK, EffectInv, [Next]_vars
    PROVE  EffectInv'
<1> USE DEF TypeOK, storeVars, agentVars, sweepVars, ctlVars
<1>1. CASE AdvanceStep
  BY <1>1, AdvanceInv, FormWalkInv, AgentWalkInv DEF AdvanceStep
<1>2. CASE DropWalkStep
  BY <1>2, ReleaseInv DEF DropWalkStep, DropWalk, Live
<1>3. CASE SweepStep
  BY <1>3, SweepInv DEF SweepStep
<1>4. ASSUME UNCHANGED <<storeVars, walkVars, effect, task, due>> PROVE EffectInv'
  BY <1>4, StutterInv DEF OnlyReached, Live
<1>5. CASE CancelRequest \/ CancelPurge \/ BootDone
  BY <1>4, <1>5 DEF CancelRequest, CancelPurge, BootDone, advVars, walkVars
<1>6. CASE CancelFinalize
  <2>1. cp'.step = cp.step /\ (~Live => ~Live') /\ (Live' => UNCHANGED form)
    BY <1>6, FinalizeSteps DEF CancelFinalize, TerminalStatus
  <2>2. OnlyReached
    BY <1>6 DEF CancelFinalize, OnlyReached
  <2> QED BY <1>6, <2>1, <2>2, StutterInv DEF CancelFinalize, advVars, walkVars
<1>7. CASE Crash
  <2> USE <1>7 DEF Crash, EffectInv
  <2>1. WalkAgrees' /\ LeafRecord' /\ StaleKnown'
    BY DEF WalkAgrees, LeafRecord, StaleKnown, WalkPcs
  <2>2. RunningKind' /\ OutOfBand'
    BY DEF RunningKind, OutOfBand, EmptyCheckpoint
  <2>3. EffectRecorded' /\ AskedOnce'
    BY DEF EffectRecorded, AskedOnce, Live
  <2> QED BY <2>1, <2>2, <2>3
<1>8. CASE Boot
  <2>1. OnlyReached
    BY <1>8 DEF Boot, OnlyReached, Waiting, Reached
  <2> QED BY <1>8, <2>1, StutterInv DEF Boot, walkVars, Live
<1>9. ASSUME NEW s \in Step, SettleStep(s) PROVE EffectInv'
  BY <1>9, SettleInv DEF SettleStep
<1>10. ASSUME NEW s \in Step, RespondStep(s) PROVE EffectInv'
  BY <1>10, RespondInv DEF RespondStep
<1>11. ASSUME NEW s \in Step, AgentStep(s) \/ AgentFinishesUnheard(s) PROVE EffectInv'
  BY <1>4, <1>11 DEF AgentStep, AgentFinishes, AgentFinishesUnheard, advVars, walkVars
<1>12. ASSUME NEW s \in Step, DropRequest(s) PROVE EffectInv'
  <2>1. CASE lock = s /\ Release
    BY <1>12, <2>1, ReleaseInv DEF DropRequest, Live
  <2>2. CASE UNCHANGED <<lock, walkVars, signal>>
    BY <1>4, <1>12, <2>2 DEF DropRequest
  <2> QED BY <1>12, <2>1, <2>2 DEF DropRequest
<1>13. CASE UNCHANGED vars
  BY <1>4, <1>13 DEF vars, advVars, walkVars
<1> QED BY <1>1, <1>2, <1>3, <1>5, <1>6, <1>7, <1>8, <1>9, <1>10, <1>11, <1>12, <1>13
       DEF Next, Cancel

LEMMA EffectInvHolds == Spec => []EffectInv
<1>1. TypeOK /\ EffectInv /\ [Next]_vars => EffectInv'
  BY EffectInvNext
<1> QED BY <1>1, EffectInvInit, TypeCorrect, PTL DEF Spec

\* For every definition, any racing advance calls, cancels and crashes: no second
\* chat, no second run of an action that must not be repeated, and while the run
\* lives each question was asked once.
THEOREM EffectsOnce == Spec => []EffectAtMostOnce
<1>1. TypeOK /\ EffectInv => EffectAtMostOnce
  BY DEF EffectInv, EffectRecorded, AskedOnce, EffectAtMostOnce
<1> QED BY <1>1, TypeCorrect, EffectInvHolds, PTL

-----------------------------------------------------------------------------
(* The run implements its contract.                                        *)

Verdict == IF Live THEN "open" ELSE status
Phase == [s \in Step |-> PhaseOf(cp.step[s])]
Acted == {s \in Once : effect[s] > 0}
ContractStep == [Run!Next]_<<Verdict, Phase, Acted>>

LEMMA SameView ==
    ASSUME cp'.step = cp.step, UNCHANGED status, Acted' = Acted
    PROVE  ContractStep
BY DEF ContractStep, Verdict, Phase, Acted, Live

LEMMA ConcludeView ==
    ASSUME Live, status' \in TerminalStatus, cp'.step = cp.step, Acted' = Acted
    PROVE  ContractStep
<1>1. Verdict = "open" /\ Verdict' = status' /\ status' \in Run!Verdicts
  BY DEF Verdict, Live, LiveStatus, TerminalStatus, Run!Verdicts
<1>2. Phase' = Phase
  BY DEF Phase
<1>3. Run!Conclude(status')
  BY <1>1, <1>2 DEF Run!Conclude, Verdict, Phase, Acted
<1> QED BY <1>1, <1>3 DEF ContractStep, Run!Next

LEMMA ProgressView ==
    ASSUME StoreTypeOK, Live, Live', UNCHANGED effect, NEW s \in Step, NEW st \in StepStatus,
           cp'.step = [cp.step EXCEPT ![s] = st],
           \/ PhaseOf(st) = PhaseOf(cp.step[s])
           \/ PhaseOf(st) \in Run!Later(PhaseOf(cp.step[s]))
    PROVE  ContractStep
<1>1. Verdict = "open" /\ Verdict' = "open" /\ Acted' = Acted
  BY DEF Verdict, Acted
<1>2. \A t \in Step : cp'.step[t] = IF t = s THEN st ELSE cp.step[t]
  BY DEF StoreTypeOK, Checkpoint
<1>3. Phase' = [Phase EXCEPT ![s] = PhaseOf(st)]
  BY <1>2 DEF Phase
<1>4. Phase[s] = PhaseOf(cp.step[s])
  BY DEF Phase
<1>5. CASE PhaseOf(st) = PhaseOf(cp.step[s])
  <2>1. Phase' = Phase
    BY <1>2, <1>5 DEF Phase
  <2> QED BY <1>1, <2>1 DEF ContractStep
<1>6. CASE PhaseOf(st) \in Run!Later(PhaseOf(cp.step[s]))
  <2>1. Run!Progress(s)
    BY <1>1, <1>3, <1>4, <1>6 DEF Run!Progress, Verdict, Phase, Acted
  <2> QED BY <2>1 DEF ContractStep, Run!Next
<1> QED BY <1>5, <1>6

LEMMA ActView ==
    ASSUME AdvanceTypeOK, UNCHANGED <<status, cp>>, NEW s \in Step,
           effect[s] = 0, cp.step[s] = "running", effect'[s] = 1,
           \A t \in Step : t # s => effect'[t] = effect[t]
    PROVE  ContractStep
<1>1. Verdict' = Verdict /\ Phase' = Phase
  BY DEF Verdict, Phase, Live
<1>2. Phase[s] = "begun"
  BY DEF Phase, PhaseOf
<1>3. CASE s \in Once
  <2>1. s \notin Acted /\ Acted' = Acted \cup {s}
    BY <1>3 DEF Acted, Once
  <2>2. Run!Act(s)
    BY <1>1, <1>2, <1>3, <2>1 DEF Run!Act, Verdict, Phase, Acted
  <2> QED BY <2>2 DEF ContractStep, Run!Next
<1>4. CASE s \notin Once
  <2>1. Acted' = Acted
    BY <1>4 DEF Acted, Once
  <2> QED BY <1>1, <2>1 DEF ContractStep
<1> QED BY <1>3, <1>4

\* Any commit that settles a step, and any that parks or begins one in order.
LEMMA PatchView ==
    ASSUME StoreTypeOK, Live, UNCHANGED effect, NEW s \in Step, NEW c, Patch(c), NEW st \in StepStatus,
           c.step = [cp.step EXCEPT ![s] = st],
           \/ st \in {"succeeded", "failed"}
           \/ st = "waiting" /\ cp.step[s] \notin {"succeeded", "failed"}
           \/ st = "running" /\ cp.step[s] \in {"none", "running"}
    PROVE  ContractStep
<1>1. Live'
  BY DeriveLive DEF Patch, Live
<1>2. cp'.step = [cp.step EXCEPT ![s] = st]
  BY DEF Patch
<1>3. cp.step[s] \in StepStatus
  BY DEF StoreTypeOK, Checkpoint
<1>4. \/ PhaseOf(st) = PhaseOf(cp.step[s])
      \/ PhaseOf(st) \in Run!Later(PhaseOf(cp.step[s]))
  BY <1>3 DEF PhaseOf, Run!Later, StepStatus
<1> QED BY <1>1, <1>2, <1>4, ProgressView

LEMMA WaitView ==
    ASSUME StoreTypeOK, Live, UNCHANGED effect, NEW s \in Step, NEW timed \in BOOLEAN,
           Patch(Recompute(SetStep(cp, s, "waiting", timed))),
           cp.step[s] \notin {"succeeded", "failed"}
    PROVE  ContractStep
<1> DEFINE c == Recompute(SetStep(cp, s, "waiting", timed))
<1>1. c.step = [cp.step EXCEPT ![s] = "waiting"]
  BY WaitRecord DEF StoreTypeOK
<1>2. "waiting" \in StepStatus
  BY DEF StepStatus
<1>3. Patch(c)
  OBVIOUS
<1> HIDE DEF c
<1> QED BY <1>1, <1>2, <1>3, PatchView

LEMMA FinalizeView ==
    ASSUME StoreTypeOK, NEW v \in TerminalStatus, Finalize(v), UNCHANGED effect
    PROVE  ContractStep
<1>1. Acted' = Acted
  BY DEF Acted
<1>2. CASE Live /\ status' = v /\ cp' = [cp EXCEPT !.wake = FALSE]
  <2>1. cp'.step = cp.step
    BY <1>2 DEF StoreTypeOK, Checkpoint
  <2> QED BY <1>1, <1>2, <2>1, ConcludeView
<1>3. CASE Refused
  BY <1>1, <1>3, SameView DEF Refused
<1> QED BY <1>2, <1>3 DEF Finalize

\* A step that writes neither the record nor an effect.
LEMMA QuietView ==
    ASSUME UNCHANGED <<status, cp, effect>>
    PROVE  ContractStep
BY SameView DEF Acted

LEMMA CommitView ==
    ASSUME StoreTypeOK, NEW s \in Step, NEW c, NEW st \in StepStatus, UNCHANGED effect,
           Refused \/ (Live /\ Patch(c)),
           c.step = [cp.step EXCEPT ![s] = st],
           \/ st \in {"succeeded", "failed"}
           \/ st = "running" /\ cp.step[s] \in {"none", "running"}
    PROVE  ContractStep
<1>1. CASE Refused
  BY <1>1, QuietView DEF Refused
<1>2. CASE Live /\ Patch(c)
  BY <1>2, PatchView
<1> QED BY <1>1, <1>2

LEMMA CommitRunningView ==
    ASSUME StoreTypeOK, AdvanceTypeOK, EffectInv, NEW kind \in {"run_action", "ask_agent"},
           NEW next, CommitRunning(kind, next)
    PROVE  ContractStep
<1>1. Cur \in Step /\ pc = "walk" /\ copy.step[Cur] \in {"none", "running"} /\ Kind[Cur] = kind
  BY MoveType DEF CommitRunning, Dispatch, EnterLeaf
<1>2. cp.step[Cur] \in {"none", "running"}
  BY <1>1 DEF EffectInv, WalkAgrees, WalkPcs, OnLeaf, LeafPcs, Once
<1>3. "running" \in StepStatus
  BY DEF StepStatus
<1>4. SetStep(cp, Cur, "running", FALSE).step = [cp.step EXCEPT ![Cur] = "running"]
  <2>1. cp \in Checkpoint
    BY DEF StoreTypeOK
  <2> QED BY <1>1, <1>3, <2>1, SetStepType
<1>5. UNCHANGED effect /\ (Refused \/ (Live /\ Patch(SetStep(cp, Cur, "running", FALSE))))
  BY DEF CommitRunning, Commit
<1> QED BY <1>1, <1>2, <1>3, <1>4, <1>5, CommitView

\* A commit that leaves every step as it was.
LEMMA MarkView ==
    ASSUME StoreTypeOK, NEW outcome, MarkBranch(outcome)
    PROVE  ContractStep
<1> DEFINE c == [cp EXCEPT !.mark[Here] = outcome]
<1>1. c.step = cp.step
  BY DEF StoreTypeOK, Checkpoint
<1>2. UNCHANGED effect /\ (Refused \/ (Live /\ Patch(c)))
  BY DEF MarkBranch, Commit
<1> HIDE DEF c
<1>3. CASE Refused
  BY <1>2, <1>3, QuietView DEF Refused
<1>4. CASE Live /\ Patch(c)
  <2>1. Live' /\ cp'.step = cp.step
    BY <1>1, <1>4, DeriveLive DEF Patch, Live
  <2>2. Verdict' = Verdict /\ Phase' = Phase /\ Acted' = Acted
    BY <1>2, <1>4, <2>1 DEF Verdict, Phase, Acted
  <2> QED BY <2>2 DEF ContractStep
<1> QED BY <1>2, <1>3, <1>4

LEMMA WalkView ==
    ASSUME StoreTypeOK, AdvanceTypeOK, EffectInv, Walk
    PROVE  ContractStep
<1> USE DEF storeVars, Stay
<1>1. CASE SkipMarkedBranch \/ SkipSettledLeaf \/ ParkOnWaiting \/ LeafUnitEnd \/ WalkEnd \/ BeginWait
           \/ UnitEnd
  BY <1>1, QuietView DEF SkipMarkedBranch, SkipSettledLeaf, ParkOnWaiting, LeafUnitEnd, WalkEnd,
     BeginWait, UnitEnd
<1>2. CASE BeginAction
  BY <1>2, CommitRunningView DEF BeginAction
<1>3. CASE Act
  <2>1. /\ Cur \in Step /\ UNCHANGED <<status, cp>>
        /\ pc = "act" \/ (pc = "walk" /\ Kind[Cur] = "pure")
        /\ effect' = [effect EXCEPT ![Cur] = IF effect[Cur] < 2 THEN effect[Cur] + 1 ELSE effect[Cur]]
    BY <1>3, MoveType DEF Act, Dispatch, EnterLeaf, AdvanceTypeOK, LeafPcs, WalkPcs
  <2>2. CASE Cur \in Once
    <3>1. effect[Cur] = 0 /\ cp.step[Cur] = "running"
      BY <2>1, <2>2 DEF EffectInv, LeafRecord, Once
    <3>2. effect'[Cur] = 1 /\ \A t \in Step : t # Cur => effect'[t] = effect[t]
      BY <2>1, <3>1 DEF AdvanceTypeOK
    <3> QED BY <2>1, <3>1, <3>2, ActView
  <2>3. CASE Cur \notin Once
    <3>1. Acted' = Acted
      BY <2>1, <2>3 DEF Acted, Once, AdvanceTypeOK
    <3> QED BY <2>1, <3>1, SameView
  <2> QED BY <2>2, <2>3
<1>4. CASE CommitSucceeded \/ CommitFailed
  <2>1. Cur \in Step
    BY <1>4, MoveType DEF CommitSucceeded, CommitFailed, AdvanceTypeOK, LeafPcs, WalkPcs
  <2>2. PICK st \in {"succeeded", "failed"} :
           UNCHANGED effect /\ (Refused \/ (Live /\ Patch(SetStep(cp, Cur, st, FALSE))))
    BY <1>4 DEF CommitSucceeded, CommitFailed, Commit
  <2>3. st \in StepStatus
    BY DEF StepStatus
  <2>4. SetStep(cp, Cur, st, FALSE).step = [cp.step EXCEPT ![Cur] = st]
    BY <2>1, <2>3 DEF SetStep, StoreTypeOK, Checkpoint
  <2> QED BY <2>1, <2>2, <2>3, <2>4, CommitView
<1>5. CASE Park
  <2>1. Cur \in Step
    BY <1>5, MoveType DEF Park, AdvanceTypeOK, LeafPcs, WalkPcs
  <2>2. PICK timed \in BOOLEAN :
           UNCHANGED effect /\ (Refused \/ (Live /\ Patch(ParkStep(cp, Cur, timed))))
    BY <1>5 DEF Park, Commit
  <2>3. CASE Refused
    BY <2>2, <2>3, QuietView DEF Refused
  <2>4. CASE Live /\ Patch(ParkStep(cp, Cur, timed))
    <3>1. CASE Settled(cp.step[Cur])
      <4>1. cp' = cp /\ Live'
        BY <2>4, <3>1, DeriveLive DEF Patch, ParkStep, Live
      <4>2. Verdict' = Verdict /\ Phase' = Phase /\ Acted' = Acted
        BY <2>2, <2>4, <4>1 DEF Verdict, Phase, Acted
      <4> QED BY <4>2 DEF ContractStep
    <3>2. CASE ~Settled(cp.step[Cur])
      <4>1. Patch(Recompute(SetStep(cp, Cur, "waiting", timed)))
        BY <2>4, <3>2 DEF ParkStep
      <4>2. cp.step[Cur] \notin {"succeeded", "failed"}
        BY <3>2 DEF Settled
      <4> QED BY <2>1, <2>2, <2>4, <4>1, <4>2, WaitView
    <3> QED BY <3>1, <3>2
  <2> QED BY <2>2, <2>3, <2>4
<1>6. CASE MarkBranchFailed \/ MarkBranchDone
  BY <1>6, MarkView DEF MarkBranchFailed, MarkBranchDone
<1> QED BY <1>1, <1>2, <1>3, <1>4, <1>5, <1>6 DEF Walk

LEMMA AdvanceView ==
    ASSUME StoreTypeOK, AdvanceTypeOK, AgentTypeOK, EffectInv, AdvanceStep
    PROVE  ContractStep
<1> USE DEF storeVars, Stay
<1>1. ASSUME NEW c \in Callers, Acquire(c) PROVE ContractStep
  BY <1>1, QuietView DEF Acquire
<1>2. CASE ReadRun \/ StaleResolved \/ StartWalk
  BY <1>2, QuietView DEF ReadRun, StaleResolved, StartWalk
<1>3. ASSUME NEW s \in Step, FailStale(s) PROVE ContractStep
  <2>1. CASE Refused
    BY <1>3, <2>1, QuietView DEF FailStale, Refused
  <2>2. CASE Live /\ Patch(FailEntry(cp, s))
    <3>1. CASE cp.step[s] = "none"
      <4>1. cp' = cp /\ Live'
        BY <2>2, <3>1, DeriveLive DEF Patch, FailEntry, Live
      <4>2. Verdict' = Verdict /\ Phase' = Phase /\ Acted' = Acted
        BY <1>3, <2>2, <4>1 DEF Verdict, Phase, Acted, FailStale
      <4> QED BY <4>2 DEF ContractStep
    <3>2. CASE cp.step[s] # "none"
      <4>1. "failed" \in StepStatus
        BY DEF StepStatus
      <4>2. FailEntry(cp, s).step = [cp.step EXCEPT ![s] = "failed"]
        BY <3>2, FailEntryStep DEF StoreTypeOK
      <4> QED BY <1>3, <2>2, <4>1, <4>2, PatchView DEF FailStale
    <3> QED BY <3>1, <3>2
  <2> QED BY <1>3, <2>1, <2>2 DEF FailStale
<1>4. CASE Walk
  BY <1>4, WalkView
<1>5. CASE FinalizeWalk
  BY <1>5, FinalizeView DEF FinalizeWalk, TerminalStatus
<1>6. CASE FormWalk
  <2>1. Cur \in Step /\ Kind[Cur] = "ask_me"
    BY <1>6, MoveType DEF FormWalk, BeginForm, ParkForm, CancelPendingForRun, Dispatch, EnterLeaf,
       AdvanceTypeOK, LeafPcs, WalkPcs, EffectInv, LeafRecord
  <2>2. CASE BeginForm
    <3>1. Acted' = Acted
      BY <2>1, <2>2 DEF BeginForm, Acted, Once, AdvanceTypeOK
    <3> QED BY <2>2, <3>1, SameView DEF BeginForm
  <2>3. CASE ParkForm
    <3>1. UNCHANGED effect /\ pc = "parkForm"
      BY <2>3 DEF ParkForm
    <3>2. CASE Refused
      BY <3>1, <3>2, QuietView DEF Refused
    <3>3. CASE Live /\ Patch(Recompute(SetStep(cp, Cur, "waiting", FALSE)))
      <4>1. cp.step[Cur] = "none"
        BY <3>1 DEF EffectInv, LeafRecord
      <4> QED BY <2>1, <3>1, <3>3, <4>1, WaitView
    <3> QED BY <2>3, <3>2, <3>3 DEF ParkForm
  <2>4. CASE CancelPendingForRun
    BY <2>4, QuietView DEF CancelPendingForRun
  <2> QED BY <1>6, <2>2, <2>3, <2>4 DEF FormWalk
<1>7. CASE AgentWalk
  <2>1. CASE BeginAgent
    BY <2>1, CommitRunningView DEF BeginAgent
  <2>2. CASE StartChat
    <3>1. /\ Cur \in Step /\ cp.step[Cur] = "running" /\ effect[Cur] = 0 /\ UNCHANGED <<status, cp>>
      BY <2>2, MoveType DEF StartChat, AdvanceTypeOK, LeafPcs, WalkPcs, EffectInv, LeafRecord, Once
    <3>2. CASE pc' = "parkChat"
      <4>1. effect'[Cur] = 1 /\ \A t \in Step : t # Cur => effect'[t] = effect[t]
        BY <2>2, <3>1, <3>2 DEF StartChat, AdvanceTypeOK
      <4> QED BY <3>1, <4>1, ActView
    <3>3. CASE pc' # "parkChat"
      BY <2>2, <3>3, QuietView DEF StartChat
    <3> QED BY <3>2, <3>3
  <2>3. CASE ParkChat
    <3>1. Cur \in Step /\ cp.step[Cur] = "running" /\ UNCHANGED effect
      BY <2>3, MoveType DEF ParkChat, AdvanceTypeOK, LeafPcs, WalkPcs, EffectInv, LeafRecord
    <3>2. CASE Refused
      BY <3>1, <3>2, QuietView DEF Refused
    <3>3. CASE Live /\ Patch(Recompute(SetStep(cp, Cur, "waiting", Cur \in Timed)))
      <4>1. PICK timed \in BOOLEAN : timed = (Cur \in Timed)
        <5>1. (Cur \in Timed) = TRUE \/ (Cur \in Timed) = FALSE
          OBVIOUS
        <5>2. TRUE \in BOOLEAN /\ FALSE \in BOOLEAN
          OBVIOUS
        <5> QED BY <5>1, <5>2, Zenon
      <4>2. Patch(Recompute(SetStep(cp, Cur, "waiting", timed)))
        BY <3>3, <4>1, Zenon
      <4> QED BY <3>1, <3>3, <4>2, WaitView
    <3> QED BY <2>3, <3>2, <3>3 DEF ParkChat
  <2>4. CASE Register
    BY <2>4, QuietView DEF Register
  <2> QED BY <1>7, <2>1, <2>2, <2>3, <2>4 DEF AgentWalk
<1> QED BY <1>1, <1>2, <1>3, <1>4, <1>5, <1>6, <1>7 DEF AdvanceStep, Advance

\* A settle, a due entry or an answer.
LEMMA OutsideView ==
    ASSUME StoreTypeOK, EffectInv, NEW s \in Step, cp.step[s] \in Reached, UNCHANGED effect,
           Refused \/ (Live /\ \E c \in {SucceedEntry(cp, s), FailOutOfBand(cp, s)} : Patch(c))
    PROVE  ContractStep
<1>1. CASE Refused
  BY <1>1, QuietView DEF Refused
<1>2. CASE Live /\ \E c \in {SucceedEntry(cp, s), FailOutOfBand(cp, s)} : Patch(c)
  <2>1. PICK st \in {"succeeded", "failed"} : cp'.step = [cp.step EXCEPT ![s] = st]
    BY <1>2, OutsideWrite
  <2>2. st \in StepStatus /\ PhaseOf(st) = "settled" /\ cp.step[s] \in {"waiting", "succeeded", "failed"}
    BY DEF StepStatus, PhaseOf, Reached
  <2>3. \/ PhaseOf(st) = PhaseOf(cp.step[s])
        \/ PhaseOf(st) \in Run!Later(PhaseOf(cp.step[s]))
    BY <2>2 DEF PhaseOf, Run!Later
  <2>4. Live'
    BY <1>2, OutsideWrite DEF Live
  <2> QED BY <1>2, <2>1, <2>2, <2>3, <2>4, ProgressView
<1> QED BY <1>1, <1>2

LEMMA SettleView ==
    ASSUME StoreTypeOK, EffectInv, NEW s \in Step, Settle(s)
    PROVE  ContractStep
<1>1. CASE Deliver(s)
  BY <1>1, QuietView DEF Deliver, storeVars, advVars
<1>2. CASE SucceedWaitingStep(s) \/ FailWaitingStep(s)
  <2>1. cp.step[s] \in Reached
    BY <1>2 DEF SucceedWaitingStep, FailWaitingStep, EffectInv, OutOfBand
  <2>2. UNCHANGED effect /\ (Refused \/ (Live /\ \E c \in {SucceedEntry(cp, s), FailOutOfBand(cp, s)} : Patch(c)))
    BY <1>2 DEF SucceedWaitingStep, FailWaitingStep
  <2> QED BY <2>1, <2>2, OutsideView
<1>3. CASE SettleFailRun(s)
  BY <1>3, FinalizeView DEF SettleFailRun, TerminalStatus, advVars
<1> QED BY <1>1, <1>2, <1>3 DEF Settle

LEMMA SweepView ==
    ASSUME StoreTypeOK, EffectInv, Sweep
    PROVE  ContractStep
<1>1. CASE SweepDue \/ SweepAdvanced \/ SweepRests
  BY <1>1, QuietView DEF SweepDue, SweepAdvanced, SweepRests, storeVars, advVars
<1>2. CASE SweepFailRun
  BY <1>2, FinalizeView DEF SweepFailRun, TerminalStatus, advVars
<1>3. ASSUME NEW s \in Step, ResumeWait(s) \/ FailStep(s) PROVE ContractStep
  <2>1. cp.step[s] \in Reached
    BY <1>3 DEF ResumeWait, FailStep, EffectInv, OutOfBand
  <2>2. UNCHANGED effect /\ (Refused \/ (Live /\ \E c \in {SucceedEntry(cp, s), FailOutOfBand(cp, s)} : Patch(c)))
    BY <1>3 DEF ResumeWait, FailStep
  <2> QED BY <2>1, <2>2, OutsideView
<1> QED BY <1>1, <1>2, <1>3 DEF Sweep

LEMMA RespondView ==
    ASSUME StoreTypeOK, EffectInv, NEW s \in Step, Respond(s)
    PROVE  ContractStep
<1>1. cp.step[s] \in Reached
  BY DEF Respond, EffectInv, RunningKind, StoreTypeOK, Checkpoint, StepStatus, Reached
<1>2. UNCHANGED effect /\ (Refused \/ (Live /\ \E c \in {SucceedEntry(cp, s), FailOutOfBand(cp, s)} : Patch(c)))
  BY DEF Respond
<1> QED BY <1>1, <1>2, OutsideView

\* Every step of the run is a step of the contract or changes nothing it sees.
LEMMA ContractNext ==
    ASSUME TypeOK, EffectInv, [Next]_vars
    PROVE  ContractStep
<1> USE DEF TypeOK
<1>1. CASE AdvanceStep
  BY <1>1, AdvanceView
<1>2. CASE SweepStep
  BY <1>2, SweepView DEF SweepStep
<1>3. CASE CancelFinalize
  BY <1>3, FinalizeView DEF CancelFinalize, TerminalStatus, advVars
<1>4. CASE DropWalkStep \/ CancelRequest \/ CancelPurge \/ Crash \/ Boot \/ BootDone \/ UNCHANGED vars
  BY <1>4, QuietView DEF DropWalkStep, DropWalk, CancelRequest, CancelPurge, Crash, Boot, BootDone,
     vars, storeVars, advVars
<1>5. ASSUME NEW s \in Step, SettleStep(s) \/ RespondStep(s) PROVE ContractStep
  BY <1>5, SettleView, RespondView DEF SettleStep, RespondStep
<1>6. ASSUME NEW s \in Step, AgentStep(s) \/ DropRequest(s) \/ AgentFinishesUnheard(s) PROVE ContractStep
  BY <1>6, QuietView DEF AgentStep, AgentFinishes, DropRequest, AgentFinishesUnheard, storeVars, advVars
<1> QED BY <1>1, <1>2, <1>3, <1>4, <1>5, <1>6 DEF Next, Cancel

LEMMA ContractInit == Init => Run!Init
<1> SUFFICES ASSUME Init PROVE Run!Init
  OBVIOUS
<1>1. Live /\ \A s \in Step : PhaseOf(cp.step[s]) = "idle"
  BY DEF Init, StoreInit, EmptyCheckpoint, PhaseOf, Live, LiveStatus
<1>2. {s \in Once : effect[s] > 0} = {}
  BY DEF Init, AdvanceInit, Once
<1> QED BY <1>1, <1>2 DEF Run!Init

\* The engine keeps its contract with every definition: steps only move forward,
\* an effect follows its mark and happens once, one verdict ends the record.
THEOREM ContractKept == Spec => KeepsContract
<1>1. TypeOK /\ EffectInv /\ [Next]_vars => ContractStep
  BY ContractNext
<1> QED BY <1>1, ContractInit, TypeCorrect, EffectInvHolds, PTL
        DEF Spec, KeepsContract, Run!Spec, ContractStep, Verdict, Phase, Acted

-----------------------------------------------------------------------------
(* A8, the guard of every transaction.                                     *)

LEMMA NothingAfterVerdict ==
    ASSUME ~Live, [Next]_vars
    PROVE  UNCHANGED <<status, cp>>
<1> USE DEF storeVars, Stay, Refused, Finalize
<1>1. CASE AdvanceStep
  <2>1. CASE Advance
    BY <1>1, <2>1 DEF Advance, Acquire, ReadRun, FailStale, StaleResolved, StartWalk, FinalizeWalk,
       Walk, SkipMarkedBranch, SkipSettledLeaf, ParkOnWaiting, BeginAction, CommitRunning, Commit, Act,
       CommitSucceeded, CommitFailed, BeginWait, Park, MarkBranchFailed, MarkBranchDone, MarkBranch,
       LeafUnitEnd, UnitEnd, WalkEnd
  <2>2. CASE FormWalk
    BY <1>1, <2>2 DEF FormWalk, BeginForm, ParkForm, CancelPendingForRun
  <2>3. CASE AgentWalk
    BY <1>1, <2>3 DEF AgentWalk, BeginAgent, CommitRunning, Commit, StartChat, ParkChat, Register
  <2> QED BY <1>1, <2>1, <2>2, <2>3 DEF AdvanceStep
<1>2. CASE SweepStep
  BY <1>2 DEF SweepStep, Sweep, SweepDue, SweepFailRun, SweepAdvanced, SweepRests, ResumeWait, FailStep
<1>3. CASE DropWalkStep \/ Cancel \/ Crash \/ Boot \/ BootDone \/ UNCHANGED vars
  BY <1>3 DEF DropWalkStep, DropWalk, Cancel, CancelRequest, CancelFinalize, CancelPurge, Crash, Boot,
     BootDone, vars
<1>4. ASSUME NEW s \in Step, SettleStep(s) \/ RespondStep(s) PROVE UNCHANGED <<status, cp>>
  BY <1>4 DEF SettleStep, Settle, Deliver, SucceedWaitingStep, FailWaitingStep, SettleFailRun,
     RespondStep, Respond
<1>5. ASSUME NEW s \in Step, AgentStep(s) \/ DropRequest(s) \/ AgentFinishesUnheard(s)
      PROVE UNCHANGED <<status, cp>>
  BY <1>5 DEF AgentStep, AgentFinishes, DropRequest, AgentFinishesUnheard
<1> QED BY <1>1, <1>2, <1>3, <1>4, <1>5 DEF Next

\* Once the run has its verdict, neither it nor the checkpoint changes: no settle,
\* sweep, answer, cancel or late commit of a walk gets past the guard.
THEOREM VerdictFinal == Spec => TerminalIsFinal
<1>1. [Next]_vars => [~Live => UNCHANGED <<status, cp>>]_vars
  BY NothingAfterVerdict
<1> QED BY <1>1, PTL DEF Spec, TerminalIsFinal

-----------------------------------------------------------------------------
(* The pre-filter of the due-sweep.  Only the writes that may touch a      *)
(* waiting entry recompute wake_at; the others are safe because whoever    *)
(* makes them knows that the entry does not wait.                          *)

\* The entries that a write without recompute is about do not wait.
WriterKnows ==
    /\ pc = "stale" => \A s \in stale : cp.step[s] # "waiting"
    /\ pc \in {"committed", "failed"} => cp.step[Cur] # "waiting"

WakeInv == WriterKnows /\ PrefilterExact

\* Nobody outside the walk makes a step wait.
LEMMA KnowsOutside ==
    ASSUME WriterKnows, UNCHANGED walkVars,
           \/ cp'.step = cp.step
           \/ /\ StoreTypeOK
              /\ \E s \in Step, st \in {"succeeded", "failed"} : cp'.step = [cp.step EXCEPT ![s] = st]
    PROVE  WriterKnows'
<1> USE SameLeaf DEF walkVars
<1>1. CASE cp'.step = cp.step
  BY <1>1 DEF WriterKnows
<1>2. CASE /\ StoreTypeOK
           /\ \E s \in Step, st \in {"succeeded", "failed"} : cp'.step = [cp.step EXCEPT ![s] = st]
  <2>1. PICK s \in Step, st \in {"succeeded", "failed"} : cp'.step = [cp.step EXCEPT ![s] = st]
    BY <1>2
  <2>2. cp.step \in [Step -> StepStatus]
    BY <1>2 DEF StoreTypeOK, Checkpoint
  <2>3. \A t : cp'.step[t] = cp.step[t] \/ cp'.step[t] = st \/ t \notin Step
    BY <2>1, <2>2
  <2>4. \A t : t \notin Step => cp'.step[t] = cp.step[t] \/ t \notin DOMAIN cp'.step
    BY <2>1, <2>2
  <2> QED BY <2>1, <2>2, <2>3, <2>4 DEF WriterKnows
<1> QED BY <1>1, <1>2

\* A record that is not written keeps its wake_at, and a run with a verdict has none to keep.
LEMMA WakeKept ==
    ASSUME PrefilterExact, ~Live' \/ (UNCHANGED cp /\ Live)
    PROVE  PrefilterExact'
BY DEF PrefilterExact, Waiting

\* A write that ends in a recompute leaves wake_at exact.
LEMMA WakeRecomputed ==
    ASSUME NEW c \in Checkpoint, Patch(Recompute(c))
    PROVE  PrefilterExact'
<1> DEFINE some == Waiting(c) \cap c.timer # {}
<1>1. cp' = [c EXCEPT !.wake = some]
  BY DEF Patch, Recompute
<1>2. some \in BOOLEAN
  OBVIOUS
<1>3. cp'.step = c.step /\ cp'.timer = c.timer
  BY <1>1 DEF Checkpoint
<1>4. cp'.wake = some
  <2> HIDE DEF some
  <2> QED BY <1>1 DEF Checkpoint
<1>5. Waiting(cp)' = Waiting(c)
  BY <1>3 DEF Waiting
<1>6. (Waiting(cp)' \cap cp'.timer # {}) <=> some
  BY <1>3, <1>5
<1> HIDE DEF some
<1> QED BY <1>4, <1>6 DEF PrefilterExact

\* So does one that only touches an entry that does not wait.
LEMMA WakeUntouched ==
    ASSUME StoreTypeOK, Live, PrefilterExact, NEW s \in Step, cp.step[s] # "waiting",
           NEW st \in {"running", "succeeded", "failed"}, Patch(SetStep(cp, s, st, FALSE))
    PROVE  PrefilterExact'
<1>1. /\ cp' = [cp EXCEPT !.step[s] = st, !.timer = @ \ {s}]
      /\ cp \in Checkpoint
  BY DEF Patch, SetStep, StoreTypeOK
<1>2. /\ cp'.wake = cp.wake /\ cp'.timer = cp.timer \ {s}
      /\ cp'.step = [cp.step EXCEPT ![s] = st]
  BY <1>1 DEF Checkpoint
<1>3. Waiting(cp)' = Waiting(cp) /\ s \notin Waiting(cp)
  BY <1>1, <1>2 DEF Waiting, Checkpoint
<1>4. Waiting(cp)' \cap cp'.timer = Waiting(cp) \cap cp.timer
  BY <1>2, <1>3
<1> QED BY <1>2, <1>4 DEF PrefilterExact

\* A commit that the verdict refuses, or that leaves wake_at exact.
LEMMA WakeRefused ==
    ASSUME PrefilterExact, Refused
    PROVE  PrefilterExact'
BY WakeKept DEF Refused, Live

\* A commit that only touches an entry that does not wait, if it is not refused.
LEMMA CommitWake ==
    ASSUME StoreTypeOK, PrefilterExact, NEW s \in Step, cp.step[s] # "waiting",
           NEW st \in {"running", "succeeded", "failed"},
           Refused \/ (Live /\ Patch(SetStep(cp, s, st, FALSE)))
    PROVE  PrefilterExact'
BY WakeUntouched, WakeRefused

\* A commit that parks a step.
LEMMA ParkWake ==
    ASSUME StoreTypeOK, PrefilterExact, NEW s \in Step, NEW timed \in BOOLEAN,
           Patch(Recompute(SetStep(cp, s, "waiting", timed)))
    PROVE  PrefilterExact'
<1>1. SetStep(cp, s, "waiting", timed) \in Checkpoint
  BY DEF SetStep, StoreTypeOK, Checkpoint, StepStatus
<1> QED BY <1>1, WakeRecomputed

\* A settle, a due entry or an answer.
LEMMA OutsideWake ==
    ASSUME StoreTypeOK, PrefilterExact, NEW s \in Step,
           Refused \/ (Live /\ \E c \in {SucceedEntry(cp, s), FailOutOfBand(cp, s)} : Patch(c))
    PROVE  PrefilterExact'
<1> DEFINE won == IF cp.step[s] = "none" THEN cp ELSE SetStep(cp, s, "succeeded", FALSE)
           lost == IF s \in KeepGoing THEN FailEntry(cp, s)
                   ELSE FailEnclosingBranch(FailEntry(cp, s), s)
<1>1. won \in Checkpoint
  BY SetStepType DEF StoreTypeOK, StepStatus
<1>2. FailEntry(cp, s) \in Checkpoint
  BY FailEntryType DEF StoreTypeOK
<1>3. lost \in Checkpoint
  BY <1>2, SlotOfStep DEF FailEnclosingBranch, Checkpoint
<1>4. SucceedEntry(cp, s) = Recompute(won) /\ FailOutOfBand(cp, s) = Recompute(lost)
  BY DEF SucceedEntry, FailOutOfBand
<1> HIDE DEF won, lost
<1>5. CASE Patch(Recompute(won)) \/ Patch(Recompute(lost))
  BY <1>1, <1>3, <1>5, WakeRecomputed
<1> QED BY <1>4, <1>5, WakeRefused

\* A verdict ends the matter.
LEMMA FinalizeDead ==
    ASSUME NEW v \in TerminalStatus, Finalize(v)
    PROVE  ~Live'
BY DEF Finalize, Refused, Live, LiveStatus, TerminalStatus

\* The walk is where no such write is due.
LEMMA KnowsElsewhere ==
    ASSUME pc' \notin {"stale", "committed", "failed"}
    PROVE  WriterKnows'
BY DEF WriterKnows

\* A step that writes no record and leads to no such write.
LEMMA QuietWake ==
    ASSUME WakeInv, UNCHANGED storeVars, UNCHANGED walkVars \/ pc' \notin {"stale", "committed", "failed"}
    PROVE  WakeInv'
<1>1. PrefilterExact'
  BY WakeKept DEF WakeInv, storeVars, Live
<1>2. WriterKnows'
  BY KnowsElsewhere, KnowsOutside DEF WakeInv, storeVars
<1> QED BY <1>1, <1>2 DEF WakeInv

LEMMA CommitRunningWake ==
    ASSUME StoreTypeOK, AdvanceTypeOK, EffectInv, WakeInv, NEW kind \in {"run_action", "ask_agent"},
           NEW next \in {"act", "start"}, CommitRunning(kind, next)
    PROVE  WakeInv'
<1>1. Cur \in Step /\ pc = "walk" /\ copy.step[Cur] \in {"none", "running"} /\ Kind[Cur] = kind
  BY MoveType DEF CommitRunning, Dispatch, EnterLeaf
<1>2. cp.step[Cur] # "waiting"
  BY <1>1 DEF EffectInv, WalkAgrees, WalkPcs, OnLeaf, LeafPcs, Once
<1>3. Refused \/ (Live /\ Patch(SetStep(cp, Cur, "running", FALSE)))
  BY DEF CommitRunning, Commit
<1>4. PrefilterExact'
  BY <1>1, <1>2, <1>3, CommitWake DEF WakeInv
<1>5. WriterKnows'
  BY KnowsElsewhere DEF CommitRunning, Commit, Release
<1> QED BY <1>4, <1>5 DEF WakeInv

LEMMA WalkWake ==
    ASSUME StoreTypeOK, AdvanceTypeOK, EffectInv, WakeInv, Walk
    PROVE  WakeInv'
<1> USE DEF Stay
<1>1. CASE SkipMarkedBranch \/ SkipSettledLeaf \/ ParkOnWaiting \/ LeafUnitEnd \/ WalkEnd \/ BeginWait
           \/ UnitEnd
  BY <1>1, QuietWake DEF SkipMarkedBranch, SkipSettledLeaf, ParkOnWaiting, EnterLeaf, LeafUnitEnd,
     BranchEnd, WalkEnd, BeginWait, UnitEnd, Release
<1>2. CASE BeginAction
  BY <1>2, CommitRunningWake DEF BeginAction
<1>3. CASE Act
  <2>1. /\ Cur \in Step /\ Cur' = Cur /\ UNCHANGED storeVars /\ pc' \in {"committed", "failed"}
        /\ \/ pc = "act"
           \/ pc = "walk" /\ Kind[Cur] = "pure" /\ copy.step[Cur] \in {"none", "running"}
    BY <1>3, MoveType DEF Act, Dispatch, EnterLeaf, AdvanceTypeOK, LeafPcs, WalkPcs, Cur, Branches
  <2>2. cp.step[Cur] # "waiting"
    BY <2>1 DEF EffectInv, WalkAgrees, LeafRecord, RunningKind, OnLeaf, LeafPcs, WalkPcs
  <2>3. WriterKnows'
    BY <2>1, <2>2 DEF WriterKnows, storeVars
  <2>4. PrefilterExact'
    BY <2>1, WakeKept DEF WakeInv, storeVars, Live
  <2> QED BY <2>3, <2>4 DEF WakeInv
<1>4. CASE CommitSucceeded \/ CommitFailed
  <2>1. Cur \in Step /\ cp.step[Cur] # "waiting"
    BY <1>4, MoveType DEF CommitSucceeded, CommitFailed, AdvanceTypeOK, LeafPcs, WalkPcs, WakeInv, WriterKnows
  <2>2. PICK st \in {"succeeded", "failed"} :
           Refused \/ (Live /\ Patch(SetStep(cp, Cur, st, FALSE)))
    BY <1>4 DEF CommitSucceeded, CommitFailed, Commit
  <2>3. PrefilterExact'
    BY <2>1, <2>2, CommitWake DEF WakeInv
  <2>4. WriterKnows'
    BY <1>4, KnowsElsewhere DEF CommitSucceeded, CommitFailed, Commit, AfterFailure, Release
  <2> QED BY <2>3, <2>4 DEF WakeInv
<1>5. CASE Park
  <2>1. Cur \in Step
    BY <1>5, MoveType DEF Park, AdvanceTypeOK, LeafPcs, WalkPcs
  <2>2. PICK timed \in BOOLEAN : Refused \/ (Live /\ Patch(ParkStep(cp, Cur, timed)))
    BY <1>5 DEF Park, Commit
  <2>3. WriterKnows'
    BY <1>5, KnowsElsewhere DEF Park, Commit, Release
  <2>4. CASE Refused
    BY <2>3, <2>4, WakeRefused DEF WakeInv
  <2>5. CASE Live /\ Patch(ParkStep(cp, Cur, timed))
    <3>1. CASE Settled(cp.step[Cur])
      <4>1. UNCHANGED cp
        BY <2>5, <3>1 DEF Patch, ParkStep
      <4> QED BY <2>3, <2>5, <4>1, WakeKept DEF WakeInv
    <3>2. CASE ~Settled(cp.step[Cur])
      <4>1. Patch(Recompute(SetStep(cp, Cur, "waiting", timed)))
        BY <2>5, <3>2 DEF ParkStep
      <4> QED BY <2>1, <2>3, <4>1, ParkWake DEF WakeInv
    <3> QED BY <3>1, <3>2
  <2> QED BY <2>2, <2>4, <2>5
<1>6. ASSUME NEW outcome, MarkBranch(outcome) PROVE WakeInv'
  <2>1. WriterKnows'
    BY <1>6, KnowsElsewhere DEF MarkBranch, Commit, Release
  <2>2. CASE Live /\ Patch([cp EXCEPT !.mark[Here] = outcome])
    <3>1. cp'.step = cp.step /\ cp'.timer = cp.timer /\ cp'.wake = cp.wake
      BY <2>2 DEF Patch, StoreTypeOK, Checkpoint
    <3> QED BY <2>1, <2>2, <3>1 DEF WakeInv, PrefilterExact, Waiting
  <2> QED BY <1>6, <2>1, <2>2, WakeRefused DEF MarkBranch, Commit, WakeInv
<1> QED BY <1>1, <1>2, <1>3, <1>4, <1>5, <1>6 DEF Walk, MarkBranchFailed, MarkBranchDone

\* A step of advance(), or of a verb it dispatched.
LEMMA AdvanceWake ==
    ASSUME StoreTypeOK, AdvanceTypeOK, EffectInv, WakeInv, AdvanceStep
    PROVE  WakeInv'
<1> USE DEF Stay
<1>1. CASE \/ \E c \in Callers : Acquire(c)
           \/ StaleResolved \/ StartWalk \/ BeginForm \/ CancelPendingForRun \/ Register
  <2>1. UNCHANGED <<status, cp>> /\ pc' \notin {"stale", "committed", "failed"}
    BY <1>1 DEF Acquire, StaleResolved, StartWalk, BeginForm, CancelPendingForRun, Register, storeVars
  <2>2. PrefilterExact'
    BY <2>1, WakeKept DEF WakeInv, Live
  <2> QED BY <2>1, <2>2, KnowsElsewhere DEF WakeInv
<1>2. CASE ReadRun
  <2>1. CASE Live
    <3>1. PrefilterExact'
      BY <1>2, <2>1, WakeKept DEF ReadRun, WakeInv, storeVars
    <3>2. WriterKnows'
      BY <1>2, <2>1 DEF ReadRun, WriterKnows, storeVars
    <3> QED BY <3>1, <3>2 DEF WakeInv
  <2>2. CASE ~Live
    BY <1>2, <2>2, QuietWake DEF ReadRun, Release
  <2> QED BY <2>1, <2>2
<1>3. ASSUME NEW s \in Step, FailStale(s) PROVE WakeInv'
  <2>1. cp.step[s] # "waiting" /\ \A t \in stale : cp.step[t] # "waiting"
    BY <1>3 DEF FailStale, WakeInv, WriterKnows
  <2>2. CASE Refused /\ Release
    BY <2>2, WakeRefused, KnowsElsewhere DEF Release, WakeInv
  <2>3. CASE /\ Live /\ Patch(FailEntry(cp, s)) /\ stale' = stale \ {s} /\ pc' \in {"stale", "fatal"}
    <3>1. CASE cp.step[s] = "none"
      <4>1. UNCHANGED cp
        BY <2>3, <3>1 DEF Patch, FailEntry
      <4> QED BY <2>1, <2>3, <4>1, WakeKept DEF WakeInv, WriterKnows
    <3>2. CASE cp.step[s] # "none"
      <4>1. Patch(SetStep(cp, s, "failed", FALSE))
        BY <2>3, <3>2 DEF FailEntry
      <4>2. PrefilterExact'
        BY <2>1, <2>3, <4>1, CommitWake DEF WakeInv
      <4>3. \A t \in stale : cp'.step[t] = cp.step[t] \/ cp'.step[t] = "failed"
        BY <4>1 DEF Patch, SetStep, StoreTypeOK, AdvanceTypeOK, Checkpoint
      <4>4. WriterKnows'
        BY <2>1, <2>3, <4>3 DEF WriterKnows
      <4> QED BY <4>2, <4>4 DEF WakeInv
    <3> QED BY <3>1, <3>2
  <2> QED BY <1>3, <2>2, <2>3 DEF FailStale
<1>4. CASE Walk
  BY <1>4, WalkWake
<1>5. CASE FinalizeWalk
  <2>1. ~Live'
    BY <1>5, FinalizeDead DEF FinalizeWalk, TerminalStatus
  <2> QED BY <1>5, <2>1, WakeKept, KnowsElsewhere DEF FinalizeWalk, Release, WakeInv
<1>6. CASE ParkForm
  <2>1. Cur \in Step /\ WriterKnows'
    BY <1>6, MoveType, KnowsElsewhere DEF ParkForm, AdvanceTypeOK, LeafPcs, WalkPcs
  <2>2. CASE Refused
    BY <2>1, <2>2, WakeRefused DEF WakeInv
  <2>3. CASE Patch(Recompute(SetStep(cp, Cur, "waiting", FALSE)))
    BY <2>1, <2>3, ParkWake DEF WakeInv
  <2> QED BY <1>6, <2>2, <2>3 DEF ParkForm
<1>7. CASE BeginAgent
  BY <1>7, CommitRunningWake DEF BeginAgent
<1>8. CASE StartChat
  <2>1. cp.step[Cur] = "running" /\ Cur' = Cur /\ UNCHANGED storeVars /\ pc' # "stale"
    BY <1>8 DEF StartChat, EffectInv, LeafRecord, Cur, Branches
  <2>2. WriterKnows'
    BY <2>1 DEF WriterKnows, storeVars
  <2>3. PrefilterExact'
    BY <2>1, WakeKept DEF WakeInv, storeVars, Live
  <2> QED BY <2>2, <2>3 DEF WakeInv
<1>9. CASE ParkChat
  <2>1. Cur \in Step /\ WriterKnows'
    BY <1>9, MoveType, KnowsElsewhere DEF ParkChat, AdvanceTypeOK, LeafPcs, WalkPcs
  <2>2. CASE Refused
    BY <2>1, <2>2, WakeRefused DEF WakeInv
  <2>3. CASE Patch(Recompute(SetStep(cp, Cur, "waiting", Cur \in Timed)))
    <3>1. PICK timed \in BOOLEAN : timed = (Cur \in Timed)
      <4>1. (Cur \in Timed) = TRUE \/ (Cur \in Timed) = FALSE
        OBVIOUS
      <4>2. TRUE \in BOOLEAN /\ FALSE \in BOOLEAN
        OBVIOUS
      <4> QED BY <4>1, <4>2, Zenon
    <3>2. Patch(Recompute(SetStep(cp, Cur, "waiting", timed)))
      BY <2>3, <3>1, Zenon
    <3> QED BY <2>1, <3>2, ParkWake DEF WakeInv
  <2> QED BY <1>9, <2>2, <2>3 DEF ParkChat
<1> QED BY <1>1, <1>2, <1>3, <1>4, <1>5, <1>6, <1>7, <1>8, <1>9
       DEF AdvanceStep, Advance, FormWalk, AgentWalk

\* A settle, a due entry or an answer next to the walk.
LEMMA BesideWake ==
    ASSUME StoreTypeOK, WakeInv, UNCHANGED walkVars, NEW s \in Step, cp.step[s] \in Reached,
           Refused \/ (Live /\ \E c \in {SucceedEntry(cp, s), FailOutOfBand(cp, s)} : Patch(c))
    PROVE  WakeInv'
<1>1. PrefilterExact'
  BY OutsideWake DEF WakeInv
<1>2. CASE Refused
  BY <1>1, <1>2, KnowsOutside DEF Refused, WakeInv
<1>3. CASE Live /\ \E c \in {SucceedEntry(cp, s), FailOutOfBand(cp, s)} : Patch(c)
  <2>1. \E st \in {"succeeded", "failed"} : cp'.step = [cp.step EXCEPT ![s] = st]
    BY <1>3, OutsideWrite
  <2> QED BY <1>1, <2>1, KnowsOutside DEF WakeInv
<1> QED BY <1>2, <1>3

\* The verdict of a settle, the sweep or a cancel.
LEMMA VerdictWake ==
    ASSUME StoreTypeOK, WakeInv, UNCHANGED walkVars, NEW v \in TerminalStatus, Finalize(v)
    PROVE  WakeInv'
<1>1. ~Live' /\ cp'.step = cp.step
  BY FinalizeDead, FinalizeSteps
<1> QED BY <1>1, WakeKept, KnowsOutside DEF WakeInv

LEMMA WakeInvNext ==
    ASSUME TypeOK, EffectInv, WakeInv, [Next]_vars
    PROVE  WakeInv'
<1> USE DEF TypeOK, advVars
<1>1. CASE AdvanceStep
  BY <1>1, AdvanceWake
<1>2. ASSUME UNCHANGED storeVars, UNCHANGED walkVars \/ Release \/ pc' = "idle" PROVE WakeInv'
  BY <1>2, QuietWake DEF Release
<1>3. CASE DropWalkStep \/ CancelRequest \/ CancelPurge \/ Crash \/ Boot \/ BootDone \/ UNCHANGED vars
  BY <1>2, <1>3 DEF DropWalkStep, DropWalk, CancelRequest, CancelPurge, Crash, Boot, BootDone, vars,
     walkVars
<1>4. ASSUME NEW s \in Step, AgentStep(s) \/ DropRequest(s) \/ AgentFinishesUnheard(s) PROVE WakeInv'
  BY <1>2, <1>4 DEF AgentStep, AgentFinishes, DropRequest, AgentFinishesUnheard, walkVars
<1>5. CASE CancelFinalize
  BY <1>5, VerdictWake DEF CancelFinalize, TerminalStatus, walkVars
<1>6. ASSUME NEW s \in Step, SettleStep(s) PROVE WakeInv'
  <2>1. CASE Deliver(s)
    BY <1>2, <2>1 DEF Deliver, walkVars
  <2>2. CASE SucceedWaitingStep(s) \/ FailWaitingStep(s)
    <3>1. cp.step[s] \in Reached
      BY <2>2 DEF SucceedWaitingStep, FailWaitingStep, EffectInv, OutOfBand
    <3>2. /\ UNCHANGED walkVars
          /\ Refused \/ (Live /\ \E c \in {SucceedEntry(cp, s), FailOutOfBand(cp, s)} : Patch(c))
      BY <2>2 DEF SucceedWaitingStep, FailWaitingStep
    <3> QED BY <3>1, <3>2, BesideWake
  <2>3. CASE SettleFailRun(s)
    BY <2>3, VerdictWake DEF SettleFailRun, TerminalStatus, walkVars
  <2> QED BY <1>6, <2>1, <2>2, <2>3 DEF SettleStep, Settle
<1>7. CASE SweepStep
  <2>1. CASE SweepDue \/ SweepAdvanced \/ SweepRests
    BY <1>2, <2>1 DEF SweepDue, SweepAdvanced, SweepRests, walkVars
  <2>2. CASE SweepFailRun
    BY <2>2, VerdictWake DEF SweepFailRun, TerminalStatus, walkVars
  <2>3. ASSUME NEW s \in Step, ResumeWait(s) \/ FailStep(s) PROVE WakeInv'
    <3>1. cp.step[s] \in Reached
      BY <2>3 DEF ResumeWait, FailStep, EffectInv, OutOfBand
    <3>2. /\ UNCHANGED walkVars
          /\ Refused \/ (Live /\ \E c \in {SucceedEntry(cp, s), FailOutOfBand(cp, s)} : Patch(c))
      BY <2>3 DEF ResumeWait, FailStep
    <3> QED BY <3>1, <3>2, BesideWake
  <2> QED BY <1>7, <2>1, <2>2, <2>3 DEF SweepStep, Sweep
<1>8. ASSUME NEW s \in Step, RespondStep(s) PROVE WakeInv'
  <2>1. /\ cp.step[s] \in Reached
        /\ UNCHANGED walkVars
        /\ Refused \/ (Live /\ \E c \in {SucceedEntry(cp, s), FailOutOfBand(cp, s)} : Patch(c))
    BY <1>8 DEF RespondStep, Respond, EffectInv, RunningKind, StoreTypeOK, Checkpoint, StepStatus, Reached
  <2> QED BY <2>1, BesideWake
<1> QED BY <1>1, <1>3, <1>4, <1>5, <1>6, <1>7, <1>8 DEF Next, Cancel

\* For every definition and any racing writers: the run-level wake_at of a live
\* run says exactly whether some waiting entry has a deadline, so the sweep, which
\* reads nothing else, misses no deadline and visits no run in vain.
THEOREM WakeExact == Spec => []PrefilterExact
<1>1. Init => WakeInv
  BY DEF Init, StoreInit, AdvanceInit, EmptyCheckpoint, WakeInv, WriterKnows, PrefilterExact, Waiting
<1>2. TypeOK /\ EffectInv /\ WakeInv /\ [Next]_vars => WakeInv'
  BY WakeInvNext
<1> QED BY <1>1, <1>2, TypeCorrect, EffectInvHolds, PTL DEF Spec, WakeInv

-----------------------------------------------------------------------------
(* No lost wakeup: a live run is never left alone.  Whatever waits has on  *)
(* record what will settle it, and a run in which nothing waits has a call *)
(* that is about to advance or finalize it.                                *)
(*                                                                         *)
(* The inductive invariant.  A walk ends where it has seen an entry wait;  *)
(* by then the entry may be settled, and whoever settled it has left word. *)

\* Somebody is about to advance the run, or to end it.
Coming == want # {} \/ sweep = "failRun" \/ \E s \in Step : task[s] = "failRun"

\* The daemon works on the run: nobody is about to end it, and no client took an
\* advance away.
Served == up /\ Live /\ cancel # "finalize" /\ ~dropped

\* What will settle a waiting entry is on record with it, also over a restart.
Kept ==
    \A s \in Waiting(cp) :
        /\ Kind[s] \in {"ask_agent", "ask_me", "wait"}
        /\ Kind[s] = "ask_me" => form[s] = "pending"
        /\ Kind[s] = "wait" => s \in cp.timer

\* Somebody watches the chat of step s, or holds its outcome.
Watched(s) ==
    \/ s \in waits /\ task[s] \in {"watching", "retrying"}
    \/ task[s] \in {"succeed", "fail"}
    \/ pc = "register" /\ Cur = s

Attended == \A s \in Waiting(cp) : Kind[s] = "ask_agent" => Watched(s)

\* The walk has passed an entry that waited, or is about to.
Parking ==
    /\ pc \in WalkPcs
    /\ \/ parked \/ Waiting(copy) # {} \/ pc \in {"register", "repark"}
       \/ pc = "park" /\ Kind[Cur] = "ask_agent"

\* A walk ends, and the run is left, only with an entry that waits or somebody
\* who is coming.
Handed == Parking \/ lock = NoOne => Waiting(cp) # {} \/ Coming

\* Where the walk stands when it parks a leaf.
ParkRecord ==
    /\ pc = "parkForm" => form[Cur] = "pending"
    /\ pc = "register" => task[Cur] = "none"
    /\ pc = "park" => Kind[Cur] \in {"wait", "ask_agent"}
    /\ pc = "park" /\ Kind[Cur] = "wait" => cp.step[Cur] = "none"
    /\ pc = "park" /\ Kind[Cur] = "ask_agent" => cp.step[Cur] \in Reached
    /\ pc = "repark" => Kind[Cur] = "ask_me" /\ cp.step[Cur] \in Reached

\* Registered chats are of steps that have waited, and a signal is of a cancel
\* that will end the run.
Bearings ==
    /\ \A s \in waits : cp.step[s] \in Reached
    /\ signal => cancel = "finalize"
    /\ cancel # "purge"

\* A dead daemon runs nothing.
Down == ~up => pc = "idle" /\ want = {} /\ ~booted /\ \A s \in Step : task[s] = "none"

\* The lock is held while advance() runs.
Locked == pc # "idle" => lock # NoOne

Wakeup ==
    /\ Locked
    /\ Live => Kept /\ ParkRecord /\ Bearings
    /\ Served => Attended /\ Handed

-----------------------------------------------------------------------------
(* The shapes of steps.                                                    *)

\* The run has its verdict.
LEMMA OverWakeup == ASSUME ~Live', Locked' PROVE Wakeup'
BY DEF Wakeup, Served

\* Nobody serves the run, its records stay, and the walk stands or is over.
LEMMA UnservedWakeup ==
    ASSUME Wakeup, ~Served', Locked', UNCHANGED storeVars,
           (UNCHANGED walkVars /\ UNCHANGED task) \/ pc' = "idle",
           waits' \subseteq waits, cancel' # "purge", signal' => cancel' = "finalize"
    PROVE  Wakeup'
<1>1. CASE Live
  <2> USE SameLeaf DEF storeVars
  <2>1. Kept'
    BY <1>1 DEF Wakeup, Kept, Waiting
  <2>2. ParkRecord'
    BY <1>1 DEF Wakeup, ParkRecord, walkVars
  <2>3. Bearings'
    BY <1>1 DEF Wakeup, Bearings
  <2> QED BY <2>1, <2>2, <2>3 DEF Wakeup
<1>2. CASE ~Live
  BY <1>2, OverWakeup DEF Live, storeVars
<1> QED BY <1>1, <1>2

\* The walk goes on, and records nothing, a leaf that does not wait, or a leaf that
\* waits from now on.
LEMMA WalkWakeup ==
    ASSUME AgentTypeOK, Wakeup, Live, pc # "register", Locked', ParkRecord',
           UNCHANGED <<waits, task, sweep, signal, ctlVars>>, lock' # NoOne,
           \A t \in Step : form'[t] = form[t] \/ form'[t] = "pending",
           \A t \in Step : cp.step[t] \in Reached => cp'.step[t] \in Reached,
           \A t \in Waiting(cp)' :
               \/ t \in Waiting(cp) /\ (Kind[t] = "wait" /\ t \in cp.timer => t \in cp'.timer)
               \/ /\ Kind[t] \in {"ask_agent", "ask_me", "wait"}
                  /\ Kind[t] = "ask_me" => form'[t] = "pending"
                  /\ Kind[t] = "wait" => t \in cp'.timer
                  /\ Kind[t] = "ask_agent" => pc' = "register" /\ Cur' = t,
           Parking' => Waiting(cp)' # {} \/ (Parking /\ UNCHANGED want /\ Waiting(cp) \subseteq Waiting(cp)')
    PROVE  Wakeup'
<1>1. Kept'
  <2> SUFFICES ASSUME NEW t \in Waiting(cp)'
               PROVE  /\ Kind[t] \in {"ask_agent", "ask_me", "wait"}
                      /\ Kind[t] = "ask_me" => form'[t] = "pending"
                      /\ Kind[t] = "wait" => t \in cp'.timer
    BY DEF Kept
  <2>1. t \in Step
    BY DEF Waiting
  <2> QED BY <2>1 DEF Wakeup, Kept
<1>2. Bearings'
  BY DEF Wakeup, Bearings, AgentTypeOK, ctlVars
<1>3. ASSUME Served' PROVE Attended' /\ Handed'
  <2>1. Served
    BY <1>3 DEF Served, ctlVars
  <2>2. Attended'
    BY <2>1 DEF Wakeup, Attended, Watched
  <2>3. Handed'
    BY <2>1 DEF Wakeup, Handed, Coming
  <2> QED BY <2>2, <2>3
<1> QED BY <1>1, <1>2, <1>3 DEF Wakeup

\* Nothing moves but the heap of other tasks, which takes nobody's word back.
LEMMA StillWakeup ==
    ASSUME Wakeup, UNCHANGED <<storeVars, walkVars, lock, waits, task, signal, up, cancel, dropped>>,
           Coming => Coming'
    PROVE  Wakeup'
<1> USE SameLeaf DEF storeVars, walkVars
<1>1. Locked' /\ (Live' <=> Live) /\ (Served' <=> Served)
  BY DEF Wakeup, Locked, Live, Served
<1>2. ASSUME Live PROVE Kept' /\ ParkRecord' /\ Bearings'
  <2>1. Kept /\ ParkRecord /\ Bearings
    BY <1>2 DEF Wakeup
  <2>2. Kept'
    BY <2>1 DEF Kept, Waiting
  <2>3. ParkRecord' /\ Bearings'
    BY <2>1 DEF ParkRecord, Bearings
  <2> QED BY <2>2, <2>3
<1>3. ASSUME Served PROVE Attended' /\ Handed'
  <2>1. Attended /\ Handed
    BY <1>3 DEF Wakeup
  <2>2. Attended'
    BY <2>1 DEF Attended, Watched, Waiting
  <2>3. Handed'
    BY <2>1 DEF Handed, Parking, Waiting
  <2> QED BY <2>2, <2>3
<1> QED BY <1>1, <1>2, <1>3 DEF Wakeup

\* An entry is settled next to the walk, and whoever does it leaves word.
LEMMA BesideWakeup ==
    ASSUME StoreTypeOK, AgentTypeOK, AdvanceTypeOK, EffectInv, Wakeup, Live,
           UNCHANGED <<walkVars, lock, signal, ctlVars, waits>>,
           NEW s \in Step, cp.step[s] \in Reached,
           NEW st \in {"succeeded", "failed"}, cp'.step = [cp.step EXCEPT ![s] = st],
           \A t \in Step : t # s => form'[t] = form[t] /\ (t \in cp.timer => t \in cp'.timer),
           \A t \in Step : t # s => task'[t] = task[t],
           task'[s] = task[s] \/ task[s] # "none",
           Kind[s] = "ask_me" \/ UNCHANGED form,
           Coming'
    PROVE  Wakeup'
<1> USE SameLeaf DEF walkVars
<1>1. /\ cp'.step[s] = st /\ \A t \in Step : t # s => cp'.step[t] = cp.step[t]
      /\ Waiting(cp)' = Waiting(cp) \ {s}
  BY DEF StoreTypeOK, Checkpoint, Waiting
<1>2. Kept'
  BY <1>1 DEF Wakeup, Kept, Waiting
<1>3. ParkRecord'
  <2>1. ParkRecord /\ (pc \in LeafPcs => Cur \in Step)
    BY MoveType DEF Wakeup, AdvanceTypeOK
  <2>2. pc = "parkForm" => form'[Cur] = "pending"
    BY <2>1 DEF ParkRecord, EffectInv, LeafRecord, LeafPcs, WalkPcs, Reached
  <2> QED BY <1>1, <2>1, <2>2 DEF ParkRecord, Reached, LeafPcs, WalkPcs
<1>4. Bearings'
  BY <1>1 DEF Wakeup, Bearings, AgentTypeOK, Reached, ctlVars
<1>5. ASSUME Served' PROVE Attended' /\ Handed'
  <2>1. Attended
    BY <1>5 DEF Wakeup, Served, ctlVars
  <2>2. Attended'
    BY <1>1, <2>1 DEF Attended, Watched, Waiting
  <2> QED BY <2>2 DEF Handed
<1>6. Locked'
  BY DEF Wakeup, Locked
<1> QED BY <1>2, <1>3, <1>4, <1>5, <1>6 DEF Wakeup

-----------------------------------------------------------------------------
(* advance() and the walk.                                                 *)

\* A stretch of advance() that writes no record and goes on.
LEMMA StrollWakeup ==
    ASSUME AgentTypeOK, Wakeup, Live, UNCHANGED <<status, cp, waits, task, sweep, signal, ctlVars>>,
           pc # "register", lock' # NoOne, ParkRecord',
           \A t \in Step : form'[t] = form[t] \/ form'[t] = "pending",
           Parking' => Waiting(cp) # {} \/ (Parking /\ UNCHANGED want)
    PROVE  Wakeup'
<1>1. Locked' /\ Waiting(cp)' = Waiting(cp)
  BY DEF Locked, Waiting
<1> QED BY <1>1, WalkWakeup

\* A stretch of the walk that leads to no parking of a leaf.
LEMMA WalkOnWakeup ==
    ASSUME AgentTypeOK, Wakeup, pc \in {"walk", "act"}, pc' \in {"walk", "fatal", "done", "act", "committed", "failed"},
           UNCHANGED <<storeVars, copy, lockVars, agentVars, sweepVars, signal, ctlVars>>,
           parked' => parked \/ Waiting(copy) # {}
    PROVE  Wakeup'
<1>1. lock' # NoOne /\ Locked'
  BY DEF Wakeup, Locked, lockVars
<1>2. ParkRecord'
  BY DEF ParkRecord
<1>3. Waiting(copy)' = Waiting(copy)
  BY DEF Waiting
<1>4. Parking' => Parking
  BY <1>3 DEF Parking, WalkPcs
<1>5. CASE Live
  BY <1>1, <1>2, <1>4, <1>5, StrollWakeup DEF storeVars, lockVars, agentVars, sweepVars
<1>6. CASE ~Live
  BY <1>1, <1>6, OverWakeup DEF Live, storeVars
<1> QED BY <1>5, <1>6

\* A commit of the walk that is not refused, about an entry that does not wait.
LEMMA CommitWakeup ==
    ASSUME StoreTypeOK, AgentTypeOK, Wakeup, Live, NEW c \in Checkpoint, Patch(c), copy' = c,
           pc \in WalkPcs \ {"register"}, pc' \in {"walk", "fatal", "markFailed", "act", "start"},
           UNCHANGED <<form, lockVars, parked, agentVars, sweepVars, signal, ctlVars>>,
           Waiting(c) = Waiting(cp), \A t \in Waiting(cp) : t \in cp.timer => t \in c.timer,
           \A t \in Step : cp.step[t] \in Reached => c.step[t] \in Reached
    PROVE  Wakeup'
<1>1. lock' # NoOne /\ Locked'
  BY DEF Wakeup, Locked, lockVars, WalkPcs
<1>2. ParkRecord'
  BY DEF ParkRecord
<1>3. cp' = c /\ Waiting(cp)' = Waiting(c) /\ Waiting(copy)' = Waiting(c)
  BY DEF Patch, Waiting
<1>4. Parking' => Waiting(cp)' # {} \/ (Parking /\ UNCHANGED want)
  BY <1>3 DEF Parking, lockVars
<1> QED BY <1>1, <1>2, <1>3, <1>4, WalkWakeup DEF agentVars, sweepVars

\* One that sets the entry of the leaf, or the marker of the branch.
LEMMA EntryWakeup ==
    ASSUME StoreTypeOK, AgentTypeOK, Wakeup, NEW s \in Step, cp.step[s] # "waiting",
           NEW st \in {"running", "succeeded", "failed"}, st = "running" => cp.step[s] \notin Reached,
           pc \in WalkPcs \ {"register"},
           UNCHANGED <<form, agentVars, sweepVars, ctlVars>>,
           \/ Refused /\ Release
           \/ /\ Live /\ Patch(SetStep(cp, s, st, FALSE)) /\ copy' = SetStep(cp, s, st, FALSE)
              /\ pc' \in {"walk", "fatal", "markFailed", "act", "start"}
              /\ UNCHANGED <<lockVars, parked, signal>>
    PROVE  Wakeup'
<1> DEFINE c == SetStep(cp, s, st, FALSE)
<1>1. CASE Refused /\ Release
  BY <1>1, OverWakeup DEF Refused, Release, Live, Locked
<1>2. CASE /\ Live /\ Patch(c) /\ copy' = c
           /\ pc' \in {"walk", "fatal", "markFailed", "act", "start"}
           /\ UNCHANGED <<lockVars, parked, signal>>
  <2>1. /\ c \in Checkpoint /\ c.step = [cp.step EXCEPT ![s] = st]
        /\ c.timer = cp.timer \ {s}
    BY DEF SetStep, StoreTypeOK, Checkpoint, StepStatus
  <2> HIDE DEF c
  <2>2. /\ c.step[s] = st /\ \A t \in Step : t # s => c.step[t] = cp.step[t]
        /\ Waiting(c) = Waiting(cp)
    BY <2>1 DEF StoreTypeOK, Checkpoint, Waiting
  <2>3. \A t \in Waiting(cp) : t \in cp.timer => t \in c.timer
    BY <2>1 DEF Waiting
  <2>4. \A t \in Step : cp.step[t] \in Reached => c.step[t] \in Reached
    BY <2>2 DEF Reached
  <2> QED BY <1>2, <2>1, <2>2, <2>3, <2>4, CommitWakeup
<1> QED BY <1>1, <1>2

LEMMA RunningWakeup ==
    ASSUME TypeOK, EffectInv, Wakeup, NEW kind \in {"run_action", "ask_agent"},
           NEW next \in {"act", "start"}, CommitRunning(kind, next),
           UNCHANGED <<agentVars, sweepVars, ctlVars>>
    PROVE  Wakeup'
<1>1. Cur \in Step /\ pc = "walk" /\ copy.step[Cur] \in {"none", "running"} /\ Kind[Cur] = kind
  BY MoveType DEF CommitRunning, Dispatch, EnterLeaf, TypeOK
<1>2. cp.step[Cur] \notin Reached
  BY <1>1 DEF EffectInv, WalkAgrees, WalkPcs, OnLeaf, LeafPcs, Once, Reached
<1>3. /\ UNCHANGED form
      /\ \/ Refused /\ Release
         \/ /\ Live /\ Patch(SetStep(cp, Cur, "running", FALSE))
            /\ copy' = SetStep(cp, Cur, "running", FALSE)
            /\ pc' = next /\ UNCHANGED <<lockVars, parked, signal>>
  BY DEF CommitRunning, Commit
<1> QED BY <1>1, <1>2, <1>3, EntryWakeup DEF TypeOK, Reached, WalkPcs

\* What a park leaves on record of the leaf.
LEMMA ParkedEntry ==
    ASSUME StoreTypeOK, NEW s \in Step, NEW timed \in BOOLEAN,
           Patch(Recompute(SetStep(cp, s, "waiting", timed)))
    PROVE  /\ cp'.step = [cp.step EXCEPT ![s] = "waiting"]
           /\ cp'.timer = IF timed THEN cp.timer \cup {s} ELSE cp.timer \ {s}
<1> DEFINE c == SetStep(cp, s, "waiting", timed)
<1>1. /\ c.step = [cp.step EXCEPT ![s] = "waiting"] /\ c \in Checkpoint
      /\ c.timer = IF timed THEN cp.timer \cup {s} ELSE cp.timer \ {s}
  <2>1. c \in Checkpoint
    BY SetStepType DEF StoreTypeOK, StepStatus
  <2>2. c.step = [cp.step EXCEPT ![s] = "waiting"] /\ c.timer = IF timed THEN cp.timer \cup {s} ELSE cp.timer \ {s}
    BY DEF SetStep, StoreTypeOK, Checkpoint
  <2> QED BY <2>1, <2>2
<1>2. Recompute(c).step = c.step /\ Recompute(c).timer = c.timer
  <2> HIDE DEF c
  <2> QED BY <1>1 DEF Recompute, Checkpoint
<1> QED BY <1>1, <1>2 DEF Patch

\* A leaf is parked.
LEMMA WaitWakeup ==
    ASSUME StoreTypeOK, AgentTypeOK, Wakeup, Live, NEW s \in Step, NEW timed \in BOOLEAN,
           Patch(Recompute(SetStep(cp, s, "waiting", timed))),
           pc # "register", lock' # NoOne, ParkRecord',
           UNCHANGED <<form, waits, task, sweep, signal, ctlVars>>,
           Kind[s] \in {"ask_agent", "ask_me", "wait"},
           Kind[s] = "ask_me" => form[s] = "pending",
           Kind[s] = "wait" => timed = TRUE,
           Kind[s] = "ask_agent" => (pc' = "register" /\ Cur' = s) \/ cp.step[s] = "waiting"
    PROVE  Wakeup'
<1>1. /\ cp'.step = [cp.step EXCEPT ![s] = "waiting"]
      /\ cp'.timer = IF timed THEN cp.timer \cup {s} ELSE cp.timer \ {s}
  BY ParkedEntry
<1>2. /\ cp'.step[s] = "waiting" /\ \A t \in Step : t # s => cp'.step[t] = cp.step[t]
      /\ Waiting(cp)' = Waiting(cp) \cup {s}
  BY <1>1 DEF StoreTypeOK, Checkpoint, Waiting
<1>3. \A t \in Waiting(cp)' :
         \/ t \in Waiting(cp) /\ (Kind[t] = "wait" /\ t \in cp.timer => t \in cp'.timer)
         \/ /\ Kind[t] \in {"ask_agent", "ask_me", "wait"}
            /\ Kind[t] = "ask_me" => form'[t] = "pending"
            /\ Kind[t] = "wait" => t \in cp'.timer
            /\ Kind[t] = "ask_agent" => pc' = "register" /\ Cur' = t
  <2>1. \A t \in Waiting(cp) : t # s => (t \in cp.timer => t \in cp'.timer)
    BY <1>1
  <2>2. Kind[s] = "wait" => s \in cp'.timer
    BY <1>1
  <2>3. cp.step[s] = "waiting" => s \in Waiting(cp)
    BY DEF Waiting
  <2> QED BY <1>2, <2>1, <2>2, <2>3
<1> QED BY <1>2, <1>3, WalkWakeup DEF Locked, Reached

\* The walk parks a leaf: a wait that has not begun, an agent or a question whose
\* entry waits already or has been settled meanwhile.
LEMMA ParkWakeup ==
    ASSUME TypeOK, EffectInv, Wakeup, Park, UNCHANGED <<agentVars, sweepVars, ctlVars>>
    PROVE  Wakeup'
<1> USE DEF TypeOK
<1>1. Cur \in Step /\ pc \in {"park", "repark"}
  BY MoveType DEF Park, AdvanceTypeOK, LeafPcs, WalkPcs
<1>2. CASE Refused /\ Release
  BY <1>2, OverWakeup DEF Refused, Release, Live, Locked
<1>3. CASE ~(Refused /\ Release)
  <2>1. PICK timed \in BOOLEAN :
           /\ timed = (pc = "park" /\ (Kind[Cur] = "wait" \/ Cur \in Timed))
           /\ Live /\ Patch(ParkStep(cp, Cur, timed)) /\ copy' = ParkStep(cp, Cur, timed)
           /\ pc' = "walk" /\ UNCHANGED <<form, lockVars, signal>>
    BY <1>3 DEF Park, Commit
  <2>2. ParkRecord' /\ lock' # NoOne
    BY <1>1, <2>1 DEF ParkRecord, Wakeup, Locked, lockVars
  <2>3. ParkRecord
    BY <2>1 DEF Wakeup
  <2>4. CASE Settled(cp.step[Cur])
    <3>1. pc = "repark" \/ (pc = "park" /\ Kind[Cur] = "ask_agent")
      BY <1>1, <2>3, <2>4 DEF ParkRecord, Settled
    <3>2. UNCHANGED cp /\ Parking
      BY <2>1, <2>4, <3>1 DEF Patch, ParkStep, Parking, WalkPcs
    <3>3. Waiting(cp)' = Waiting(cp) /\ Locked'
      BY <2>2, <3>2 DEF Waiting, Locked
    <3> QED BY <1>1, <2>1, <2>2, <3>2, <3>3, WalkWakeup DEF agentVars, sweepVars, lockVars
  <2>5. CASE ~Settled(cp.step[Cur])
    <3>1. Patch(Recompute(SetStep(cp, Cur, "waiting", timed)))
      BY <2>1, <2>5 DEF ParkStep
    <3>2. /\ Kind[Cur] \in {"ask_agent", "ask_me", "wait"}
          /\ Kind[Cur] = "wait" => timed = TRUE
          /\ Kind[Cur] # "wait" => cp.step[Cur] = "waiting"
      BY <1>1, <2>1, <2>3, <2>5 DEF ParkRecord, Settled, Reached
    <3>3. Kind[Cur] = "ask_me" => form[Cur] = "pending"
      BY <1>1, <2>1, <3>2 DEF Wakeup, Kept, Waiting
    <3> QED BY <1>1, <2>1, <2>2, <3>1, <3>2, <3>3, WaitWakeup DEF agentVars, sweepVars
  <2> QED BY <2>4, <2>5
<1> QED BY <1>2, <1>3

\* A step of the walk over leaves and branches.
LEMMA WalkerWakeup ==
    ASSUME TypeOK, EffectInv, WakeInv, Wakeup, Walk, UNCHANGED <<agentVars, sweepVars, ctlVars>>
    PROVE  Wakeup'
<1> USE DEF TypeOK, Stay
<1>1. CASE SkipMarkedBranch \/ SkipSettledLeaf \/ LeafUnitEnd \/ WalkEnd
  BY <1>1, WalkOnWakeup DEF SkipMarkedBranch, SkipSettledLeaf, EnterLeaf, LeafUnitEnd, BranchEnd, WalkEnd
<1>2. CASE ParkOnWaiting
  <2>1. Cur \in Waiting(copy)
    BY <1>2, MoveType DEF ParkOnWaiting, EnterLeaf, Waiting
  <2> QED BY <1>2, <2>1, WalkOnWakeup DEF ParkOnWaiting, EnterLeaf
<1>3. CASE BeginAction
  BY <1>3, RunningWakeup DEF BeginAction
<1>4. CASE Act
  BY <1>4, WalkOnWakeup DEF Act, Dispatch, EnterLeaf, lockVars
<1>5. CASE CommitSucceeded \/ CommitFailed
  <2>1. Cur \in Step /\ cp.step[Cur] # "waiting" /\ pc \in {"committed", "failed"}
    BY <1>5, MoveType DEF CommitSucceeded, CommitFailed, AdvanceTypeOK, LeafPcs, WalkPcs, WakeInv, WriterKnows
  <2>2. PICK st \in {"succeeded", "failed"} :
           \/ Refused /\ Release
           \/ /\ Live /\ Patch(SetStep(cp, Cur, st, FALSE)) /\ copy' = SetStep(cp, Cur, st, FALSE)
              /\ pc' \in {"walk", "fatal", "markFailed"} /\ UNCHANGED <<lockVars, parked, signal>>
    BY <1>5 DEF CommitSucceeded, CommitFailed, Commit, AfterFailure
  <2>3. UNCHANGED form
    BY <1>5 DEF CommitSucceeded, CommitFailed, Commit
  <2> QED BY <2>1, <2>2, <2>3, EntryWakeup DEF WalkPcs
<1>6. CASE BeginWait
  <2>1. /\ Cur \in Step /\ Cur' = Cur /\ pc = "walk" /\ pc' = "park" /\ Kind[Cur] = "wait"
        /\ copy.step[Cur] \in {"none", "running"} /\ UNCHANGED <<storeVars, copy, parked, lockVars, signal>>
    BY <1>6, MoveType DEF BeginWait, Dispatch, EnterLeaf, Cur, Branches
  <2>2. cp.step[Cur] = "none"
    BY <2>1 DEF EffectInv, WalkAgrees, RunningKind, OnLeaf, LeafPcs, WalkPcs
  <2>3. ParkRecord' /\ lock' # NoOne /\ Locked'
    BY <2>1, <2>2 DEF ParkRecord, storeVars, Wakeup, Locked, lockVars
  <2>4. Parking' => Parking /\ UNCHANGED want
    BY <2>1 DEF Parking, WalkPcs, Waiting, lockVars
  <2>5. CASE Live
    BY <2>1, <2>3, <2>4, <2>5, StrollWakeup DEF storeVars, agentVars, sweepVars
  <2>6. CASE ~Live
    BY <2>1, <2>3, <2>6, OverWakeup DEF storeVars, Live
  <2> QED BY <2>5, <2>6
<1>7. CASE Park
  BY <1>7, ParkWakeup
<1>8. ASSUME NEW outcome \in {"succeeded", "failed"}, MarkBranch(outcome), pc \in {"walk", "markFailed"}, Here \in Slots
      PROVE  Wakeup'
  <2> DEFINE c == [cp EXCEPT !.mark[Here] = outcome]
  <2>1. CASE Refused /\ Release
    BY <2>1, OverWakeup DEF Refused, Release, Live, Locked
  <2>2. CASE Live /\ Patch(c) /\ copy' = c /\ pc' = "walk" /\ UNCHANGED <<form, lockVars, signal, parked>>
    <3>1. c \in Checkpoint /\ c.step = cp.step /\ c.timer = cp.timer
      BY <1>8 DEF StoreTypeOK, Checkpoint
    <3> HIDE DEF c
    <3>2. Waiting(c) = Waiting(cp)
      BY <3>1 DEF Waiting
    <3> QED BY <1>8, <2>2, <3>1, <3>2, CommitWakeup DEF WalkPcs
  <2> QED BY <1>8, <2>1, <2>2 DEF MarkBranch, Commit
<1>9. CASE MarkBranchFailed \/ MarkBranchDone
  BY <1>8, <1>9, MoveType DEF MarkBranchFailed, MarkBranchDone, BranchEnd, AdvanceTypeOK, LeafPcs, WalkPcs, AtLeaf
<1>10. CASE UnitEnd
  <2>1. CASE ~parked
    BY <1>10, <2>1, WalkOnWakeup DEF UnitEnd
  <2>2. CASE parked /\ Release /\ UNCHANGED <<storeVars, effect>>
    <3>1. pc' = "idle" /\ signal' = FALSE /\ UNCHANGED want /\ Parking
      BY <1>10, <2>2 DEF UnitEnd, Release, Parking, WalkPcs
    <3>2. Locked' /\ ParkRecord' /\ Waiting(cp)' = Waiting(cp)
      BY <2>2, <3>1 DEF Locked, ParkRecord, Waiting, storeVars
    <3>3. ASSUME Live PROVE Kept' /\ Bearings'
      BY <2>2, <3>1, <3>2, <3>3 DEF Wakeup, Kept, Bearings, storeVars, agentVars, ctlVars
    <3>4. ASSUME Served PROVE Attended' /\ Handed'
      <4>1. pc = "walk"
        BY <1>10 DEF UnitEnd
      <4>2. Attended'
        BY <2>2, <3>2, <3>4, <4>1 DEF Wakeup, Attended, Watched, agentVars
      <4>3. Handed'
        BY <3>1, <3>2, <3>4 DEF Wakeup, Handed, Coming, agentVars, sweepVars
      <4> QED BY <4>2, <4>3
    <3>5. (Live' <=> Live) /\ (Served' <=> Served)
      BY <2>2 DEF Live, Served, storeVars, ctlVars
    <3> QED BY <3>2, <3>3, <3>4, <3>5 DEF Wakeup
  <2> QED BY <1>10, <2>1, <2>2 DEF UnitEnd
<1> QED BY <1>1, <1>2, <1>3, <1>4, <1>5, <1>6, <1>7, <1>9, <1>10 DEF Walk

\* A step of advance().
LEMMA AdvanceWakeup ==
    ASSUME TypeOK, EffectInv, WakeInv, Wakeup, Advance, UNCHANGED <<agentVars, sweepVars, ctlVars>>
    PROVE  Wakeup'
<1> USE DEF TypeOK
<1>1. ASSUME UNCHANGED <<storeVars, signal>>, pc # "register", lock' # NoOne,
             pc' \notin WalkPcs \/ (pc' = "walk" /\ copy' = cp /\ parked' = FALSE)
      PROVE  Wakeup'
  <2>1. ParkRecord' /\ Locked'
    BY <1>1 DEF ParkRecord, WalkPcs, Locked
  <2>2. Parking' => Waiting(cp) # {}
    BY <1>1 DEF Parking, Waiting
  <2>3. CASE Live
    BY <1>1, <2>1, <2>2, <2>3, StrollWakeup DEF sweepVars, agentVars, storeVars
  <2>4. CASE ~Live
    BY <1>1, <2>1, <2>4, OverWakeup DEF Live, storeVars
  <2> QED BY <2>3, <2>4
<1>2. ASSUME NEW c \in Callers, Acquire(c) PROVE Wakeup'
  <2>1. pc # "register"
    BY <1>2 DEF Acquire, Wakeup, Locked
  <2> QED BY <1>1, <1>2, <2>1, SentinelAssumption DEF Acquire, WalkPcs
<1>3. CASE ReadRun
  <2>1. CASE Live
    <3>1. lock # NoOne
      BY <1>3 DEF ReadRun, Wakeup, Locked
    <3> QED BY <1>1, <1>3, <2>1, <3>1 DEF ReadRun, WalkPcs, lockVars
  <2>2. CASE ~Live
    BY <1>3, <2>2, OverWakeup DEF ReadRun, Release, Locked, Live, storeVars
  <2> QED BY <2>1, <2>2
<1>4. CASE StaleResolved \/ StartWalk
  <2>1. lock # NoOne
    BY <1>4 DEF StaleResolved, StartWalk, Wakeup, Locked
  <2> QED BY <1>1, <1>4, <2>1 DEF StaleResolved, StartWalk, WalkPcs, lockVars
<1>5. ASSUME NEW s \in Step, FailStale(s) PROVE Wakeup'
  <2>1. CASE Refused /\ Release
    BY <2>1, OverWakeup DEF Refused, Release, Live, Locked
  <2>2. CASE /\ Live /\ Patch(FailEntry(cp, s)) /\ pc' \in {"stale", "fatal"}
             /\ UNCHANGED <<lockVars, signal>>
    <3>1. /\ lock' # NoOne /\ Locked' /\ pc # "register" /\ ParkRecord' /\ ~Parking'
          /\ UNCHANGED form
      BY <1>5, <2>2 DEF FailStale, Wakeup, Locked, lockVars, ParkRecord, Parking, WalkPcs
    <3>2. /\ \A t \in Step : cp.step[t] \in Reached => cp'.step[t] \in Reached
          /\ \A t \in Waiting(cp)' : t \in Waiting(cp) /\ (t \in cp.timer => t \in cp'.timer)
      <4>1. CASE UNCHANGED cp
        BY <4>1 DEF Waiting
      <4>2. CASE Patch(SetStep(cp, s, "failed", FALSE))
        <5>1. cp'.step = [cp.step EXCEPT ![s] = "failed"] /\ cp'.timer = cp.timer \ {s}
          BY <4>2 DEF Patch, SetStep, StoreTypeOK, Checkpoint
        <5>2. cp'.step[s] = "failed" /\ \A t \in Step : t # s => cp'.step[t] = cp.step[t]
          BY <5>1 DEF StoreTypeOK, Checkpoint
        <5> QED BY <5>1, <5>2 DEF Waiting, Reached
      <4> QED BY <2>2, <4>1, <4>2 DEF FailEntry, Patch
    <3> QED BY <2>2, <3>1, <3>2, WalkWakeup DEF agentVars, sweepVars
  <2> QED BY <1>5, <2>1, <2>2 DEF FailStale
<1>6. CASE Walk
  BY <1>6, WalkerWakeup
<1>7. CASE FinalizeWalk
  <2>1. ~Live'
    BY <1>7, FinalizeDead DEF FinalizeWalk, TerminalStatus
  <2> QED BY <1>7, <2>1, OverWakeup DEF FinalizeWalk, Release, Locked
<1> QED BY <1>2, <1>3, <1>4, <1>5, <1>6, <1>7 DEF Advance

\* A question is asked inside the walk.
LEMMA FormWakeup ==
    ASSUME TypeOK, EffectInv, Wakeup, FormWalk, UNCHANGED <<agentVars, sweepVars, ctlVars>>
    PROVE  Wakeup'
<1> USE DEF TypeOK, Stay
<1>1. lock' # NoOne /\ Locked' /\ UNCHANGED lockVars
  BY DEF FormWalk, BeginForm, Dispatch, EnterLeaf, ParkForm, CancelPendingForRun, Wakeup, Locked, lockVars
<1>2. CASE BeginForm
  <2>1. /\ Cur \in Step /\ Cur' = Cur /\ pc = "walk" /\ pc' = "parkForm"
        /\ form' = [form EXCEPT ![Cur] = "pending"] /\ UNCHANGED <<status, cp, copy, parked, signal>>
    BY <1>2, MoveType DEF BeginForm, Dispatch, EnterLeaf, Cur, Branches
  <2>2. form'[Cur] = "pending" /\ \A t \in Step : form'[t] = form[t] \/ form'[t] = "pending"
    BY <2>1 DEF StoreTypeOK
  <2>3. ParkRecord'
    BY <2>1, <2>2 DEF ParkRecord
  <2>4. Parking' => Parking /\ UNCHANGED want
    BY <1>1, <2>1 DEF Parking, WalkPcs, Waiting, lockVars
  <2>5. CASE Live
    BY <1>1, <2>1, <2>2, <2>3, <2>4, <2>5, StrollWakeup DEF agentVars, sweepVars
  <2>6. CASE ~Live
    BY <1>1, <2>1, <2>6, OverWakeup DEF Live
  <2> QED BY <2>5, <2>6
<1>3. CASE ParkForm
  <2>1. /\ Cur \in Step /\ Cur' = Cur /\ pc = "parkForm" /\ Kind[Cur] = "ask_me"
        /\ cp.step[Cur] = "none" /\ UNCHANGED <<form, signal>>
    BY <1>3, MoveType DEF ParkForm, AdvanceTypeOK, LeafPcs, WalkPcs, Cur, Branches, EffectInv, LeafRecord
  <2>2. CASE Refused
    BY <1>1, <2>2, OverWakeup DEF Refused, Live
  <2>3. CASE Live /\ Patch(Recompute(SetStep(cp, Cur, "waiting", FALSE))) /\ pc' = "repark"
    <3>1. PICK timed \in BOOLEAN : timed = FALSE
      OBVIOUS
    <3>2. Patch(Recompute(SetStep(cp, Cur, "waiting", timed)))
      BY <2>3, <3>1
    <3>3. cp'.step = [cp.step EXCEPT ![Cur] = "waiting"]
      BY <2>1, <3>2, ParkedEntry
    <3>4. ParkRecord'
      BY <2>1, <2>3, <3>3 DEF ParkRecord, StoreTypeOK, Checkpoint, Reached
    <3>5. form[Cur] = "pending"
      BY <2>1, <2>3 DEF Wakeup, ParkRecord
    <3> QED BY <1>1, <2>1, <2>3, <3>2, <3>4, <3>5, WaitWakeup DEF agentVars, sweepVars
  <2> QED BY <1>3, <2>2, <2>3 DEF ParkForm
<1>4. CASE CancelPendingForRun
  <2>1. ~Live /\ UNCHANGED status
    BY <1>4 DEF CancelPendingForRun, EffectInv, LeafRecord
  <2> QED BY <1>1, <2>1, OverWakeup DEF Live
<1> QED BY <1>2, <1>3, <1>4 DEF FormWalk

\* An agent is started inside the walk.
LEMMA AgentWakeup ==
    ASSUME TypeOK, EffectInv, Wakeup, AgentWalk, UNCHANGED <<sweepVars, ctlVars>>
    PROVE  Wakeup'
<1> USE DEF TypeOK, Stay
<1>1. CASE BeginAgent
  BY <1>1, RunningWakeup DEF BeginAgent
<1>2. CASE StartChat
  <2>1. /\ Cur \in Step /\ pc = "start" /\ cp.step[Cur] = "running"
        /\ UNCHANGED <<storeVars, lockVars, parked, copy, signal, waits, task>>
        /\ pc' \in IF Cur \in waits THEN {"repark"} ELSE {"parkChat", "failed"}
    BY <1>2, MoveType DEF StartChat, AdvanceTypeOK, LeafPcs, WalkPcs, EffectInv, LeafRecord
  <2>2. lock' # NoOne /\ Locked'
    BY <2>1 DEF Wakeup, Locked, lockVars
  <2>3. CASE Live
    <3>1. pc' \in {"parkChat", "failed"}
      BY <2>1, <2>3 DEF Wakeup, Bearings, Reached
    <3>2. ParkRecord'
      BY <3>1 DEF ParkRecord
    <3>3. Parking' => Parking /\ UNCHANGED want
      BY <2>1, <3>1 DEF Parking, WalkPcs, Waiting, lockVars
    <3> QED BY <2>1, <2>2, <2>3, <3>2, <3>3, StrollWakeup DEF storeVars, sweepVars
  <2>4. CASE ~Live
    BY <2>1, <2>2, <2>4, OverWakeup DEF Live, storeVars
  <2> QED BY <2>3, <2>4
<1>3. CASE ParkChat
  <2>1. /\ Cur \in Step /\ Cur' = Cur /\ pc = "parkChat" /\ Kind[Cur] = "ask_agent"
        /\ cp.step[Cur] = "running" /\ UNCHANGED <<form, signal, lockVars, waits, task>>
    BY <1>3, MoveType DEF ParkChat, AdvanceTypeOK, LeafPcs, WalkPcs, Cur, Branches, EffectInv, LeafRecord
  <2>2. lock' # NoOne /\ Locked'
    BY <2>1 DEF Wakeup, Locked, lockVars
  <2>3. CASE Refused
    BY <2>2, <2>3, OverWakeup DEF Refused, Live
  <2>4. CASE Live /\ Patch(Recompute(SetStep(cp, Cur, "waiting", Cur \in Timed))) /\ pc' = "register"
    <3>1. PICK timed \in BOOLEAN : timed = (Cur \in Timed)
      <4>1. (Cur \in Timed) = TRUE \/ (Cur \in Timed) = FALSE
        OBVIOUS
      <4>2. TRUE \in BOOLEAN /\ FALSE \in BOOLEAN
        OBVIOUS
      <4> QED BY <4>1, <4>2, Zenon
    <3>2. Patch(Recompute(SetStep(cp, Cur, "waiting", timed)))
      BY <2>4, <3>1, Zenon
    <3>3. task[Cur] = "none"
      BY <2>1 DEF EffectInv, OutOfBand, Reached
    <3>4. ParkRecord'
      BY <2>1, <2>4, <3>3 DEF ParkRecord
    <3> QED BY <2>1, <2>2, <2>4, <3>2, <3>4, WaitWakeup DEF sweepVars
  <2> QED BY <1>3, <2>3, <2>4 DEF ParkChat
<1>4. CASE Register
  <2>1. /\ Cur \in Step /\ Cur' = Cur /\ pc = "register" /\ pc' = "park" /\ Kind[Cur] = "ask_agent"
        /\ cp.step[Cur] \in Reached /\ UNCHANGED <<storeVars, lockVars, copy, parked, signal>>
        /\ waits' = waits \cup {Cur} /\ task' = [task EXCEPT ![Cur] = "watching"]
    BY <1>4, MoveType DEF Register, AdvanceTypeOK, LeafPcs, WalkPcs, Cur, Branches, EffectInv, LeafRecord
  <2>2. task'[Cur] = "watching" /\ \A t \in Step : t # Cur => task'[t] = task[t]
    BY <2>1 DEF AgentTypeOK
  <2>3. Locked' /\ (Live' <=> Live) /\ (Served' <=> Served) /\ Waiting(cp)' = Waiting(cp)
    BY <2>1 DEF Locked, Wakeup, lockVars, Live, Served, Waiting, storeVars, ctlVars
  <2>4. ASSUME Live PROVE Kept' /\ ParkRecord' /\ Bearings'
    <3>1. Kept'
      BY <2>1, <2>3, <2>4 DEF Wakeup, Kept, storeVars
    <3>2. ParkRecord'
      BY <2>1 DEF ParkRecord, storeVars
    <3>3. Bearings'
      BY <2>1, <2>4 DEF Wakeup, Bearings, storeVars, ctlVars
    <3> QED BY <3>1, <3>2, <3>3
  <2>5. ASSUME Served PROVE Attended' /\ Handed'
    <3>1. Attended'
      BY <2>1, <2>2, <2>3, <2>5 DEF Wakeup, Attended, Watched, Waiting
    <3>2. Parking /\ task[Cur] = "none"
      BY <2>1, <2>5 DEF Parking, WalkPcs, Wakeup, ParkRecord, Served
    <3>3. Coming => Coming'
      BY <2>1, <2>2, <3>2 DEF Coming, lockVars, sweepVars
    <3>4. Handed'
      BY <2>3, <2>5, <3>2, <3>3 DEF Wakeup, Handed
    <3> QED BY <3>1, <3>4
  <2> QED BY <2>3, <2>4, <2>5 DEF Wakeup
<1> QED BY <1>1, <1>2, <1>3, <1>4 DEF AgentWalk

-----------------------------------------------------------------------------
(* What happens next to the walk.                                          *)

LEMMA OutsideTimer ==
    ASSUME StoreTypeOK, NEW s \in Step, cp.step[s] \in Reached,
           NEW c \in {SucceedEntry(cp, s), FailOutOfBand(cp, s)}
    PROVE  \A t \in Step : t # s => (t \in cp.timer => t \in c.timer)
<1> DEFINE won == SetStep(cp, s, "succeeded", FALSE)
           lost == IF s \in KeepGoing THEN FailEntry(cp, s)
                   ELSE FailEnclosingBranch(FailEntry(cp, s), s)
<1>1. cp.step[s] # "none"
  BY DEF Reached
<1>2. won \in Checkpoint /\ won.timer = cp.timer \ {s}
  BY DEF SetStep, StoreTypeOK, Checkpoint, StepStatus
<1>3. FailEntry(cp, s) \in Checkpoint /\ FailEntry(cp, s).timer = cp.timer \ {s}
  BY <1>1 DEF FailEntry, SetStep, StoreTypeOK, Checkpoint, StepStatus
<1>4. lost \in Checkpoint /\ lost.timer = cp.timer \ {s}
  BY <1>3, SlotOfStep DEF FailEnclosingBranch, Checkpoint
<1>5. SucceedEntry(cp, s) = Recompute(won) /\ FailOutOfBand(cp, s) = Recompute(lost)
  BY <1>1 DEF SucceedEntry, FailOutOfBand
<1> HIDE DEF won, lost
<1>6. Recompute(won).timer = won.timer /\ Recompute(lost).timer = lost.timer
  BY <1>2, <1>4 DEF Recompute, Checkpoint
<1> QED BY <1>2, <1>4, <1>5, <1>6

\* A settle, a due entry or an answer: the entry is written and word is left, or
\* the run has its verdict.
LEMMA SettledWakeup ==
    ASSUME TypeOK, EffectInv, Wakeup, UNCHANGED <<walkVars, lock, signal, ctlVars, waits>>,
           NEW s \in Step, cp.step[s] \in Reached,
           \A t \in Step : t # s => task'[t] = task[t] /\ form'[t] = form[t],
           task'[s] = task[s] \/ task[s] # "none",
           Kind[s] = "ask_me" \/ UNCHANGED form,
           \/ Refused
           \/ Live /\ Coming' /\ \E c \in {SucceedEntry(cp, s), FailOutOfBand(cp, s)} : Patch(c)
    PROVE  Wakeup'
<1> USE DEF TypeOK
<1>1. CASE Refused
  BY <1>1, OverWakeup DEF Refused, Live, Wakeup, Locked, walkVars
<1>2. CASE Live /\ Coming' /\ \E c \in {SucceedEntry(cp, s), FailOutOfBand(cp, s)} : Patch(c)
  <2>1. PICK c \in {SucceedEntry(cp, s), FailOutOfBand(cp, s)} : Patch(c)
    BY <1>2
  <2>2. PICK st \in {"succeeded", "failed"} : cp'.step = [cp.step EXCEPT ![s] = st]
    BY <2>1, OutsideWrite
  <2>3. \A t \in Step : t # s => (t \in cp.timer => t \in cp'.timer)
    BY <2>1, OutsideTimer DEF Patch
  <2> QED BY <1>2, <2>2, <2>3, BesideWakeup
<1> QED BY <1>1, <1>2

\* The settle path of an agent.
LEMMA SettleWakeup ==
    ASSUME TypeOK, EffectInv, Wakeup, NEW s \in Step, Settle(s), UNCHANGED <<sweepVars, ctlVars>>
    PROVE  Wakeup'
<1> USE DEF TypeOK
<1>1. CASE Deliver(s)
  <2>1. /\ UNCHANGED <<storeVars, walkVars, lock, want, signal>> /\ task[s] \in {"watching", "retrying"}
        /\ waits' \subseteq waits /\ waits \ {s} \subseteq waits'
        /\ \A t \in Step : t # s => task'[t] = task[t]
    BY <1>1 DEF Deliver, DropOutcome, AcceptOutcome, AcceptCorrected, Judge, EndTask, AgentTypeOK,
       advVars, walkVars
  <2>2. /\ Locked' /\ (Live' <=> Live) /\ (Served' <=> Served) /\ Waiting(cp)' = Waiting(cp)
        /\ Waiting(copy)' = Waiting(copy) /\ Cur' = Cur
    BY <2>1, SameLeaf DEF Wakeup, Locked, Live, Served, Waiting, storeVars, ctlVars, walkVars
  <2>3. ASSUME Live PROVE Kept' /\ ParkRecord' /\ Bearings'
    <3>1. Kept /\ ParkRecord /\ Bearings
      BY <2>3 DEF Wakeup
    <3>2. pc = "register" => Cur \in Step
      BY MoveType DEF AdvanceTypeOK, LeafPcs, WalkPcs
    <3>3. ParkRecord'
      BY <2>1, <2>2, <3>1, <3>2 DEF ParkRecord, storeVars, walkVars
    <3>4. Kept' /\ Bearings'
      BY <2>1, <2>2, <3>1 DEF Kept, Bearings, storeVars, ctlVars
    <3> QED BY <3>3, <3>4
  <2>4. ASSUME Served PROVE Attended' /\ Handed'
    <3>1. Attended /\ Handed /\ Live
      BY <2>4 DEF Wakeup, Served
    <3>2. ASSUME s \in Waiting(cp), Kind[s] = "ask_agent" PROVE Watched(s)'
      <4>1. cp.step[s] = "waiting" /\ Watched(s)
        BY <3>1, <3>2 DEF Waiting, Attended
      <4>2. pc # "register" \/ Cur # s
        BY <2>1, <2>3, <3>1 DEF Wakeup, ParkRecord
      <4>3. s \in waits
        BY <2>1, <4>1, <4>2 DEF Watched
      <4>4. CASE DropOutcome(s)
        BY <2>1, <3>1, <4>1, <4>3, <4>4 DEF DropOutcome
      <4>5. CASE AcceptOutcome(s) \/ AcceptCorrected(s)
        BY <4>3, <4>5 DEF AcceptOutcome, AcceptCorrected, Judge, Watched, AgentTypeOK
      <4> QED BY <1>1, <4>4, <4>5 DEF Deliver
    <3>3. Attended'
      BY <2>1, <2>2, <3>1, <3>2 DEF Attended, Watched, Waiting, walkVars
    <3>4. Coming => Coming'
      BY <2>1 DEF Coming, sweepVars
    <3>5. Handed'
      BY <2>1, <2>2, <3>1, <3>4 DEF Handed, Parking, walkVars
    <3> QED BY <3>3, <3>5
  <2> QED BY <2>2, <2>3, <2>4 DEF Wakeup
<1>2. CASE SucceedWaitingStep(s)
  <2>1. /\ task[s] # "none" /\ cp.step[s] \in Reached /\ UNCHANGED <<form, walkVars, lock, signal, waits>>
        /\ \A t \in Step : t # s => task'[t] = task[t]
    BY <1>2 DEF SucceedWaitingStep, EndTask, AgentTypeOK, EffectInv, OutOfBand
  <2>2. \/ Refused
        \/ Live /\ Coming' /\ \E c \in {SucceedEntry(cp, s), FailOutOfBand(cp, s)} : Patch(c)
    BY <1>2 DEF SucceedWaitingStep, Lease, Coming
  <2> QED BY <2>1, <2>2, SettledWakeup
<1>3. CASE FailWaitingStep(s)
  <2>1. /\ task[s] # "none" /\ cp.step[s] \in Reached /\ UNCHANGED <<form, walkVars, lock, signal, waits>>
        /\ \A t \in Step : t # s => task'[t] = task[t]
    BY <1>3 DEF FailWaitingStep, EndTask, AgentTypeOK, EffectInv, OutOfBand
  <2>2. ASSUME ~Refused PROVE Live /\ Coming' /\ Patch(FailOutOfBand(cp, s))
    <3>1. CASE Lease(s)
      BY <1>3, <2>2, <3>1 DEF FailWaitingStep, Lease, Coming
    <3>2. CASE task' = [task EXCEPT ![s] = "failRun"]
      BY <1>3, <2>2, <3>2 DEF FailWaitingStep, Coming, AgentTypeOK
    <3> QED BY <1>3, <2>2, <3>1, <3>2 DEF FailWaitingStep
  <2> QED BY <2>1, <2>2, SettledWakeup
<1>4. CASE SettleFailRun(s)
  <2>1. ~Live'
    BY <1>4, FinalizeDead DEF SettleFailRun, TerminalStatus
  <2> QED BY <1>4, <2>1, OverWakeup DEF SettleFailRun, advVars, Wakeup, Locked
<1> QED BY <1>1, <1>2, <1>3, <1>4 DEF Settle

\* The due-sweep.
LEMMA SweepWakeup ==
    ASSUME TypeOK, EffectInv, Wakeup, Sweep, UNCHANGED <<agentVars, ctlVars>>
    PROVE  Wakeup'
<1> USE DEF TypeOK
<1>1. CASE SweepDue \/ SweepAdvanced \/ SweepRests
  <2>1. UNCHANGED <<storeVars, advVars>> /\ sweep # "failRun"
    BY <1>1 DEF SweepDue, SweepAdvanced, SweepRests
  <2>2. Coming => Coming'
    BY <2>1 DEF Coming, advVars, agentVars
  <2> QED BY <2>1, <2>2, StillWakeup DEF advVars, walkVars, agentVars, ctlVars
<1>2. CASE SweepFailRun
  <2>1. ~Live'
    BY <1>2, FinalizeDead DEF SweepFailRun, TerminalStatus
  <2> QED BY <1>2, <2>1, OverWakeup DEF SweepFailRun, advVars, Wakeup, Locked
<1>3. ASSUME NEW s \in Step, ResumeWait(s) \/ FailStep(s) PROVE Wakeup'
  <2>1. cp.step[s] \in Reached /\ UNCHANGED <<form, walkVars, lock, signal, waits, task>>
    BY <1>3 DEF ResumeWait, FailStep, EffectInv, OutOfBand, agentVars
  <2>2. ASSUME ~Refused
        PROVE  Live /\ Coming' /\ \E c \in {SucceedEntry(cp, s), FailOutOfBand(cp, s)} : Patch(c)
    BY <1>3, <2>2 DEF ResumeWait, FailStep, Lease, Coming
  <2> QED BY <2>1, <2>2, SettledWakeup
<1> QED BY <1>1, <1>2, <1>3 DEF Sweep

\* Nothing of a dead daemon moves.
LEMMA DownAdvance ==
    ASSUME Advance \/ FormWalk \/ AgentWalk
    PROVE  pc # "idle" \/ want # {}
<1>1. CASE Advance
  <2>1. CASE \E c \in Callers : Acquire(c)
    BY <2>1 DEF Acquire
  <2>2. CASE Walk
    BY <2>2 DEF Walk, SkipMarkedBranch, SkipSettledLeaf, EnterLeaf, ParkOnWaiting, BeginAction, CommitRunning,
       Dispatch, Act, CommitSucceeded, CommitFailed, MarkBranchFailed, MarkBranchDone, LeafUnitEnd, BranchEnd,
       BeginWait, Park, UnitEnd, WalkEnd
  <2> QED BY <1>1, <2>1, <2>2
          DEF Advance, ReadRun, FailStale, StaleResolved, StartWalk, FinalizeWalk
<1>2. CASE FormWalk
  BY <1>2 DEF FormWalk, BeginForm, ParkForm, CancelPendingForRun, Dispatch, EnterLeaf
<1>3. CASE AgentWalk
  BY <1>3 DEF AgentWalk, BeginAgent, CommitRunning, Dispatch, EnterLeaf, StartChat, ParkChat, Register
<1> QED BY <1>1, <1>2, <1>3

LEMMA DownNext == ASSUME Down, [Next]_vars PROVE Down'
<1> SUFFICES ASSUME ~up' PROVE Down'
  BY DEF Down
<1>1. CASE Crash
  BY <1>1 DEF Crash, Down
<1>2. ASSUME NEW s \in Step, DropRequest(s) PROVE Down'
  BY <1>2 DEF DropRequest, Release, Down, agentVars
<1>3. CASE CancelFinalize \/ CancelPurge
  BY <1>3 DEF CancelFinalize, CancelPurge, Down, advVars, agentVars
<1>4. ASSUME NEW s \in Step, AgentStep(s) \/ AgentFinishesUnheard(s) PROVE Down'
  BY <1>4 DEF AgentStep, AgentFinishes, AgentFinishesUnheard, ctlVars, advVars, Down
<1>5. CASE AdvanceStep
  BY <1>5, DownAdvance DEF AdvanceStep, ctlVars, Down
<1>6. ASSUME NEW s \in Step, SettleStep(s) PROVE Down'
  BY <1>6 DEF SettleStep, Settle, Deliver, SucceedWaitingStep, FailWaitingStep, SettleFailRun, ctlVars, Down
<1>7. CASE SweepStep \/ DropWalkStep
  BY <1>7 DEF SweepStep, DropWalkStep, DropWalk, WalkPcs, ctlVars, Down
<1>8. ASSUME NEW s \in Step, RespondStep(s) PROVE Down'
  BY <1>8 DEF RespondStep, ctlVars, Down
<1>9. CASE CancelRequest \/ Boot \/ BootDone
  BY <1>9 DEF CancelRequest, Boot, BootDone
<1>10. CASE UNCHANGED vars
  BY <1>10 DEF vars, ctlVars, advVars, agentVars, Down
<1> QED BY <1>1, <1>2, <1>3, <1>4, <1>5, <1>6, <1>7, <1>8, <1>9, <1>10 DEF Next, Cancel

LEMMA WakeupNext ==
    ASSUME TypeOK, EffectInv, WakeInv, Down, Wakeup, [Next]_vars
    PROVE  Wakeup'
<1> USE DEF TypeOK
<1>1. CASE AdvanceStep
  BY <1>1, AdvanceWakeup, FormWakeup, AgentWakeup DEF AdvanceStep
<1>2. ASSUME NEW s \in Step, SettleStep(s) PROVE Wakeup'
  BY <1>2, SettleWakeup DEF SettleStep
<1>3. CASE SweepStep
  BY <1>3, SweepWakeup DEF SweepStep
<1>4. ASSUME NEW s \in Step, RespondStep(s) PROVE Wakeup'
  <2>1. /\ cp.step[s] \in Reached /\ Kind[s] = "ask_me" /\ form' = [form EXCEPT ![s] = "answered"]
        /\ UNCHANGED <<walkVars, lock, signal, waits, task, ctlVars>>
        /\ Live /\ Coming' /\ Patch(SucceedEntry(cp, s))
    BY <1>4 DEF RespondStep, Respond, EffectInv, RunningKind, StoreTypeOK, Checkpoint, StepStatus, Reached,
       agentVars, Lease, Coming
  <2>2. \A t \in Step : t # s => form'[t] = form[t]
    BY <2>1 DEF StoreTypeOK
  <2> QED BY <2>1, <2>2, SettledWakeup
<1>5. ASSUME NEW s \in Step, AgentStep(s) \/ AgentFinishesUnheard(s) PROVE Wakeup'
  <2>1. UNCHANGED <<storeVars, advVars, waits, task, sweepVars, ctlVars>>
    BY <1>5 DEF AgentStep, AgentFinishes, AgentFinishesUnheard
  <2> QED BY <2>1, StillWakeup DEF advVars, walkVars, sweepVars, ctlVars, Coming
<1>6. ASSUME NEW s \in Step, DropRequest(s) PROVE Wakeup'
  <2>1. /\ ~Served' /\ UNCHANGED storeVars /\ waits' = waits /\ cancel' = cancel /\ task' = task
        /\ \/ UNCHANGED walkVars /\ UNCHANGED <<lock, signal>>
           \/ pc' = "idle" /\ signal' = FALSE
    BY <1>6 DEF DropRequest, Served, Release, agentVars
  <2>2. Locked'
    BY <2>1 DEF Wakeup, Locked, walkVars
  <2>3. CASE Live
    BY <2>1, <2>2, <2>3, UnservedWakeup DEF Wakeup, Bearings
  <2>4. CASE ~Live
    BY <2>1, <2>2, <2>4, OverWakeup DEF Live, storeVars
  <2> QED BY <2>3, <2>4
<1>7. CASE DropWalkStep
  <2>1. Locked' /\ pc' = "idle" /\ UNCHANGED <<storeVars, agentVars, ctlVars>> /\ signal' = FALSE /\ signal
    BY <1>7 DEF DropWalkStep, DropWalk, Release, Locked
  <2>2. CASE Live
    <3>1. cancel = "finalize"
      BY <2>1, <2>2 DEF Wakeup, Bearings
    <3> QED BY <2>1, <3>1, UnservedWakeup DEF Served, agentVars, ctlVars
  <2>3. CASE ~Live
    BY <2>1, <2>3, OverWakeup DEF Live, storeVars
  <2> QED BY <2>2, <2>3
<1>8. CASE CancelRequest
  <2>1. UNCHANGED <<storeVars, lockVars, walkVars, agentVars>> /\ cancel' = "finalize"
    BY <1>8 DEF CancelRequest
  <2> QED BY <2>1, UnservedWakeup DEF Served, Wakeup, Locked, lockVars, walkVars, agentVars
<1>9. CASE CancelFinalize
  <2>1. ~Live'
    BY <1>9, FinalizeDead DEF CancelFinalize, TerminalStatus
  <2> QED BY <1>9, <2>1, OverWakeup DEF CancelFinalize, advVars, Wakeup, Locked
<1>10. CASE CancelPurge
  <2>1. ~Live /\ UNCHANGED <<storeVars, advVars>>
    BY <1>10 DEF CancelPurge, Wakeup, Bearings
  <2> QED BY <2>1, OverWakeup DEF Live, storeVars, advVars, Wakeup, Locked
<1>11. CASE Crash
  <2>1. ~Served' /\ Locked' /\ UNCHANGED storeVars /\ pc' = "idle" /\ waits' = {} /\ cancel' = "idle" /\ ~signal'
    BY <1>11 DEF Crash, Served, Locked
  <2> QED BY <2>1, UnservedWakeup
<1>12. CASE Boot
  <2>1. CASE Live
    <3>1. /\ UNCHANGED <<storeVars, walkVars, lock, signal, cancel>> /\ want' = {"boot"}
          /\ waits' = Waiting(cp) \cap Agents
          /\ task' = [t \in Step |-> IF t \in Waiting(cp) \cap Agents THEN "watching" ELSE "none"]
      BY <1>12, <2>1 DEF Boot, walkVars
    <3>2. Waiting(cp)' = Waiting(cp) /\ Locked' /\ Cur' = Cur
      BY <3>1, SameLeaf DEF Waiting, storeVars, Wakeup, Locked, walkVars
    <3>3. Kept' /\ Bearings'
      BY <2>1, <3>1, <3>2 DEF Wakeup, Kept, Bearings, storeVars, Reached, Waiting
    <3>4. ParkRecord'
      <4>1. pc' = "idle"
        BY <1>12, <3>1 DEF Boot, Down, walkVars
      <4> QED BY <4>1 DEF ParkRecord
    <3>5. Attended' /\ Handed'
      BY <3>1, <3>2 DEF Attended, Watched, Handed, Coming, Agents, Waiting
    <3> QED BY <3>2, <3>3, <3>4, <3>5 DEF Wakeup
  <2>2. CASE ~Live
    BY <1>12, <2>2, OverWakeup DEF Boot, Live, storeVars, Wakeup, Locked, walkVars
  <2> QED BY <2>1, <2>2
<1>13. CASE BootDone \/ UNCHANGED vars
  <2>1. UNCHANGED <<storeVars, advVars, agentVars, sweepVars, up, cancel, dropped>>
    BY <1>13 DEF BootDone, vars, ctlVars, advVars, storeVars, agentVars, sweepVars
  <2> QED BY <2>1, StillWakeup DEF advVars, walkVars, agentVars, sweepVars, Coming
<1> QED BY <1>1, <1>2, <1>3, <1>4, <1>5, <1>6, <1>7, <1>8, <1>9, <1>10, <1>11, <1>12, <1>13
       DEF Next, Cancel

\* Every waiting entry has somebody who will settle it, and a live run in which
\* nothing waits has an advance, or an end, under way: for every definition, any
\* racing settles, sweeps, answers and cancels, and any number of crashes.
THEOREM NobodyStranded == Spec => []NotStranded
<1>1. Init => Wakeup
  <2> SUFFICES ASSUME Init PROVE Wakeup
    OBVIOUS
  <2> USE DEF Init, StoreInit, AdvanceInit, AgentInit, SweepInit, EmptyCheckpoint
  <2>1. Waiting(cp) = {}
    BY DEF Waiting
  <2>2. Kept /\ Attended /\ Handed /\ ParkRecord /\ Bearings /\ Locked
    BY <2>1 DEF Kept, Attended, Handed, ParkRecord, Bearings, Locked, Coming
  <2> QED BY <2>2 DEF Wakeup
<1>2. TypeOK /\ EffectInv /\ WakeInv /\ Down /\ Wakeup /\ [Next]_vars => Wakeup'
  BY WakeupNext
<1>3. WakeInv /\ Wakeup => NotStranded
  <2> SUFFICES ASSUME WakeInv, Wakeup, up, Live, cancel # "finalize", ~dropped
               PROVE  /\ \A s \in Waiting(cp) : Awaited(s)
                      /\ Waiting(cp) = {} =>
                            \/ lock # NoOne \/ want # {} \/ sweep = "failRun"
                            \/ \E s \in Step : task[s] = "failRun"
    BY DEF NotStranded
  <2>1. Kept /\ Attended /\ Handed
    BY DEF Wakeup, Served
  <2>2. ASSUME NEW s \in Waiting(cp) PROVE Awaited(s)
    <3>1. Kind[s] = "wait" => s \in cp.timer /\ cp.wake
      BY <2>1 DEF Kept, WakeInv, PrefilterExact
    <3> QED BY <2>1, <3>1 DEF Kept, Attended, Watched, Awaited
  <2> QED BY <2>1, <2>2 DEF Handed, Coming
<1>4. Spec => []WakeInv
  <2>1. Init => WakeInv
    BY DEF Init, StoreInit, AdvanceInit, EmptyCheckpoint, WakeInv, WriterKnows, PrefilterExact, Waiting
  <2>2. TypeOK /\ EffectInv /\ WakeInv /\ [Next]_vars => WakeInv'
    BY WakeInvNext
  <2> QED BY <2>1, <2>2, TypeCorrect, EffectInvHolds, PTL DEF Spec
<1>5. Spec => []Down
  <2>1. Init => Down
    BY DEF Init, Down
  <2> QED BY <2>1, DownNext, PTL DEF Spec
<1> QED BY <1>1, <1>2, <1>3, <1>4, <1>5, TypeCorrect, EffectInvHolds, PTL DEF Spec
=============================================================================
