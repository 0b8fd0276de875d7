----------------------------- MODULE AutomationRun -----------------------------
(***************************************************************************)
(* One automation run and everything that acts on it: the advance loop,    *)
(* the agent settle tasks, ask_me answers, the due-sweep, cancel_run, a    *)
(* client that drops its respond request, and the death and restart of the *)
(* daemon (AutomationsEngine::start).                                      *)
(***************************************************************************)
EXTENDS AgentWaits, Interactions, DueSweep

CONSTANTS
    MaxCrashes,   \* bound: how often the daemon dies
    MaxCancels,   \* bound: how often somebody cancels the run
    MayDrop       \* whether a respond request can be dropped by its client

ASSUME BoundAssumption ==
    MaxCrashes \in Nat /\ MaxCancels \in Nat /\ MayDrop \in BOOLEAN /\ Lossy \in BOOLEAN

ASSUME SentinelAssumption == NoOne \notin Callers /\ Step \cap {"start", "boot", "sweep"} = {}

VARIABLES
    up,       \* the daemon runs
    booted,   \* start() is over: the sweep is armed and the server listens
    cancel,   \* how far cancel_run is
    crashes, cancels,
    dropped   \* history: a respond request was dropped

ctlVars == <<up, booted, cancel, crashes, cancels, dropped>>
vars == <<storeVars, advVars, agentVars, sweepVars, ctlVars>>

-----------------------------------------------------------------------------
(* Interpreter::cancel_run.                                                *)

\* Signals a walk that is registered; one that starts later hears nothing.
CancelRequest ==
    /\ up /\ booted /\ cancel = "idle" /\ cancels < MaxCancels
    /\ signal' = (signal \/ pc \in WalkPcs)
    /\ cancel' = "finalize" /\ cancels' = cancels + 1
    /\ UNCHANGED <<storeVars, lockVars, walkVars, effect, agentVars, sweepVars, up, booted, crashes, dropped>>

CancelFinalize ==
    /\ cancel = "finalize"
    /\ Finalize("cancelled")
    /\ cancel' = IF Live THEN "purge" ELSE "idle"
    /\ UNCHANGED <<advVars, agentVars, sweepVars, up, booted, crashes, cancels, dropped>>

\* clear_for_run: registrations go, and their chats are told to stop.
CancelPurge ==
    /\ cancel = "purge" /\ cancel' = "idle"
    /\ told' = told \cup waits /\ waits' = {}
    /\ UNCHANGED <<storeVars, advVars, chat, heard, task, sweepVars, up, booted, crashes, cancels, dropped>>

Cancel == CancelRequest \/ CancelFinalize \/ CancelPurge

-----------------------------------------------------------------------------
(* The respond route awaits the advance inline: a client that goes away    *)
(* drops it, whether it still queues or already walks.                     *)
DropRequest(s) ==
    /\ MayDrop /\ Kind[s] = "ask_me"
    /\ \/ s \in want /\ want' = want \ {s} /\ UNCHANGED <<lock, walkVars, signal>>
       \/ lock = s /\ Release
    /\ dropped' = TRUE
    /\ UNCHANGED <<storeVars, effect, agentVars, sweepVars, up, booted, cancel, crashes, cancels>>

-----------------------------------------------------------------------------
(* The daemon dies: every task, lock, registration and receiver is gone.   *)
Crash ==
    /\ up /\ crashes < MaxCrashes
    /\ up' = FALSE /\ booted' = FALSE /\ cancel' = "idle" /\ crashes' = crashes + 1
    /\ lock' = NoOne /\ want' = {} /\ pc' = "idle" /\ signal' = FALSE
    /\ at' = StartOfWalk /\ copy' = EmptyCheckpoint /\ parked' = FALSE /\ stale' = {}
    /\ heard' = {} /\ waits' = {} /\ task' = [s \in Step |-> "none"]
    /\ sweep' = "idle" /\ due' = {}
    /\ UNCHANGED <<storeVars, effect, chat, told, cancels, dropped>>

\* A chat may end while nobody listens.
AgentFinishesUnheard(s) ==
    /\ ~up /\ chat[s] = "open"
    /\ chat' = [chat EXCEPT ![s] = "ended"]
    /\ UNCHANGED <<storeVars, advVars, heard, told, waits, task, sweepVars, ctlVars>>

\* Mutant: the boot reconcile advances the run and re-attaches no watch.
BootUnwatched ==
    /\ ~up /\ up' = TRUE
    /\ want' = IF Live THEN {"boot"} ELSE {}
    /\ UNCHANGED <<storeVars, lock, walkVars, signal, effect, agentVars, sweepVars,
                   booted, cancel, crashes, cancels, dropped>>

\* start(): list_live_runs, re-attach the watch of every waiting ask_agent
\* entry, then advance the run; the daemon listens only after that.
Boot ==
    /\ ~up /\ up' = TRUE
    /\ LET watched == IF Live THEN Waiting(cp) \cap Agents ELSE {} IN
        /\ waits' = watched
        /\ task' = [s \in Step |-> IF s \in watched THEN "watching" ELSE "none"]
    /\ want' = IF Live THEN {"boot"} ELSE {}
    /\ UNCHANGED <<storeVars, lock, walkVars, signal, effect, chat, heard, told, sweepVars,
                   booted, cancel, crashes, cancels, dropped>>

BootDone ==
    /\ up /\ ~booted /\ "boot" \notin want /\ lock # "boot"
    /\ booted' = TRUE
    /\ UNCHANGED <<storeVars, advVars, agentVars, sweepVars, up, cancel, crashes, cancels, dropped>>

-----------------------------------------------------------------------------
Init ==
    /\ StoreInit /\ AdvanceInit /\ AgentInit /\ SweepInit
    /\ up = TRUE /\ booted = TRUE /\ cancel = "idle" /\ crashes = 0 /\ cancels = 0 /\ dropped = FALSE

AdvanceStep ==
    \/ (Advance \/ FormWalk) /\ UNCHANGED <<agentVars, sweepVars, ctlVars>>
    \/ AgentWalk /\ UNCHANGED <<sweepVars, ctlVars>>

SettleStep(s) == Settle(s) /\ UNCHANGED <<sweepVars, ctlVars>>
SweepStep == booted /\ Sweep /\ UNCHANGED <<agentVars, ctlVars>>
DropWalkStep == DropWalk /\ UNCHANGED <<agentVars, sweepVars, ctlVars>>
RespondStep(s) == booted /\ Respond(s) /\ UNCHANGED <<agentVars, sweepVars, ctlVars>>
AgentStep(s) == up /\ AgentFinishes(s) /\ UNCHANGED <<sweepVars, ctlVars>>

Next ==
    \/ AdvanceStep \/ DropWalkStep \/ SweepStep \/ Cancel \/ Crash \/ Boot \/ BootDone
    \/ \E s \in Step : \/ SettleStep(s) \/ RespondStep(s) \/ AgentStep(s)
                       \/ DropRequest(s) \/ AgentFinishesUnheard(s)

Spec == Init /\ [][Next]_vars

\* Tokio runs every task that can run, the sweep ticks, a human answers, and
\* the daemon is restarted.  Agents are not assumed to finish.
Fairness ==
    /\ WF_vars(AdvanceStep) /\ WF_vars(SweepStep)
    /\ \A s \in Step : WF_vars(SettleStep(s)) /\ WF_vars(RespondStep(s))
    /\ WF_vars(CancelFinalize) /\ WF_vars(CancelPurge) /\ WF_vars(Boot) /\ WF_vars(BootDone)

FairSpec == Spec /\ Fairness

-----------------------------------------------------------------------------
TypeOK ==
    /\ StoreTypeOK /\ AdvanceTypeOK /\ AgentTypeOK /\ SweepTypeOK
    /\ up \in BOOLEAN /\ booted \in BOOLEAN /\ dropped \in BOOLEAN
    /\ cancel \in {"idle", "finalize", "purge"}
    /\ crashes \in 0 .. MaxCrashes /\ cancels \in 0 .. MaxCancels

\* A8: once the run has its verdict, no settle, sweep, answer, cancel or late
\* commit of a walk changes the verdict or the checkpoint.
TerminalIsFinal == [][~Live => UNCHANGED <<status, cp>>]_vars

\* Steps whose effect the engine must not repeat blindly.
Once == {s \in Step : Kind[s] = "ask_agent" \/ (Kind[s] = "run_action" /\ s \notin Idempotent)}

\* A step whose effect cannot be repeated has it at most once, whatever advance
\* calls race and wherever the daemon dies: no second chat, no second run of a
\* non-idempotent action.  A live run has asked each question once.
EffectAtMostOnce ==
    /\ \A s \in Once : effect[s] <= 1
    /\ Live => \A s \in Step : Kind[s] = "ask_me" => effect[s] <= 1

\* Somebody will still settle this waiting entry.
Awaited(s) ==
    \/ Kind[s] = "ask_me" /\ form[s] = "pending"
    \/ Kind[s] = "wait" /\ s \in cp.timer /\ cp.wake
    \/ /\ Kind[s] = "ask_agent"
       /\ \/ s \in waits /\ task[s] \in {"watching", "retrying"}
          \/ task[s] \in {"succeed", "fail"}
          \/ pc = "register" /\ Cur = s

\* No lost wakeup: while the daemon runs, a live run either waits for something
\* that will come back to it, or somebody is about to advance or finalize it,
\* unless a client took the advance after its answer away.
NotStranded ==
    up /\ Live /\ cancel # "finalize" /\ ~dropped =>
        /\ \A s \in Waiting(cp) : Awaited(s)
        /\ Waiting(cp) = {} =>
              \/ lock # NoOne \/ want # {} \/ sweep = "failRun"
              \/ \E s \in Step : task[s] = "failRun"

\* A step that settled keeps its outcome: it never waits again, and a failure
\* is not turned into a success or the other way round.
SettledStays ==
    [][\A s \in Step : Settled(cp.step[s]) => cp'.step[s] = cp.step[s]]_vars

\* The run succeeds only if every failed step had keepGoing, its own or its
\* block's.
FatalFailureFails ==
    status = "succeeded" =>
        \A s \in Step : cp.step[s] = "failed" =>
            s \in KeepGoing \/ (Parallel(SlotOf(s)) /\ Program[SlotOf(s)[1]].keep)

\* The sweep's pre-filter never hides an entry with a deadline, nor points at a
\* run that has none.
PrefilterExact == Live => (cp.wake <=> Waiting(cp) \cap cp.timer # {})

\* When cancel_run is over and no walk is in flight, the cancelled run has left
\* no form behind that still asks for an answer.
NoFormAfterCancel ==
    status = "cancelled" /\ cancel = "idle" /\ lock = NoOne =>
        \A s \in Step : form[s] # "pending"

\* Likewise it has left no chat working that nobody told to stop.
NoChatAfterCancel ==
    status = "cancelled" /\ cancel = "idle" /\ lock = NoOne =>
        \A s \in Step : chat[s] = "open" => s \in told

\* The run keeps the engine's contract: steps only move forward, effects are on
\* record before they happen and happen once, one verdict ends it all.
PhaseOf(st) ==
    CASE st = "none" -> "idle" [] st = "running" -> "begun" [] st = "waiting" -> "waiting"
      [] OTHER -> "settled"

Run == INSTANCE RunContract WITH
    verdict <- IF Live THEN "open" ELSE status,
    phase <- [s \in Step |-> PhaseOf(cp.step[s])],
    acted <- {s \in Once : effect[s] > 0}

KeepsContract == Run!Spec

\* The end of a chat reaches its step: a step that waits for a chat that is over
\* is settled, or its run comes to a verdict, or the chat gets its correction.
EndedChatSettles ==
    \A s \in Agents :
        (up /\ cp.step[s] = "waiting" /\ chat[s] = "ended")
            ~> (cp.step[s] # "waiting" \/ ~Live \/ chat[s] = "open")

\* Every run comes to a verdict: a question is answered, and an agent that never
\* finishes, or whose end nobody heard, is given up at its deadline; only a
\* client that drops its respond request may keep it from that.
Terminates == <>(status \in TerminalStatus \/ dropped)
=============================================================================
