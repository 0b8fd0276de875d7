------------------------------ MODULE AgentWaits ------------------------------
(***************************************************************************)
(* The ask_agent verb and its durable wait (engine/agent.rs), the settle   *)
(* path of a finished chat (engine/agent_settle.rs), and the chat itself   *)
(* as the daemon's agent port shows it.  One chat per step is enough: that *)
(* no step ever opens two is checked, through `effect`.                    *)
(***************************************************************************)
EXTENDS AdvanceLoop

CONSTANT Lossy   \* the event bus may lag and drop a chat's terminal frame

VARIABLES
    chat,    \* the step's chat: none, open (the agent works), ended
    heard,   \* chats whose terminal frame a subscribed receiver holds
    told,    \* chats that were told to stop
    waits,   \* AgentVerb.waits: steps whose chat is registered
    task     \* the watch task of the step's chat, and how far its settle is

agentVars == <<chat, heard, told, waits, task>>

TaskState == {"none", "watching", "retrying", "succeed", "fail", "failRun"}
Agents == {s \in Step : Kind[s] = "ask_agent"}

-----------------------------------------------------------------------------
(* AgentVerb::execute, inside the walk.                                    *)

BeginAgent == CommitRunning("ask_agent", "start") /\ UNCHANGED agentVars

\* find_chat re-enters a wait that is registered; otherwise port.start creates
\* the chat and sends its first message, or fails.
StartChat ==
    /\ pc = "start"
    /\ pc' \in IF Cur \in waits THEN {"repark"} ELSE {"parkChat", "failed"}
    /\ IF pc' = "parkChat"
       THEN /\ chat' = [chat EXCEPT ![Cur] = "open"]
            /\ effect' = [effect EXCEPT ![Cur] = IF @ < 2 THEN @ + 1 ELSE @]
       ELSE UNCHANGED <<chat, effect>>
    /\ UNCHANGED <<storeVars, lockVars, at, copy, parked, stale, signal, heard, told, waits, task>>

\* Park and stamp the chatId before the watch exists; a refused park stops
\* the chat it just opened.
ParkChat ==
    /\ pc = "parkChat"
    /\ \/ Refused /\ pc' = "repark" /\ told' = told \cup {Cur}
       \/ /\ Live /\ Patch(Recompute(SetStep(cp, Cur, "waiting", Cur \in Timed)))
          /\ pc' = "register" /\ UNCHANGED told
    /\ UNCHANGED <<form, at, copy, parked, chat, heard, waits, task>> /\ Stay

Register ==
    /\ pc = "register"
    /\ waits' = waits \cup {Cur}
    /\ task' = [task EXCEPT ![Cur] = "watching"]
    /\ pc' = "park"
    /\ UNCHANGED <<storeVars, at, copy, parked, chat, heard, told>> /\ Stay

AgentWalk == BeginAgent \/ StartChat \/ ParkChat \/ Register

-----------------------------------------------------------------------------
(* The chat.  Receivers are subscribed before the first message goes out.  *)

AgentFinishes(s) ==
    /\ chat[s] = "open"
    /\ chat' = [chat EXCEPT ![s] = "ended"]
    /\ \/ heard' = heard \cup {s}
       \/ Lossy /\ UNCHANGED heard
    /\ UNCHANGED <<storeVars, advVars, told, waits, task>>

-----------------------------------------------------------------------------
(* AgentVerb::settle.                                                      *)

\* judge's verdict, once it is not a retry: the wait is removed, then the
\* outcome is written.  A correction that cannot be sent is a failure too.
Judge(s) ==
    /\ waits' = waits \ {s}
    /\ \E verdict \in {"succeed", "fail"} : task' = [task EXCEPT ![s] = verdict]
    /\ UNCHANGED chat

EndTask(s) == task' = [task EXCEPT ![s] = "none"]

\* The registration is gone (cancel), or load_waiting_step calls it stale.
DropOutcome(s) ==
    /\ s \in waits /\ task[s] = "watching" => ~(Live /\ cp.step[s] = "waiting")
    /\ s \in waits => task[s] = "watching"
    /\ EndTask(s) /\ waits' = waits \ {s}
    /\ UNCHANGED chat

AcceptOutcome(s) ==
    /\ s \in waits /\ task[s] = "watching" /\ Live /\ cp.step[s] = "waiting"
    /\ \/ Judge(s)
       \/ /\ s \in Expects   \* one corrective message into the same session
          /\ task' = [task EXCEPT ![s] = "retrying"]
          /\ chat' = [chat EXCEPT ![s] = "open"]
          /\ UNCHANGED waits

\* After the correction only the registration is looked at again.
AcceptCorrected(s) == s \in waits /\ task[s] = "retrying" /\ Judge(s)

Deliver(s) ==
    /\ s \in heard /\ task[s] \in {"watching", "retrying"}
    /\ heard' = heard \ {s}
    /\ DropOutcome(s) \/ AcceptOutcome(s) \/ AcceptCorrected(s)
    /\ UNCHANGED <<storeVars, advVars, told>>

SucceedWaitingStep(s) ==
    /\ task[s] = "succeed" /\ EndTask(s)
    /\ \/ Refused /\ UNCHANGED want
       \/ Live /\ Patch(SucceedEntry(cp, s)) /\ Lease(s)
    /\ UNCHANGED <<form, lock, walkVars, signal, effect, chat, heard, told, waits>>

\* A step that fails here bypasses the walk: without keepGoing the run fails
\* too, unless some entry is still waiting and the next advance decides.
FailWaitingStep(s) ==
    /\ task[s] = "fail"
    /\ \/ Refused /\ EndTask(s) /\ UNCHANGED want
       \/ LET c == FailOutOfBand(cp, s) IN
          /\ Live /\ Patch(c)
          /\ IF s \in KeepGoing \/ Waiting(c) # {}
             THEN Lease(s) /\ EndTask(s)
             ELSE task' = [task EXCEPT ![s] = "failRun"] /\ UNCHANGED want
    /\ UNCHANGED <<form, lock, walkVars, signal, effect, chat, heard, told, waits>>

SettleFailRun(s) ==
    /\ task[s] = "failRun" /\ EndTask(s)
    /\ Finalize("failed")
    /\ UNCHANGED <<advVars, chat, heard, told, waits>>

Settle(s) == Deliver(s) \/ SucceedWaitingStep(s) \/ FailWaitingStep(s) \/ SettleFailRun(s)

-----------------------------------------------------------------------------
AgentInit ==
    /\ chat = [s \in Step |-> "none"] /\ task = [s \in Step |-> "none"]
    /\ heard = {} /\ told = {} /\ waits = {}

AgentTypeOK ==
    /\ chat \in [Step -> {"none", "open", "ended"}]
    /\ task \in [Step -> TaskState]
    /\ heard \subseteq Step /\ told \subseteq Step /\ waits \subseteq Step
=============================================================================
