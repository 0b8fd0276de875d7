-------------------------- MODULE BackgroundTasks --------------------------
(***************************************************************************)
(* The background tasks of one chat (mainframe-background-tasks): the      *)
(* tracker, which the lines of the CLI, the exit of the CLI, the liveness  *)
(* sweep, kill requests and the reconcile at boot write side by side.      *)
(*                                                                         *)
(* The tracker has no lock around a whole call: end reads the entry,       *)
(* writes it and sends the event in three steps, start and adopt in two.   *)
(* A bash task is alive as long as processes hold its spool file open,     *)
(* which lsof tells; any other kind lives inside the CLI.                  *)
(***************************************************************************)
EXTENDS Integers, Sequences, FiniteSets

CONSTANTS
    Tasks,
    Bash,        \* those that spool to a file; the others are agents
    Pids,        \* processes that may hold the file of a task
    Trials,      \* the casts and bounds a behaviour may have
    None

ASSUME TaskAssumption ==
    /\ Bash \subseteq Tasks /\ None \notin Tasks
    /\ Trials \subseteq [tasks : SUBSET Tasks, pids : SUBSET Pids, callers : SUBSET {"sweep", "kill", "purge"},
                          faults : Nat, restarts : Nat]

(* Who calls the tracker: the task that reads stdout, the one that waits   *)
(* for the exit, the liveness sweep, kill_background_task,                 *)
(* kill_tasks_for_chat and reconcile.                                      *)
Actors == {"reader", "exit", "sweep", "kill", "purge", "boot"}

VARIABLES
    proc,      \* per bash task and pid: "unborn", "alive" or "dead"
    cli,       \* "none", "live", or "dead" and its exit not handled yet
    lines,     \* lines of the CLI not read yet
    began,     \* per task: "not", "on" or "over" for the CLI
    status,    \* BackgroundTaskTracker.by_chat
    old,       \* started_at is GRACE_MS and more ago
    shown,     \* what the last event told the clients
    call,      \* the call of each actor into the tracker
    todo,      \* the list each actor still goes through
    probe,     \* what the last lsof of each actor said
    miss,      \* the miss map: tasks with one miss
    force,     \* this sweep follows a jump of the clock
    up, purged,
    blind,     \* history: a kill or the reconcile took a failing lsof for nobody
    late,      \* history: the exit was handled before all lines were
    faults, restarts,
    trial      \* the tasks, processes and callers that come into play besides
               \* the CLI and boot, how many runs of lsof fail and how often
               \* the daemon dies

world   == <<proc, cli, lines, began>>
tracker == <<status, old, shown>>
actors  == <<call, todo, probe>>
sweeper == <<miss, force>>
count   == <<up, purged, blind, late, faults, restarts, trial>>
vars    == <<world, tracker, actors, sweeper, count>>

Terminal == {"completed", "stopped"}
Writers(t) == {p \in Pids : proc[t][p] = "alive"}
Spooled(t) == t \in Bash /\ \E p \in Pids : proc[t][p] # "unborn"
Running == {t \in Tasks : status[t] = "running"}

Idle == [op |-> "none", t |-> None, st |-> "none", step |-> "none", keep |-> FALSE]
Call(a, op, t, st, step) ==
    call' = [call EXCEPT ![a] = [op |-> op, t |-> t, st |-> st, step |-> step, keep |-> FALSE]]
Free(a) == up /\ call[a] = Idle
At(a, op, step) == up /\ call[a].op = op /\ call[a].step = step

-----------------------------------------------------------------------------
(* BackgroundTaskTracker *)

(* start keeps the start time of a task that runs already.                 *)
StartRead(a) ==
    LET t == call[a].t
    IN  /\ At(a, "start", "read")
        /\ call' = [call EXCEPT ![a].step = "write", ![a].keep = status[t] = "running" /\ old[t]]
        /\ UNCHANGED <<world, tracker, todo, probe, sweeper, count>>

StartWrite(a) ==
    LET t == call[a].t
    IN  /\ At(a, "start", "write")
        /\ status' = [status EXCEPT ![t] = "running"]
        /\ old' = [old EXCEPT ![t] = call[a].keep]
        /\ call' = [call EXCEPT ![a].step = "send"]
        /\ UNCHANGED <<world, shown, todo, probe, sweeper, count>>

(* end without start, or of a task that has ended, is dropped.             *)
EndRead(a) ==
    /\ At(a, "end", "read")
    /\ call' = IF status[call[a].t] = "running" THEN [call EXCEPT ![a].step = "write"]
                                               ELSE [call EXCEPT ![a] = Idle]
    /\ UNCHANGED <<world, tracker, todo, probe, sweeper, count>>

(* The map of a chat that was removed meanwhile is not made again, but the *)
(* event goes out.                                                         *)
EndWrite(a) ==
    LET t == call[a].t
    IN  /\ At(a, "end", "write")
        /\ status' = IF \A u \in Tasks : status[u] = "none" THEN status
                                                            ELSE [status EXCEPT ![t] = call[a].st]
        /\ call' = [call EXCEPT ![a].step = "send"]
        /\ UNCHANGED <<world, old, shown, todo, probe, sweeper, count>>

(* adopt replaces whatever the tracker has; its start is the ctime of the  *)
(* file, which is of any age.                                              *)
AdoptWrite(a) ==
    LET t == call[a].t
    IN  /\ At(a, "adopt", "write")
        /\ status' = [status EXCEPT ![t] = call[a].st]
        /\ \E o \in BOOLEAN : old' = [old EXCEPT ![t] = o]
        /\ call' = [call EXCEPT ![a].step = "send"]
        /\ UNCHANGED <<world, shown, todo, probe, sweeper, count>>

(* link_run_id writes under the lock and sends what it wrote after it.     *)
LinkWrite(a) ==
    /\ At(a, "link", "write")
    /\ call' = IF status[call[a].t] = "none" THEN [call EXCEPT ![a] = Idle]
               ELSE [call EXCEPT ![a].step = "send", ![a].st = status[call[a].t]]
    /\ UNCHANGED <<world, tracker, todo, probe, sweeper, count>>

Send(a) ==
    /\ up /\ call[a].step = "send"
    /\ shown' = [shown EXCEPT ![call[a].t] = call[a].st]
    /\ call' = [call EXCEPT ![a] = Idle]
    /\ UNCHANGED <<world, status, old, todo, probe, sweeper, count>>

Track(a) ==
    \/ StartRead(a) \/ StartWrite(a) \/ EndRead(a) \/ EndWrite(a)
    \/ AdoptWrite(a) \/ LinkWrite(a) \/ Send(a)

(* GRACE_MS pass: by then the shell of a task has opened its file.         *)
Age(t) ==
    /\ up /\ ~old[t] /\ status[t] = "running"
    /\ t \in Bash => Spooled(t)
    /\ old' = [old EXCEPT ![t] = TRUE]
    /\ UNCHANGED <<world, status, shown, actors, sweeper, count>>

-----------------------------------------------------------------------------
(* The CLI and the processes of its tasks *)

Line(kind, t) == [kind |-> kind, t |-> t]
Says(ls) == lines' = lines \o ls

(* A session is started or resumed; it registers the tasks still alive.    *)
StartCli ==
    /\ up /\ ~purged /\ cli = "none"
    /\ cli' = "live"
    /\ \/ lines' = <<>>
       \/ \E t \in Bash : began[t] = "on" /\ Writers(t) # {} /\ lines' = <<Line("started", t)>>
    /\ UNCHANGED <<proc, began, tracker, actors, sweeper, count>>

Begin(t) ==
    /\ cli = "live" /\ began[t] = "not" /\ t \in trial.tasks
    /\ began' = [began EXCEPT ![t] = "on"]
    /\ Says(IF t \in Bash THEN <<Line("started", t)>>
                        ELSE <<Line("started", t), Line("link", t)>>)
    /\ UNCHANGED <<proc, cli, tracker, actors, sweeper, count>>

(* The shell opens its file, and a process of it begets another.           *)
Open(t, p) ==
    /\ t \in Bash /\ proc[t][p] = "unborn" /\ p \in trial.pids
    /\ IF Spooled(t) THEN Writers(t) # {} ELSE cli = "live" /\ began[t] = "on"
    /\ proc' = [proc EXCEPT ![t][p] = "alive"]
    /\ UNCHANGED <<cli, lines, began, tracker, actors, sweeper, count>>

Quit(t, p) ==
    /\ t \in Bash /\ proc[t][p] = "alive"
    /\ proc' = [proc EXCEPT ![t][p] = "dead"]
    /\ UNCHANGED <<cli, lines, began, tracker, actors, sweeper, count>>

(* The CLI tells the end of a task twice.                                  *)
Tell(t) ==
    /\ cli = "live" /\ began[t] = "on"
    /\ t \in Bash => Spooled(t) /\ Writers(t) = {}
    /\ began' = [began EXCEPT ![t] = "over"]
    /\ Says(<<Line("updated", t), Line("ended", t)>>)
    /\ UNCHANGED <<proc, cli, tracker, actors, sweeper, count>>

(* The agents die with it, the processes of bash tasks need not. *)
Die ==
    /\ cli = "live"
    /\ cli' = "dead"
    /\ began' = [t \in Tasks |-> IF t \in Bash \/ began[t] = "not" THEN began[t] ELSE "over"]
    /\ UNCHANGED <<proc, lines, tracker, actors, sweeper, count>>

-----------------------------------------------------------------------------
(* ClaudeTaskEvents and on_exit *)

Read ==
    LET l == Head(lines)
    IN  /\ Free("reader") /\ lines # <<>>
        /\ lines' = Tail(lines)
        /\ CASE l.kind = "started" -> Call("reader", "start", l.t, "running", "read")
             [] l.kind = "link" -> Call("reader", "link", l.t, "none", "write")
             [] OTHER -> Call("reader", "end", l.t, "completed", "read")
        /\ UNCHANGED <<proc, cli, began, tracker, todo, probe, sweeper, count>>

(* Mutant: on_exit leaves the tracker alone. *)
OnExitQuiet ==
    /\ Free("exit") /\ cli = "dead" /\ todo["exit"] = {}
    /\ cli' = "none"
    /\ UNCHANGED <<proc, lines, began, tracker, actors, sweeper, count>>

(* on_exit: end_all_running goes through a list of what runs.              *)
OnExit ==
    /\ Free("exit") /\ cli = "dead" /\ todo["exit"] = {}
    /\ cli' = "none"
    /\ todo' = [todo EXCEPT !["exit"] = Running]
    /\ late' = (late \/ lines # <<>> \/ call["reader"] # Idle)
    /\ UNCHANGED <<proc, lines, began, tracker, call, probe, sweeper, up, purged, blind, faults, restarts, trial>>

ExitNext(t) ==
    /\ Free("exit") /\ t \in todo["exit"]
    /\ todo' = [todo EXCEPT !["exit"] = @ \ {t}]
    /\ Call("exit", "end", t, "stopped", "read")
    /\ UNCHANGED <<world, tracker, probe, sweeper, count>>

-----------------------------------------------------------------------------
(* lsof *)

Unasked == [t |-> None, ok |-> FALSE, pids |-> {}]

(* lsof_writers_detailed: an answer of its moment, or none.                *)
Lsof(a, t) ==
    \/ /\ probe' = [probe EXCEPT ![a] = [t |-> t, ok |-> TRUE, pids |-> Writers(t)]]
       /\ UNCHANGED faults
    \/ /\ faults < trial.faults
       /\ probe' = [probe EXCEPT ![a] = [t |-> t, ok |-> FALSE, pids |-> {}]]
       /\ faults' = faults + 1

Asked(a) == probe[a].t # None
Forgotten(a) == probe' = [probe EXCEPT ![a] = Unasked]

(* lsof_writers: no answer counts as nobody.                               *)
Nobody(a) == probe[a].pids = {}

-----------------------------------------------------------------------------
(* run_liveness_sweep *)

Resting(a) == a \in trial.callers /\ Free(a) /\ todo[a] = {} /\ ~Asked(a)

(* Of the list of what runs, the bash tasks past their grace are probed;   *)
(* the misses of tasks that are not on it go.                              *)
Tick ==
    /\ Resting("sweep") /\ Running # {}
    /\ todo' = [todo EXCEPT !["sweep"] = {t \in Running \cap Bash : old[t]}]
    /\ miss' = miss \cap Running
    /\ force' \in BOOLEAN
    /\ UNCHANGED <<world, tracker, call, probe, count>>

Sweep(t) ==
    /\ Free("sweep") /\ ~Asked("sweep") /\ t \in todo["sweep"]
    /\ todo' = [todo EXCEPT !["sweep"] = @ \ {t}]
    /\ Lsof("sweep", t)
    /\ UNCHANGED <<world, tracker, call, sweeper, up, purged, blind, late, restarts, trial>>

(* Mutant: a miss is never counted. *)
ConcludeForgetful ==
    LET t == probe["sweep"].t
    IN  /\ Free("sweep") /\ Asked("sweep")
        /\ Forgotten("sweep")
        /\ IF probe["sweep"].ok /\ Nobody("sweep") /\ (force \/ t \in miss)
           THEN miss' = miss \ {t} /\ Call("sweep", "end", t, "stopped", "read")
           ELSE UNCHANGED <<miss, call>>
        /\ UNCHANGED <<world, tracker, todo, force, count>>

(* Two misses in a row, or one after a jump of the clock, end the task; an *)
(* lsof that fails says nothing.                                           *)
Conclude ==
    LET t == probe["sweep"].t
        gone == probe["sweep"].ok /\ Nobody("sweep")
    IN  /\ Free("sweep") /\ Asked("sweep")
        /\ Forgotten("sweep")
        /\ IF gone /\ (force \/ t \in miss)
           THEN miss' = miss \ {t} /\ Call("sweep", "end", t, "stopped", "read")
           ELSE /\ miss' = IF gone THEN miss \cup {t}
                           ELSE IF probe["sweep"].ok THEN miss \ {t} ELSE miss
                /\ UNCHANGED call
        /\ UNCHANGED <<world, tracker, todo, force, count>>

-----------------------------------------------------------------------------
(* kill_background_task and kill_tasks_for_chat *)

Killers == {"kill", "purge"}

Kill(t) ==
    /\ Resting("kill") /\ status[t] # "none"
    /\ todo' = [todo EXCEPT !["kill"] = {t}]
    /\ UNCHANGED <<world, tracker, call, probe, sweeper, count>>

Purge ==
    /\ Resting("purge") /\ ~purged /\ Running # {}
    /\ todo' = [todo EXCEPT !["purge"] = Running]
    /\ UNCHANGED <<world, tracker, call, probe, sweeper, count>>

(* stop_task: the CLI ends the task and will say so; kill_background_task  *)
(* leaves the tracker to that line.                                        *)
StopByCli(a, t) ==
    /\ Free(a) /\ ~Asked(a) /\ t \in todo[a] /\ cli = "live" /\ began[t] = "on"
    /\ proc' = IF t \in Bash THEN [proc EXCEPT ![t] = [p \in Pids |-> IF @[p] = "alive" THEN "dead" ELSE @[p]]]
                             ELSE proc
    /\ began' = [began EXCEPT ![t] = "over"]
    /\ Says(<<Line("ended", t)>>)
    /\ todo' = [todo EXCEPT ![a] = @ \ {t}]
    /\ IF a = "purge" THEN Call(a, "end", t, "stopped", "read") ELSE UNCHANGED call
    /\ UNCHANGED <<cli, tracker, probe, sweeper, count>>

(* Without a CLI that answers, whoever writes the file is looked up.       *)
StopByHand(a, t) ==
    /\ Free(a) /\ ~Asked(a) /\ t \in todo[a]
    /\ IF t \in Bash THEN Lsof(a, t) /\ UNCHANGED todo
       ELSE todo' = [todo EXCEPT ![a] = @ \ {t}] /\ UNCHANGED <<probe, faults>>
    /\ UNCHANGED <<world, tracker, call, sweeper, up, purged, blind, late, restarts, trial>>

NoWriter(a) ==
    /\ Free(a) /\ Asked(a) /\ probe[a].t \in todo[a] /\ Nobody(a)
    /\ todo' = [todo EXCEPT ![a] = @ \ {probe[a].t}]
    /\ Forgotten(a)
    /\ UNCHANGED <<world, tracker, call, sweeper, count>>

(* Each of them gets SIGTERM and SIGKILL; then the file is looked up again.*)
Signal(a) ==
    LET t == probe[a].t
    IN  /\ Free(a) /\ Asked(a) /\ t \in todo[a] /\ ~Nobody(a)
        /\ proc' = [proc EXCEPT ![t] = [p \in Pids |-> IF p \in probe[a].pids THEN "dead" ELSE @[p]]]
        /\ todo' = [todo EXCEPT ![a] = @ \ {t}]
        /\ probe' = [probe EXCEPT ![a].pids = {}, ![a].ok = FALSE]
        /\ UNCHANGED <<cli, lines, began, tracker, call, sweeper, count>>

Checking(a) == Free(a) /\ Asked(a) /\ probe[a].t \notin todo[a]

(* Mutant: the file is not looked up again. *)
RecheckNot(a) ==
    /\ Checking(a)
    /\ Forgotten(a)
    /\ Call(a, "end", probe[a].t, "stopped", "read")
    /\ UNCHANGED <<world, tracker, todo, sweeper, count>>

Recheck(a) ==
    LET t == probe[a].t
    IN  /\ Checking(a)
        /\ Forgotten(a)
        /\ \/ /\ Writers(t) = {} /\ UNCHANGED <<faults, blind>>
              /\ Call(a, "end", t, "stopped", "read")
           \/ /\ Writers(t) # {} /\ UNCHANGED <<faults, blind, call>>
           \/ /\ faults < trial.faults /\ faults' = faults + 1 /\ blind' = TRUE
              /\ Call(a, "end", t, "stopped", "read")
        /\ UNCHANGED <<world, tracker, todo, sweeper, up, purged, late, restarts, trial>>

(* archive_chat: the session is killed and the chat removed.               *)
Remove ==
    /\ Free("purge") /\ todo["purge"] = {} /\ ~Asked("purge") /\ ~purged /\ cli \in {"none", "dead"}
    /\ purged' = TRUE
    /\ status' = [t \in Tasks |-> "none"]
    /\ old' = [t \in Tasks |-> FALSE]
    /\ UNCHANGED <<world, shown, actors, sweeper, up, blind, late, faults, restarts, trial>>

-----------------------------------------------------------------------------
(* The daemon dies and starts; the processes of bash tasks do not notice.  *)

Crash ==
    /\ up /\ restarts < trial.restarts
    /\ up' = FALSE /\ restarts' = restarts + 1
    /\ cli' = "none" /\ lines' = <<>>
    /\ began' = [t \in Tasks |-> IF t \in Bash \/ began[t] = "not" THEN began[t] ELSE "over"]
    /\ status' = [t \in Tasks |-> "none"] /\ old' = [t \in Tasks |-> FALSE]
    /\ shown' = [t \in Tasks |-> "none"]
    /\ call' = [a \in Actors |-> Idle] /\ todo' = [a \in Actors |-> {}]
    /\ probe' = [a \in Actors |-> Unasked] /\ miss' = {} /\ force' = FALSE
    /\ UNCHANGED <<proc, purged, blind, late, faults, trial>>

(* reconcile_background_tasks walks the spool files, which outlive all.    *)
Boot ==
    /\ ~up
    /\ up' = TRUE
    /\ todo' = [todo EXCEPT !["boot"] = IF purged THEN {} ELSE {t \in Bash : Spooled(t)}]
    /\ UNCHANGED <<world, tracker, call, probe, sweeper, purged, blind, late, faults, restarts, trial>>

Reconcile(t) ==
    /\ Free("boot") /\ ~Asked("boot") /\ t \in todo["boot"]
    /\ Lsof("boot", t)
    /\ todo' = [todo EXCEPT !["boot"] = @ \ {t}]
    /\ UNCHANGED <<world, tracker, call, sweeper, up, purged, blind, late, restarts, trial>>

Recover ==
    /\ Free("boot") /\ Asked("boot")
    /\ Call("boot", "adopt", probe["boot"].t, IF Nobody("boot") THEN "stopped" ELSE "running", "write")
    /\ blind' = (blind \/ ~probe["boot"].ok)
    /\ Forgotten("boot")
    /\ UNCHANGED <<world, tracker, todo, sweeper, up, purged, late, faults, restarts, trial>>

-----------------------------------------------------------------------------
Init ==
    /\ proc = [t \in Bash |-> [p \in Pids |-> "unborn"]]
    /\ cli = "none" /\ lines = <<>> /\ began = [t \in Tasks |-> "not"]
    /\ status = [t \in Tasks |-> "none"] /\ old = [t \in Tasks |-> FALSE]
    /\ shown = [t \in Tasks |-> "none"]
    /\ call = [a \in Actors |-> Idle] /\ todo = [a \in Actors |-> {}]
    /\ probe = [a \in Actors |-> Unasked]
    /\ miss = {} /\ force = FALSE /\ up = TRUE /\ purged = FALSE
    /\ blind = FALSE /\ late = FALSE /\ faults = 0 /\ restarts = 0
    /\ trial \in Trials

Sweeping == Tick \/ Conclude \/ \E t \in Tasks : Sweep(t)
Exiting == OnExit \/ \E t \in Tasks : ExitNext(t)
Killing(a) ==
    \/ NoWriter(a) \/ Signal(a) \/ Recheck(a)
    \/ \E t \in Tasks : StopByCli(a, t) \/ StopByHand(a, t)
Recovering == Recover \/ \E t \in Tasks : Reconcile(t)
Children == \E t \in Bash, p \in Pids : Open(t, p) \/ Quit(t, p)

Next ==
    \/ \E a \in Actors : Track(a)
    \/ \E t \in Tasks : Age(t) \/ Begin(t) \/ Tell(t) \/ Kill(t)
    \/ Children \/ StartCli \/ Die \/ Read \/ Exiting \/ Sweeping
    \/ Purge \/ Remove \/ \E a \in Killers : Killing(a)
    \/ Crash \/ Boot \/ Recovering

Spec == Init /\ [][Next]_vars

(* The daemon's own tasks run, time passes and the interval ticks.         *)
FairSpec ==
    /\ Spec
    /\ \A a \in Actors : WF_vars(Track(a))
    /\ \A t \in Tasks : WF_vars(Age(t)) /\ WF_vars(Sweep(t))
    /\ WF_vars(Tick) /\ WF_vars(Conclude) /\ WF_vars(Exiting)

-----------------------------------------------------------------------------
(* Properties *)

TypeOK ==
    /\ cli \in {"none", "live", "dead"} /\ began \in [Tasks -> {"not", "on", "over"}]
    /\ status \in [Tasks -> {"none", "running"} \cup Terminal]
    /\ shown \in [Tasks -> {"none", "running"} \cup Terminal]
    /\ old \in [Tasks -> BOOLEAN] /\ miss \subseteq Tasks
    /\ \A a \in Actors :
          /\ call[a].op \in {"none", "start", "end", "adopt", "link"}
          /\ call[a].step \in {"none", "read", "write", "send"}
          /\ todo[a] \subseteq Tasks /\ probe[a].t \in Tasks \cup {None}
    /\ ~up => call = [a \in Actors |-> Idle]
    /\ trial \in Trials

(* The daemon's own verdict that a bash task is over, by the sweep, by a   *)
(* kill of the one task or by the reconcile, is never passed on a task     *)
(* whose process still writes, unless a kill or the reconcile had no       *)
(* answer from lsof; the purge of a chat, which may take the CLI's word    *)
(* for the end of a task, is left out                                      *)
(* (liveness.rs:107-130, kill.rs:253-297, reconcile.rs:36-69).             *)
OnlyGoneAreStopped ==
    \A a \in {"sweep", "kill", "boot"} :
        call[a].op # "none" /\ call[a].st = "stopped" /\ call[a].t \in Bash =>
            Writers(call[a].t) = {} \/ (blind /\ a # "sweep")

(* Once its processes are gone, a bash task does not stay running, whether *)
(* or not the CLI lives to say so: the sweep, where it takes part, ends it *)
(* (liveness.rs:74-153).                                                   *)
GoneIsNoticed ==
    \A t \in Bash :
        "sweep" \in trial.callers /\ status[t] = "running" /\ Spooled(t) /\ Writers(t) = {}
            ~> status[t] # "running"

(* When the exit of the CLI has been handled, no agent is left running:    *)
(* it could never report its end (event_handler.rs:1040-1044).             *)
NothingPinned ==
    up /\ cli = "none" /\ lines = <<>> /\ (\A a \in Actors : call[a] = Idle /\ todo[a] = {}) =>
        \A t \in Tasks \ Bash : late \/ status[t] # "running"

(* The same as the comment has it, without the exception.                  *)
ExitEndsAgents ==
    up /\ cli = "none" /\ lines = <<>> /\ (\A a \in Actors : call[a] = Idle /\ todo[a] = {}) =>
        \A t \in Tasks \ Bash : status[t] # "running"

(* A task is told to have ended once (collab_activity.rs: "a race between  *)
(* two closing routes can never emit a second ended").                     *)
EndedOnce ==
    [][\A a \in Actors, t \in Tasks :
          call[a].op = "end" /\ call[a].step = "send" /\ call'[a] = Idle /\ call[a].t = t /\ up'
             => shown[t] \notin Terminal]_vars
=============================================================================
