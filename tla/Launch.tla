------------------------------- MODULE Launch -------------------------------
(***************************************************************************)
(* The launch processes of one project (mainframe-launch): start and stop  *)
(* of launch_manager.rs, which web requests call side by side, the task    *)
(* that waits for each child to exit, the pidfile of child_registry.rs and *)
(* the sweep of process/sweep.rs, by which a daemon reaps the children of  *)
(* one that died.                                                          *)
(*                                                                         *)
(* A step is what happens between two awaits; where start looks at the map *)
(* before it spawns, requests on other threads fall between.  A child is   *)
(* the leader of its process group.  The kernel hands out pids again: to   *)
(* new children and to strangers, which must never get a signal meant for  *)
(* a child.                                                                *)
(***************************************************************************)
EXTENDS Integers, FiniteSets

CONSTANTS
    Names,     \* the launch configurations
    Pids,      \* process ids of the kernel
    Callers,   \* requests under way
    MaxProcs, MaxCrashes, MaxStrangers, \* bounds
    None

ASSUME LaunchAssumption ==
    /\ {MaxProcs, MaxCrashes, MaxStrangers} \subseteq Nat
    /\ None \notin 1..MaxProcs

Procs == 1..MaxProcs
Ended == {"stopped", "failed"}
Status == Ended \cup {"starting", "running"}

VARIABLES
    proc,       \* every child ever spawned: its name, pid and state
    strangers,  \* pids other programs hold
    daemon,     \* "up", "down" or, before it serves, "sweep"
    mine,       \* children whose exit a task of this daemon awaits
    processes,  \* the map of the manager: name to child
    status,     \* the status cell of each child
    shown,      \* LaunchProcessState: the status of each name
    call,       \* what each request does
    records,    \* the children on record in the pidfile
    forgets,    \* removals from it that are spawned, not done
    todo, grace, \* the sweep: entries to look at, the one just signalled
    crashes,
    wanted,     \* history: the last request for the name was a start
    left,       \* history: children that lived, on record, when a daemon died
    missed,     \* history: those whose probe or SIGKILL then failed
    doubled,    \* history: names that got a child beside one in the map
    hit         \* history: a stranger got a signal

files   == <<records, forgets>>
manager == <<processes, status, shown>>
sweep   == <<todo, grace>>
kernel  == <<proc, strangers, hit>>
memory  == <<left, missed, doubled>>
vars    == <<kernel, daemon, mine, manager, call, files, sweep, crashes, wanted, memory>>

Unborn == [name |-> None, pid |-> None, state |-> "unborn", signal |-> "none"]
Idle == [pc |-> "idle", name |-> None, child |-> None]

Born == {p \in Procs : proc[p].state # "unborn"}
Alive(p) == proc[p].state = "alive"
Waiting(pc) == {c \in Callers : call[c].pc = pc}
Serving(c) == daemon = "up" /\ call[c].pc = "idle"

-----------------------------------------------------------------------------
(* The kernel *)

(* A dead child keeps its pid until its task has waited for it; and the    *)
(* kernel has gone through other pids before it gives a new child one that *)
(* is still being written to the pidfile, or removed from it.              *)
Held == strangers \cup {proc[p].pid : p \in {q \in Born : Alive(q) \/ q \in mine}}
Resting == Held \cup {proc[p].pid : p \in forgets \cup {call[c].child : c \in Waiting("record")}}

(* A signal to the group of a pid reaches whoever holds it.                *)
Signalled(pid, signal) ==
    /\ proc' = [p \in Procs |->
                   IF Alive(p) /\ proc[p].pid = pid /\ proc[p].signal # "kill"
                   THEN [proc[p] EXCEPT !.signal = signal] ELSE proc[p]]
    /\ hit' = (hit \/ pid \in strangers)

Die(p) ==
    /\ Alive(p)
    /\ proc' = [proc EXCEPT ![p] = [@ EXCEPT !.state = "dead", !.signal = "none"]]
    /\ UNCHANGED <<strangers, hit, daemon, mine, manager, call, files, sweep, crashes, wanted, memory>>

(* Only what a child was known by matters.                                 *)
Reuse(pid) ==
    /\ Cardinality(strangers) < MaxStrangers
    /\ pid \in {proc[p].pid : p \in Born} \ Held
    /\ strangers' = strangers \cup {pid}
    /\ UNCHANGED <<proc, hit, daemon, mine, manager, call, files, sweep, crashes, wanted, memory>>

-----------------------------------------------------------------------------
(* start *)

SetCall(c, pc, n, p) == call' = [call EXCEPT ![c] = [pc |-> pc, name |-> n, child |-> p]]

(* Mutant: a child in the map makes every start a no-op. *)
StartExistingSkips(c, n) ==
    /\ Serving(c) /\ processes[n] # None
    /\ wanted' = [wanted EXCEPT ![n] = TRUE]
    /\ UNCHANGED <<kernel, daemon, mine, manager, call, files, sweep, crashes, memory>>

(* A running child makes start a no-op; a stopped one that still dies is   *)
(* waited for.                                                             *)
StartExisting(c, n) ==
    LET p == processes[n]
    IN  /\ Serving(c) /\ p # None
        /\ IF status[p] \in Ended THEN SetCall(c, "teardown", n, p) ELSE UNCHANGED call
        /\ wanted' = [wanted EXCEPT ![n] = TRUE]
        /\ UNCHANGED <<kernel, daemon, mine, manager, files, sweep, crashes, memory>>

Reset(n, s) == shown' = [shown EXCEPT ![n] = s]

Spawn(c, n) ==
    /\ Born # Procs
    /\ \E pid \in Pids \ Resting :
           LET p == Cardinality(Born) + 1
           IN  /\ proc' = [proc EXCEPT ![p] = [name |-> n, pid |-> pid, state |-> "alive", signal |-> "none"]]
               /\ mine' = mine \cup {p}
               /\ processes' = [processes EXCEPT ![n] = p]
               /\ status' = [status EXCEPT ![p] = "starting"]
               /\ SetCall(c, "record", n, p)
    /\ Reset(n, "starting")
    /\ wanted' = [wanted EXCEPT ![n] = TRUE]
    /\ doubled' = IF processes[n] = None THEN doubled ELSE doubled \cup {n}
    /\ UNCHANGED <<strangers, hit, daemon, files, sweep, crashes, left, missed>>

SpawnFails(c, n) ==
    /\ call' = [call EXCEPT ![c] = Idle]
    /\ Reset(n, "failed")
    /\ wanted' = [wanted EXCEPT ![n] = FALSE]
    /\ UNCHANGED <<kernel, daemon, mine, processes, status, files, sweep, crashes, memory>>

SpawnOr(c, n) == Spawn(c, n) \/ SpawnFails(c, n)

(* Nothing guards the map between this look at it and the spawn: two       *)
(* threads may both find no child.                                         *)
Start(c, n) ==
    /\ Serving(c) /\ processes[n] = None
    /\ SetCall(c, "spawn", n, None)
    /\ wanted' = [wanted EXCEPT ![n] = TRUE]
    /\ UNCHANGED <<kernel, daemon, mine, manager, files, sweep, crashes, memory>>

(* exit_tx: the task of the child is through.                              *)
TornDown(c) == call[c].child \notin mine

MaySpawn(c) == call[c].pc = "spawn" \/ (call[c].pc = "teardown" /\ TornDown(c))

Launched(c) == MaySpawn(c) /\ SpawnOr(c, call[c].name)

(* The wait outlasts the grace of a stop: it only runs out when no stop is *)
(* there to send SIGKILL.                                                  *)
TeardownTimeout(c) ==
    /\ call[c].pc = "teardown" /\ Alive(call[c].child) /\ proc[call[c].child].signal # "kill"
    /\ \A d \in Callers : call[d].child = call[c].child => call[d].pc \notin {"term", "kill"}
    /\ call' = [call EXCEPT ![c] = Idle]
    /\ wanted' = [wanted EXCEPT ![call[c].name] = FALSE]
    /\ UNCHANGED <<kernel, daemon, mine, manager, files, sweep, crashes, memory>>

(* add replaces whatever the file holds for the pid.                       *)
Add(p) == records' = {r \in records : proc[r].pid # proc[p].pid} \cup {p}

(* record_spawn, for the child that lives or has exited meanwhile.         *)
RecordSpawn(c) ==
    /\ call[c].pc = "record"
    /\ Add(call[c].child)
    /\ call' = [call EXCEPT ![c].pc = "port"]
    /\ UNCHANGED <<kernel, daemon, mine, manager, forgets, sweep, crashes, wanted, memory>>

(* Mutant: the status of the child is not looked at when the wait ends. *)
ReadyUnguarded(c) ==
    LET p == call[c].child
    IN  /\ call[c].pc = "port"
        /\ status' = [status EXCEPT ![p] = "running"] /\ Reset(call[c].name, "running")
        /\ call' = [call EXCEPT ![c] = Idle]
        /\ UNCHANGED <<kernel, daemon, mine, processes, files, sweep, crashes, wanted, memory>>

(* wait_for_port ends: the port answers, the time is up, or the status has *)
(* changed.                                                                *)
Ready(c) ==
    LET p == call[c].child
    IN  /\ call[c].pc = "port"
        /\ IF status[p] = "starting"
           THEN status' = [status EXCEPT ![p] = "running"] /\ Reset(call[c].name, "running")
           ELSE UNCHANGED <<status, shown>>
        /\ call' = [call EXCEPT ![c] = Idle]
        /\ UNCHANGED <<kernel, daemon, mine, processes, files, sweep, crashes, wanted, memory>>

-----------------------------------------------------------------------------
(* stop, and the task that waits for a child *)

(* The status is set first: whatever the child exits with, it was stopped. *)
Stop(c, n) ==
    LET p == processes[n]
    IN  /\ Serving(c) /\ p # None
        /\ status' = [status EXCEPT ![p] = "stopped"] /\ Reset(n, "stopped")
        /\ Signalled(proc[p].pid, "term")
        /\ SetCall(c, "term", n, p)
        /\ wanted' = [wanted EXCEPT ![n] = FALSE]
        /\ UNCHANGED <<strangers, daemon, mine, processes, files, sweep, crashes, memory>>

(* Mutant: after the grace the stop only waits on. *)
EscalateNever(c) ==
    /\ call[c].pc = "term" /\ ~TornDown(c)
    /\ call' = [call EXCEPT ![c].pc = "kill"]
    /\ UNCHANGED <<kernel, daemon, mine, manager, files, sweep, crashes, wanted, memory>>

(* The grace is over and the child is not.                                 *)
Escalate(c) ==
    /\ call[c].pc = "term" /\ ~TornDown(c)
    /\ Signalled(proc[call[c].child].pid, "kill")
    /\ call' = [call EXCEPT ![c].pc = "kill"]
    /\ UNCHANGED <<strangers, daemon, mine, manager, files, sweep, crashes, wanted, memory>>

StopReturns(c) ==
    /\ call[c].pc \in {"term", "kill"} /\ TornDown(c)
    /\ call' = [call EXCEPT ![c] = Idle]
    /\ UNCHANGED <<kernel, daemon, mine, manager, files, sweep, crashes, wanted, memory>>

(* Mutant: the pidfile forgets by label. *)
ForgottenByName(p) == {r \in records : proc[r].name = proc[p].name}

(* remove(pid)                                                             *)
Forgotten(p) == {r \in records : proc[r].pid = proc[p].pid}

Forget(p) ==
    /\ p \in forgets
    /\ forgets' = forgets \ {p} /\ records' = records \ Forgotten(p)
    /\ UNCHANGED <<kernel, daemon, mine, manager, call, sweep, crashes, wanted, memory>>

(* wait_for_exit_task, once the child has exited, with code 0 or another.  *)
WaitForExit(p) ==
    LET n == proc[p].name
    IN  /\ p \in mine /\ ~Alive(p)
        /\ IF status[p] = "stopped"
           THEN UNCHANGED <<status, shown, wanted>>
           ELSE /\ \E s \in Ended : status' = [status EXCEPT ![p] = s] /\ Reset(n, s)
                /\ wanted' = [wanted EXCEPT ![n] = FALSE]
        /\ processes' = [processes EXCEPT ![n] = None]
        /\ mine' = mine \ {p} /\ forgets' = forgets \cup {p}
        /\ UNCHANGED <<kernel, daemon, call, records, sweep, crashes, memory>>

(* The client hangs up: the handler and the call it awaits are dropped.    *)
DropRequest(c) ==
    /\ call[c].pc \notin {"idle", "spawn"}
    /\ call' = [call EXCEPT ![c] = Idle]
    /\ wanted' = IF call[c].pc = "teardown" THEN [wanted EXCEPT ![call[c].name] = FALSE] ELSE wanted
    /\ UNCHANGED <<kernel, daemon, mine, manager, files, sweep, crashes, memory>>

-----------------------------------------------------------------------------
(* Death of the daemon, and the sweep of the next one *)

Crash ==
    /\ daemon # "down" /\ crashes < MaxCrashes /\ crashes' = crashes + 1
    /\ daemon' = "down" /\ mine' = {} /\ forgets' = {} /\ todo' = {} /\ grace' = None
    /\ processes' = [n \in Names |-> None] /\ shown' = [n \in Names |-> "stopped"]
    /\ call' = [c \in Callers |-> Idle]
    /\ wanted' = [n \in Names |-> FALSE]
    /\ left' = left \cup {p \in records : Alive(p)} /\ doubled' = {}
    /\ UNCHANGED <<kernel, status, records, missed>>

Boot ==
    /\ daemon = "down" /\ daemon' = "sweep" /\ todo' = records
    /\ UNCHANGED <<kernel, mine, manager, call, files, grace, crashes, wanted, memory>>

(* Same pid, same command line and directory: a child of that name.        *)
Matches(p) == \E q \in Born : Alive(q) /\ proc[q].pid = proc[p].pid /\ proc[q].name = proc[p].name

Turn(p) == daemon = "sweep" /\ grace = None /\ p \in todo

(* Nobody has the pid, or not a child of ours; or ps or lsof fails, which  *)
(* looks the same.                                                         *)
SweepGone(p) ==
    /\ Turn(p)
    /\ todo' = todo \ {p} /\ records' = records \ Forgotten(p)
    /\ missed' = IF Matches(p) THEN missed \cup {p} ELSE missed
    /\ UNCHANGED <<kernel, daemon, mine, manager, call, forgets, grace, crashes, wanted, left, doubled>>

(* Mutant: a record whose kill failed is pruned like any other. *)
SweepRefusedPruned(p) ==
    /\ Turn(p) /\ Matches(p)
    /\ todo' = todo \ {p} /\ records' = records \ Forgotten(p)
    /\ UNCHANGED <<kernel, daemon, mine, manager, call, forgets, grace, crashes, wanted, memory>>

(* The kill fails: the record stays for the next sweep.                    *)
SweepRefused(p) ==
    /\ Turn(p) /\ Matches(p)
    /\ todo' = todo \ {p}
    /\ UNCHANGED <<kernel, daemon, mine, manager, call, files, grace, crashes, wanted, memory>>

SweepTerm(p) ==
    /\ Turn(p) /\ Matches(p)
    /\ Signalled(proc[p].pid, "term")
    /\ grace' = p
    /\ UNCHANGED <<strangers, daemon, mine, manager, call, files, todo, crashes, wanted, memory>>

(* Mutant: the pid is killed without a second look at who has it. *)
SweepKillBlind(p) ==
    /\ grace = p
    /\ Signalled(proc[p].pid, "kill")
    /\ grace' = None /\ todo' = todo \ {p} /\ records' = records \ Forgotten(p)
    /\ UNCHANGED <<strangers, daemon, mine, manager, call, forgets, crashes, wanted, memory>>

(* After the grace the identity is checked again before SIGKILL.  Where    *)
(* that look or the signal fails the record goes all the same.             *)
SweepKill(p) ==
    /\ grace = p
    /\ \/ Matches(p) /\ Signalled(proc[p].pid, "kill") /\ UNCHANGED missed
       \/ UNCHANGED <<proc, hit>> /\ missed' = IF Matches(p) THEN missed \cup {p} ELSE missed
    /\ grace' = None /\ todo' = todo \ {p} /\ records' = records \ Forgotten(p)
    /\ UNCHANGED <<strangers, daemon, mine, manager, call, forgets, crashes, wanted, left, doubled>>

Serve ==
    /\ daemon = "sweep" /\ todo = {} /\ daemon' = "up"
    /\ UNCHANGED <<kernel, mine, manager, call, files, sweep, crashes, wanted, memory>>

-----------------------------------------------------------------------------
Init ==
    /\ proc = [p \in Procs |-> Unborn] /\ strangers = {} /\ hit = FALSE
    /\ daemon = "up" /\ mine = {} /\ records = {} /\ forgets = {} /\ todo = {} /\ grace = None
    /\ processes = [n \in Names |-> None] /\ shown = [n \in Names |-> "stopped"]
    /\ status = [p \in Procs |-> "starting"]
    /\ call = [c \in Callers |-> Idle]
    /\ crashes = 0 /\ wanted = [n \in Names |-> FALSE] /\ left = {} /\ missed = {} /\ doubled = {}

Proceed(c) == Launched(c) \/ TeardownTimeout(c) \/ RecordSpawn(c) \/ Ready(c) \/ StopReturns(c)
Sweeping == \E p \in Procs : SweepGone(p) \/ SweepRefused(p) \/ SweepTerm(p) \/ SweepKill(p)
Killed(p) == proc[p].signal = "kill" /\ Die(p)

Next ==
    \/ \E c \in Callers, n \in Names : Start(c, n) \/ StartExisting(c, n) \/ Stop(c, n)
    \/ \E c \in Callers : Proceed(c) \/ Escalate(c) \/ DropRequest(c)
    \/ \E p \in Procs : Die(p) \/ WaitForExit(p) \/ Forget(p)
    \/ \E pid \in Pids : Reuse(pid)
    \/ Crash \/ Boot \/ Sweeping \/ Serve

Spec == Init /\ [][Next]_vars

(* The runtime polls its tasks and timers fire; SIGKILL kills.             *)
FairSpec ==
    /\ Spec
    /\ \A c \in Callers : WF_vars(Proceed(c)) /\ WF_vars(Escalate(c))
    /\ \A p \in Procs : WF_vars(WaitForExit(p)) /\ WF_vars(Killed(p))

-----------------------------------------------------------------------------
(* Every variable keeps its type; the map leads to children of the daemon. *)
TypeOK ==
    /\ \A p \in Born : proc[p].name \in Names /\ proc[p].pid \in Pids /\ proc[p].state \in {"alive", "dead"}
    /\ strangers \subseteq Pids /\ daemon \in {"up", "down", "sweep"}
    /\ mine \subseteq Born /\ \A n \in Names : processes[n] \in mine \cup {None}
    /\ status \in [Procs -> Status] /\ shown \in [Names -> Status]
    /\ records \subseteq Born /\ \A r, q \in records : proc[r].pid = proc[q].pid => r = q
    /\ daemon # "up" => mine = {} /\ \A c \in Callers : call[c] = Idle

(* No program that was given the pid of a dead child gets a signal meant   *)
(* for the child, by a stop or by the sweep of a later daemon.             *)
OnlyOursSignalled == ~hit

(* A child that was on record when its daemon died is killed by the sweep  *)
(* of the next one, or stays on record where the kill was refused, unless  *)
(* ps, lsof or the SIGKILL of the sweep failed.                            *)
OrphansReaped ==
    daemon = "up" => \A p \in left \ missed : ~Alive(p) \/ proc[p].signal = "kill" \/ p \in records

(* A child that runs is on record before anybody waits for its port, and   *)
(* no late removal or record of another child takes its entry.             *)
RunningIsRecorded ==
    \A p \in mine :
        Alive(p) /\ (status[p] = "running" \/ \E c \in Waiting("port") : call[c].child = p) => p \in records

(* A name without a child shows an end, and never the state of a child     *)
(* that is gone, unless overlapping starts gave the name two children.     *)
EndIsShown ==
    \A n \in Names \ doubled :
        processes[n] = None => shown[n] \in Ended

(* A name has one child at a time, however starts, stops and exits fall.   *)
OneChild == \A p, q \in mine : Alive(p) /\ Alive(q) /\ proc[p].name = proc[q].name => p = q

(* A start that meets the teardown of the old child is not lost: unless    *)
(* somebody stops it, hangs up or the spawn fails, the name gets a child.  *)
(* Two children of the name are exempted.                                  *)
AskedIsRun ==
    \A n \in Names :
        wanted[n] ~> \/ ~wanted[n] \/ n \in doubled
                     \/ processes[n] # None /\ status[processes[n]] \notin Ended

(* A stop comes back, even from a child that ignores SIGTERM.              *)
StopComesBack == \A c \in Callers : call[c].pc = "term" ~> call[c].pc = "idle"
=============================================================================
