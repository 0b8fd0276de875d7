# Mainframe in TLA+

Mainframe is a desktop application around command-line coding agents. A Rust
daemon (`src/packages/core-rs`) owns all state and talks to the agents; a Tauri
shell (`src/packages/app-tauri`) and a React UI (`src/packages/ui`) are its
clients. This directory models the parts of the daemon where a mistake is
hardest to see: where several tasks, users, child processes or a second daemon
write the same state, and where a wait, a retry or a restart decides again what
was decided before. The centre is the durable engine that runs automations
(`crates/mainframe-automations`): a run lives for hours, opens agent chats,
asks the user questions, executes shell and HTTP actions, waits for deadlines,
survives the death of the daemon, and is written to by up to five kinds of
tasks at the same time.

    tlc -workers 2 -config MCRun.cfg MCAutomationRun
    tlapm AutomationRunProofs.tla

Sections: 1 inventory, 2 modules and how they correspond to the code, 3 runs
and their bounds, 4 fairness, 5 where code and documentation part, 6 proofs, 7
not modelled.

## 1. Inventory

*Hard* names the behaviour that a test would hardly reach, *correct* what has
to hold.

| component | state it keeps | operations | hard / correct | module |
|---|---|---|---|---|
| run store, checkpoint helpers (`store/`, `engine/checkpoint.rs`, `markers.rs`) | one row per run: status, checkpoint (step entries, branch markers, wake_at) | `patch_checkpoint`, `finalize`, `park_step`, `fail_step_entry`, `recompute_wake_at` | several writers, each in its own transaction / a verdict is final, wake_at is exact | `CheckpointStore` |
| advance loop and walk (`engine/advance.rs`, `walk.rs`, `run_locks.rs`) | per-run lock, cancel signals; the walk's copy of the checkpoint | `advance`, `resolve_stale_running`, `walk_frame`, `run_leaf`, `finalize_and_emit`, `cancel_run` | the walk decides on a copy; a signal drops it at any await; a crash leaves `running` marks / no effect twice, no failure lost | `AdvanceLoop` |
| blocks (`blocks*.rs`) | markers inside the checkpoint | parallel, if, repeat, concurrent repeat, retry, loop, break | after a park the walk descends again from the top and tells attempts and passes apart by markers / each pass runs once, the verdict is what the leaves mean | `BlockWalk`, `BlockMeaning` |
| agent waits (`engine/agent.rs`, `agent_settle.rs`) | in-memory map of waits, a watch task per chat | `execute`, `settle`, `reattach`, `clear_for_run` | settle between judging and writing, lost frames, correction against deadline / the end of a chat reaches its step | `AgentWaits` |
| questions (`interactions.rs`, `store/interaction_store.rs`) | rows of forms | `execute`, `respond`, `cancel_pending_for_run` | answer against park, cancel against create / one question, one answer, none left behind | `Interactions` |
| due-sweep and waits (`engine/deadline.rs`, `walk.rs`) | a snapshot per tick | `sweep_due`, `fail_step`, `resume_wait` | stale snapshot, finalize outside the lock / every deadline is acted on | `DueSweep` |
| service (`service.rs`, `service/`) | the engine's tasks | `start`, `cancel_run`, `set_enabled`, `delete` | boot order, re-attach, delete against fires / no live run without somebody to resume it | `AutomationRun`, `Triggers` |
| triggers (`triggers/`, `scheduler.rs`) | runs with dedup keys | schedule sweep (30 s), session and completion router, webhook ingest | missed or doubled fires around a restart, a failed insert / each source fires once, a due slot fires | `Triggers` |
| permission prompts (`permission_manager.rs`, `permission_handler.rs`) | per chat: queue, ring of withdrawn ids | request, withdraw, answer, interrupt, result | answers from two clients, withdrawal against answer / no prompt lost, a withdrawn one stays unanswered | `PermissionQueue` |
| chat sessions (`lifecycle_manager.rs`, `send.rs`, `event_handler.rs`) | cell per chat, session, process state, queued messages | send, load, start, stop, end, cancel queued | joined starts, exits of replaced sessions, late acknowledgements / one process, honest badges | `ChatSession` |
| launch processes (`mainframe-launch`) | process map, pidfile | start, stop, exit, boot sweep | a daemon that dies, recycled pids / orphans are reaped and nobody else is hit | `Launch` |
| port tunnels (`tunnel_manager.rs`, `port_tunnel_registry.rs`) | two maps, a channel per start | get, list, stop | joined starts, dropped requests, late watchers / one start per port, a stop bites | `Tunnels` |
| background tasks (`mainframe-background-tasks`) | tracker: tasks per chat; misses of the sweep | start, end, adopt, sweep, kill, reconcile | callers that overlap inside a call, an `lsof` that fails, exits that overtake lines / a live task is not called stopped, a dead one not running | `BackgroundTasks` |
| todo sync with GitHub (`mainframe-plugins/src/todos_github`) | pairs with baselines, report | fetch, reconcile, apply, settle | edits during a run, partial failure / the later edit wins, nothing is overwritten silently | `TodoSync` |

### How the parts interact

- The HTTP routes, triggers and `start()` call `advance(run)`. Per run there is
  one `tokio` mutex; whoever holds it reads the run, deals with `running`
  entries of a dead engine, and walks the frozen definition, committing to the
  store before and after each leaf.
- `ask_agent` opens a chat through the agent port, parks its step as `waiting`,
  registers the wait in memory and spawns a watch task. When the chat ends, the
  task judges the answer, writes the entry **outside** the run lock, and calls
  `advance` or finalizes the run.
- `ask_me` writes a form and parks. `respond` writes the answer and the step in
  one transaction and awaits `advance` inside the HTTP request.
- Every 30 s the due-sweep goes through the entries whose `wake_at` has passed,
  again outside the lock.
- `cancel_run` fires a signal that makes `select!` drop the walk future
  wherever it awaits, finalizes the run, and then clears the registered waits.
- All of them share the row of the run. Every writing transaction begins with
  `assert_not_terminal` (called A8 in the code).
- Triggers insert runs; the unique index on the dedup key is the only thing
  that keeps two sources of the same fire apart. A finished run goes through a
  hook to the router, which may start the next one.
- A chat has one cell with at most one session, which owns a child process. The
  process talks to the sink of `event_handler.rs` in lines; the sink feeds the
  permission queue, the queued messages and the process state.
- Launch and tunnel children are written to a pidfile; the next daemon sweeps it.

## 2. Modules

| module | what it is |
|---|---|
| `CheckpointStore` | the run's row, its checkpoint and forms; one operator per transaction or checkpoint helper |
| `AdvanceLoop` | lock, stale policy, walk, cancel signal; one action per stretch of code between two awaits |
| `AgentWaits` | ask_agent in the walk, the chat, the watch and settle task of each step |
| `Interactions` | ask_me in the walk, and `respond` |
| `DueSweep` | the sweep |
| `AutomationRun` | their composition with cancel, dropped requests, crash and boot; the properties |
| `RunContract` | the abstract specification of a run: three variables, three actions |
| `BlockWalk` | the nested walk over a tree of blocks: descent, markers, parks, restarts; the properties of its markers |
| `BlockMeaning` | what a tree means, read off its leaves alone; the properties that compare the walk with it |
| `BlockReplay` | what the walk itself makes of a checkpoint; the invariant `Earned` and the trees it is about (`Plain`, `AgentsFatal`); what may become of a checkpoint (`Onward`) |
| `Triggers` | schedules, sessions, chains and webhooks, one insert; enable and delete |
| `PermissionQueue` | prompts of one chat, its clients and the CLI |
| `ChatSession` | load, start, send, queue, close and exit of one chat |
| `Launch` | launch processes, pidfile and boot sweep over the pids of the kernel |
| `Tunnels` | tunnel manager and port registry |
| `BackgroundTasks` | tracker, CLI lines and exit, sweep, kills, archive and reconcile for one chat |
| `TodoSync` | one project's pairs, the users of both sides and the runs |
| `MC*` | definitions small enough for TLC |
| `*Proofs` | the theorems |

`CheckpointStore` <- `AdvanceLoop` <- { `AgentWaits`, `Interactions`,
`DueSweep` } <- `AutomationRun` <- { `MCAutomationRun`, `AutomationRunProofs` }.
`AutomationRun` instantiates `RunContract` with a refinement mapping. `BlockWalk` <- `BlockMeaning` <- `BlockReplay` <- { `MCBlockWalk`,
`BlockWalkProofs` }. The other
components stand alone: they meet the engine only through calls (`insert run`,
`advance`), not through shared state.

A step of a model is the code between two awaits (or two system calls), unless
stated otherwise. Formatting, logging, payloads and time stamps that nothing
compares are left out.

### The run engine

| variable | code |
|---|---|
| `status`, `cp`, `form` | `automation_runs.status`, `.checkpoint`; `automation_interactions.status`. `cp.step` is the entries' status, `cp.timer` the entries with a `wake_at`, `cp.mark` the branch markers, `cp.wake` whether the run-level `wake_at` is set |
| `lock`, `want` | holder of and queue on the run's mutex; a caller is named by why it advances: fresh run, boot, sweep, or the leaf whose settle asked for it |
| `pc`, `at`, `copy`, `parked`, `stale`, `signal` | where the holder stands in `advance_inner`, its position in the definition, its checkpoint, the frame's parked flag, what `resolve_stale_running` still has to do, the cancel signal of the registered walk |
| `effect` | history: how often the external effect of a leaf was started (capped at 2) |
| `chat`, `heard`, `told` | the chat of a step, the frame in a subscribed receiver, chats told to stop |
| `waits`, `task` | `AgentVerb.waits`; the watch task and how far its settle is |
| `sweep`, `due` | where `sweep_due` stands and what is left of its snapshot |
| `up`, `booted`, `cancel`, `crashes`, `cancels` | the daemon, and the progress of `start` and `cancel_run` |
| `dropped` | history: a respond request was dropped |

- Wall-clock time: a `waiting` entry either has a `wake_at` or not, and at any
  tick any non-empty set of those that have one may be due.
- A leaf is a verb and an outcome. `notify` and `set_variable` are `pure`: they
  run without a `running` mark. Outputs, errors, tokens and deadlines' values are left out.
- A definition is a sequence of leaves and `parallel` blocks of leaves; the
  nested blocks are `BlockWalk`'s.
- A step has one chat. The model cannot tell two apart, and `EffectAtMostOnce`
  is what shows that there never are two. A chat that cannot be created has no state.
- A correction that cannot be sent is counted with the failed verdicts.
- Corrupt checkpoints, the output cap, database errors, a straggling
  `spawn_blocking` closure of a dropped future, and the fallback for rows
  written before entries had deadlines (`engine/deadline.rs:219-232`) are left out.

### The blocks

A tree is given by `Kind`, `Body` and `Parent`; `stack` is the recursion of
`walk_frame` and the handlers made explicit, one frame per active block, and
`ret` what the innermost body just returned. `cp` and `copy` hold the leaves'
entries by step and frame suffix (`ref`), the markers of attempts and branches,
and the count of admitted indices of a concurrent repeat. A park unwinds the
stack; `wanted` is the next advance. Conditions are decided by the output of a
step (`Test`), as token lookups do; the expression language is not modelled.

### Triggers

`rows` is the runs table by dedup key. `sweep`, `route`, `delivery`, `deleter`
and `fires` are the calls under way, each cut at its awaits; `now` is a clock in
units of the sweep interval. `Slots` stands for cron arithmetic: the occurrences
of a schedule up to `MaxTime`. The walk of a run is left to the engine's modules;
here a run just ends, in success or in failure. A run is known by its key: the
trigger and what fired it, which for a chained run is the whole key of the run
before it, so that chains go upon chains and may come round to themselves, as
the code allows (`Source` is `None` for a trigger that names no automation);
`MaxRuns` bounds the table. Signatures and payloads of deliveries are left out,
the time stamp that makes one stale and its id are kept.

### Chats

`PermissionQueue`: `pending`, `tombstones` and `interrupted` are the
`PermissionManager`; `answer` is the call of each client, cut at the guards, the
write and the shift; `pipe` is the process's output the daemon has not read;
`cli` is what the process knows of each request. A process may close its stdin
and live on (`proc = "deaf"`): a write to it returns `Ok` and reaches nobody
(`session.rs:958-966` of the adapter). Requests in `Plans` are approved through
`plan_mode_handler.rs`, which writes the answer a second time (`Escalate`), or,
to clear the context, denies the plan, shifts the queue without announcing who
is in front now (`ShiftSilently`) and kills the process (`KillSession`). That
kill and the `clear_active_session` after it are one step; a start by another
call between them, which would leave an orphan, is left out. `ChatSession`: `active`,
`session`, `flights` are the maps of `lifecycle_manager.rs`; `flag` and `refs`
the two records of a queued message; `inbox`, `busy`, `lines` the process. A
sender sends one message.

### Launch and tunnels

`Launch` has the kernel in it: `proc` is every child ever spawned with its pid,
`strangers` the pids of other programs, and pids are given again. `records` and
`forgets` are the pidfile and the removals spawned but not done; `todo`, `grace`
the sweep. That a pid changes hands between the check of its command line and
the kill, milliseconds apart, is assumed away, as is a stranger with the same
command line and directory, and a new child with a pid whose entry is still being
written or removed (`Resting`). A `ps`, `lsof` or SIGKILL of the sweep may fail:
`missed` remembers whom it failed for. Two starts may both find no child, as
nothing guards the map between the look and the spawn: `doubled` remembers the
names that got a second one. `Tunnels`: `tunnels`, `pending` are the manager's,
`entry`, `outcome` the registry's; a dropped request drops the start it awaits. A child told to stop may die long
after its successor connected; `lost` has the tunnels whose label its watcher
then took away.

### Background tasks

`status`, `old` and `shown` are the tracker, the age of its entries and what its
last event said; `call` is the call each caller is in, cut where the map is
unlocked: read, write, send. `proc` is who holds the spool file of a bash task
open, `probe` what `lsof` told a caller, `lines` what the CLI has said and nobody
has read. The shell is taken to have opened its file within the grace of 90 s, and
a file without a writer to get none again.

### Todo sync

`todo`, `issue`, `pair`, `touch`, `link`, `report` are the tables and the remote;
`report` holds `github_runs` and
`github_report_rows`, which `prune_runs` cuts to the last `KeepRuns`. `req` is the
run with what it fetched and decided; `clock` orders edits in whole seconds, and
is one clock for the board and GitHub, an assumption: with clocks that differ the
later edit need not win. Every await of a run is a gap in which users edit either side. An edit
on the board and its time stamp are two steps (`stamping`), as in the code; the
model lets one client at a time edit a task (`Editable`), which `patch_todo` does
not enforce: it reads the old row an await before it updates it.

## 3. Properties and runs

| run | instance, environment | properties |
|---|---|---|
| `MCRun` | an agent and a wait side by side, a question after the one and an action after the other; a deadline, one crash, one cancel, frames get lost, requests are dropped | `PrefilterExact`, `NotStranded`, `EffectAtMostOnce`, `KeepsContract`, `Terminates` |
| `MCBlocks` | a tree with every kind of block (15 steps), one restart | `VerdictIsEarned`, `StartsInOrder`, `WindowKept`, `AttemptsInOrder`, `EventuallyEnds` |
| `MCTriggers` | four automations, two with schedules, one with a webhook, one with a session trigger, one at a time, and three together, a schedule, a chain on its success and a chain on any failure, its own too; one restart, one failed insert, one edit, three runs | `FiredOnce`, `SweptIsFired`, `AcceptedHasRun`, `ChainFollowsEnd`, `ChainFires` |
| `MCPermissions` | two requests, one of them a plan, two clients, ring of one, two turns, one fault: a death, a closed stdin, a restart or an approval that clears the context and so ends the process; clients that answer the active prompt | `FrontIsShown`, `NothingLost`, `WithdrawnStaysUnanswered`, `EveryPromptShown` |
| `MCSessions` | two senders, two sessions, two loads, one close or death, one cancelled message | `OneStart`, `NoOrphan`, `BadgeHonest`, `BusyIsWorking`, `WorkSettles` |
| `MCLaunch` | one name, two pids, two callers, two children, two crashes, one stranger | `OnlyOursSignalled`, `OrphansReaped`, `RunningIsRecorded`, `EndIsShown`, `AskedIsRun`, `StopComesBack` |
| `MCTunnels` | one port, three requests, three children | `OneStartPerPort`, `StopStops`, `NoTunnelLost`, `WaitersHear` |
| `MCTasks` | five trials: a bash task under the sweep, one found again by the next daemon, one of two processes under kills, one under kills with an `lsof` that fails, an agent under kills and an archive with a death of the daemon | `OnlyGoneAreStopped`, `NothingPinned`, `GoneIsNoticed` |
| `MCTodoSync` | one todo, two fields, three texts, a workflow label and another, two edits, two runs of which one report is kept, two faults | `OneRunIsEnough`, `OverwritesReported`, `LaterEditWins` |

Run engine:
- `NotStranded`: every waiting step has somebody who will come back to it, and
  a live run without waiting steps has somebody about to advance or finalize
  it. This is the invariant behind "durable"; a run whose respond request was
  dropped is the exception (section 5).
- `PrefilterExact`: the run-level `wake_at`, a cached minimum, is set exactly
  when an entry has a deadline; if not, the sweep would never look.
- `Terminates`: every run ends, even if no agent does, when all agents have
  deadlines and no request is dropped.
- `EffectAtMostOnce`: no second chat, no second non-idempotent action.
- `KeepsContract`: the refinement of `RunContract`.

That a failure the author did not allow to pass ends up in the verdict, although
agents fail outside the walk, is `VerdictIsEarned` of the blocks.

Blocks: `VerdictIsEarned` (`SuccessIsEarned` and `FailureIsEarned`) compares
either verdict with `Meaning`, a recursive
function on the tree that reads the entries of the leaves and knows no markers,
no parks and no order of events; a loop that uses up its passes has failed in
it, whatever its condition says after the last one, as in the code (section 5); `StartsInOrder` says a step starts
only where what is before it is done, and while nothing of a failed attempt
still waits, to be settled beside a later one; `WindowKept` bounds the open indices of a
concurrent repeat and forbids gaps; `AttemptsInOrder`: an attempt starts only
after every earlier one failed; `EventuallyEnds` is the end of the run.

Triggers: `FiredOnce` per source; `SweptIsFired`: after a tick no due slot of an
enabled automation is without its run, unless it was edited or an insert failed
meanwhile; `ChainFollowsEnd` and `ChainFires`: a chained run follows the end of
a run that its trigger selects, by automation and by status, and every such end
is followed; `AcceptedHasRun`: a delivery that was acknowledged has its run.

Permissions: `FrontIsShown`: an active prompt was announced, unless the approval
of a plan that clears the context promoted it; `NothingLost`: what a process that
can be written to waits on is on its way, queued or being answered;
`WithdrawnStaysUnanswered` and, as liveness, `EveryPromptShown`. Sessions: `OneStart`: one call at a time loads the
chat and starts its CLI, and the slot is free when none does; `NoOrphan`: every live child is owned by
the cell in the map or on its way there; `BadgeHonest`: what is shown as queued
is what the process still holds; `BusyIsWorking`; `WorkSettles`.

Launch: `OnlyOursSignalled` and `OrphansReaped` are the two sides of the sweep,
the second but for children whose probe or SIGKILL failed (`missed`);
`RunningIsRecorded` is what the next daemon relies on; `EndIsShown`: a start that
waited does not overwrite an end; `AskedIsRun`: a start that meets a teardown
still leads to a child, these two for names that did not get two children
(`doubled`); `StopComesBack`: the escalation ends.
Tunnels: `OneStartPerPort`; `StopStops`: a stop is not undone by a start that was
under way; `NoTunnelLost`: a tunnel that is up stays where a stop finds it, both
but for one whose label an old watcher took (`lost`); `WaitersHear`.

Background tasks: `OnlyGoneAreStopped`: sweep, kill and reconcile call a bash
task stopped only when no process writes its file (kill and reconcile take an
`lsof` that fails for nobody, which the property exempts by name);
`GoneIsNoticed`: one whose processes are gone does not stay running, though the
CLI may be dead and `lsof` fail; `NothingPinned`: once the exit of the CLI is
handled, no agent is left running.

Todo sync: `OneRunIsEnough`: a pair nobody edits is equal on both sides after
one run that ends and stays so; `LaterEditWins`, whose part for the state is
empty, as two edits of a state cannot contradict each other; `OverwritesReported`.

**Bounds.** A crash falls between any two steps of any task, and what follows
starts from nothing but what is stored, as after any other; one is enough for
the engine, whose theorems cover any number. The sweep of `Launch` may itself be
cut off, hence two crashes there. Four leaves suffice for one of each
verb, side by side and behind a waiting one. `effect` stops at 2, one more than is ever allowed.
`MCBlocks` has a retry and a loop of two passes, which is where "again" differs
from "first", and a repeat of three in a window of two, so that the window
moves; with `Earned` as one more invariant it takes a minute. `MCTriggers` needs a slot that is fresh, one missed, and a time after
both. Three runs
are one of the schedule, one chained to it and one chained to that, of either kind. With two requests and a ring of one, a prompt stands behind another and a
remembered id is pushed out; a clear and a death together were explored once (3
million states). Two children and two pids make one pid change
hands while the other does not; three children
under one daemon were explored once (800,000 states). Three requests for a port are one that starts,
one that waits and one that comes after. The tracker has one task
per trial, as its calls touch one entry each; two processes make one be born
while the other is killed. A trial names who comes into play, so that one run is
the sum of five small state spaces and not their product; the sweep beside the
reconcile was explored once (4 million states), and the theorem covers all. `MCTodoSync` keeps the
report of one run where the code keeps ten (`KEEP_RUNS`), so that the second run
prunes the first; it was also explored with three edits, and with two todos: nothing changed.

Deadlock is not checked: a run that is over, a user who stops clicking and a
bound that is used up really stop.

## 4. Fairness

Weak fairness, for each step of a task that tokio runs and that nothing outside
the daemon holds up: advance steps, sweeps, settle tasks, the rest of a cancel,
boot, the sink that reads a pipe, a watcher that waits for a child that has
died, the escalation after a stop, the interval of the liveness sweep. A human answers a form in the end and the
daemon is started again. The mutex is fair in the code (FIFO); the models only
assume that somebody gets it. Agents are **not** assumed to finish, users not
to click, children not to die, GitHub not to answer.

## 5. Where code and documentation part

Three runs end in a counterexample; each checks one property a comment states.

| run | what happens | where |
|---|---|---|
| `LateSettle` | a settle judged before the deadline fired writes after it: failed becomes succeeded | `engine/agent_settle.rs:134`, against `engine/deadline.rs:7-9` |
| `DoubleAnswer` | two clients answer the front prompt at once; both pass the guard, both answers reach the process | `permission_handler.rs:288` |
| `LateStart` | the exit of the CLI is handled before its last line is read: the line starts an agent that nobody ends | `event_handler.rs:1044`, against `event_handler.rs:1040-1043` |

The following are definitions of the modules that do not hold, for which no run
is kept. To see a trace, take the configuration named and change what is said.

| definition | how to see it | what happens, and where |
|---|---|---|
| `NoFormAfterCancel` | `AskStep`/`AskKind`/`Ask` of `MCAutomationRun`, `MaxCancels = 1` | cancel drops the walk between creating a form and parking: the form stays open (`interactions.rs:138`, `engine/advance.rs:143`) |
| `NoChatAfterCancel` | the same | the same for a chat just started: nobody stops it (`engine/agent.rs:106`) |
| `FatalFailureFails` | `LateSettle` with `KeepGoing <- None`, `Timed <- None`, `MaxCrashes = 1` | a death between the patch that fails a step and the finalize: the run succeeds after the restart (`engine/deadline.rs:117`) |
| `FatalFailureFails` | `Then` | an advance already queued walks past a fatally failed step before `fail_run` finalizes (`engine/agent_settle.rs:212`, against `engine/deadline.rs:70-72`) |
| `NotStranded` without `dropped` | `MCRun` | a client that disconnects drops the advance after its answer is stored: nobody advances the run until the next boot (`routes/automation_admin.rs:66`) |
| `EndedChatSettles` | `MCRun` with `Timed <- None` | a lost terminal frame of an agent without `timeoutMinutes` is never made up for (`automations_deps/agent.rs:117`) |
| `SettledStays` | `MCRun` | the sweep judges an agent overdue whose answer is settled before the write: succeeded becomes failed, beside the opposite order of `LateSettle` (`engine/deadline.rs:56`) |
| `StartsInOrder` | `MCBlocks` with `Tolerant*` | a keepGoing block that failed inside is found failed on replay and its later steps start (`walk.rs:54`) |
| `FailureIsEarned` | `MCBlocks` with `Again*` | a retry around an agent: the failure settles outside the walk and fails the run without a second attempt; under a keepGoing parallel (`Beside*`) it fails a run that would go on (`engine/agent_settle.rs:205-216`) |
| `SuccessIsEarned` | `MCBlocks` with `Beside*` | the same in a branch: the settle marks the branch failed, so the retry never sees its second attempt, and under keepGoing the run succeeds without it (`engine/agent_settle.rs:205`) |
| `ExhaustedIsUnmet` | `MCBlocks` with `Poll*` | the condition is not read after the last pass: a loop that meets it there fails as exhausted (`blocks.rs:256`, against `blocks.rs:258-259`) |
| `SuccessSurvivesRestart` | `MCBlocks` | a restart between the failed entry and the attempt marker: the failed step reads as done (`blocks.rs:147`, against `blocks.rs:107-110`) |
| `OwnedNeverFires` | `MCTriggers` | a turn in the channel is judged after its agent wait is gone (`router.rs:157`, against `router.rs:21-23`) |
| `DeletedIsQuiet` | `MCTriggers` | a fire between the listing and the drop, or more live runs than the page of fifty, advances for an automation that is gone (`service/runs.rs:12`, `service.rs:165-166`) |
| `FrontAlwaysShown` | `MCPermissions` | the approval of a plan that clears the context pops the queue and announces nobody: the prompt behind it is active and unseen (`plan_mode_actions.rs:198-203`) |
| `PromptsKept` | `MCPermissions` | a write to a process whose stdin is closed returns `Ok`; the prompt is shifted and announced as resolved, the process waits on (`session.rs:958-966` of the adapter) |
| `ResultClearsWorking` | `MCSessions` | a cancel of the queued message after the last result leaves the chat working (`event_handler.rs:1010`) |
| `OneChild` | `MCLaunch` | two starts at once both pass the check of the map and spawn; one child is unknown to it (`launch_manager.rs:3`) |
| `EndIsShown`, `AskedIsRun` without `doubled` | `MCLaunch` | the exit of either of two such children takes the other out of the map: it runs on where no stop finds it, and its status is overwritten or shown for it (`launch_manager.rs:652-701`) |
| `OrphansReaped` without `missed` | `MCLaunch` | a `ps`, `lsof` or SIGKILL that fails in the sweep: the record of a child that lives is pruned, nobody reaps it any more (`sweep.rs:245-255`, `sweep.rs:290-293`) |
| `NoTunnelLost`, `StopStops` without `lost` | `MCTunnels` | the late watcher of an old child removes the label of its successor (`tunnel_manager.rs:488`) |
| `EndedOnce` | `MCTasks` | exit and sweep both find a task running and both send `ended` (`tracker.rs:166`, against `collab_activity.rs:54-56`) |
| `RefusedOnlyWhileRunning` | `MCTodoSync` | a dropped `POST /sync` leaves the project in RUNNING until the daemon restarts (`run/mod.rs:39-46`) |
| `UnlinkedStaysUnlinked` | `MCTodoSync` | an unlink during a run is undone by `insert_link` at its end (`run/mod.rs:93-95`) |

Smaller ones seen while modelling, without a definition:
- Permissions: an approved plan is written to the process twice, by
  `permission_handler.rs:328-332` and by the adapter (`plan_mode_handler.rs:32-35`).
- Engine: an agent that ends while the daemon is down is never heard
  (`service/start.rs:39`); the condition of an `if` is evaluated again on each
  descent, with the clock of that descent (`blocks.rs:30`).
- Chat: a close that overlaps a start orphans the process it starts; the exit
  of a replaced session is ignored; the exit of a chat that is not loaded leaves
  Working in the database; late lines of an old session are taken for the new
  one's (`event_handler.rs:441`); a write that fails after `set_working`
  (`send.rs:279`); the interrupted mark outlives an interrupt that met no turn;
  an answer after a withdrawal that found the queue already cleared is forwarded.
- Launch: a dropped start leaves status starting and perhaps no record; a
  dropped stop never escalates; the pidfile may not be writable, which is only
  logged; group members that survive a dead leader are not reaped. Tunnels: a child that dies
  in the DNS wait leaves its label; a dropped start leaves its entry and the
  waiters hang; preview and daemon labels are not single-flight.
- Background tasks: an event may go out after a later one of another caller, since
  it is sent after the unlock; a kill whose second `lsof` fails counts as done.
- Todo sync: an edit in the gap between read and write is overwritten; a
  workflow label removed on the board meanwhile comes back; the labels PATCH
  replaces all labels; a lost PATCH answer loses the report row; a crash between
  the local write and the baseline makes a later revert look unchanged; two
  publishes at once create two issues.

## 6. Proofs

TLAPS proves, for every value of the constants that satisfies the named
assumptions (which TLC evaluates in every run):

| theorem | says |
|---|---|
| `AutomationRunProofs!TypeCorrect` | `Spec => []TypeOK` |
| `AutomationRunProofs!EffectsOnce` | `Spec => []EffectAtMostOnce` |
| `AutomationRunProofs!ContractKept` | `Spec => KeepsContract` |
| `AutomationRunProofs!WakeExact` | `Spec => []PrefilterExact` |
| `AutomationRunProofs!NobodyStranded` | `Spec => []NotStranded` |
| `AutomationRunProofs!VerdictFinal` | `Spec => TerminalIsFinal` |
| `BlockWalkProofs!AttemptsKept` | `Spec => []AttemptsInOrder` |
| `BlockWalkProofs!WindowHolds` | `Spec => []WindowKept` |
| `BlockWalkProofs!TypeCorrect` | `Spec => []TypeOK` |
| `BlockWalkProofs!EarnedHolds` | `Plain => (Spec => []Earned)` |
| `BlockWalkProofs!SuccessEarned` | `Plain => (Spec => []SuccessIsEarned)` |
| `BlockWalkProofs!VerdictEarned` | `Plain /\ AgentsFatal => (Spec => []VerdictIsEarned)` |
| `BlockWalkProofs!OrderKept` | `Plain => (Spec => [](lost \/ StartsInOrder))` |
| `PermissionQueueProofs!FrontShown` | `Spec => []FrontIsShown` |
| `PermissionQueueProofs!NoPromptLost` | `Spec => []NothingLost` |
| `PermissionQueueProofs!WithdrawnUnanswered` | `Spec => WithdrawnStaysUnanswered` |
| `PermissionQueueProofs!TypeCorrect` | `Spec => []TypeOK` |
| `ChatSessionProofs!StartsSingly` | `Spec => []OneStart` |
| `ChatSessionProofs!NoneOrphaned` | `Spec => []NoOrphan` |
| `ChatSessionProofs!NoStrayBadge` | `Spec => []BadgeHonest` |
| `ChatSessionProofs!TurnShows` | `Spec => []BusyIsWorking` |
| `ChatSessionProofs!TypeCorrect` | `Spec => []TypeOK` |
| `LaunchProofs!StrangersSafe` | `Spec => []OnlyOursSignalled` |
| `LaunchProofs!LeftAreReaped` | `Spec => []OrphansReaped` |
| `LaunchProofs!RunningRecorded` | `Spec => []RunningIsRecorded` |
| `LaunchProofs!EndShown` | `Spec => []EndIsShown` |
| `LaunchProofs!TypeCorrect` | `Spec => []TypeOK` |
| `LaunchProofs!SingleFlight` | `Tunneling => []OneStartPerPort` |
| `LaunchProofs!StoppedStaysDown` | `Tunneling => []StopStops` |
| `LaunchProofs!TunnelsKnown` | `Tunneling => []NoTunnelLost` |
| `LaunchProofs!TunnelTypes` | `Tunneling => []TunnelTypeOK` |
| `BackgroundTasksProofs!LiveTasksSafe` | `Spec => []OnlyGoneAreStopped` |
| `BackgroundTasksProofs!AgentsEnd` | `Spec => []NothingPinned` |
| `BackgroundTasksProofs!TypeCorrect` | `Spec => []TypeOK` |
| `TodoSyncProofs!OneRunSettles` | `Spec => []OneRunIsEnough` |
| `TodoSyncProofs!ReplacedIsReported` | `Spec => []OverwritesReported` |
| `TodoSyncProofs!LaterWins` | `Spec => LaterEditWins` |
| `TodoSyncProofs!TypeCorrect` | `Spec => []TypeOK` |
| `TriggersProofs!OneRunPerFire` | `Spec => []FiredOnce` |
| `TriggersProofs!AcceptedMeansRun` | `Spec => []AcceptedHasRun` |
| `TriggersProofs!ChainsEarned` | `Spec => []ChainFollowsEnd` |
| `TriggersProofs!SweepMissesNothing` | `Spec => []SweptIsFired` |
| `TriggersProofs!TypeCorrect` | `Spec => []TypeOK` |

### The run engine

For every definition, every set of steps, any number of crashes and cancels.
`ProgramAssumption` and `PlaceAssumption` describe the validated definition:
step ids are unique, a leaf unit has one branch, deadlines and output contracts
belong to `ask_agent`, only actions are idempotent.

**Type correctness.** Not quite for free: the walk moves through the definition
by position, and `TypeOK` says it stands on a leaf whenever it executes one
(`pc \in LeafPcs => AtLeaf`). The lemmas go action by action.

**Effects.** `EffectAtMostOnce` is not inductive: an action that finds a step
"not begun" in `copy` is harmless only if the stored checkpoint agrees.
`EffectInv` adds what is needed:
- `WalkAgrees`: while a walk is alive, a step its copy takes for not begun is
  not begun, except the leaf in hand; copy and store agree on actions, which
  nobody else writes; a `running` mark of a step that must not be repeated is
  the leaf in hand;
- `LeafRecord`: what the store says about the leaf in hand at each `pc`, above
  all that an effect about to happen has its mark on record and has not happened;
- `StaleKnown`: before the walk, every old mark is on the list of
  `resolve_stale_running`, and at the start of the walk none is left;
- `OutOfBand`: settle tasks and sweep entries only exist for steps that have waited;
- `RunningKind`, `EffectRecorded`, `AskedOnce`.

The steps of the proof fall into five kinds, a lemma each: nothing is written
(`StutterInv`), the walk ends (`ReleaseInv`), a step is settled from outside
(`SettledOutside`), the walk moves (`StrollInv`), the walk commits
(`WalkCommitInv`, `CommitRunningInv`).

**Refinement.** With the same invariant every step is a `Progress`, an `Act`, a
`Conclude`, or invisible (`ContractNext`). `LeafRecord` and `OutOfBand` give
that nobody records `waiting` over a settled step or `running` over one that waited.

**The due-sweep's prefilter.** The code writes checkpoints in two ways: most
writers recompute `wake_at` in the same transaction, a few do not (the marks
before an effect, the resolution of stale marks, the commit of an outcome that
is not a wait). `WakeInv` adds to `PrefilterExact` what each of the latter
relies on: the entry in hand does not wait (`WriterKnows`), so the write leaves
the set of waiting deadlines alone.

**No lost wakeup.** `NotStranded` is about all tasks of the daemon at once: the
walk parks a leaf in several steps while settle tasks, the sweep, answers and
cancels run. `Wakeup` states who owes the next move:
- `Kept`: what will settle a waiting entry is on record with it, over a restart
  too (a pending form, a deadline, or an agent that boot watches again);
- `Attended`: its chat is watched, its outcome is held, or the walk is about to
  register it;
- `Handed`: a walk that has parked, or a free lock, leaves an entry that waits
  or somebody who is coming (`Coming`): whoever settles an entry under the walk
  leases an advance or is about to end the run;
- `ParkRecord`, `Bearings`, `Locked`, `Down`: what the store says while a leaf
  is being parked, that a cancel signal belongs to a cancel that will finalize,
  that `advance()` holds the lock, that a dead daemon runs nothing.

`Handed` and `Attended` are claimed only while the daemon is up, no cancel is
about to finalize and no client has dropped its request (`Served`); boot
restores both from `Kept`. A deadline counts as "somebody" because `WakeExact`
says that the sweep will see it.

### Blocks

For every tree of blocks, any nesting. `TreeAssumption` says what validation
leaves: the steps are finitely many, each stands in one place of one body of its
block, a parallel has two branches or more, an if has two bodies, and every set
of steps has one whose parent is outside of it, so that the tree has no cycle.
`CountAssumption` makes counts and concurrencies numbers, positive for a retry
and a loop. From the last clause of the tree `TreeRecursion` derives
that the recursive functions on it (`Depth`, `Above`, `Around`) exist and
satisfy their equations. An induction over the tree cannot be cited with an
operator here, so each such fact is shown of the set of its counterexamples,
which would hold all its parents.

The markers say only in which attempt or item a step was, and the walk finds its
place again by descending from the top. So the invariant `BlockInv` ties three
things together:
- `CpInv`, of the store: an attempt has a marker only after its predecessors
  failed (`Follow`), no window is wider than its concurrency (`InWindow`), and
  each step on record has, for every block above it, the failed attempts before
  its own and a watermark beyond its item (`Recorded`);
- `Nested` and `Known`, of the walk: each frame stands in the body of the one
  below it and carries its pass, and for each frame the store says what
  `Recorded` will ask of the next step that is written there;
- `Agree`: the walk's copy has the attempts and watermarks of the store. Branch
  outcomes and entries may be newer in the store, as settles write there.

Every write of the walk only adds to the markers (`Grows`), which keeps what is
known of the other frames and the other steps true. `WindowIs` is the arithmetic
of the window: widening it to the concurrency never opens more than that,
because the walk knows no outcome that the store does not.

**The walk and the meaning.** `SuccessEarned` and `OrderKept` are for trees that
are `Plain`. Each part excludes something that really breaks them:
- `FailuresStay`: keepGoing stands on leaves, retries and concurrent blocks,
  whose failure the next walk finds as an entry or a marker. An if, a loop or a
  sequential repeat has neither; its failure is forgotten (`Tolerant*`, section 5).
- `AgentsUnretried`: between an agent that may fail and the concurrent block
  around it is no retry, else the settle decides over the retry's head (`Beside*`).
- `ConditionsSettled`: a condition reads a step before its block, or before a
  block around it, and a loop may read its own body. This is weaker than the
  validator (`domain/validate.rs:383` with `domain/scope.rs`), which refuses even
  the latter, although `run_loop` and its tests are written for it. Without it a
  condition could read a step that settles later and send the next walk the
  other way.

`VerdictEarned` says of failed runs too that they had to fail. It assumes
`AgentsFatal` besides: over an agent that may fail is no retry and no keepGoing
block. The settle of an agent does not look further than its own keepGoing and
whether anything else waits before it fails the run (`fail_run`,
`engine/agent_settle.rs:205-216`), so an attempt that was left, or a block that
would have gone on, is passed over (`Again*`, `Beside*`).

`NestIsPlain` has TLC evaluate both on the tree of `MCBlocks`. `lost` is the
instant in which the daemon dies between a failed entry and the marker or verdict
over it; section 5 has the trace (`SuccessSurvivesRestart`).

The walk does not know the meaning. When it comes by again it takes an attempt or
a branch with a marker at the marker's word and walks the rest, and that reading
is `Replay`, a second recursive function. The proof relates the two:
- `ReplayMeans`: where the markers say what their bodies are worth (`Sound`), a
  step that has a value in `Replay` has the same in `Means`. Induction over the
  tree from the leaves up, by `Deepest`; `LeafRecursion` gives that both functions
  exist and satisfy their equations.
- `ValueStays`: a checkpoint may change only at live places, those reached by
  kept steps, behind no marker and without a value (`Later`). Then whatever had a
  value keeps it, in both readings, and whatever was reached stays reached. This
  is where the conditions matter: what they read is settled (`TestSettled`).
  Two live places are one around the other or in two branches (`Diverge`), so
  an agent that settles in one branch disturbs no other.
- `OnwardSound`: every write of the walk, of a settle and of a failed agent is
  such a change, with a marker that tells the truth, so the checkpoint stays sound.

The invariant is `Earned`: the walk's copy is `Sound`; the store is the copy plus
what settles have done since (`Linked`); a failed step that may not fail is behind
a failed marker or the walk is just coming back with it (`FailuresMarked`; without
it the next walk would read the entry as done); and each frame stands at a place
that was reached, with what is before it kept and each item of a concurrent block
still to come, parked or marked (`StackStands`). Each action keeps it: one lemma
`...Stood` per action. When the walk ends with done or failed, the root's body has that
value in `Replay` of the store, hence in `Means` (`EndMeans`). When a settle fails
the run, the agent was reached, so in every body around it what is before it is
kept; by `FatalUp` its failure is then that of one body after another up to the
root's. For `OrderKept`, a step on record was
reached, so what is before it is kept in `Replay`, hence in `Means`; and a step
that waits in a failed attempt would be behind a marker, which `NoWaitBehind`
excludes. The theorem says `lost \/` also of that half, which TLC checks
without the exception on the small tree.

### Triggers

`Inv` says of every run that it is filed under its dedup key and that its key
is that of a slot, an event, a delivery or a chain (`RowsOK`), and of every
call in flight where its key comes from (`CallsOK`). All actions do one of four
things to the table (`RowStep`); a lemma carries the invariant over each.
`FiredOnce` rests on the unique index (`Lost`), `ChainFollowsEnd` on the
fact that a verdict never changes and that no second run comes for its key
while its automation is there (`Held`): a chain key once earned stays earned
(`Follows`), whatever chain comes upon it.
`SweptIsFired` needs `SweepOK`: every due trigger the sweep saw is still
on its list, has a fire in flight, or has its run, unless its automation was
edited. `SlotAssumption` (occurrences are instants) gives the latest one.

`TypeCorrect` says more than types: `Typed` carries over every step that a key
is of a slot of its schedule, an event, a delivery, or a chain upon the key of
another trigger (`IsKey`). Keys of chains have no bounded set of values, so the
type is a predicate on one key and what it follows, not membership in a set.

### Permission prompts

The inductive invariant `Safe` is the two properties, `TypeOK`, `RingIsRecent`
(the ring of tombstones is the tail of what withdrawals took off the queue) and
`Standing`: a request the process has open is of a living process, a process is
of a live session, an announced or queued request was opened, an answer that was
written finds its request closed unless the process is deaf, a withdrawal in the
pipe is of a request already closed, and a result in the pipe is older than what
is open. Without the last one a result line could clear a queue whose front is of
the next turn. `hushed` is a history of the silent promotions, which
`FrontIsShown` exempts: that theorem says that every other way to the front is
announced. `WithdrawnStaysUnanswered` is then a
step lemma: a call begins only past `WasCancelled`, and by `RingIsRecent` the
ring holds the last `CancelledMemory` withdrawals.

### Chat sessions

`SessionInv` is proved for any senders, sessions and cells. `OneFlight`: one
call flies, and each slot is taken exactly while a call is in its part of the
flight; whoever joined is let go by the step that frees the slot. `LivesOnce`: a
process goes through its phases once, and a session or cell not given out yet is
of nothing, so what a start puts into the chat never works already
(`CurrentStays`). `KeptApart` is the core of `NoOrphan`: as long as no close
overlaps a start, a call that reads the history or is about to spawn finds no
child anywhere (`NoChild`), a call under way finds nobody closing, and a close
finds the cell and session it captured still those of the chat, so it drops only
what it has killed. `BusyIsWorking` needs `SpokeLast`, the shape of the unread
lines: what a CLI in a turn said last is that it speaks, so the last line read
sets the state. `BadgeHonest` is inductive with `LivesOnce`: a message moves from
the call to the inbox, to the acknowledgement or to a cancel, each step of which
hands it over (`WrittenStays`, `HeldStays`), and a death leaves an exit to be
told (`UntoldStays`).

### Launch, tunnels, todo sync

`StrangersSafe`: a signal goes to a child of this daemon that has not been
waited for, whose pid the kernel therefore holds, or to a record whose process
the sweep found to be the one recorded. `SingleFlight`: children are numbered
as they are spawned and an entry in state starting names the one child in its
start; both maps lead to children of their own port.

`OneRunSettles`: a run writes in four steps, between which users edit. `SyncInv`
says that what the run has in hand is what both sides hold (`HandTrue`) and what
it has carried out so far stands (`Carried`), unless the pair is `dirty`; and
since a later run may be at work on a pair that is settled already, that its
plan keeps the labels as they were settled (`DoneAgain`). `ReplacedIsReported`: as long as no
run has broken off, the baseline is what both sides agreed on last
(`BaseAgreed`); so a side whose value differs from the agreed one has moved from
the baseline too, and a plan that replaces it has a row for it (`PlanAgreed`).
`BooksOK` follows the rows to the report, whose runs are numbered in the order
they began, so that those kept are the last ones (`NewestKept`).

`LaterWins` compares the histories `edited`, which only users write, with the
times the run decides by: those of `github_touch`, written in a statement after
the edit, and those GitHub gives, which the run's own patches move too.
`TimesInv` says when the two are the same. A touch is the time of the last edit
or still to be written, and then its pair is `dirty` (`Stamps`); the times in
hand are those of the issue, and were asked for if both sides moved (`AtRead`);
the time of the title on GitHub is that of an edit unless a run wrote the title
last, in which case it says what was agreed on (`TitleTimed`). `TwoStates` adds
that a state, having two values, is never in conflict as long as the baseline is
what was agreed on. `Later` then keeps the comparison of the plan until it is
carried out.

`TypeCorrect` of the sync has content too: a baseline has plain labels and no
workflow label, because all that a run decides on it has read from the two
sides and cleaned (`HandTyped`, `PlanIsTyped`).

`LeftAreReaped`: the pidfile is written by pid, so a late entry or removal could
hit the entry of a child that an earlier daemon left behind. `FileInv` excludes
it: the file has one entry per pid (`Filed`), whom this daemon still has to add
or remove (`Ours`) shares no pid with a left child that lives (`Orphan`), and
before the daemon serves it has no children at all (`Swept`). A child whose probe
or SIGKILL failed is `missed` from then on, and the theorem says nothing of it.

`RunningRecorded` and `EndShown` are about any number of requests that start at
once. `RunInv` says that nobody about to write or remove an entry shares
the pid of an awaited child (`OwnPids`), that a start's new child is awaited or
has ended (`StartOK`), and that, as long as a name did not get two children, the
map has every awaited child and shows what ended (`MapShown`). `OwnPids` needs
`Resting`: were the pid of a child that died before its own entry was written
handed to the other start at once, the late entry would replace that one's.

`StoppedStaysDown`: the manager has one slot per label, a stop tells whoever
the slot holds, and the watcher of a dead child clears the slot whoever holds
it by then. `StopInv` says what the slot holds in each phase of a child (`Slot`):
one that has connected is in it until it is told to stop, or is `lost` and never
comes back. `TunnelsKnown` is the same invariant read the other way.

### Background tasks

A verdict is passed several steps after `lsof` was asked, so the invariant says
of each of sweep, kill and reconcile that its list, its answer and its call are
true *now*: a task on the list of sweep or reconcile has had its file opened, a
task past its grace has, an answer "nobody" is still so. What keeps it true
while others move is `OneWay`: a file that was opened stays so, and one without
a writer gets none again. `Carry` takes the books of the other actors over a
step; `Acting`, `Listing`, `Taking`, `Judging` are the shapes of steps.

`AgentsEnd`: `PinInv` adds who may still make an agent run. Only the reader
starts tasks, on the word of a CLI whose exit is not handled yet (`WordOK`,
`LinesOK`); a running agent has a CLI, or stands on the list of the exit, or
its end is in the exit's hand (`Doomed`). Both hold unless the exit overtook the
lines (`late`), the case in which the run `LateStart` shows that the comment fails.

### Only model-checked

Liveness (`Terminates`, `EventuallyEnds`, `ChainFires`,
`EveryPromptShown`, `GoneIsNoticed`, `WorkSettles`, `AskedIsRun`, `StopComesBack`, `WaitersHear`):
fairness and ENABLED are out of the prover's reach. Of the safety properties, only
the half of `StartsInOrder` about failed attempts after a restart that lost a
verdict: there the walk reads failed entries as done, and `Earned` says nothing of
such a run. Every other safety property a run checks is a theorem.

## 7. Not modelled

Inside the modelled components: editing a queued message, slash commands and
resume of a chat; import, publish and relink of todos; overlapping starts of one
launch name, scope teardown; the verify cache and the preview tunnel; of the
background tasks, the sweep of a worktree for files of other chats and the checks
of paths and owners; cron arithmetic, tokens, conditions, output contracts.

Whole components:

| component | why |
|---|---|
| actions, credentials, tokens, validation of automations | HTTP, shell and keyring calls and text substitution; the engine sees a leaf complete or fail |
| chat config, context, message cache, attachments, worktree offers | rows, caches and scans of the disk; what the idle scanner does to a session is in `ChatSession` |
| claude workflows store | a keyed merge of snapshots under one lock |
| git service | a mutex per project around git processes, and the parsing of what they print |
| language servers | a proxy of their messages; the spawn guard is the one of the tunnels over again |
| quota | polls with a cached snapshot; how the vendors throttle is not in this repository |
| files, worktrees, push, plugin host | file operations and wrappers |
| adapters | drivers and parsers of command-line agents; what the daemon sees of them is in `ChatSession`, `PermissionQueue` and `BackgroundTasks` |
| routes, websocket, pairing | handlers over the services; those whose dropped futures matter (`respond`, tunnel start, `POST /sync`) are in the modules of their services |
| database, types, display, runtime, desktop shell, UI | row mapping, wire types, rendering |

By lines most of the repository is of the second kind: parsing, rows, routes and
rendering, where one line follows the other and a unit test reaches what can go
wrong. The modules cover the code where it does not, a small part of the whole;
further components would be modelled in the same way, and each as a module of
its own.
