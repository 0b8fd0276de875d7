---------------------------- MODULE ChatSession ----------------------------
(***************************************************************************)
(* The session of one chat (mainframe-chat): sends that load the chat and  *)
(* start a CLI process through the single-flight guards of                 *)
(* lifecycle_manager.rs, stop/end/archive that kill it, the close handler  *)
(* of the adapter that reports the exit, and the two views of a queued     *)
(* message the sink of event_handler.rs keeps in step: the queued flag on  *)
(* the cached message and the ref that send.rs records.                    *)
(*                                                                         *)
(* Each sender sends one message.  Calls are cut where the code awaits.    *)
(***************************************************************************)
EXTENDS Integers, Sequences, FiniteSets

CONSTANTS
    Senders,       \* callers of send_message; a sender names its message too
    MaxSessions,   \* bound on the session objects that are created
    MaxCells,      \* bound on the times the chat is loaded
    MaxEnds,       \* bound on the deaths of a CLI and the calls that close one
    MaxCancels     \* bound on the queued messages that are cancelled

ASSUME BoundAssumption ==
    {MaxSessions, MaxCells, MaxEnds, MaxCancels} \subseteq Nat

VARIABLES
    active,    \* the cell in active_chats, 0 when there is none
    session,   \* per cell, its session: 0 none, History, or a session
    flights,   \* single-flight slots that are taken: "starting", "loading"
    sender,    \* per sender, where its call stands
    closer,    \* the call of stop_chat, end_chat or archive_chat
    cancel,    \* the call of cancel_queued_message
    proc,      \* per session object, its process
    state,     \* process_state of the chat
    flag,      \* messages cached with metadata.queued
    refs,      \* messages with a queued ref
    inbox,     \* per session, messages the CLI holds
    busy,      \* sessions whose CLI is in a turn
    lines,     \* per session, lines of the CLI not read yet
    cells,     \* cells made
    sessions,  \* session objects made
    ends,      \* deaths nobody asked for and closes
    seen       \* history of races: "overlap" of a close and a start,
               \* "ignored" exit of a replaced session, "gone" exit of an
               \* unloaded chat, "late" line of an older or dead session,
               \* "cancel" that ends when no turn is left to end

calls == <<sender, closer, cancel>>
chat  == <<active, session, flights>>
queue == <<state, flag, refs>>
cliv  == <<inbox, busy, lines>>
count == <<cells, sessions, ends>>
vars == <<chat, calls, proc, queue, cliv, count, seen>>

Sessions == 1..MaxSessions
History == MaxSessions + 1
Cells == 1..MaxCells
Nobody == [pc |-> "quiet", op |-> "none", cell |-> 0, sess |-> 0]
Current == IF active = 0 THEN 0 ELSE session[active]
HasChild(g) == g \in Sessions /\ proc[g].child
Spawned == HasChild(Current)
In(m, s) == \E i \in DOMAIN s : s[i] = m
Without(s, m) ==   \* no message is there twice
    LET i == CHOOSE i \in DOMAIN s : s[i] = m
    IN  SubSeq(s, 1, i - 1) \o SubSeq(s, i + 1, Len(s))

-----------------------------------------------------------------------------
(* send_message and start_chat *)

At(s, pc) == sender[s].pc = pc
Go(s, pc) == sender' = [sender EXCEPT ![s].pc = pc]

(* The flight lands: whoever joined it goes on with its owner.             *)
Landed(s, joined, pc) ==
    [t \in Senders |-> IF t = s \/ sender[t].pc = joined
                       THEN [sender[t] EXCEPT !.pc = pc] ELSE sender[t]]

(* Mutant: a start in flight is not joined. *)
SendUnjoined(s) ==
    /\ At(s, "quiet")
    /\ IF Spawned THEN Go(s, "require") /\ UNCHANGED flights
       ELSE flights' = flights \cup {"starting"} /\ Go(s, "load")
    /\ UNCHANGED <<active, session, closer, cancel, proc, queue, cliv, count, seen>>

(* A process there already, a start in flight, or the slot is claimed.     *)
Send(s) ==
    /\ At(s, "quiet")
    /\ IF Spawned THEN Go(s, "require") /\ UNCHANGED <<flights, seen>>
       ELSE IF "starting" \in flights THEN Go(s, "joinStart") /\ UNCHANGED <<flights, seen>>
       ELSE /\ flights' = flights \cup {"starting"}
            /\ Go(s, "load")
            /\ seen' = IF closer.pc = "quiet" THEN seen ELSE seen \cup {"overlap"}
    /\ UNCHANGED <<active, session, closer, cancel, proc, queue, cliv, count>>

(* load_chat: skip, join or make the cell, still without a session.        *)
LoadChat(s) ==
    /\ At(s, "load")
    /\ IF "loading" \in flights THEN Go(s, "joinLoad") /\ UNCHANGED <<chat, cells>>
       ELSE IF active # 0 THEN Go(s, "create") /\ UNCHANGED <<chat, cells>>
       ELSE /\ cells < MaxCells
            /\ cells' = cells + 1 /\ active' = cells + 1
            /\ flights' = flights \cup {"loading"}
            /\ Go(s, "loading")
            /\ UNCHANGED session
    /\ UNCHANGED <<closer, cancel, proc, queue, cliv, sessions, ends, seen>>

(* do_load_chat attaches a session to read the history with, when the chat *)
(* has a transcript and its directory is there; a transcript that is not   *)
(* empty replaces the cached messages.                                     *)
FinishLoad(s) ==
    /\ At(s, "loading")
    /\ \/ UNCHANGED <<session, flag>>
       \/ /\ active # 0
          /\ session' = [session EXCEPT ![active] = History]
          /\ flag' \in {flag, {}}
    /\ flights' = flights \ {"loading"}
    /\ sender' = Landed(s, "joinLoad", "create")
    /\ UNCHANGED <<active, closer, cancel, proc, state, refs, cliv, count, seen>>

EndStart(s) ==
    /\ flights' = flights \ {"starting"}
    /\ sender' = Landed(s, "joinStart", "require")

(* do_start_chat: a session object goes into the cell before it is spawned.*)
CreateSession(s) ==
    /\ At(s, "create")
    /\ sessions < MaxSessions
    /\ IF active = 0 \/ Spawned
       THEN EndStart(s) /\ UNCHANGED <<session, sessions>>
       ELSE /\ sessions' = sessions + 1
            /\ session' = [session EXCEPT ![active] = sessions + 1]
            /\ sender' = [sender EXCEPT ![s] = [@ EXCEPT !.pc = "spawn", !.sess = sessions + 1]]
            /\ UNCHANGED flights
    /\ UNCHANGED <<active, closer, cancel, proc, queue, cliv, cells, ends, seen>>

(* Mutant: a failed start keeps its slot. *)
StartFailsTaken(s) ==
    /\ At(s, "create") \/ At(s, "spawn")
    /\ sender' = Landed(s, "joinStart", "require")
    /\ UNCHANGED <<flights, active, session, closer, cancel, proc, queue, cliv, count, seen>>

(* No worktree, no project directory, no adapter: the start fails.         *)
StartFails(s) ==
    /\ At(s, "create") \/ At(s, "spawn")
    /\ EndStart(s)
    /\ UNCHANGED <<active, session, closer, cancel, proc, queue, cliv, count, seen>>

Spawn(s) ==
    LET g == sender[s].sess
    IN  /\ At(s, "spawn")
        /\ proc' = [proc EXCEPT ![g] = [@ EXCEPT !.born = TRUE, !.alive = TRUE, !.child = TRUE]]
        /\ EndStart(s)
        /\ UNCHANGED <<active, session, closer, cancel, queue, cliv, count, seen>>

RequireLiveSession(s) ==
    /\ At(s, "require")
    /\ IF Spawned
       THEN sender' = [sender EXCEPT ![s] = [@ EXCEPT !.pc = "prepare", !.sess = Current]]
       ELSE Go(s, "done")
    /\ UNCHANGED <<chat, closer, cancel, proc, queue, cliv, count, seen>>

(* After the attachments are read: the message is queued iff the chat is   *)
(* working right now, and the chat is working from here on.                *)
StoreMessage(s) ==
    /\ At(s, "prepare")
    /\ Go(s, IF state = "working" THEN "writeQueued" ELSE "write")
    /\ flag' = IF state = "working" THEN flag \cup {s} ELSE flag
    /\ state' = "working"
    /\ UNCHANGED <<chat, closer, cancel, proc, refs, cliv, count, seen>>

WriteMessage(s) ==
    LET g == sender[s].sess
    IN  /\ At(s, "write") \/ At(s, "writeQueued")
        /\ IF proc[g].child
           THEN /\ inbox' = [inbox EXCEPT ![g] = Append(@, s)]
                /\ Go(s, IF At(s, "write") THEN "done" ELSE "record")
           ELSE Go(s, "failed") /\ UNCHANGED inbox
        /\ UNCHANGED <<chat, closer, cancel, proc, queue, busy, lines, count, seen>>

RecordQueuedRef(s) ==
    /\ At(s, "record")
    /\ refs' = refs \cup {s}
    /\ Go(s, "done")
    /\ UNCHANGED <<chat, closer, cancel, proc, state, flag, cliv, count, seen>>

-----------------------------------------------------------------------------
(* cancel_queued_message *)

AskCancel(m) ==
    /\ cancel.pc = "quiet" /\ cancel.asked < MaxCancels
    /\ m \in refs /\ HasChild(Current)
    /\ cancel' = [pc |-> "asked", msg |-> m, sess |-> Current, asked |-> cancel.asked + 1]
    /\ UNCHANGED <<chat, sender, closer, proc, queue, cliv, count, seen>>

(* The CLI answers on the control channel: it still had the message or not.*)
CliCancels ==
    LET g == cancel.sess
    IN  /\ cancel.pc = "asked"
        /\ IF proc[g].alive /\ In(cancel.msg, inbox[g])
           THEN /\ inbox' = [inbox EXCEPT ![g] = Without(@, cancel.msg)]
                /\ cancel' = [cancel EXCEPT !.pc = "cancelled"]
           ELSE cancel' = [cancel EXCEPT !.pc = "quiet"] /\ UNCHANGED inbox
        /\ UNCHANGED <<chat, sender, closer, proc, queue, busy, lines, count, seen>>

FinishCancel ==
    /\ cancel.pc = "cancelled"
    /\ refs' = refs \ {cancel.msg}
    /\ flag' = flag \ {cancel.msg}
    /\ cancel' = [cancel EXCEPT !.pc = "quiet"]
    /\ seen' = IF cancel.sess \in busy \/ inbox[cancel.sess] # <<>> \/ lines[cancel.sess] # <<>>
               THEN seen ELSE seen \cup {"cancel"}
    /\ UNCHANGED <<chat, sender, closer, proc, state, cliv, count>>

-----------------------------------------------------------------------------
(* stop_chat, end_chat, archive_chat *)

Close(op) ==
    /\ closer.pc = "quiet" /\ ends < MaxEnds
    /\ active # 0
    /\ op = "stop" => Current # 0
    /\ ends' = ends + 1
    /\ closer' = [pc |-> IF op # "stop" THEN "tasks" ELSE IF Spawned THEN "kill" ELSE "drop",
                  op |-> op, cell |-> active, sess |-> Current]
    /\ seen' = IF flights = {} THEN seen ELSE seen \cup {"overlap"}
    /\ UNCHANGED <<chat, sender, cancel, proc, queue, cliv, cells, sessions>>

(* kill: SIGTERM, and SIGKILL after a while; only a session with a child.  *)
Kill ==
    LET g == closer.sess
    IN  /\ closer.pc \in {"kill", "tasks"}
        /\ closer' = [closer EXCEPT !.pc = IF HasChild(g) THEN "killing" ELSE "drop"]
        /\ proc' = IF HasChild(g) THEN [proc EXCEPT ![g].doomed = TRUE] ELSE proc
        /\ UNCHANGED <<chat, sender, cancel, queue, cliv, count, seen>>

(* kill returns when the close handler has run half way, or by timeout.    *)
KillReturns ==
    LET g == closer.sess
    IN  /\ closer.pc = "killing"
        /\ proc' = [proc EXCEPT ![g].child = FALSE]
        /\ closer' = [closer EXCEPT !.pc = "drop"]
        /\ UNCHANGED <<chat, sender, cancel, queue, cliv, count, seen>>

(* stop empties the cell it captured; end and archive remove whatever cell *)
(* is active by now, and archive deletes the cached messages.              *)
DropSession ==
    /\ closer.pc = "drop"
    /\ IF closer.op = "stop"
       THEN session' = [session EXCEPT ![closer.cell] = 0] /\ UNCHANGED active
       ELSE active' = 0 /\ UNCHANGED session
    /\ flag' = IF closer.op = "archive" THEN {} ELSE flag
    /\ closer' = Nobody
    /\ UNCHANGED <<flights, sender, cancel, proc, state, refs, cliv, count, seen>>

-----------------------------------------------------------------------------
(* The CLI process and its close handler *)

Die(g) ==
    /\ proc[g].alive
    /\ IF proc[g].doomed THEN UNCHANGED ends ELSE ends < MaxEnds /\ ends' = ends + 1
    /\ proc' = [proc EXCEPT ![g].alive = FALSE]
    /\ busy' = busy \ {g}
    /\ inbox' = [inbox EXCEPT ![g] = <<>>]
    /\ UNCHANGED <<chat, calls, queue, lines, cells, sessions, seen>>

(* The waiter drops the child first and calls on_exit afterwards.          *)
Reap(g) ==
    /\ proc[g].born /\ ~proc[g].alive /\ ~proc[g].reaped
    /\ proc' = [proc EXCEPT ![g] = [@ EXCEPT !.child = FALSE, !.reaped = TRUE]]
    /\ UNCHANGED <<chat, calls, queue, cliv, count, seen>>

(* on_exit of a session the chat has already replaced is ignored.          *)
(* Mutant: the exit of a replaced session is not told from another's. *)
StaleNever(g) == FALSE

Stale(g) == Current # 0 /\ Current # g

(* Mutant: the exit clears the refs and leaves the badges. *)
OnExitKeepsBadges(g) ==
    /\ proc[g].reaped /\ ~proc[g].told
    /\ proc' = [proc EXCEPT ![g].told = TRUE]
    /\ IF Stale(g) THEN UNCHANGED queue
       ELSE /\ UNCHANGED flag /\ refs' = {}
            /\ state' = IF active = 0 THEN state ELSE "none"
    /\ UNCHANGED <<chat, calls, cliv, count, seen>>

OnExit(g) ==
    /\ proc[g].reaped /\ ~proc[g].told
    /\ proc' = [proc EXCEPT ![g].told = TRUE]
    /\ IF Stale(g)
       THEN UNCHANGED queue /\ seen' = seen \cup {"ignored"}
       ELSE /\ flag' = {} /\ refs' = {}
            /\ state' = IF active = 0 THEN state ELSE "none"
            /\ seen' = IF active = 0 THEN seen \cup {"gone"} ELSE seen
    /\ UNCHANGED <<chat, calls, cliv, count>>

-----------------------------------------------------------------------------
(* The CLI works; the sink reads its lines in order *)

Line(kind, m) == [kind |-> kind, msg |-> m]
Emit(g, ls) == lines' = [lines EXCEPT ![g] = @ \o ls]

(* A queued message is acknowledged, then the main agent speaks.           *)
Take(g) ==
    LET m == Head(inbox[g])
    IN  /\ proc[g].alive /\ inbox[g] # <<>>
        /\ inbox' = [inbox EXCEPT ![g] = Tail(@)]
        /\ busy' = busy \cup {g}
        /\ Emit(g, <<Line("ack", m), Line("message", m)>>)
        /\ UNCHANGED <<chat, calls, proc, queue, count, seen>>

FinishTurn(g) ==
    /\ proc[g].alive /\ g \in busy
    /\ busy' = busy \ {g}
    /\ Emit(g, <<Line("result", 0)>>)
    /\ UNCHANGED <<chat, calls, proc, queue, inbox, count, seen>>

Reads(g, kind) ==
    /\ lines[g] # <<>> /\ Head(lines[g]).kind = kind
    /\ lines' = [lines EXCEPT ![g] = Tail(@)]
    /\ seen' = seen \cup (IF g = Current /\ ~proc[g].told THEN {} ELSE {"late"})

OnQueuedProcessed(g) ==
    LET m == Head(lines[g]).msg
    IN  /\ Reads(g, "ack")
        /\ flag' = flag \ {m} /\ refs' = refs \ {m}
        /\ UNCHANGED <<chat, calls, proc, state, inbox, busy, count>>

OnMessage(g) ==
    /\ Reads(g, "message")
    /\ state' = IF active = 0 THEN state ELSE "working"
    /\ UNCHANGED <<chat, calls, proc, flag, refs, inbox, busy, count>>

(* Mutant: a ref without a flag is kept and keeps the chat working. *)
OnResultKeepsRefs(g) ==
    /\ Reads(g, "result")
    /\ IF active = 0 THEN UNCHANGED queue
       ELSE /\ flag' = flag \cap refs /\ refs' = refs
            /\ state' = IF refs = {} THEN "idle" ELSE "working"
    /\ UNCHANGED <<chat, calls, proc, inbox, busy, count>>

(* Flags without a ref and refs without a flag are both dropped; what is   *)
(* left over keeps the chat working.                                       *)
OnResult(g) ==
    /\ Reads(g, "result")
    /\ IF active = 0 THEN UNCHANGED queue
       ELSE /\ flag' = flag \cap refs /\ refs' = flag \cap refs
            /\ state' = IF flag \cap refs = {} THEN "idle" ELSE "working"
    /\ UNCHANGED <<chat, calls, proc, inbox, busy, count>>

-----------------------------------------------------------------------------
Init ==
    /\ active = 0 /\ session = [k \in Cells |-> 0] /\ flights = {}
    /\ sender = [s \in Senders |-> [pc |-> "quiet", sess |-> 0]]
    /\ closer = Nobody
    /\ cancel = [pc |-> "quiet", msg |-> 0, sess |-> 0, asked |-> 0]
    /\ proc = [g \in Sessions |->
                  [born |-> FALSE, alive |-> FALSE, child |-> FALSE, doomed |-> FALSE, reaped |-> FALSE, told |-> FALSE]]
    /\ state = "none" /\ flag = {} /\ refs = {}
    /\ inbox = [g \in Sessions |-> <<>>] /\ busy = {} /\ lines = [g \in Sessions |-> <<>>]
    /\ cells = 0 /\ sessions = 0 /\ ends = 0 /\ seen = {}

Sending(s) ==
    \/ Send(s) \/ LoadChat(s) \/ FinishLoad(s) \/ CreateSession(s) \/ StartFails(s) \/ Spawn(s)
    \/ RequireLiveSession(s) \/ StoreMessage(s) \/ WriteMessage(s) \/ RecordQueuedRef(s)
Cancelling == CliCancels \/ FinishCancel
Closing == Kill \/ KillReturns \/ DropSession
Exiting(g) == Reap(g) \/ OnExit(g) \/ (proc[g].doomed /\ Die(g))
Reading(g) == OnQueuedProcessed(g) \/ OnMessage(g) \/ OnResult(g)

Next ==
    \/ \E s \in Senders : Sending(s) \/ AskCancel(s)
    \/ Cancelling \/ Closing
    \/ \E op \in {"stop", "end", "archive"} : Close(op)
    \/ \E g \in Sessions : Exiting(g) \/ Die(g) \/ Take(g) \/ FinishTurn(g) \/ Reading(g)

Spec == Init /\ [][Next]_vars

(* Calls run on once made, killed processes die, the close handler runs,   *)
(* the CLI works off what it holds, and its lines are read.                *)
FairSpec ==
    /\ Spec
    /\ \A s \in Senders : WF_vars(Sending(s) /\ sender[s].pc # "quiet")
    /\ WF_vars(Cancelling) /\ WF_vars(Closing)
    /\ \A g \in Sessions : WF_vars(Exiting(g)) /\ WF_vars(Take(g)) /\ WF_vars(FinishTurn(g)) /\ WF_vars(Reading(g))

-----------------------------------------------------------------------------
(* Every variable keeps its type.                                          *)
TypeOK ==
    /\ active \in 0..MaxCells /\ session \in [Cells -> 0..History]
    /\ flights \subseteq {"starting", "loading"}
    /\ sender \in [Senders -> [pc : {"quiet", "load", "loading", "joinLoad", "create", "spawn", "joinStart",
                                     "require", "prepare", "write", "writeQueued", "record", "done", "failed"},
                               sess : 0..MaxSessions]]
    /\ state \in {"none", "idle", "working"} /\ flag \subseteq Senders /\ refs \subseteq Senders
    /\ busy \subseteq {g \in Sessions : proc[g].alive}
    /\ seen \subseteq {"overlap", "ignored", "gone", "late", "cancel"}

(* Starts are single-flight: at most one call loads the chat and starts    *)
(* its CLI, and the slot is taken exactly while it does, however the start  *)
(* ends; a slot left behind would keep every later sender waiting.         *)
OneStart ==
    LET starting == {s \in Senders : sender[s].pc \in {"load", "loading", "joinLoad", "create", "spawn"}}
    IN  /\ \A s, t \in starting : s = t
        /\ "starting" \in flights <=> starting # {}
        /\ "loading" \in flights <=> \E s \in starting : At(s, "loading")

(* As long as no close overlaps a start, every process the daemon holds is *)
(* the one its chat leads to: senders that race through load and start     *)
(* never leave a second or an unreachable CLI running.                     *)
NoOrphan ==
    "overlap" \notin seen => \A g \in Sessions : proc[g].child => Current = g

(* A queued badge stands for a message that is being written, that the CLI *)
(* holds or has just acknowledged, or whose exit is still to be told.      *)
BadgeHonest ==
    \A m \in flag :
        \/ "ignored" \in seen
        \/ At(m, "writeQueued") \/ At(m, "failed")
        \/ cancel.pc = "cancelled" /\ cancel.msg = m
        \/ \E g \in Sessions : In(m, inbox[g]) \/ In(Line("ack", m), lines[g])
        \/ \E g \in Sessions : proc[g].born /\ ~proc[g].alive /\ ~proc[g].told

(* While the CLI of the chat is in a turn whose lines are read, the chat   *)
(* says so: neither the exit nor a reconciled result of another session    *)
(* may make a working chat look idle.                                      *)
BusyIsWorking ==
    \A g \in busy : Current = g /\ lines[g] = <<>> /\ "late" \notin seen => state = "working"

(* A working chat comes to rest: no ref is left over that would keep it    *)
(* working, as long as its exit is heeded, its send does not fail     *)
(* under it and no cancel ends with no turn left that will end.             *)
WorkSettles ==
    state = "working" ~>
        \/ state # "working" \/ seen # {}
        \/ \E s \in Senders : At(s, "failed")

(* The result of a turn clears the working state (the comment of           *)
(* on_message), cancels included.                                          *)
ResultClearsWorking == state = "working" ~> state # "working"
=============================================================================
