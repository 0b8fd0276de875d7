-------------------------- MODULE PermissionQueue --------------------------
(***************************************************************************)
(* The permission prompts of one chat (mainframe-chat): the queue of       *)
(* permission_manager.rs, the sink of event_handler.rs that feeds it from  *)
(* the lines of the CLI, and respond_to_permission of                      *)
(* permission_handler.rs, which several clients call at once.              *)
(*                                                                         *)
(* An answer is three steps, cut where the code awaits: the guards, the    *)
(* write to the CLI, the shift of the queue.  The approval of a plan goes  *)
(* on through plan_mode_handler.rs of the adapter: it is written again, or *)
(* replaces the process when the context is to be cleared.  The CLI runs   *)
(* on its own and talks to the daemon through a pipe of lines that are     *)
(* read in order.                                                          *)
(***************************************************************************)
EXTENDS Integers, Sequences, FiniteSets

CONSTANTS
    Requests,         \* ids of the control_requests the CLI may send
    Placeholder,      \* the empty id of a prompt restored from history
    Plans,            \* the prompts of ExitPlanMode
    Clients,          \* desktop, phone: whoever answers prompts
    CancelledMemory,  \* CANCELLED_MEMORY: remembered withdrawn ids
    MaxTurns,         \* bound on the turns of the CLI
    MaxFaults         \* bound on deaths of its process and of the daemon, and on clears

ASSUME IdAssumption == Placeholder \notin Requests /\ Plans \subseteq Requests \cup {Placeholder}
ASSUME BoundAssumption == CancelledMemory \in Nat \ {0} /\ {MaxTurns, MaxFaults} \subseteq Nat

Ids == Requests \cup {Placeholder}

VARIABLES
    pending,      \* queue of prompts, the head is the active one
    tombstones,   \* ring of the ids the CLI withdrew
    interrupted,  \* the chat is marked as interrupted
    session,      \* "absent": no cell, "loaded": a cell, "live": its session is spawned
    answer,       \* per client, the call of respond_to_permission it makes
    announced,    \* ids the clients were told to prompt for, or fetched
    hushed,       \* history: ids promoted without an announcement
    proc,         \* the process: "none", "hearing", or "deaf" when its stdin is closed
    cli,          \* what the CLI knows of each request
    turn,         \* the CLI works on a turn
    stopping,     \* the turn was told to stop
    pipe,         \* lines of the CLI the daemon has not read
    removed,      \* history: ids withdrawals took off the queue, in order
    turns,        \* turns begun
    faults        \* deaths of the process and of the daemon, and clears

manager == <<pending, tombstones, interrupted>>
process == <<proc, cli, turn, stopping>>
shown == <<announced, hushed>>
bounds  == <<turns, faults>>
vars == <<manager, session, answer, shown, process, pipe, removed, bounds>>

Pcs == {"quiet", "writing", "approving", "clearing", "starting", "fresh", "written", "approved", "denied",
        "escalating", "killing"}
Quiet == [pc |-> "quiet", req |-> Placeholder]
Line(kind, r) == [kind |-> kind, req |-> r]
In(r, s) == \E i \in DOMAIN s : s[i] = r

-----------------------------------------------------------------------------
(* PermissionManager *)

MatchesPending(r) == pending # <<>> /\ Head(pending) = r
WasCancelled(r) == r # Placeholder /\ In(r, tombstones)

(* Mutant: clear drops the tombstones like forget. *)
ClearForgets ==
    /\ pending' = <<>> /\ interrupted' = FALSE /\ tombstones' = <<>>

Clear ==
    /\ pending' = <<>>
    /\ interrupted' = FALSE
    /\ UNCHANGED tombstones

Without(queue, i) ==
    [j \in 1..Len(queue) - 1 |-> IF j < i THEN queue[j] ELSE queue[j + 1]]

Remembering(r) ==
    LET ring == Append(tombstones, r)
    IN  IF Len(ring) > CancelledMemory THEN Tail(ring) ELSE ring

(* Mutant: shift without the id guard of #284. *)
ShiftedAny(r) == IF pending # <<>> THEN Tail(pending) ELSE pending

(* The id-scoped shift: a front that changed meanwhile stays. *)
Shifted(r) == IF MatchesPending(r) THEN Tail(pending) ELSE pending

(* Mutant: A promotion is announced only by the first request of a queue. *)
PromotedFirst(queue) == IF pending = <<>> /\ queue # <<>> THEN {Head(queue)} ELSE {}

(* Who becomes active and is announced when the queue goes from one value  *)
(* to the next.                                                            *)
Promoted(queue) ==
    IF queue # <<>> /\ (pending = <<>> \/ Head(queue) # Head(pending))
    THEN {Head(queue)} ELSE {}

-----------------------------------------------------------------------------
(* respond_to_permission *)

SetAnswer(c, pc, r) == answer' = [answer EXCEPT ![c] = [pc |-> pc, req |-> r]]

(* The ways to answer a prompt that reach a session: a plan may be         *)
(* approved, with or without clearing the context.                         *)
Writing == {"writing", "approving", "clearing"}
Ways(r) == IF r \in Plans THEN Writing ELSE {"writing"}

(* Clearing the context ends the process: the bound counts it as a death.  *)
Counted(way) ==
    IF way = "clearing" THEN faults < MaxFaults /\ faults' = faults + 1 ELSE UNCHANGED faults

(* A client answers a prompt it was shown, perhaps long ago.               *)
MayAnswer(c, r) == answer[c].pc = "quiet" /\ r \in announced

Drop(c, r) ==
    /\ MayAnswer(c, r)
    /\ \/ WasCancelled(r)
       \/ session = "live" /\ pending # <<>> /\ ~MatchesPending(r)
    /\ UNCHANGED vars

Forward(c, r) ==
    /\ MayAnswer(c, r)
    /\ ~WasCancelled(r)
    /\ session = "live"
    /\ pending = <<>> \/ MatchesPending(r)
    /\ \E way \in Ways(r) : SetAnswer(c, way, r) /\ Counted(way)
    /\ UNCHANGED <<manager, session, shown, process, pipe, removed, turns>>

(* Without a live session the queue is cleared and the chat started.       *)
StartFresh(c, r) ==
    /\ MayAnswer(c, r)
    /\ ~WasCancelled(r)
    /\ session # "live"
    /\ Clear
    /\ SetAnswer(c, "starting", r)
    /\ UNCHANGED <<session, shown, process, pipe, removed, bounds>>

(* start_chat came back: with a process the answer is written to it.       *)
Started(c) ==
    /\ answer[c].pc = "starting"
    /\ IF session = "live" THEN SetAnswer(c, "fresh", answer[c].req)
                           ELSE SetAnswer(c, "quiet", Placeholder)
    /\ UNCHANGED <<manager, session, shown, process, pipe, removed, bounds>>

(* A write returns Ok whether or not there is a stdin to take it.          *)
Reach(r) ==
    IF r \in Requests /\ cli[r] = "open" /\ proc = "hearing" THEN [cli EXCEPT ![r] = "answered"] ELSE cli

(* The write to the session the call has picked; one that clears the       *)
(* context writes a denial, and looks for a spawned session once more.     *)
Written(pc) == CASE pc = "writing" -> "written" [] pc = "approving" -> "approved" [] pc = "clearing" -> "denied"

Write(c) ==
    LET r == answer[c].req
    IN  /\ answer[c].pc \in Writing \cup {"fresh"}
        /\ answer[c].pc = "clearing" => session = "live"
        /\ cli' = Reach(r)
        /\ IF answer[c].pc = "fresh" THEN SetAnswer(c, "quiet", Placeholder)
                                     ELSE SetAnswer(c, Written(answer[c].pc), r)
        /\ UNCHANGED <<manager, session, shown, proc, turn, stopping, pipe, removed, bounds>>

(* Mutant: The completion of an answer leaves the queue to the next result. *)
CompleteWithoutShift(c) ==
    /\ answer[c].pc \in {"written", "approved"}
    /\ SetAnswer(c, "quiet", Placeholder)
    /\ UNCHANGED <<manager, session, shown, process, pipe, removed, bounds>>

Complete(c) ==
    LET queue == Shifted(answer[c].req)
    IN  /\ answer[c].pc \in {"written", "approved"}
        /\ pending' = queue
        /\ announced' = announced \cup Promoted(queue)
        /\ IF answer[c].pc = "approved" THEN SetAnswer(c, "escalating", answer[c].req)
                                        ELSE SetAnswer(c, "quiet", Placeholder)
        /\ UNCHANGED <<tombstones, interrupted, session, hushed, process, pipe, removed, bounds>>

(* on_approve writes the same answer a second time.                        *)
Escalate(c) ==
    /\ answer[c].pc = "escalating"
    /\ cli' = Reach(answer[c].req)
    /\ SetAnswer(c, "quiet", Placeholder)
    /\ UNCHANGED <<manager, session, shown, proc, turn, stopping, pipe, removed, bounds>>

(* on_approve_and_clear_context takes the plan off the queue and tells     *)
(* nobody who is in front now.  Without a session that is all there is to  *)
(* do before the chat is started.                                          *)
ShiftSilently(c) ==
    LET queue == Shifted(answer[c].req)
    IN  /\ \/ answer[c].pc = "denied" /\ SetAnswer(c, "killing", answer[c].req)
           \/ answer[c].pc = "clearing" /\ session # "live" /\ SetAnswer(c, "quiet", Placeholder)
        /\ pending' = queue
        /\ hushed' = hushed \cup Promoted(queue)
        /\ UNCHANGED <<tombstones, interrupted, session, announced, process, pipe, removed, bounds>>

-----------------------------------------------------------------------------
(* The sink reads a line *)

Reads(kind, r) == pipe # <<>> /\ Head(pipe) = Line(kind, r) /\ pipe' = Tail(pipe)

OnPermission(r) ==
    LET queue == Append(pending, r)
    IN  /\ Reads("ask", r)
        /\ pending' = queue
        /\ announced' = announced \cup Promoted(queue)
        /\ UNCHANGED <<tombstones, interrupted, session, answer, hushed, process, removed, bounds>>

(* The prompt is taken out of the queue where it stands, which may be      *)
(* behind the active one.                                                  *)
OnPermissionCancelled(r) ==
    /\ Reads("cancel", r)
    /\ \/ \E i \in DOMAIN pending :
             /\ pending[i] = r /\ \A j \in 1..i-1 : pending[j] # r
             /\ pending' = Without(pending, i)
             /\ tombstones' = Remembering(r)
             /\ announced' = announced \cup Promoted(Without(pending, i))
             /\ removed' = Append(removed, r)
       \/ ~In(r, pending) /\ UNCHANGED <<pending, tombstones, announced, removed>>
    /\ UNCHANGED <<interrupted, session, answer, hushed, process, bounds>>

OnResult ==
    /\ Reads("result", Placeholder)
    /\ IF session = "absent" THEN UNCHANGED manager ELSE Clear
    /\ UNCHANGED <<session, answer, shown, process, removed, bounds>>

-----------------------------------------------------------------------------
(* The other calls of the chat that touch the queue *)

(* interrupt_chat: forget the prompts, then tell the CLI.                  *)
Interrupt ==
    /\ session = "live"
    /\ pending' = <<>>
    /\ interrupted' = TRUE
    /\ stopping' = turn
    /\ UNCHANGED <<tombstones, session, answer, shown, proc, cli, turn, pipe, removed, bounds>>

(* do_load_chat: a transcript that ends in an unanswered tool use puts a   *)
(* placeholder into an empty queue; clients that open the chat fetch it.   *)
Load ==
    /\ session = "absent"
    /\ session' = "loaded"
    /\ \/ /\ pending = <<>> /\ \E r \in Requests : cli[r] = "gone"
          /\ pending' = <<Placeholder>>
          /\ announced' = announced \cup {Placeholder}
       \/ UNCHANGED <<pending, announced>>
    /\ UNCHANGED <<tombstones, interrupted, answer, hushed, process, pipe, removed, bounds>>

(* get_pending_permission: a client that opens the chat sees its front.    *)
Fetch ==
    /\ pending # <<>>
    /\ announced' = announced \cup {Head(pending)}
    /\ UNCHANGED <<manager, session, answer, hushed, process, pipe, removed, bounds>>

Start ==
    /\ session = "loaded"
    /\ session' = "live"
    /\ proc' = "hearing"
    /\ UNCHANGED <<manager, answer, shown, cli, turn, stopping, pipe, removed, bounds>>

(* archive_chat, once the process is gone: the cell is dropped and the     *)
(* queue cleared, the tombstones stay.                                     *)
Archive ==
    /\ session = "loaded"
    /\ session' = "absent"
    /\ Clear
    /\ UNCHANGED <<answer, shown, process, pipe, removed, bounds>>

-----------------------------------------------------------------------------
(* The CLI and the machine it runs on *)

Abandoned == [r \in Requests |-> IF cli[r] = "open" THEN "gone" ELSE cli[r]]

BeginTurn ==
    /\ proc # "none" /\ ~turn /\ turns < MaxTurns
    /\ turn' = TRUE /\ stopping' = FALSE /\ turns' = turns + 1
    /\ UNCHANGED <<manager, session, answer, shown, proc, cli, pipe, removed, faults>>

Ask(r) ==
    /\ proc # "none" /\ turn /\ cli[r] = "unasked"
    /\ cli' = [cli EXCEPT ![r] = "open"]
    /\ pipe' = Append(pipe, Line("ask", r))
    /\ UNCHANGED <<manager, session, answer, shown, proc, turn, stopping, removed, bounds>>

Withdraw(r) ==
    /\ proc # "none" /\ cli[r] = "open"
    /\ cli' = [cli EXCEPT ![r] = "withdrawn"]
    /\ pipe' = Append(pipe, Line("cancel", r))
    /\ UNCHANGED <<manager, session, answer, shown, proc, turn, stopping, removed, bounds>>

(* A turn ends by itself once nothing is asked, or because it was stopped. *)
EndTurn ==
    /\ proc # "none" /\ turn
    /\ stopping \/ \A r \in Requests : cli[r] # "open"
    /\ turn' = FALSE /\ stopping' = FALSE
    /\ cli' = Abandoned
    /\ pipe' = Append(pipe, Line("result", Placeholder))
    /\ UNCHANGED <<manager, session, answer, shown, proc, removed, bounds>>

(* The process closes its stdin and lives on.                              *)
Deafen ==
    /\ proc = "hearing" /\ faults < MaxFaults
    /\ proc' = "deaf" /\ faults' = faults + 1
    /\ UNCHANGED <<manager, session, answer, shown, cli, turn, stopping, pipe, removed, turns>>

Dead == proc' = "none" /\ cli' = Abandoned /\ turn' = FALSE /\ stopping' = FALSE

(* The process dies: its requests die with it, the queue is left as it is. *)
Die ==
    /\ proc # "none" /\ faults < MaxFaults
    /\ faults' = faults + 1
    /\ Dead
    /\ UNCHANGED <<manager, session, answer, shown, pipe, removed, turns>>

(* The waiter of the adapter finds the process gone.                       *)
Exited ==
    /\ session = "live" /\ proc = "none"
    /\ session' = "loaded"
    /\ UNCHANGED <<manager, answer, shown, process, pipe, removed, bounds>>

(* The rest of on_approve_and_clear_context: the process is killed and its *)
(* session dropped, with the lines of it that nobody has read.             *)
KillSession(c) ==
    /\ answer[c].pc = "killing"
    /\ SetAnswer(c, "quiet", Placeholder)
    /\ IF session = "live"
       THEN session' = "loaded" /\ Dead /\ pipe' \in {pipe, <<>>}
       ELSE UNCHANGED <<session, process, pipe>>
    /\ UNCHANGED <<manager, shown, removed, bounds>>

Restart ==
    /\ faults < MaxFaults
    /\ faults' = faults + 1
    /\ pending' = <<>> /\ tombstones' = <<>> /\ interrupted' = FALSE
    /\ session' = "absent"
    /\ answer' = [c \in Clients |-> Quiet]
    /\ Dead
    /\ pipe' = <<>> /\ removed' = <<>>
    /\ UNCHANGED <<shown, turns>>

-----------------------------------------------------------------------------
Init ==
    /\ pending = <<>> /\ tombstones = <<>> /\ interrupted = FALSE
    /\ session = "absent"
    /\ answer = [c \in Clients |-> Quiet] /\ announced = {} /\ hushed = {}
    /\ proc = "none" /\ cli = [r \in Requests |-> "unasked"] /\ turn = FALSE /\ stopping = FALSE
    /\ pipe = <<>> /\ removed = <<>>
    /\ turns = 0 /\ faults = 0

Goes(c) == Started(c) \/ Write(c) \/ Complete(c) \/ Escalate(c) \/ ShiftSilently(c) \/ KillSession(c)
Answering == \E c \in Clients : Goes(c) \/ \E r \in Ids : Drop(c, r) \/ Forward(c, r) \/ StartFresh(c, r)
Reading == \E r \in Requests : OnPermission(r) \/ OnPermissionCancelled(r)
Cli == BeginTurn \/ EndTurn \/ Deafen \/ Die \/ \E r \in Requests : Ask(r) \/ Withdraw(r)
Daemon == Interrupt \/ Load \/ Fetch \/ Start \/ Exited \/ Archive \/ Restart

Next == Answering \/ Reading \/ OnResult \/ Cli \/ Daemon

Spec == Init /\ [][Next]_vars

(* Lines are read, calls run on, and somebody answers the active prompt.   *)
FairSpec ==
    /\ Spec
    /\ WF_vars(Reading \/ OnResult)
    /\ \A c \in Clients : WF_vars(Goes(c))
    /\ WF_vars(\E c \in Clients, r \in Ids : MatchesPending(r) /\ (Forward(c, r) \/ StartFresh(c, r)))

-----------------------------------------------------------------------------
(* Every variable keeps its type; the ring stays within its bound          *)
(* (permission_manager.rs).                                                *)
TypeOK ==
    /\ pending \in Seq(Ids)
    /\ tombstones \in Seq(Requests) /\ Len(tombstones) <= CancelledMemory
    /\ interrupted \in BOOLEAN
    /\ session \in {"absent", "loaded", "live"}
    /\ answer \in [Clients -> [pc : Pcs, req : Ids]]
    /\ announced \subseteq Ids /\ hushed \subseteq Ids
    /\ proc \in {"none", "hearing", "deaf"}
    /\ cli \in [Requests -> {"unasked", "open", "answered", "withdrawn", "gone"}]
    /\ turn \in BOOLEAN /\ stopping \in BOOLEAN
    /\ pipe \in Seq([kind : {"ask", "cancel", "result"}, req : Ids])
    /\ removed \in Seq(Requests)
    /\ turns \in 0..MaxTurns /\ faults \in 0..MaxFaults

Unseen == pending # <<>> /\ Head(pending) \notin announced

(* The active prompt is one the clients were told of: a request promoted   *)
(* by an answer, a withdrawal or an empty queue is always announced, or    *)
(* the chat would wait for a prompt nobody sees.  Only the approval of a   *)
(* plan that clears the context promotes one silently                      *)
(* (plan_mode_actions.rs:198-203).                                         *)
FrontIsShown == Unseen => Head(pending) \in hushed

(* A request the CLI waits on is on its way to the daemon, in the queue,   *)
(* or being answered.                                                      *)
Kept(r) ==
    \/ In(Line("ask", r), pipe)
    \/ In(r, pending)
    \/ \E c \in Clients : answer[c].pc \in Writing /\ answer[c].req = r

(* Neither a shift nor a withdrawal that races it loses another request    *)
(* (#284), and only an interrupt forgets one before the CLI does, as long  *)
(* as the CLI can be written to: an answer to a closed stdin is dropped    *)
(* and its prompt shifted (adapter session.rs:958-966).                    *)
NothingLost == proc = "hearing" /\ ~stopping => \A r \in Requests : cli[r] = "open" => Kept(r)

(* An answer that arrives after the CLI withdrew the prompt is dropped,    *)
(* for the last CANCELLED_MEMORY withdrawals and whatever cleared the      *)
(* queue in between (D4: an interrupt or an archive must keep the          *)
(* tombstones).                                                            *)
WithdrawnStaysUnanswered ==
    [][\A c \in Clients :
          answer[c].pc = "quiet" /\ answer'[c].pc # "quiet" =>
              \A i \in DOMAIN removed :
                  i > Len(removed) - CancelledMemory => removed[i] # answer'[c].req]_vars

(* No request is answered twice at the CLI, whoever clicks (the guard      *)
(* against stale and duplicate responses).                                 *)
AnsweredOnce ==
    [][\A c \in Clients :
          answer[c].pc \in Writing /\ answer'[c].pc \notin Writing /\ answer[c].req \in Requests
          => cli[answer[c].req] # "answered"]_vars

(* As long as the clients answer what they see, every queued prompt gets   *)
(* its turn or leaves the queue, unless it ends up behind one that was     *)
(* promoted silently.                                                      *)
EveryPromptShown ==
    \A r \in Requests : In(r, pending) ~> (r \in announced \/ ~In(r, pending) \/ Unseen)

(* Both without their exceptions: neither holds.                           *)
FrontAlwaysShown == ~Unseen
PromptsKept == ~stopping => \A r \in Requests : cli[r] = "open" => Kept(r)

=============================================================================
