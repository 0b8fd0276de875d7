------------------------------ MODULE Triggers ------------------------------
(***************************************************************************)
(* The triggers of the automations engine (mainframe-automations,          *)
(* triggers/): the schedule sweep that derives the current slot instead of *)
(* storing the next one, the router that turns finished sessions and       *)
(* finished runs into fires, and the webhook ingest.  All of them start    *)
(* runs through one insert, whose unique index on the dedup key is what    *)
(* makes a slot, an event or a delivery fire at most once, across restarts.*)
(* An automation may be disabled or deleted between any two awaits.        *)
(*                                                                         *)
(* A run is known by the key of its trigger and of what fired it, for a    *)
(* chained run the key of the run before it; chains may go upon chains,    *)
(* and round in circles.  The walk of the steps of a run is BlockWalk and  *)
(* AutomationRun's matter: here it just ends.                              *)
(***************************************************************************)
EXTENDS Integers, Sequences, FiniteSets

CONSTANTS
    Autos,       \* the automations
    Scenes,      \* sets of automations the database may hold at first
    Trigs,       \* their triggers
    AutoOf,      \* the automation of a trigger
    Kind,        \* "schedule", "session", "webhook", or of a chain "finished" or "failed"
    Slots,       \* of a schedule: its occurrences
    OnMissed,    \* of a schedule: "skip" or "run_once"
    Source,      \* of a session or chain: the automation it is limited to, or None
    Chats,       \* chats that finish turns
    OwnedChats,  \* those an ask_agent step waits for
    Deliveries,  \* ids of webhook deliveries
    FreshWindow, StaleWindow, \* of schedules and of deliveries
    RunsPage,    \* runs that delete cancels
    None,
    MaxTime, MaxTurns, MaxRuns, MaxCrashes, MaxFaults, MaxEdits \* bounds

ASSUME TriggerAssumption ==
    /\ Scenes \subseteq SUBSET Autos
    /\ AutoOf \in [Trigs -> Autos] /\ OwnedChats \subseteq Chats
    /\ Kind \in [Trigs -> {"schedule", "session", "webhook", "finished", "failed"}]
    /\ Source \in [Trigs -> Autos \cup {None}]
    /\ {FreshWindow, StaleWindow, RunsPage, MaxTime, MaxTurns, MaxRuns, MaxCrashes, MaxFaults, MaxEdits} \subseteq Nat

(* Occurrences are instants of the clock.                                  *)
ASSUME SlotAssumption == \A t \in Trigs : Kind[t] = "schedule" => Slots[t] \subseteq Nat

VARIABLES
    now,        \* the clock
    up,         \* the daemon runs
    present, enabled, \* the automations there are, and those switched on
    rows,       \* the runs table
    advancing,  \* runs whose advance is walking
    ended,      \* runs just finalized and how, the completion hook still to come
    fires,      \* calls of fire_run under way
    sweep,      \* the schedule sweep: the clock it read, triggers to offer
    events,     \* finished sessions in the channel of the router
    route,      \* the event the router works on
    waits,      \* chats with an agent wait
    turns,      \* per chat, turns finished
    delivery,   \* per delivery, where the sender and the ingest stand
    deleter,    \* the call of delete
    crashes, faults, edits,
    touched     \* history: automations edited, or fires failed, since the sweep began

table == <<rows, advancing, ended>>
calls == <<sweep, route, delivery, deleter>>
chats == <<events, waits, turns>>
count == <<crashes, faults, edits>>
vars  == <<now, up, present, enabled, table, fires, calls, chats, count, touched>>

Key(t, slot, item, of) == [t |-> t, slot |-> slot, item |-> item, of |-> of]
SlotKey(t, s) == Key(t, s, None, None)
ItemKey(t, i) == Key(t, 0, i, None)
ChainKey(t, k) == Key(t, 0, None, k)

OfKind(kind) == {t \in Trigs : Kind[t] = kind}
Chains == OfKind("finished") \cup OfKind("failed")

Row(k) == {r \in rows : r.key = k}
Started(k) == Row(k) # {}
Live(r) == r.status = "running"
Of(a) == {r \in rows : AutoOf[r.key.t] = a}
SetStatus(k, s) == {IF r.key = k /\ Live(r) THEN [r EXCEPT !.status = s] ELSE r : r \in rows}

-----------------------------------------------------------------------------
(* fire_run and create_run *)

(* Mutant: a schedule is told apart by the time of the sweep. *)
DedupByClock(k) == IF Kind[k.t] = "schedule" THEN [k EXCEPT !.slot = now] ELSE k

(* <triggerId>|<scheduledFor, chat, source run or delivery>                *)
DedupKey(k) == k

Lost(k) == \E r \in Of(AutoOf[k.t]) : r.dedup = DedupKey(k)

NewRun(k) ==
    /\ Cardinality(rows) < MaxRuns
    /\ rows' = rows \cup {[key |-> k, dedup |-> DedupKey(k), status |-> "running"]}
    /\ advancing' = advancing \cup {k}

Fire(k, by) == [key |-> k, by |-> by, pc |-> "get"]

(* Gone or disabled: the fire ends silently.                               *)
GetAutomation(f) ==
    /\ f \in fires /\ f.pc = "get"
    /\ fires' = (fires \ {f}) \cup
                   (IF AutoOf[f.key.t] \in enabled THEN {[f EXCEPT !.pc = "insert"]} ELSE {})
    /\ UNCHANGED <<now, up, present, enabled, table, calls, chats, count, touched>>

(* The insert loses to a run with the same dedup key, and fails when the   *)
(* automation is gone by now or the database does.                         *)
CreateRun(f) ==
    /\ f \in fires /\ f.pc = "insert"
    /\ fires' = fires \ {f}
    /\ \/ /\ AutoOf[f.key.t] \in present /\ ~Lost(f.key)
          /\ NewRun(f.key)
          /\ UNCHANGED <<faults, touched>>
       \/ /\ AutoOf[f.key.t] \notin present \/ Lost(f.key)
          /\ UNCHANGED <<rows, advancing, faults, touched>>
       \/ /\ faults < MaxFaults /\ faults' = faults + 1
          /\ touched' = touched \cup {AutoOf[f.key.t]}
          /\ UNCHANGED <<rows, advancing>>
    /\ UNCHANGED <<now, up, present, enabled, ended, calls, chats, crashes, edits>>

-----------------------------------------------------------------------------
(* The schedule sweep *)

Past(t, n) == {s \in Slots[t] : s <= n}
Latest(S) == CHOOSE s \in S : \A u \in S : u <= s

ListEnabled ==
    /\ up /\ sweep.pc = "idle" /\ sweep.now < now
    /\ sweep' = [pc |-> "offer", now |-> now, autos |-> enabled,
                 todo |-> {t \in OfKind("schedule") : AutoOf[t] \in enabled}]
    /\ touched' = {}
    /\ UNCHANGED <<now, up, present, enabled, table, fires, route, delivery, deleter, chats, count>>

(* Mutant: a slot that is just as late as the window is missed. *)
StaleEarly(t, s) == sweep.now - s >= FreshWindow /\ OnMissed[t] = "skip"

(* Strictly later than the window, and a missed slot is skipped.           *)
Skipped(t, s) == sweep.now - s > FreshWindow /\ OnMissed[t] = "skip"

(* The latest slot only, one trigger after the other.                      *)
SweepTrigger(t) ==
    LET past == Past(t, sweep.now)
    IN  /\ sweep.pc = "offer" /\ t \in sweep.todo
        /\ \A f \in fires : f.by # "sweep"
        /\ sweep' = [sweep EXCEPT !.todo = @ \ {t}]
        /\ fires' = IF past = {} \/ (past # {} /\ Skipped(t, Latest(past))) THEN fires
                    ELSE fires \cup {Fire(SlotKey(t, Latest(past)), "sweep")}
        /\ UNCHANGED <<now, up, present, enabled, table, route, delivery, deleter, chats, count, touched>>

EndSweep ==
    /\ sweep.pc = "offer" /\ sweep.todo = {} /\ \A f \in fires : f.by # "sweep"
    /\ sweep' = [sweep EXCEPT !.pc = "idle"]
    /\ UNCHANGED <<now, up, present, enabled, table, fires, route, delivery, deleter, chats, count, touched>>

-----------------------------------------------------------------------------
(* Runs end, and their end is an event *)

(* Mutant: the hook is not called. *)
FinishRunUnheard(k, s) ==
    /\ k \in advancing /\ \E r \in Row(k) : Live(r)
    /\ rows' = SetStatus(k, s)
    /\ advancing' = advancing \ {k}
    /\ UNCHANGED <<now, up, present, enabled, ended, fires, calls, chats, count, touched>>

(* The walk is over and the run is not cancelled meanwhile: finalize.      *)
FinishRun(k, s) ==
    /\ k \in advancing /\ \E r \in Row(k) : Live(r)
    /\ rows' = SetStatus(k, s)
    /\ advancing' = advancing \ {k}
    /\ ended' = ended \cup {[key |-> k, status |-> s]}
    /\ UNCHANGED <<now, up, present, enabled, fires, calls, chats, count, touched>>

(* A run whose row is gone or terminal: advance finds out and stops.       *)
StopAdvance(k) ==
    /\ k \in advancing /\ \A r \in Row(k) : ~Live(r)
    /\ advancing' = advancing \ {k}
    /\ UNCHANGED <<now, up, present, enabled, rows, ended, fires, calls, chats, count, touched>>

(* What a trigger on runs selects: of one automation or of any, those that *)
(* succeeded or those that failed.                                         *)
Accepts(c, status) == (Kind[c] = "finished" /\ status = "succeeded") \/ (Kind[c] = "failed" /\ status = "failed")
From(c, k) == Source[c] \in {None, AutoOf[k.t]}

(* Mutant: the status selector is not looked at. *)
ListensAnyhow(c, e) == c \in Chains /\ From(c, e.key) /\ AutoOf[c] \in enabled

Listens(c, e) == c \in Chains /\ Accepts(c, e.status) /\ From(c, e.key) /\ AutoOf[c] \in enabled

(* CompletionEmitter: the end of a run feeds the router directly.          *)
OnFinalized(e) ==
    /\ e \in ended
    /\ ended' = ended \ {e}
    /\ fires' = fires \cup {Fire(ChainKey(c, e.key), "hook") : c \in {u \in Trigs : Listens(u, e)}}
    /\ UNCHANGED <<now, up, present, enabled, rows, advancing, calls, chats, count, touched>>

-----------------------------------------------------------------------------
(* Sessions end *)

(* A turn of a chat ends: the router and the agent port both hear of it.   *)
FinishTurn(c) ==
    /\ up /\ turns[c] < MaxTurns
    /\ turns' = [turns EXCEPT ![c] = @ + 1]
    /\ events' = Append(events, c)
    /\ UNCHANGED <<now, up, present, enabled, table, fires, calls, waits, count, touched>>

(* The settle of the wait removes it from the map before it writes.        *)
RemoveWait(c) ==
    /\ up /\ c \in waits /\ turns[c] > 0
    /\ waits' = waits \ {c}
    /\ UNCHANGED <<now, up, present, enabled, table, fires, calls, events, turns, count, touched>>

HandleEvent ==
    /\ up /\ route.chat = None /\ events # <<>>
    /\ \A f \in fires : f.by # "router"
    /\ route' = [chat |-> Head(events), autos |-> enabled]
    /\ events' = Tail(events)
    /\ UNCHANGED <<now, up, present, enabled, table, fires, sweep, delivery, deleter, waits, turns, count, touched>>

(* Chats an agent wait owns do not count, if the wait is still there; a    *)
(* session has no automation that a limited trigger could match.           *)
MatchEvent ==
    /\ route.chat # None
    /\ fires' = IF route.chat \in waits THEN fires
                ELSE fires \cup {Fire(ItemKey(t, route.chat), "router") :
                                    t \in {u \in OfKind("session") : Source[u] = None /\ AutoOf[u] \in route.autos}}
    /\ route' = [chat |-> None, autos |-> {}]
    /\ UNCHANGED <<now, up, present, enabled, table, sweep, delivery, deleter, chats, count, touched>>

-----------------------------------------------------------------------------
(* Webhook deliveries *)

Stand(d, pc) == delivery' = [delivery EXCEPT ![d].pc = pc]
HookOf(d) == delivery[d].t

(* The sender posts, and posts again when it got a 500 or no answer.       *)
Post(d) ==
    /\ up /\ delivery[d].pc \in {"new", "retry"}
    /\ \E t \in Trigs :
          /\ Kind[t] = "webhook"
          /\ delivery' = [delivery EXCEPT ![d] =
                             [pc |-> "find", t |-> t, at |-> IF @.pc = "new" THEN now ELSE @.at]]
    /\ UNCHANGED <<now, up, present, enabled, table, fires, sweep, route, deleter, chats, count, touched>>

(* process: unknown hook, older than the window, disabled, or on.          *)
Process(d) ==
    /\ delivery[d].pc = "find"
    /\ Stand(d, IF AutoOf[HookOf(d)] \notin present THEN "unknown"
                ELSE IF now - delivery[d].at > StaleWindow THEN "stale"
                ELSE IF AutoOf[HookOf(d)] \notin enabled THEN "disabled" ELSE "start")
    /\ UNCHANGED <<now, up, present, enabled, table, fires, sweep, route, deleter, chats, count, touched>>

(* Mutant: a failed start is answered like a duplicate. *)
StartFailedAccepted(d) ==
    /\ Stand(d, "accepted") /\ UNCHANGED <<rows, advancing>>
    /\ faults < MaxFaults /\ faults' = faults + 1

StartFailed(d) ==
    /\ Stand(d, "retry") /\ UNCHANGED <<rows, advancing>>
    /\ \/ AutoOf[HookOf(d)] \notin present /\ UNCHANGED faults
       \/ faults < MaxFaults /\ faults' = faults + 1

StartRun(d) ==
    LET k == ItemKey(HookOf(d), d)
    IN  /\ delivery[d].pc = "start"
        /\ \/ /\ AutoOf[k.t] \in present /\ ~Lost(k) /\ NewRun(k)
              /\ Stand(d, "accepted") /\ UNCHANGED faults
           \/ /\ AutoOf[k.t] \in present /\ Lost(k)
              /\ Stand(d, "accepted") /\ UNCHANGED <<rows, advancing, faults>>
           \/ StartFailed(d)
        /\ UNCHANGED <<now, up, present, enabled, ended, fires, sweep, route, deleter, chats, crashes, edits, touched>>

(* The sender has its answer; until then a crash makes it post again.      *)
Answer(d) ==
    /\ delivery[d].pc = "accepted"
    /\ Stand(d, "ok")
    /\ UNCHANGED <<now, up, present, enabled, table, fires, sweep, route, deleter, chats, count, touched>>

-----------------------------------------------------------------------------
(* Automations are switched and deleted *)

SetEnabled(a) ==
    /\ up /\ a \in present /\ edits < MaxEdits /\ edits' = edits + 1
    /\ enabled' = IF a \in enabled THEN enabled \ {a} ELSE enabled \cup {a}
    /\ touched' = touched \cup {a}
    /\ UNCHANGED <<now, up, present, table, fires, calls, chats, crashes, faults>>

(* The newest page of its runs is listed, whatever their status.           *)
Delete(a) ==
    /\ up /\ deleter.auto = None /\ a \in present /\ edits < MaxEdits /\ edits' = edits + 1
    /\ \E page \in SUBSET Of(a) :
          /\ Cardinality(page) = IF Cardinality(Of(a)) < RunsPage THEN Cardinality(Of(a)) ELSE RunsPage
          /\ deleter' = [auto |-> a, todo |-> {r.key : r \in {q \in page : Live(q)}}]
    /\ UNCHANGED <<now, up, present, enabled, table, fires, sweep, route, delivery, chats, crashes, faults, touched>>

(* cancel_run aborts the walk and finalizes, unless the run ended first.   *)
CancelRun(k) ==
    /\ k \in deleter.todo
    /\ deleter' = [deleter EXCEPT !.todo = @ \ {k}]
    /\ rows' = SetStatus(k, "cancelled")
    /\ advancing' = advancing \ {k}
    /\ UNCHANGED <<now, up, present, enabled, ended, fires, sweep, route, delivery, chats, count, touched>>

(* The rows of its runs go with the automation.                            *)
DropAutomation ==
    /\ deleter.auto # None /\ deleter.todo = {}
    /\ present' = present \ {deleter.auto} /\ enabled' = enabled \ {deleter.auto}
    /\ rows' = rows \ Of(deleter.auto)
    /\ deleter' = [auto |-> None, todo |-> {}]
    /\ touched' = touched \cup {deleter.auto}
    /\ UNCHANGED <<now, up, advancing, ended, fires, sweep, route, delivery, chats, count>>

-----------------------------------------------------------------------------
(* The daemon dies and starts again; the clock passes either way *)

Tick == now < MaxTime /\ now' = now + 1 /\ UNCHANGED <<up, present, enabled, table, fires, calls, chats, count, touched>>

Crash ==
    /\ up /\ crashes < MaxCrashes /\ crashes' = crashes + 1
    /\ up' = FALSE
    /\ advancing' = {} /\ ended' = {} /\ fires' = {} /\ events' = <<>>
    /\ sweep' = [pc |-> "idle", now |-> -1, autos |-> {}, todo |-> {}]
    /\ route' = [chat |-> None, autos |-> {}] /\ deleter' = [auto |-> None, todo |-> {}]
    /\ delivery' = [d \in Deliveries |->
                       IF delivery[d].pc \in {"find", "start", "accepted"}
                       THEN [delivery[d] EXCEPT !.pc = "retry"] ELSE delivery[d]]
    /\ UNCHANGED <<now, present, enabled, rows, waits, turns, faults, edits, touched>>

(* start: live runs advance again before the triggers are armed.           *)
Start ==
    /\ ~up /\ up' = TRUE
    /\ advancing' = {r.key : r \in {q \in rows : Live(q)}}
    /\ UNCHANGED <<now, present, enabled, rows, ended, fires, calls, chats, count, touched>>

-----------------------------------------------------------------------------
(* Chats, senders and the clock run only where a trigger may hear of them. *)
Hears(kind) == \E t \in Trigs : Kind[t] = kind /\ AutoOf[t] \in present

Init ==
    /\ up = TRUE /\ present \in Scenes /\ enabled = present
    /\ now = IF Hears("schedule") \/ Hears("webhook") THEN 0 ELSE MaxTime
    /\ rows = {} /\ advancing = {} /\ ended = {} /\ fires = {}
    /\ sweep = [pc |-> "idle", now |-> -1, autos |-> {}, todo |-> {}]
    /\ events = <<>> /\ route = [chat |-> None, autos |-> {}]
    /\ waits = OwnedChats /\ turns = [c \in Chats |-> IF Hears("session") THEN 0 ELSE MaxTurns]
    /\ delivery = [d \in Deliveries |-> [pc |-> IF Hears("webhook") THEN "new" ELSE "unknown", t |-> None, at |-> 0]]
    /\ deleter = [auto |-> None, todo |-> {}]
    /\ crashes = 0 /\ faults = 0 /\ edits = 0 /\ touched = {}

Firing == \E f \in fires : GetAutomation(f) \/ CreateRun(f)
Sweeping == (\E t \in Trigs : SweepTrigger(t)) \/ EndSweep
Routing == HandleEvent \/ MatchEvent
Ingesting(d) == Process(d) \/ StartRun(d) \/ Answer(d)
Hooking == \E e \in ended : OnFinalized(e)
Deleting == (\E k \in deleter.todo : CancelRun(k)) \/ DropAutomation

Next ==
    \/ Tick \/ Crash \/ Start
    \/ Firing \/ ListEnabled \/ Sweeping \/ Hooking \/ Routing \/ Deleting
    \/ \E k \in advancing : FinishRun(k, "succeeded") \/ FinishRun(k, "failed") \/ StopAdvance(k)
    \/ \E c \in Chats : FinishTurn(c) \/ RemoveWait(c)
    \/ \E d \in Deliveries : Post(d) \/ Ingesting(d)
    \/ \E a \in Autos : SetEnabled(a) \/ Delete(a)

Spec == Init /\ [][Next]_vars

(* The daemon runs the calls of fire_run and the hook on to their end.     *)
FairSpec == Spec /\ WF_vars(Firing) /\ WF_vars(Hooking)

-----------------------------------------------------------------------------
IsKey(k) ==
    /\ k.t \in Trigs
    /\ \/ Kind[k.t] = "schedule" /\ \E s \in Slots[k.t] : k = SlotKey(k.t, s)
       \/ Kind[k.t] = "session" /\ \E c \in Chats : k = ItemKey(k.t, c)
       \/ Kind[k.t] = "webhook" /\ \E d \in Deliveries : k = ItemKey(k.t, d)
       \/ k.t \in Chains /\ k = ChainKey(k.t, k.of) /\ k.of.t \in Trigs

(* Every variable keeps its type.                                          *)
TypeOK ==
    /\ now \in 0..MaxTime /\ up \in BOOLEAN
    /\ enabled \subseteq present /\ present \subseteq Autos
    /\ \A r \in rows : IsKey(r.key) /\ r.status \in {"running", "succeeded", "failed", "cancelled"}
    /\ \A k \in advancing : IsKey(k)
    /\ \A e \in ended : IsKey(e.key) /\ e.status \in {"succeeded", "failed"}
    /\ \A f \in fires : IsKey(f.key) /\ f.pc \in {"get", "insert"}
    /\ waits \subseteq OwnedChats /\ events \in Seq(Chats)
    /\ ~up => advancing = {} /\ fires = {} /\ sweep.pc = "idle"

(* However often a slot is swept, an event is emitted or a delivery is     *)
(* posted, and however many restarts lie between, it starts one run.       *)
FiredOnce == \A r, q \in rows : r.key = q.key => r = q

(* Once a sweep is through, the latest slot of every schedule it saw has   *)
(* its run, when the slot is not too late or is to be made up for.         *)
SweptIsFired ==
    up /\ sweep.pc = "idle" =>
        \A t \in Trigs :
            LET s == Latest(Past(t, sweep.now))
            IN  /\ Kind[t] = "schedule" /\ AutoOf[t] \in sweep.autos \ touched
                /\ Past(t, sweep.now) # {}
                /\ sweep.now <= s + FreshWindow \/ OnMissed[t] = "run_once"
                => Started(SlotKey(t, s))

(* A chained run follows the end of a run that its trigger selects by      *)
(* automation and by status (router.rs:96-116), never a cancelled one: the *)
(* cancel of a delete and the end of the walk race for the row.            *)
ChainFollowsEnd ==
    \A r \in rows :
        r.key.of # None =>
            /\ From(r.key.t, r.key.of)
            /\ \A q \in rows : q.key = r.key.of => Accepts(r.key.t, q.status)

(* A delivery answered as accepted has its run, whatever fails in between. *)
AcceptedHasRun ==
    \A d \in Deliveries :
        delivery[d].pc \in {"accepted", "ok"} =>
            Started(ItemKey(HookOf(d), d)) \/ AutoOf[HookOf(d)] \notin present

(* A run that ends is heard by every chain that selects it, chained runs   *)
(* like others: unless the daemon dies, the database fails or automations  *)
(* are edited, the next run starts.                                        *)
Chainable(c) ==
    UNION {{SlotKey(t, s) : s \in Slots[t]} :
              t \in {u \in OfKind("schedule") : \E scene \in Scenes : {AutoOf[u], AutoOf[c]} \subseteq scene}}
Heard(c, k) ==
    (\E r \in rows : r.key = k /\ Accepts(c, r.status) /\ From(c, k) /\ AutoOf[c] \in enabled)
        ~> (Started(ChainKey(c, k)) \/ Cardinality(rows) = MaxRuns \/ crashes > 0 \/ faults > 0 \/ edits > 0)
ChainFires ==
    \A c \in Chains : \A k \in Chainable(c) : Heard(c, k) /\ \A d \in Chains : Heard(c, ChainKey(d, k))

(* A chat that an ask_agent step waits for is never an event of its own    *)
(* (the comment of AgentOwnedChats).                                       *)
OwnedNeverFires ==
    \A r \in rows : Kind[r.key.t] = "session" => r.key.item \notin OwnedChats

(* No advance works for an automation that is deleted (the comment of      *)
(* delete).                                                                *)
DeletedIsQuiet == \A k \in advancing : AutoOf[k.t] \in present
=============================================================================
