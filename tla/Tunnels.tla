------------------------------ MODULE Tunnels ------------------------------
(***************************************************************************)
(* The port tunnels (mainframe-launch): port_tunnel_registry.rs, which     *)
(* joins the requests for one port to a single start, over                 *)
(* tunnel_manager.rs, which runs one cloudflared per label and learns of   *)
(* its death from a watcher.  A request is dropped when its client hangs   *)
(* up, and with it the start it awaits and, by kill_on_drop, the child.    *)
(*                                                                         *)
(* A tunnel is known by its child: the child stands for the URL too.  The  *)
(* pidfile that manager writes is Launch's matter.                         *)
(***************************************************************************)
EXTENDS Integers, FiniteSets

CONSTANTS
    Ports,       \* their labels are keys of both maps
    Requests,    \* requests for a tunnel under way
    MaxChildren, \* bound on the children spawned
    Nil

ASSUME TunnelAssumption == MaxChildren \in Nat /\ Nil \notin 1..MaxChildren

Children == 1..MaxChildren

VARIABLES
    child,    \* every cloudflared ever spawned
    tunnels,  \* the manager's map: label to child
    pending,  \* the manager's set of children not yet connected
    entry,    \* the registry's map: starting, or ready with a URL
    outcome,  \* the channel of each start: what its waiters get
    req,      \* what each request awaits
    stopped,  \* history: children whose port was stopped since they were asked for
    dropped,  \* history: the request of a start was dropped
    lost      \* history: children whose label the watcher of another removed

managerVars == <<child, tunnels, pending>>
history == <<stopped, dropped, lost>>
tunnelVars == <<managerVars, entry, outcome, req, history>>

(* "scan" for the URL, wait for "dns", be "watched" until the exit.        *)
Phases == {"unborn", "scan", "dns", "watched", "over"}
Unopened == [port |-> Nil, phase |-> "unborn", alive |-> FALSE, term |-> FALSE]
NoEntry == [kind |-> "none", child |-> Nil, cancel |-> FALSE]
Unasked == [pc |-> "idle", child |-> Nil]

Opened == {c \in Children : child[c].phase # "unborn"}
Starting(c) == child[c].phase \in {"scan", "dns"}
Port(c) == child[c].port
GetUrl(p) == tunnels[p]

-----------------------------------------------------------------------------
(* TunnelManager *)

Told(c) == [child EXCEPT ![c].term = TRUE]

(* Mutant: a stop only forgets the label. *)
AfterStopForgets(p) == child

(* stop: what the map does not hold is no matter of a stop.                *)
AfterStop(p) == IF tunnels[p] = Nil THEN child ELSE Told(tunnels[p])

(* start stops what its label holds.                                       *)
Spawned(p, c) == [AfterStop(p) EXCEPT ![c] = [port |-> p, phase |-> "scan", alive |-> TRUE, term |-> FALSE]]

(* URL and registration were read, perhaps from a child already dead.      *)
Connected(c) ==
    /\ child[c].phase = "scan"
    /\ child' = [child EXCEPT ![c].phase = "dns"]
    /\ tunnels' = [tunnels EXCEPT ![Port(c)] = c]
    /\ pending' = pending \ {c}
    /\ UNCHANGED <<entry, outcome, req, history>>

ChildEnds(c) ==
    /\ child[c].alive
    /\ child' = [child EXCEPT ![c].alive = FALSE]
    /\ UNCHANGED <<tunnels, pending, entry, outcome, req, history>>

(* The watcher removes whatever its label holds by now.                    *)
Reap(c) ==
    /\ child[c].phase = "watched" /\ ~child[c].alive
    /\ child' = [child EXCEPT ![c].phase = "over"]
    /\ tunnels' = [tunnels EXCEPT ![Port(c)] = Nil]
    /\ lost' = lost \cup ({tunnels[Port(c)]} \ {c, Nil})
    /\ UNCHANGED <<pending, entry, outcome, req, stopped, dropped>>

-----------------------------------------------------------------------------
(* PortTunnelRegistry *)

(* Mutant: a cancelled start no longer counts as one. *)
JoinUncancelled(p) == entry[p].kind = "starting" /\ ~entry[p].cancel
Join(p) == entry[p].kind = "starting"

(* A ready entry counts while the manager still has the label.             *)
Existing(p) == entry[p].kind = "ready" /\ GetUrl(p) # Nil

Wait(r, p) ==
    /\ req[r].pc = "idle" /\ Join(p)
    /\ req' = [req EXCEPT ![r] = [pc |-> "wait", child |-> entry[p].child]]
    /\ UNCHANGED <<managerVars, entry, outcome, history>>

(* An existing tunnel is answered at once.                                 *)
TakeExisting(r, p) ==
    /\ req[r].pc = "idle" /\ ~Join(p) /\ Existing(p)
    /\ req' = [req EXCEPT ![r] = [pc |-> "got", child |-> entry[p].child]]
    /\ UNCHANGED <<managerVars, entry, outcome, history>>

(* plan_start and, on this side of its first await, the manager's start.   *)
Open(r, p) ==
    /\ req[r].pc = "idle" /\ ~Join(p) /\ ~Existing(p)
    /\ Opened # Children
    /\ LET c == Cardinality(Opened) + 1
       IN  /\ child' = Spawned(p, c)
           /\ pending' = pending \cup {c}
           /\ entry' = [entry EXCEPT ![p] = [kind |-> "starting", child |-> c, cancel |-> FALSE]]
           /\ req' = [req EXCEPT ![r] = [pc |-> "spawn", child |-> c]]
    /\ tunnels' = [tunnels EXCEPT ![p] = Nil]
    /\ UNCHANGED <<outcome, history>>

(* cloudflared is not there: the start fails, and the entry goes.          *)
OpenFails(r, p) ==
    /\ req[r].pc = "idle" /\ ~Join(p) /\ ~Existing(p)
    /\ child' = AfterStop(p) /\ tunnels' = [tunnels EXCEPT ![p] = Nil]
    /\ entry' = [entry EXCEPT ![p] = NoEntry]
    /\ UNCHANGED <<pending, outcome, req, history>>

(* The request of the start goes on, and its waiters hear of the outcome.  *)
Tell(c, what) ==
    /\ outcome' = [outcome EXCEPT ![c] = what]
    /\ req' = [r \in Requests |-> IF req[r] = [pc |-> "spawn", child |-> c] THEN Unasked ELSE req[r]]

SettleErr(c) ==
    /\ entry' = [entry EXCEPT ![Port(c)] = NoEntry]
    /\ Tell(c, "error")
    /\ UNCHANGED history

(* The child ends before it connects, by itself or by the time limit.      *)
EndEarly(c) ==
    /\ child[c].phase = "scan"
    /\ child' = [child EXCEPT ![c].phase = "over", ![c].alive = FALSE]
    /\ pending' = pending \ {c}
    /\ SettleErr(c)
    /\ UNCHANGED tunnels

(* The child ends while DNS is polled: the manager keeps its label.        *)
EndInDns(c) ==
    /\ child[c].phase = "dns" /\ ~child[c].alive
    /\ child' = [child EXCEPT ![c].phase = "over"]
    /\ SettleErr(c)
    /\ UNCHANGED <<tunnels, pending>>

Watched(c, ch) == [ch EXCEPT ![c].phase = "watched"]

(* Mutant: a stop that came during the start is forgotten. *)
SettleCancelledReady(c) ==
    /\ child' = Watched(c, child)
    /\ entry' = [entry EXCEPT ![Port(c)] = [kind |-> "ready", child |-> c, cancel |-> FALSE]]
    /\ Tell(c, "url")
    /\ UNCHANGED <<tunnels, pending, history>>

(* A stop came during the start: it is carried out now.                    *)
SettleCancelled(c) ==
    /\ child' = Watched(c, AfterStop(Port(c)))
    /\ tunnels' = [tunnels EXCEPT ![Port(c)] = Nil]
    /\ entry' = [entry EXCEPT ![Port(c)] = NoEntry]
    /\ Tell(c, "cancelled")
    /\ UNCHANGED <<pending, history>>

SettleReady(c) ==
    /\ child' = Watched(c, child)
    /\ entry' = [entry EXCEPT ![Port(c)] = [kind |-> "ready", child |-> c, cancel |-> FALSE]]
    /\ Tell(c, "url")
    /\ UNCHANGED <<tunnels, pending, history>>

(* DNS has the name, or it is taken without.                               *)
DnsDone(c) ==
    /\ child[c].phase = "dns"
    /\ IF entry[Port(c)].cancel THEN SettleCancelled(c) ELSE SettleReady(c)

(* Mutant: waiters only hear of success. *)
AnswerSuccess(r) ==
    /\ req[r].pc = "got" \/ (req[r].pc = "wait" /\ outcome[req[r].child] = "url")
    /\ req' = [req EXCEPT ![r] = Unasked]
    /\ UNCHANGED <<managerVars, entry, outcome, history>>

Answer(r) ==
    /\ req[r].pc = "got" \/ (req[r].pc = "wait" /\ outcome[req[r].child] # Nil)
    /\ req' = [req EXCEPT ![r] = Unasked]
    /\ UNCHANGED <<managerVars, entry, outcome, history>>

StopStarting(p) ==
    /\ entry[p].kind = "starting"
    /\ entry' = [entry EXCEPT ![p].cancel = TRUE]
    /\ stopped' = stopped \cup {entry[p].child}
    /\ UNCHANGED <<managerVars, outcome, req, dropped, lost>>

StopReady(p) ==
    /\ entry[p].kind = "ready"
    /\ entry' = [entry EXCEPT ![p] = NoEntry]
    /\ child' = AfterStop(p) /\ tunnels' = [tunnels EXCEPT ![p] = Nil]
    /\ stopped' = stopped \cup {entry[p].child}
    /\ UNCHANGED <<pending, outcome, req, dropped, lost>>

(* list prunes what the manager has lost.                                  *)
List(p) ==
    /\ entry[p].kind = "ready" /\ GetUrl(p) = Nil
    /\ entry' = [entry EXCEPT ![p] = NoEntry]
    /\ UNCHANGED <<managerVars, outcome, req, history>>

(* The client hangs up; nobody settles the start that was its request's.   *)
HangUp(r) ==
    /\ req[r].pc \in {"spawn", "wait"}
    /\ req' = [req EXCEPT ![r] = Unasked]
    /\ IF req[r].pc = "spawn"
       THEN LET c == req[r].child
            IN  /\ child' = [child EXCEPT ![c].phase = "over", ![c].alive = FALSE]
                /\ dropped' = TRUE
       ELSE UNCHANGED <<child, dropped>>
    /\ UNCHANGED <<tunnels, pending, entry, outcome, stopped, lost>>

-----------------------------------------------------------------------------
InitTunnels ==
    /\ child = [c \in Children |-> Unopened]
    /\ tunnels = [p \in Ports |-> Nil] /\ pending = {}
    /\ entry = [p \in Ports |-> NoEntry] /\ outcome = [c \in Children |-> Nil]
    /\ req = [r \in Requests |-> Unasked] /\ stopped = {} /\ dropped = FALSE /\ lost = {}

Advance(c) == Connected(c) \/ EndEarly(c) \/ EndInDns(c) \/ DnsDone(c)

NextTunnels ==
    \/ \E r \in Requests, p \in Ports : Wait(r, p) \/ TakeExisting(r, p) \/ Open(r, p) \/ OpenFails(r, p)
    \/ \E r \in Requests : Answer(r) \/ HangUp(r)
    \/ \E c \in Children : Advance(c) \/ ChildEnds(c) \/ Reap(c)
    \/ \E p \in Ports : StopStarting(p) \/ StopReady(p) \/ List(p)

Tunneling == InitTunnels /\ [][NextTunnels]_tunnelVars

(* A start is bounded by its time limits, and tasks are polled.            *)
FairTunnels ==
    /\ Tunneling
    /\ \A c \in Children : WF_tunnelVars(Advance(c))
    /\ \A r \in Requests : WF_tunnelVars(Answer(r))

-----------------------------------------------------------------------------
(* Every variable keeps its type, and the children that are starting are   *)
(* those that stop_all would find beside the map.                          *)
TunnelTypeOK ==
    /\ \A c \in Children : child[c].phase \in Phases /\ (c \in Opened => Port(c) \in Ports)
    /\ \A p \in Ports : tunnels[p] = Nil \/ Port(tunnels[p]) = p
    /\ pending \subseteq Opened /\ (dropped \/ pending = {c \in Opened : child[c].phase = "scan"})
    /\ \A p \in Ports : entry[p].kind # "none" => Port(entry[p].child) = p
    /\ \A r \in Requests : req[r].pc \in {"idle", "spawn", "wait", "got"}

(* However requests, stops and failures fall, one start per port is under  *)
(* way, the one its entry leads to.                                        *)
OneStartPerPort ==
    \A c \in Opened : Starting(c) => entry[Port(c)].kind = "starting" /\ entry[Port(c)].child = c

(* A tunnel that is up is known to the manager, which alone can end it, or *)
(* it was told to stop, unless the watcher of an earlier tunnel of the     *)
(* port, gone late, removed its label.                                     *)
NoTunnelLost ==
    \A c \in Opened \ lost :
        child[c].alive /\ child[c].phase = "watched" => child[c].term \/ tunnels[Port(c)] = c

(* A stopped port stays down: the tunnel is told to stop, at once or when  *)
(* its start is through, and nobody is given its URL any more.  A tunnel   *)
(* whose label a late watcher removed is exempted.                         *)
StopStops ==
    \A c \in stopped \ lost :
        ~Starting(c) => ~child[c].alive \/ (child[c].term /\ tunnels[Port(c)] # c)

(* Whoever joins a start hears of its outcome, unless the request that     *)
(* began it was dropped: then the entry stays and the waiters hang.        *)
WaitersHear == \A r \in Requests : req[r].pc = "wait" ~> req[r].pc # "wait" \/ dropped
=============================================================================
