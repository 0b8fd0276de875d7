---------------------------- MODULE LaunchProofs ----------------------------
(***************************************************************************)
(* Launch, for any number of names, children, callers that start and stop  *)
(* at once, and deaths of the daemon: no signal ever reaches a stranger,   *)
(* what a dead daemon had on record is reaped, what runs is on record, and *)
(* what ended is shown.  The second part is about Tunnels.                 *)
(***************************************************************************)
EXTENDS Launch, Tunnels, FiniteSetTheorems, TLAPS

(* What a child is known by.                                               *)
ChildrenOK ==
    proc \in [Procs -> [name : Names \cup {None}, pid : Pids \cup {None},
                        state : {"unborn", "alive", "dead"}, signal : {"none", "term", "kill"}]]

(* Children are numbered in the order of their birth.                      *)
Numbered == \E k \in 0..MaxProcs : Born = 1..k

(* The map leads to children of this daemon, each under its own name.      *)
MapOK ==
    /\ mine \subseteq Born
    /\ processes \in [Names -> Procs \cup {None}]
    /\ \A n \in Names : processes[n] # None => processes[n] \in mine /\ proc[processes[n]].name = n

(* A pid held by a child that lives, or whose exit nobody has waited for,  *)
(* is not a stranger's: what every signal relies on.                       *)
PidsApart == \A p \in Born : Alive(p) \/ p \in mine => proc[p].pid \notin strangers

(* A start that has yet to spawn knows the name it will spawn for.         *)
CallsOK ==
    /\ call \in [Callers -> [pc : {"idle", "spawn", "teardown", "record", "port", "term", "kill"},
                             name : Names \cup {None}, child : Procs \cup {None}]]
    /\ \A c \in Callers : call[c].pc \in {"spawn", "teardown"} => call[c].name \in Names

Inv == ChildrenOK /\ Numbered /\ MapOK /\ PidsApart /\ CallsOK /\ OnlyOursSignalled

-----------------------------------------------------------------------------
(* A signal changes nothing but what children have been told.              *)
LEMMA SignalType ==
    ASSUME ChildrenOK, NEW pid, NEW s \in {"term", "kill"}, Signalled(pid, s)
    PROVE  /\ ChildrenOK' /\ Born' = Born
           /\ \A p \in Procs : /\ proc'[p].name = proc[p].name /\ proc'[p].pid = proc[p].pid
                               /\ proc'[p].state = proc[p].state
BY DEF Signalled, ChildrenOK, Born, Alive

(* A signal to a pid that is no stranger's keeps the invariant.            *)
LEMMA SignalKeeps ==
    ASSUME Inv, NEW pid, NEW s \in {"term", "kill"}, Signalled(pid, s), pid \notin strangers,
           UNCHANGED <<strangers, mine, processes>>
    PROVE  ChildrenOK' /\ Numbered' /\ MapOK' /\ PidsApart' /\ OnlyOursSignalled'
<1>1. /\ ChildrenOK' /\ Born' = Born
      /\ \A p \in Procs : /\ proc'[p].name = proc[p].name /\ proc'[p].pid = proc[p].pid
                          /\ proc'[p].state = proc[p].state
  BY SignalType DEF Inv
<1>2. Born \subseteq Procs
  BY DEF Born
<1>3. Numbered'
  BY <1>1 DEF Inv, Numbered
<1>4. MapOK'
  BY <1>1, <1>2 DEF Inv, MapOK
<1>5. PidsApart'
  BY <1>1, <1>2 DEF Inv, PidsApart, Alive
<1>6. OnlyOursSignalled'
  BY DEF Inv, OnlyOursSignalled, Signalled
<1> QED BY <1>1, <1>3, <1>4, <1>5, <1>6

(* The next child has a number of its own.                                 *)
LEMMA NextNumber ==
    ASSUME ChildrenOK, Numbered, Born # Procs
    PROVE  LET p == Cardinality(Born) + 1
           IN  p \in Procs /\ p \notin Born /\ \E k \in 0..MaxProcs : Born \cup {p} = 1..k
<1>1. PICK k \in 0..MaxProcs : Born = 1..k
  BY DEF Numbered
<1>2. MaxProcs \in Nat
  BY LaunchAssumption
<1>3. Cardinality(Born) = k
  BY <1>1, <1>2, FS_Interval
<1>4. k + 1 \in 1..MaxProcs
  BY <1>1, <1>2 DEF Procs
<1>5. k + 1 \notin 1..k /\ (1..k) \cup {k + 1} = 1..k + 1
  BY <1>2
<1> QED BY <1>1, <1>3, <1>4, <1>5 DEF Procs

LEMMA SpawnKeeps ==
    ASSUME Inv, NEW c \in Callers, NEW n \in Names, Spawn(c, n)
    PROVE  Inv'
<1> DEFINE p == Cardinality(Born) + 1
<1>1. p \in Procs /\ p \notin Born /\ \E k \in 0..MaxProcs : Born \cup {p} = 1..k
  BY NextNumber DEF Inv, Spawn
<1>2. PICK pid \in Pids \ Resting :
         /\ proc' = [proc EXCEPT ![p] = [name |-> n, pid |-> pid, state |-> "alive", signal |-> "none"]]
         /\ mine' = mine \cup {p}
         /\ processes' = [processes EXCEPT ![n] = p]
         /\ call' = [call EXCEPT ![c] = [pc |-> "record", name |-> n, child |-> p]]
         /\ strangers' = strangers /\ hit' = hit
  BY DEF Spawn, SetCall
<1> HIDE DEF p
<1>3. ChildrenOK'
  BY <1>1, <1>2 DEF Inv, ChildrenOK
<1>4. Born' = Born \cup {p} /\ Born \subseteq Procs
  BY <1>1, <1>2 DEF Inv, ChildrenOK, Born
<1>5. Numbered'
  BY <1>1, <1>4 DEF Numbered
<1>6. MapOK'
  BY <1>1, <1>2, <1>4 DEF Inv, MapOK, ChildrenOK
<1>7. PidsApart'
  BY <1>1, <1>2, <1>4 DEF Inv, PidsApart, ChildrenOK, Alive, Resting, Held
<1>8. CallsOK'
  BY <1>1, <1>2 DEF Inv, CallsOK
<1> QED BY <1>2, <1>3, <1>5, <1>6, <1>7, <1>8 DEF Inv, OnlyOursSignalled

LEMMA SpawnOrKeeps ==
    ASSUME Inv, NEW c \in Callers, NEW n \in Names, SpawnOr(c, n)
    PROVE  Inv'
<1>1. CASE Spawn(c, n)
  BY <1>1, SpawnKeeps
<1>2. CASE SpawnFails(c, n)
  BY <1>2 DEF SpawnFails, Idle, kernel, Inv, ChildrenOK, Numbered, Born, MapOK, PidsApart, Alive, CallsOK, OnlyOursSignalled
<1> QED BY <1>1, <1>2 DEF SpawnOr

-----------------------------------------------------------------------------
(* One step per action.                                                    *)
LEMMA StartKeeps ==
    ASSUME Inv, NEW c \in Callers, NEW n \in Names,
           Start(c, n) \/ StartExisting(c, n) \/ Stop(c, n)
    PROVE  Inv'
<1>2. CASE Start(c, n) \/ StartExisting(c, n)
  <2>1. UNCHANGED <<kernel, mine, manager>>
    BY <1>2 DEF Start, StartExisting
  <2>2. CallsOK'
    BY <1>2 DEF Start, StartExisting, SetCall, Inv, CallsOK, MapOK
  <2> QED BY <2>1, <2>2 DEF kernel, manager, Inv, ChildrenOK, Numbered, Born, MapOK, PidsApart, Alive, OnlyOursSignalled
<1>3. CASE Stop(c, n)
  <2>1. processes[n] \in mine /\ processes[n] \in Born
    BY <1>3 DEF Stop, Inv, MapOK
  <2>2. proc[processes[n]].pid \notin strangers
    BY <2>1 DEF Inv, PidsApart
  <2>3. Signalled(proc[processes[n]].pid, "term") /\ UNCHANGED <<strangers, mine, processes>>
    BY <1>3 DEF Stop
  <2>4. ChildrenOK' /\ Numbered' /\ MapOK' /\ PidsApart' /\ OnlyOursSignalled'
    BY <2>2, <2>3, SignalKeeps
  <2>5. CallsOK'
    BY <1>3, <2>1 DEF Stop, SetCall, Inv, CallsOK, MapOK, Born
  <2> QED BY <2>4, <2>5 DEF Inv
<1> QED BY <1>2, <1>3

LEMMA CallerKeeps ==
    ASSUME Inv, NEW c \in Callers, Proceed(c) \/ Escalate(c) \/ DropRequest(c)
    PROVE  Inv'
<1>1. CASE Launched(c)
  <2>1. call[c].name \in Names
    BY <1>1 DEF MaySpawn, Launched, Inv, CallsOK
  <2> QED BY <1>1, <2>1, SpawnOrKeeps DEF MaySpawn, Launched
<1>2. CASE Escalate(c)
  <2>1. call[c].child \in Born /\ call[c].child \in mine
    BY <1>2 DEF Escalate, TornDown, Inv, MapOK
  <2>2. proc[call[c].child].pid \notin strangers
    BY <2>1 DEF Inv, PidsApart
  <2>3. Signalled(proc[call[c].child].pid, "kill") /\ UNCHANGED <<strangers, mine, processes>>
    BY <1>2 DEF Escalate, manager
  <2>4. ChildrenOK' /\ Numbered' /\ MapOK' /\ PidsApart' /\ OnlyOursSignalled'
    BY <2>2, <2>3, SignalKeeps
  <2>5. CallsOK'
    BY <1>2 DEF Escalate, Inv, CallsOK
  <2> QED BY <2>4, <2>5 DEF Inv
<1>3. CASE TeardownTimeout(c) \/ RecordSpawn(c) \/ Ready(c) \/ StopReturns(c) \/ DropRequest(c)
  <2>1. UNCHANGED <<kernel, mine, processes>>
    BY <1>3 DEF TeardownTimeout, RecordSpawn, Ready, StopReturns, DropRequest, manager, kernel
  <2>2. CallsOK'
    BY <1>3 DEF TeardownTimeout, RecordSpawn, Ready, StopReturns, DropRequest, Idle, Inv, CallsOK
  <2> QED BY <2>1, <2>2 DEF kernel, Inv, ChildrenOK, Numbered, Born, MapOK, PidsApart, Alive, OnlyOursSignalled
<1> QED BY <1>1, <1>2, <1>3 DEF Proceed

LEMMA ChildKeeps ==
    ASSUME Inv, NEW p \in Procs, Die(p) \/ WaitForExit(p) \/ Forget(p)
    PROVE  Inv'
<1>1. CASE Die(p)
  <2>1. /\ proc' = [proc EXCEPT ![p] = [@ EXCEPT !.state = "dead", !.signal = "none"]] /\ proc[p].state = "alive"
        /\ UNCHANGED <<strangers, hit, mine, processes, call>>
    BY <1>1 DEF Die, Alive, manager
  <2>2. ChildrenOK' /\ Born' = Born /\ Born \subseteq Procs
    BY <2>1 DEF Inv, ChildrenOK, Born
  <2>3. Numbered' /\ MapOK'
    BY <2>1, <2>2 DEF Inv, ChildrenOK, Numbered, MapOK
  <2>4. PidsApart'
    BY <2>1, <2>2 DEF Inv, ChildrenOK, PidsApart, Alive
  <2> QED BY <2>1, <2>2, <2>3, <2>4 DEF Inv, CallsOK, OnlyOursSignalled
<1>2. CASE WaitForExit(p)
  <2>1. /\ p \in mine /\ UNCHANGED <<proc, strangers, hit, call>>
        /\ processes' = [processes EXCEPT ![proc[p].name] = None] /\ mine' = mine \ {p}
    BY <1>2 DEF WaitForExit, kernel
  <2>2. MapOK'
    BY <2>1 DEF Inv, MapOK, Born
  <2> QED BY <2>1, <2>2 DEF Inv, ChildrenOK, Numbered, Born, PidsApart, Alive, CallsOK, OnlyOursSignalled
<1>3. CASE Forget(p)
  BY <1>3 DEF Forget, kernel, manager, Inv, ChildrenOK, Numbered, Born, MapOK, PidsApart, Alive, CallsOK, OnlyOursSignalled
<1> QED BY <1>1, <1>2, <1>3

LEMMA ReuseKeeps ==
    ASSUME Inv, NEW pid \in Pids, Reuse(pid)
    PROVE  Inv'
<1>1. pid \notin Held /\ strangers' = strangers \cup {pid} /\ UNCHANGED <<proc, hit, mine, manager, call>>
  BY DEF Reuse
<1>2. PidsApart'
  BY <1>1 DEF Inv, PidsApart, Alive, Born, Held
<1> QED BY <1>1, <1>2 DEF manager, Inv, ChildrenOK, Numbered, Born, MapOK, CallsOK, OnlyOursSignalled

(* Whoever matches a record lives, so no stranger has its pid.             *)
LEMMA MatchIsOurs ==
    ASSUME Inv, NEW p \in Procs, Matches(p)
    PROVE  proc[p].pid \notin strangers
BY DEF Matches, Inv, PidsApart

LEMMA SweepKeeps ==
    ASSUME Inv, NEW p \in Procs,
           SweepGone(p) \/ SweepRefused(p) \/ SweepTerm(p) \/ SweepKill(p)
    PROVE  Inv'
<1> USE DEF manager, kernel
<1>1. CASE SweepGone(p) \/ SweepRefused(p) \/ (SweepKill(p) /\ UNCHANGED <<proc, hit>>)
  <2>1. UNCHANGED <<proc, strangers, hit, mine, processes, call>>
    BY <1>1 DEF SweepGone, SweepRefused, SweepKill
  <2> QED BY <2>1 DEF Inv, ChildrenOK, Numbered, Born, MapOK, PidsApart, Alive, CallsOK, OnlyOursSignalled
<1>2. CASE SweepTerm(p)
  <2>1. Matches(p) /\ Signalled(proc[p].pid, "term") /\ UNCHANGED <<strangers, mine, processes, call>>
    BY <1>2 DEF SweepTerm
  <2>2. ChildrenOK' /\ Numbered' /\ MapOK' /\ PidsApart' /\ OnlyOursSignalled'
    BY <2>1, MatchIsOurs, SignalKeeps
  <2> QED BY <2>1, <2>2 DEF Inv, CallsOK
<1>3. CASE SweepKill(p) /\ ~UNCHANGED <<proc, hit>>
  <2>1. Matches(p) /\ Signalled(proc[p].pid, "kill") /\ UNCHANGED <<strangers, mine, processes, call>>
    BY <1>3 DEF SweepKill
  <2>2. ChildrenOK' /\ Numbered' /\ MapOK' /\ PidsApart' /\ OnlyOursSignalled'
    BY <2>1, MatchIsOurs, SignalKeeps
  <2> QED BY <2>1, <2>2 DEF Inv, CallsOK
<1> QED BY <1>1, <1>2, <1>3

LEMMA DaemonKeeps ==
    ASSUME Inv, Crash \/ Boot \/ Serve
    PROVE  Inv'
<1> USE DEF manager, kernel
<1>1. CASE Crash
  <2>1. /\ UNCHANGED <<proc, strangers, hit>> /\ mine' = {}
        /\ processes' = [n \in Names |-> None] /\ call' = [c \in Callers |-> Idle]
    BY <1>1 DEF Crash
  <2>2. CallsOK'
    BY <2>1 DEF CallsOK, Idle
  <2> QED BY <2>1, <2>2 DEF Inv, ChildrenOK, Numbered, Born, MapOK, PidsApart, Alive, OnlyOursSignalled
<1>2. CASE Boot \/ Serve
  BY <1>2 DEF Boot, Serve, Inv, ChildrenOK, Numbered, Born, MapOK, PidsApart, Alive, CallsOK, OnlyOursSignalled
<1> QED BY <1>1, <1>2

-----------------------------------------------------------------------------
LEMMA InvInit == Init => Inv
<1> SUFFICES ASSUME Init PROVE Inv
  OBVIOUS
<1>1. ChildrenOK
  BY DEF Init, ChildrenOK, Unborn
<1>2. Born = {}
  BY DEF Init, Born, Unborn
<1>3. Numbered
  <2>1. 0 \in 0..MaxProcs /\ 1..0 = {}
    BY LaunchAssumption
  <2> QED BY <1>2, <2>1 DEF Numbered
<1>4. CallsOK
  BY DEF Init, CallsOK, Idle
<1> QED BY <1>1, <1>2, <1>3, <1>4 DEF Init, Inv, MapOK, PidsApart, OnlyOursSignalled

LEMMA InvNext == Inv /\ [Next]_vars => Inv'
<1> SUFFICES ASSUME Inv, [Next]_vars PROVE Inv'
  OBVIOUS
<1>1. CASE \E c \in Callers, n \in Names : Start(c, n) \/ StartExisting(c, n) \/ Stop(c, n)
  BY <1>1, StartKeeps
<1>2. CASE \E c \in Callers : Proceed(c) \/ Escalate(c) \/ DropRequest(c)
  BY <1>2, CallerKeeps
<1>3. CASE \E p \in Procs : Die(p) \/ WaitForExit(p) \/ Forget(p)
  BY <1>3, ChildKeeps
<1>4. CASE \E pid \in Pids : Reuse(pid)
  BY <1>4, ReuseKeeps
<1>5. CASE Sweeping
  BY <1>5, SweepKeeps DEF Sweeping
<1>6. CASE Crash \/ Boot \/ Serve
  BY <1>6, DaemonKeeps
<1>7. CASE UNCHANGED vars
  BY <1>7 DEF vars, memory, kernel, manager, Inv, ChildrenOK, Numbered, Born, MapOK, PidsApart, Alive, CallsOK, OnlyOursSignalled
<1> QED BY <1>1, <1>2, <1>3, <1>4, <1>5, <1>6, <1>7 DEF Next

(* The daemon signals its own children only: no stop and no sweep, however *)
(* starts, stops, exits, reused pids and deaths of the daemon fall, hits a *)
(* program that was given the pid of a dead child.                         *)
THEOREM StrangersSafe == Spec => []OnlyOursSignalled
<1>1. Inv => OnlyOursSignalled
  BY DEF Inv
<1> QED BY <1>1, InvInit, InvNext, PTL DEF Spec

-----------------------------------------------------------------------------
(* What becomes of the children of a daemon that died.                     *)

(* Children of this daemon that somebody may yet add to the pidfile, or    *)
(* take off it, by pid.                                                    *)
Ours == mine \cup forgets \cup {call[c].child : c \in Waiting("record")}

(* The pidfile has one entry per pid.                                      *)
Filed == records \subseteq Born /\ \A p, q \in records : proc[p].pid = proc[q].pid => p = q

(* A daemon that does not serve yet has no children, and the sweep takes   *)
(* its entries from the file.                                              *)
Swept ==
    /\ Ours \subseteq Born
    /\ todo \subseteq records /\ grace \in todo \cup {None}
    /\ daemon = "up" => todo = {}
    /\ daemon # "up" => mine = {} /\ forgets = {} /\ \A c \in Callers : call[c].pc = "idle"

(* A child left behind keeps its pid for itself, so that nobody removes    *)
(* its entry for another's.                                                *)
Orphan(q) ==
    Alive(q) => /\ proc[q].signal = "kill" \/ q \in records
                /\ \A p \in Ours : proc[p].pid # proc[q].pid

FileInv == Filed /\ Swept /\ left \subseteq Born /\ \A q \in left \ missed : Orphan(q)

(* What a step does to children that live: pids stay, the dead stay dead,  *)
(* and who has been sent SIGKILL will not survive it.                      *)
Aging ==
    /\ Born \subseteq Born'
    /\ \A p \in Born : /\ proc'[p].pid = proc[p].pid /\ proc'[p].name = proc[p].name
                       /\ proc'[p].state = "alive" => proc[p].state = "alive"
                       /\ proc'[p].state = "alive" /\ proc[p].signal = "kill" => proc'[p].signal = "kill"

LEMMA SignalAges ==
    ASSUME ChildrenOK, NEW pid, NEW s \in {"term", "kill"}, Signalled(pid, s)
    PROVE  Aging
BY DEF Signalled, ChildrenOK, Born, Alive, Aging

LEMMA SameAges == ASSUME UNCHANGED proc PROVE Aging
BY DEF Aging, Born

LEMMA DieAges == ASSUME ChildrenOK, NEW p \in Procs, Die(p) PROVE Aging
BY DEF Die, Alive, ChildrenOK, Aging, Born

(* A step that leaves the file alone and claims no other child.            *)
LEMMA FileFrame ==
    ASSUME FileInv, Aging, UNCHANGED <<records, todo, grace, left, missed, daemon>>, Ours' \subseteq Ours,
           daemon = "up" \/ (UNCHANGED <<mine, forgets>> /\ \A c \in Callers : call'[c].pc = call[c].pc)
    PROVE  FileInv'
<1>1. Filed'
  BY DEF FileInv, Filed, Aging
<1>2. Swept'
  BY DEF FileInv, Swept, Aging
<1>3. left' \subseteq Born' /\ \A q \in left' \ missed' : Orphan(q)'
  BY DEF FileInv, Swept, Orphan, Alive, Aging
<1> QED BY <1>1, <1>2, <1>3 DEF FileInv

(* The next child gets a pid that nobody who lives holds.                  *)
LEMMA SpawnFile ==
    ASSUME Inv, FileInv, NEW c \in Callers, NEW n \in Names, Spawn(c, n), daemon = "up"
    PROVE  FileInv'
<1> DEFINE p == Cardinality(Born) + 1
<1>1. p \in Procs /\ p \notin Born
  BY NextNumber DEF Inv, Spawn
<1>2. PICK pid \in Pids \ Resting :
         /\ proc' = [proc EXCEPT ![p] = [name |-> n, pid |-> pid, state |-> "alive", signal |-> "none"]]
         /\ mine' = mine \cup {p}
         /\ call' = [call EXCEPT ![c] = [pc |-> "record", name |-> n, child |-> p]]
         /\ UNCHANGED <<daemon, records, forgets, todo, grace, left, missed>>
  BY DEF Spawn, SetCall, files, sweep, memory
<1> HIDE DEF p
<1>3. Born' = Born \cup {p} /\ Born \subseteq Procs /\ proc'[p].pid = pid
      /\ \A q \in Born : proc'[q] = proc[q]
  BY <1>1, <1>2 DEF Inv, ChildrenOK, Born
<1>4. Ours' \subseteq Ours \cup {p}
  BY <1>2 DEF Ours, Waiting, Inv, CallsOK
<1>5. \A q \in Born : Alive(q) => proc[q].pid # pid
  BY <1>2 DEF Resting, Held
<1>6. Filed'
  BY <1>2, <1>3 DEF FileInv, Filed
<1>7. Swept'
  BY <1>2, <1>3, <1>4 DEF FileInv, Swept
<1>8. left' \subseteq Born' /\ \A q \in left' \ missed' : Orphan(q)'
  BY <1>2, <1>3, <1>4, <1>5 DEF FileInv, Swept, Orphan, Alive
<1> QED BY <1>6, <1>7, <1>8 DEF FileInv

LEMMA SpawnOrFile ==
    ASSUME Inv, FileInv, NEW c \in Callers, NEW n \in Names, SpawnOr(c, n), daemon = "up"
    PROVE  FileInv'
<1>1. CASE Spawn(c, n)
  BY <1>1, SpawnFile
<1>2. CASE SpawnFails(c, n)
  <2>1. /\ UNCHANGED <<proc, records, forgets, mine, todo, grace, left, missed, daemon>>
        /\ call' = [call EXCEPT ![c] = Idle]
    BY <1>2 DEF SpawnFails, kernel, files, sweep, memory
  <2>2. Ours' \subseteq Ours
    BY <2>1 DEF Ours, Waiting, Idle, Inv, CallsOK
  <2> QED BY <2>1, <2>2, SameAges, FileFrame
<1> QED BY <1>1, <1>2 DEF SpawnOr

LEMMA RecordFile ==
    ASSUME Inv, FileInv, NEW c \in Callers, RecordSpawn(c)
    PROVE  FileInv'
<1> DEFINE p == call[c].child
<1>1. /\ call[c].pc = "record" /\ records' = {r \in records : proc[r].pid # proc[p].pid} \cup {p}
      /\ call' = [call EXCEPT ![c].pc = "port"]
      /\ UNCHANGED <<proc, mine, forgets, todo, grace, left, missed, daemon>>
  BY DEF RecordSpawn, Add, kernel, sweep, memory
<1>2. p \in Ours /\ p \in Born /\ daemon = "up"
  BY <1>1 DEF Ours, Waiting, FileInv, Swept
<1>3. Ours' \subseteq Ours /\ Born' = Born
  BY <1>1 DEF Ours, Waiting, Born, Inv, CallsOK
<1>4. Filed'
  BY <1>1, <1>2, <1>3 DEF FileInv, Filed
<1>5. Swept'
  BY <1>1, <1>2, <1>3 DEF FileInv, Swept
<1>6. left' \subseteq Born' /\ \A q \in left' \ missed' : Orphan(q)'
  BY <1>1, <1>2, <1>3 DEF FileInv, Orphan, Alive
<1> QED BY <1>4, <1>5, <1>6 DEF FileInv

LEMMA ForgetFile ==
    ASSUME Inv, FileInv, NEW p \in Procs, Forget(p)
    PROVE  FileInv'
<1>1. /\ p \in forgets /\ forgets' = forgets \ {p} /\ records' = records \ {r \in records : proc[r].pid = proc[p].pid}
      /\ UNCHANGED <<proc, mine, call, todo, grace, left, missed, daemon>>
  BY DEF Forget, Forgotten, kernel, sweep, memory
<1>2. p \in Ours /\ p \in Born /\ daemon = "up"
  BY <1>1 DEF Ours, FileInv, Swept
<1>3. Ours' \subseteq Ours /\ Born' = Born
  BY <1>1 DEF Ours, Waiting, Born
<1>4. Filed' /\ Swept'
  BY <1>1, <1>2, <1>3 DEF FileInv, Filed, Swept
<1>5. left' \subseteq Born' /\ \A q \in left' \ missed' : Orphan(q)'
  BY <1>1, <1>2, <1>3 DEF FileInv, Orphan, Alive
<1> QED BY <1>4, <1>5 DEF FileInv

LEMMA CallFile ==
    ASSUME Inv, FileInv, NEW c \in Callers,
           \/ \E n \in Names : Start(c, n) \/ StartExisting(c, n) \/ Stop(c, n)
           \/ Proceed(c) \/ Escalate(c) \/ DropRequest(c)
    PROVE  FileInv'
<1> USE DEF kernel, manager, files, sweep, memory
<1>2. ASSUME NEW n \in Names, Start(c, n) \/ StartExisting(c, n) PROVE FileInv'
  <2>1. /\ UNCHANGED <<proc, records, forgets, mine, todo, grace, left, missed, daemon>> /\ daemon = "up"
        /\ \/ call' = call
           \/ \E pc \in {"spawn", "teardown"} : call' = [call EXCEPT ![c] = [pc |-> pc, name |-> n, child |-> processes[n]]]
    BY <1>2 DEF Start, StartExisting, SetCall, Serving
  <2>2. Ours' \subseteq Ours
    BY <2>1 DEF Ours, Waiting, Inv, CallsOK
  <2> QED BY <2>1, <2>2, SameAges, FileFrame
<1>3. ASSUME NEW n \in Names, Stop(c, n) PROVE FileInv'
  <2>1. /\ UNCHANGED <<records, forgets, mine, todo, grace, left, missed, daemon>> /\ daemon = "up"
        /\ call' = [call EXCEPT ![c] = [pc |-> "term", name |-> n, child |-> processes[n]]]
    BY <1>3 DEF Stop, SetCall, Serving
  <2>2. Ours' \subseteq Ours
    BY <2>1 DEF Ours, Waiting, Inv, CallsOK
  <2>3. Aging
    BY <1>3, SignalAges DEF Stop, Inv
  <2> QED BY <2>1, <2>2, <2>3, FileFrame
<1>4. CASE Launched(c)
  <2>1. call[c].name \in Names /\ daemon = "up"
    BY <1>4 DEF MaySpawn, Launched, Inv, CallsOK, FileInv, Swept
  <2> QED BY <1>4, <2>1, SpawnOrFile DEF MaySpawn, Launched
<1>5. CASE RecordSpawn(c)
  BY <1>5, RecordFile
<1>6. CASE Escalate(c)
  <2>1. /\ UNCHANGED <<records, forgets, mine, todo, grace, left, missed, daemon>> /\ daemon = "up"
        /\ call' = [call EXCEPT ![c].pc = "kill"]
    BY <1>6 DEF Escalate, FileInv, Swept
  <2>2. Ours' \subseteq Ours
    BY <2>1 DEF Ours, Waiting, Inv, CallsOK
  <2>3. Aging
    BY <1>6, SignalAges DEF Escalate, Inv
  <2> QED BY <2>1, <2>2, <2>3, FileFrame
<1>7. CASE TeardownTimeout(c) \/ Ready(c) \/ StopReturns(c) \/ DropRequest(c)
  <2>1. /\ UNCHANGED <<proc, records, forgets, mine, todo, grace, left, missed, daemon>> /\ daemon = "up"
        /\ call' = [call EXCEPT ![c] = Idle]
    BY <1>7 DEF TeardownTimeout, Ready, StopReturns, DropRequest, FileInv, Swept
  <2>2. Ours' \subseteq Ours
    BY <2>1 DEF Ours, Waiting, Idle, Inv, CallsOK
  <2> QED BY <2>1, <2>2, SameAges, FileFrame
<1> QED BY <1>2, <1>3, <1>4, <1>5, <1>6, <1>7 DEF Proceed

LEMMA ChildFile ==
    ASSUME Inv, FileInv, NEW p \in Procs, Die(p) \/ WaitForExit(p)
    PROVE  FileInv'
<1> USE DEF kernel, files, sweep, memory
<1>1. CASE Die(p)
  <2>1. UNCHANGED <<records, forgets, mine, call, todo, grace, left, missed, daemon>>
    BY <1>1 DEF Die
  <2>2. Ours' = Ours
    BY <2>1 DEF Ours, Waiting
  <2> QED BY <1>1, <2>1, <2>2, DieAges, FileFrame DEF Inv
<1>2. CASE WaitForExit(p)
  <2>1. /\ p \in mine /\ mine' = mine \ {p} /\ forgets' = forgets \cup {p} /\ daemon = "up"
        /\ UNCHANGED <<proc, call, records, todo, grace, left, missed, daemon>>
    BY <1>2 DEF WaitForExit, FileInv, Swept
  <2>2. Ours' \subseteq Ours
    BY <2>1 DEF Ours, Waiting
  <2> QED BY <2>1, <2>2, SameAges, FileFrame
<1> QED BY <1>1, <1>2

(* An entry leaves the file when its child is gone, or was just killed.    *)
LEMMA PruneFile ==
    ASSUME Inv, FileInv, NEW p \in todo, daemon # "up", Aging, Ours' = Ours, Born' = Born,
           Alive(p) => proc'[p].signal = "kill" \/ p \in missed', missed \subseteq missed',
           records' = records \ Forgotten(p), todo' = todo \ {p}, grace' = None,
           UNCHANGED <<left, daemon, mine, forgets, call>>
    PROVE  FileInv'
<1>1. Forgotten(p) = {p} /\ p \in records
  BY DEF Forgotten, FileInv, Filed, Swept
<1>2. Filed'
  BY DEF FileInv, Filed, Aging
<1>3. Swept'
  BY <1>1 DEF FileInv, Swept
<1>4. left' \subseteq Born' /\ \A q \in left' \ missed' : Orphan(q)'
  BY <1>1 DEF FileInv, Swept, Orphan, Alive, Aging
<1> QED BY <1>2, <1>3, <1>4 DEF FileInv

LEMMA NoneIsNoChild == None \notin Procs
BY LaunchAssumption DEF Procs

LEMMA SweepFile ==
    ASSUME Inv, FileInv, NEW p \in Procs,
           SweepGone(p) \/ SweepRefused(p) \/ SweepTerm(p) \/ SweepKill(p)
    PROVE  FileInv'
<1> USE DEF manager, kernel, files, sweep, memory
<1>1. ASSUME p \in todo PROVE p \in Born /\ daemon # "up" /\ (Alive(p) => Matches(p))
  BY <1>1 DEF FileInv, Filed, Swept, Matches
<1>2. CASE SweepGone(p)
  <2>1. /\ p \in todo /\ daemon = "sweep" /\ grace = None /\ (Matches(p) => p \in missed')
        /\ todo' = todo \ {p} /\ records' = records \ Forgotten(p) /\ missed \subseteq missed'
        /\ UNCHANGED <<proc, mine, forgets, call, grace, left, daemon>>
    BY <1>2 DEF SweepGone, Turn
  <2>2. Ours' = Ours /\ Born' = Born
    BY <2>1 DEF Ours, Waiting, Born
  <2> QED BY <1>1, <2>1, <2>2, SameAges, PruneFile
<1>3. CASE SweepRefused(p)
  <2>1. /\ todo' = todo \ {p} /\ grace = None
        /\ UNCHANGED <<proc, mine, forgets, call, records, grace, left, missed, daemon>>
    BY <1>3 DEF SweepRefused, Turn
  <2> QED BY <2>1 DEF FileInv, Filed, Swept, Orphan, Alive, Ours, Waiting, Born
<1>4. CASE SweepTerm(p)
  <2>1. /\ p \in todo /\ Signalled(proc[p].pid, "term") /\ grace' = p
        /\ UNCHANGED <<mine, forgets, call, records, todo, left, missed, daemon>>
    BY <1>4 DEF SweepTerm, Turn
  <2>2. Aging /\ Ours' = Ours
    BY <2>1, SignalAges DEF Inv, Ours, Waiting
  <2>3. Filed'
    BY <2>1, <2>2 DEF FileInv, Filed, Aging
  <2>4. Swept'
    BY <2>1, <2>2 DEF FileInv, Swept, Aging
  <2>5. left' \subseteq Born' /\ \A q \in left' \ missed' : Orphan(q)'
    BY <2>1, <2>2 DEF FileInv, Swept, Orphan, Alive, Aging
  <2> QED BY <2>3, <2>4, <2>5 DEF FileInv
<1>5. CASE SweepKill(p)
  <2>1. /\ p \in todo /\ daemon # "up"
        /\ grace' = None /\ todo' = todo \ {p} /\ records' = records \ Forgotten(p)
        /\ missed \subseteq missed'
        /\ UNCHANGED <<mine, forgets, call, left, daemon>>
    BY <1>5, NoneIsNoChild DEF SweepKill, FileInv, Swept
  <2>2. Aging /\ Born' = Born /\ Ours' = Ours
    BY <1>5, <2>1, SignalAges, SameAges, SignalType DEF SweepKill, Inv, Ours, Waiting, Born
  <2>3. Alive(p) => proc'[p].signal = "kill" \/ p \in missed'
    BY <1>1, <1>5, <2>1 DEF SweepKill, Signalled, Inv, ChildrenOK, Alive
  <2> QED BY <2>1, <2>2, <2>3, PruneFile
<1> QED BY <1>2, <1>3, <1>4, <1>5

(* A daemon that dies leaves behind what is on record and lives.           *)
LEMMA DaemonFile ==
    ASSUME Inv, FileInv, Crash \/ Boot \/ Serve
    PROVE  FileInv'
<1> USE DEF manager, kernel, files, sweep, memory
<1>1. CASE Crash
  <2>1. /\ UNCHANGED <<proc, records>> /\ mine' = {} /\ forgets' = {} /\ todo' = {} /\ grace' = None
        /\ call' = [c \in Callers |-> Idle] /\ daemon' = "down"
        /\ left' = left \cup {p \in records : Alive(p)} /\ missed' = missed
    BY <1>1 DEF Crash
  <2>2. Ours' = {} /\ Born' = Born
    BY <2>1 DEF Ours, Waiting, Idle, Born
  <2> QED BY <2>1, <2>2 DEF FileInv, Filed, Swept, Orphan, Alive, Idle
<1>2. CASE Boot \/ Serve
  <2>1. /\ UNCHANGED <<proc, mine, forgets, call, records, left, missed, grace>>
        /\ \/ daemon = "down" /\ daemon' = "sweep" /\ todo' = records
           \/ todo = {} /\ daemon' = "up" /\ todo' = todo
    BY <1>2 DEF Boot, Serve
  <2>2. Ours' = Ours /\ Born' = Born
    BY <2>1 DEF Ours, Waiting, Born
  <2>3. Filed' /\ Swept'
    BY <2>1, <2>2 DEF FileInv, Filed, Swept
  <2> QED BY <2>1, <2>2, <2>3 DEF FileInv, Orphan, Alive
<1> QED BY <1>1, <1>2

LEMMA FileInit == Init => FileInv
BY DEF Init, FileInv, Filed, Swept, Ours, Waiting, Idle

LEMMA FileNext == Inv /\ FileInv /\ [Next]_vars => FileInv'
<1> SUFFICES ASSUME Inv, FileInv, [Next]_vars PROVE FileInv'
  OBVIOUS
<1>1. CASE \E pid \in Pids : Reuse(pid)
  <2>1. UNCHANGED <<proc, records, forgets, mine, call, todo, grace, left, missed, daemon>>
    BY <1>1 DEF Reuse, files, sweep, memory
  <2> QED BY <2>1 DEF FileInv, Filed, Swept, Orphan, Alive, Ours, Waiting, Born
<1>2. CASE UNCHANGED vars
  BY <1>2 DEF vars, memory, kernel, files, sweep, FileInv, Filed, Swept, Orphan, Alive, Ours, Waiting, Born
<1> QED BY <1>1, <1>2, CallFile, ChildFile, ForgetFile, SweepFile, DaemonFile DEF Next, Sweeping

(* For any number of children, requests and deaths of the daemon: a child  *)
(* on record when its daemon died is gone, has been sent SIGKILL or is     *)
(* still on record once a later daemon serves, unless ps, lsof or the      *)
(* SIGKILL failed when the sweep came to it.                               *)
THEOREM LeftAreReaped == Spec => []OrphansReaped
<1>1. FileInv => OrphansReaped
  BY DEF FileInv, Orphan, OrphansReaped
<1> QED BY <1>1, InvInit, InvNext, FileInit, FileNext, PTL DEF Spec

-----------------------------------------------------------------------------
(* What is on record and on show, whoever starts children.                 *)
StatusOK == status \in [Procs -> Status] /\ shown \in [Names -> Status]

(* A pid of a child that lives, and that this daemon waits for, is nobody  *)
(* else's whose entry is about to be written or removed.                   *)
OwnPids ==
    /\ \A p \in Ours, q \in mine : Alive(q) /\ proc[p].pid = proc[q].pid => p = q
    /\ \A p \in forgets : ~Alive(p)

(* The child of a start is awaited, or has ended.                          *)
StartOK(c) ==
    call[c].pc \in {"record", "port"} =>
        /\ call[c].child \in Born /\ proc[call[c].child].name = call[c].name
        /\ call[c].child \in mine \/ status[call[c].child] \in Ended

(* As long as no name got a second child, the map has every child that is  *)
(* awaited, and what it has is shown.                                      *)
MapShown ==
    /\ \A p \in mine : proc[p].name \in Names \ doubled => processes[proc[p].name] = p
    /\ \A n \in Names \ doubled :
           processes[n] # None /\ status[processes[n]] \in Ended => shown[n] \in Ended

RunInv == StatusOK /\ OwnPids /\ (\A c \in Callers : StartOK(c)) /\ MapShown /\ RunningIsRecorded /\ EndIsShown

(* A step that starts nothing, ends nothing and shows nothing new.         *)
LEMMA RunFrame ==
    ASSUME Inv, FileInv, RunInv, Aging, Born' = Born, Ours' \subseteq Ours,
           UNCHANGED <<mine, processes, status, shown, forgets, doubled>>, records' = records \/ mine = {},
           \A c \in Callers : call'[c] = call[c] \/ call'[c].pc \in {"idle", "term", "kill"}
    PROVE  RunInv'
<1>1. mine \subseteq Born /\ Ours \subseteq Born /\ forgets \subseteq Ours
  BY DEF Inv, MapOK, FileInv, Swept, Ours
<1>2. StatusOK' /\ EndIsShown'
  BY DEF RunInv, StatusOK, EndIsShown
<1>3. OwnPids'
  BY <1>1 DEF RunInv, OwnPids, Alive, Aging
<1>4. \A c \in Callers : StartOK(c)'
  BY DEF RunInv, StartOK, Aging
<1>5. MapShown'
  BY <1>1 DEF RunInv, MapShown, Aging
<1>6. RunningIsRecorded'
  BY <1>1 DEF RunInv, RunningIsRecorded, Waiting, Alive, Aging
<1> QED BY <1>2, <1>3, <1>4, <1>5, <1>6 DEF RunInv

(* A name gets a child, with a pid that no record or removal is about; if  *)
(* it has one already it is doubled.                                       *)
LEMMA SpawnRun ==
    ASSUME Inv, FileInv, RunInv, NEW c \in Callers, NEW n \in Names, Spawn(c, n)
    PROVE  RunInv'
<1> DEFINE p == Cardinality(Born) + 1
<1>1. p \in Procs /\ p \notin Born
  BY NextNumber DEF Inv, Spawn
<1>2. PICK pid \in Pids \ Resting :
         /\ proc' = [proc EXCEPT ![p] = [name |-> n, pid |-> pid, state |-> "alive", signal |-> "none"]]
         /\ mine' = mine \cup {p}
         /\ processes' = [processes EXCEPT ![n] = p]
         /\ status' = [status EXCEPT ![p] = "starting"]
         /\ call' = [call EXCEPT ![c] = [pc |-> "record", name |-> n, child |-> p]]
         /\ shown' = [shown EXCEPT ![n] = "starting"]
         /\ doubled' = IF processes[n] = None THEN doubled ELSE doubled \cup {n}
         /\ UNCHANGED <<records, forgets>>
  BY DEF Spawn, SetCall, Reset, files
<1> HIDE DEF p
<1>3. Born' = Born \cup {p} /\ Born \subseteq Procs /\ proc'[p].pid = pid /\ proc'[p].name = n
      /\ \A q \in Born : proc'[q] = proc[q]
  BY <1>1, <1>2 DEF Inv, ChildrenOK, Born
<1>4. mine \subseteq Born /\ forgets \subseteq Born /\ p # None
  BY <1>1, NoneIsNoChild DEF Inv, MapOK, FileInv, Swept, Ours
<1>5. \A d \in Callers \ {c} : call'[d] = call[d]
  BY <1>2 DEF Inv, CallsOK
<1>6. call'[c] = [pc |-> "record", name |-> n, child |-> p]
  BY <1>2 DEF Inv, CallsOK
<1>7. StatusOK'
  BY <1>1, <1>2 DEF RunInv, StatusOK, Status
<1>8. OwnPids'
  <2>1. Ours' \subseteq Ours \cup {p}
    BY <1>2, <1>5, <1>6 DEF Ours, Waiting
  <2>2. \A q \in Ours : proc[q].pid # pid
    BY <1>2, <1>4 DEF Ours, Resting, Held
  <2>3. Ours \subseteq Born /\ mine \subseteq Ours /\ forgets \subseteq Ours
    BY DEF Ours, FileInv, Swept
  <2>4. \A q \in Ours', m \in mine' : Alive(m)' /\ proc'[q].pid = proc'[m].pid => q = m
    BY <1>1, <1>2, <1>3, <2>1, <2>2, <2>3 DEF RunInv, OwnPids, Alive
  <2>5. \A q \in forgets' : ~Alive(q)'
    BY <1>2, <1>3, <2>3 DEF RunInv, OwnPids, Alive
  <2> QED BY <2>4, <2>5 DEF OwnPids
<1>9. \A d \in Callers : StartOK(d)'
  <2>1. StartOK(c)'
    BY <1>2, <1>3, <1>6 DEF StartOK
  <2>2. ASSUME NEW d \in Callers \ {c} PROVE StartOK(d)'
    BY <1>1, <1>2, <1>3, <1>5 DEF RunInv, StartOK, StatusOK
  <2> QED BY <2>1, <2>2
<1>10. MapShown'
  <2>1. processes'[n] = p /\ status'[p] = "starting"
    BY <1>1, <1>2 DEF Inv, MapOK, RunInv, StatusOK
  <2>2. \A m \in Names \ {n} : processes'[m] = processes[m] /\ shown'[m] = shown[m]
    BY <1>2 DEF Inv, MapOK, RunInv, StatusOK
  <2>3. \A q \in Procs \ {p} : status'[q] = status[q]
    BY <1>2 DEF RunInv, StatusOK
  <2>4. doubled \subseteq doubled' /\ (processes[n] # None => n \in doubled')
    BY <1>2
  <2>5. \A q \in mine : q # None /\ q # p /\ proc'[q].name = proc[q].name
    BY <1>1, <1>3, <1>4, NoneIsNoChild
  <2>6. \A q \in mine' : proc'[q].name \in Names \ doubled' => processes'[proc'[q].name] = q
    BY <1>2, <1>3, <2>1, <2>2, <2>4, <2>5 DEF RunInv, MapShown
  <2>7. \A m \in Names : processes[m] # p
    BY <1>1, <1>4 DEF Inv, MapOK
  <2>8. \A m \in Names \ doubled' : processes'[m] # None /\ status'[processes'[m]] \in Ended => shown'[m] \in Ended
    BY <2>1, <2>2, <2>3, <2>4, <2>7 DEF RunInv, MapShown, Inv, MapOK, Ended
  <2> QED BY <2>6, <2>8 DEF MapShown
<1>11. RunningIsRecorded'
  <2>1. \A q \in Procs \ {p} : status'[q] = status[q]
    BY <1>2 DEF RunInv, StatusOK
  <2>2. status'[p] = "starting" /\ records' = records
    BY <1>1, <1>2 DEF RunInv, StatusOK
  <2>3. \A d \in Callers : call'[d].pc = "port" => call'[d] = call[d] /\ call[d].child # p
    BY <1>1, <1>5, <1>6 DEF RunInv, StartOK
  <2>4. \A q \in mine' : q = p \/ (q \in mine /\ q \in Procs \ {p} /\ proc'[q] = proc[q])
    BY <1>1, <1>2, <1>3, <1>4
  <2> QED BY <2>1, <2>2, <2>3, <2>4 DEF RunInv, RunningIsRecorded, Waiting, Alive
<1>12. EndIsShown'
  BY <1>2, <1>4 DEF RunInv, EndIsShown, StatusOK, Inv, MapOK
<1> QED BY <1>7, <1>8, <1>9, <1>10, <1>11, <1>12 DEF RunInv

LEMMA SpawnOrRun ==
    ASSUME Inv, FileInv, RunInv, NEW c \in Callers, NEW n \in Names, SpawnOr(c, n)
    PROVE  RunInv'
<1>1. CASE Spawn(c, n)
  BY <1>1, SpawnRun
<1>2. CASE SpawnFails(c, n)
  <2>1. /\ UNCHANGED <<proc, mine, processes, status, records, forgets, doubled>>
        /\ call' = [call EXCEPT ![c] = Idle] /\ shown' = [shown EXCEPT ![n] = "failed"]
    BY <1>2 DEF SpawnFails, kernel, files, Reset, memory
  <2>2. Ours' \subseteq Ours
    BY <2>1 DEF Ours, Waiting, Idle, Inv, CallsOK
  <2>3. StatusOK' /\ EndIsShown'
    BY <2>1 DEF RunInv, StatusOK, Status, Ended, EndIsShown
  <2>4. OwnPids'
    BY <2>1, <2>2 DEF RunInv, OwnPids, Alive
  <2>5. (\A d \in Callers : StartOK(d)') /\ RunningIsRecorded'
    BY <2>1 DEF RunInv, StartOK, RunningIsRecorded, Waiting, Alive, Idle, Inv, CallsOK, Born
  <2>6. MapShown'
    BY <2>1 DEF RunInv, MapShown, StatusOK, Ended
  <2> QED BY <2>3, <2>4, <2>5, <2>6 DEF RunInv
<1> QED BY <1>1, <1>2 DEF SpawnOr

LEMMA StartRun ==
    ASSUME Inv, FileInv, RunInv, NEW c \in Callers, NEW n \in Names, Start(c, n) \/ StartExisting(c, n)
    PROVE  RunInv'
<1>1. /\ UNCHANGED <<proc, mine, processes, status, shown, records, forgets, doubled>>
      /\ \/ call' = call
         \/ \E pc \in {"spawn", "teardown"} : call' = [call EXCEPT ![c] = [pc |-> pc, name |-> n, child |-> processes[n]]]
  BY DEF Start, StartExisting, SetCall, kernel, files, manager, memory
<1>2. Ours' \subseteq Ours
  BY <1>1 DEF Ours, Waiting, Inv, CallsOK
<1>3. \A d \in Callers : StartOK(d)'
  BY <1>1 DEF RunInv, StartOK, Inv, CallsOK, Born
<1>4. RunningIsRecorded'
  BY <1>1 DEF RunInv, RunningIsRecorded, Waiting, Alive, Inv, CallsOK
<1> QED BY <1>1, <1>2, <1>3, <1>4 DEF RunInv, StatusOK, OwnPids, Alive, MapShown, EndIsShown

LEMMA StopRun ==
    ASSUME Inv, FileInv, RunInv, NEW c \in Callers, NEW n \in Names, Stop(c, n)
    PROVE  RunInv'
<1> DEFINE p == processes[n]
<1>1. /\ UNCHANGED <<mine, processes, records, forgets, doubled>> /\ Signalled(proc[p].pid, "term")
      /\ status' = [status EXCEPT ![p] = "stopped"] /\ shown' = [shown EXCEPT ![n] = "stopped"]
      /\ call' = [call EXCEPT ![c] = [pc |-> "term", name |-> n, child |-> p]]
      /\ processes[n] # None
  BY DEF Stop, SetCall, Reset, files, memory
<1>2. Aging /\ Born' = Born /\ p \in mine /\ mine \subseteq Born /\ Born \subseteq Procs
      /\ Ours \subseteq Born /\ forgets \subseteq Ours
  BY <1>1, SignalAges, SignalType DEF Inv, MapOK, Born, FileInv, Swept, Ours
<1> HIDE DEF p
<1>3. Ours' \subseteq Ours
  BY <1>1 DEF Ours, Waiting, Inv, CallsOK
<1>4. StatusOK' /\ EndIsShown'
  BY <1>1 DEF RunInv, StatusOK, Status, Ended, EndIsShown
<1>5. OwnPids'
  BY <1>1, <1>2, <1>3 DEF RunInv, OwnPids, Alive, Aging
<1>6. \A d \in Callers : StartOK(d)'
  BY <1>1, <1>2 DEF RunInv, StartOK, StatusOK, Ended, Aging, Inv, CallsOK
<1>7. MapShown'
  <2>1. \A m \in Names \ {n} : processes[m] # p
    BY <1>1, <1>2, NoneIsNoChild DEF Inv, MapOK, p
  <2> QED BY <1>1, <1>2, <2>1 DEF RunInv, MapShown, StatusOK, Ended, Aging, Inv, MapOK
<1>8. RunningIsRecorded'
  BY <1>1, <1>2 DEF RunInv, RunningIsRecorded, Waiting, Alive, Aging, StatusOK, Inv, CallsOK
<1> QED BY <1>4, <1>5, <1>6, <1>7, <1>8 DEF RunInv

(* The entry of the child in hand goes to the file, in the place of one    *)
(* with the same pid that is not awaited any more.                         *)
LEMMA RecordRun ==
    ASSUME Inv, FileInv, RunInv, NEW c \in Callers, RecordSpawn(c)
    PROVE  RunInv'
<1> DEFINE p == call[c].child
<1>1. /\ call[c].pc = "record" /\ records' = {r \in records : proc[r].pid # proc[p].pid} \cup {p}
      /\ call' = [call EXCEPT ![c].pc = "port"]
      /\ UNCHANGED <<proc, mine, forgets, processes, status, shown, doubled>>
  BY DEF RecordSpawn, Add, kernel, manager, memory
<1>2. Ours' \subseteq Ours /\ p \in Ours
  BY <1>1 DEF Ours, Waiting, Inv, CallsOK
<1>3. \A d \in Callers : StartOK(d)'
  BY <1>1 DEF RunInv, StartOK, Inv, CallsOK, Born
<1>4. RunningIsRecorded'
  <2>1. \A q \in mine : Alive(q) /\ q # p => proc[q].pid # proc[p].pid
    BY <1>2 DEF RunInv, OwnPids
  <2>2. \A d \in Callers \ {c} : call'[d] = call[d]
    BY <1>1 DEF Inv, CallsOK
  <2>3. call'[c].child = p
    BY <1>1 DEF Inv, CallsOK
  <2> QED BY <1>1, <2>1, <2>2, <2>3 DEF RunInv, RunningIsRecorded, Waiting, Alive
<1> QED BY <1>1, <1>2, <1>3, <1>4 DEF RunInv, StatusOK, OwnPids, Alive, MapShown, EndIsShown

LEMMA ReadyRun ==
    ASSUME Inv, FileInv, RunInv, NEW c \in Callers, Ready(c)
    PROVE  RunInv'
<1> DEFINE p == call[c].child
<1> DEFINE n == call[c].name
<1>1. /\ UNCHANGED <<proc, mine, forgets, processes, records, doubled>> /\ call[c].pc = "port"
      /\ call' = [call EXCEPT ![c] = Idle]
      /\ IF status[p] = "starting"
         THEN status' = [status EXCEPT ![p] = "running"] /\ shown' = [shown EXCEPT ![n] = "running"]
         ELSE UNCHANGED <<status, shown>>
  BY DEF Ready, Reset, kernel, files, memory
<1>2. Ours' \subseteq Ours
  BY <1>1 DEF Ours, Waiting, Idle, Inv, CallsOK
<1>3. p \in Born /\ p \in Procs /\ proc[p].name = n /\ (p \in mine \/ status[p] \in Ended)
  BY <1>1 DEF RunInv, StartOK, Born
<1>4. CASE status[p] = "starting"
  <2>1. p \in mine /\ p # None /\ (n \in Names \ doubled => processes[n] = p)
    BY <1>3, <1>4, NoneIsNoChild DEF RunInv, MapShown, Ended
  <2>2. \A m \in Names \ {n} : processes[m] # p
    BY <1>3, <2>1 DEF Inv, MapOK
  <2>3. /\ \A q \in Procs \ {p} : status'[q] = status[q]
        /\ \A m \in Names \ {n} : shown'[m] = shown[m]
        /\ status'[p] = "running"
    BY <1>1, <1>3, <1>4 DEF RunInv, StatusOK
  <2>4. StatusOK'
    BY <1>1, <1>4 DEF RunInv, StatusOK, Status
  <2>5. MapShown'
    BY <1>1, <2>1, <2>2, <2>3 DEF RunInv, MapShown, Ended, Inv, MapOK
  <2>6. EndIsShown'
    BY <1>1, <2>1, <2>3 DEF RunInv, EndIsShown
  <2>7. \A d \in Callers : StartOK(d)'
    <3>1. \A d \in Callers \ {c} : call'[d] = call[d]
      BY <1>1 DEF Inv, CallsOK
    <3>2. call'[c].pc = "idle"
      BY <1>1 DEF Idle, Inv, CallsOK
    <3>3. ASSUME NEW d \in Callers \ {c} PROVE StartOK(d)'
      BY <1>1, <2>1, <2>3, <3>1 DEF RunInv, StartOK, Born
    <3> QED BY <3>2, <3>3 DEF StartOK
  <2>8. RunningIsRecorded'
    <3>1. Alive(p) => p \in records
      BY <1>1, <2>1 DEF RunInv, RunningIsRecorded, Waiting
    <3>2. \A d \in Waiting("port")' : d \in Waiting("port") /\ call'[d] = call[d]
      BY <1>1 DEF Waiting, Idle, Inv, CallsOK
    <3> QED BY <1>1, <2>3, <3>1, <3>2 DEF RunInv, RunningIsRecorded, Alive, Inv, MapOK, Born
  <2> QED BY <1>1, <1>2, <2>4, <2>5, <2>6, <2>7, <2>8 DEF RunInv, OwnPids, Alive
<1>5. CASE status[p] # "starting"
  <2>1. \A d \in Callers : call'[d] = call[d] \/ call'[d].pc \in {"idle", "term", "kill"}
    BY <1>1 DEF Idle, Inv, CallsOK
  <2> QED BY <1>1, <1>2, <1>5, <2>1, SameAges, RunFrame DEF Born
<1> QED BY <1>4, <1>5

(* The child leaves the map; what is shown by then is an end.              *)
LEMMA WaitRun ==
    ASSUME Inv, FileInv, RunInv, NEW p \in Procs, WaitForExit(p)
    PROVE  RunInv'
<1> DEFINE n == proc[p].name
<1>1. /\ p \in mine /\ ~Alive(p) /\ UNCHANGED <<proc, call, records, doubled>>
      /\ processes' = [processes EXCEPT ![n] = None] /\ mine' = mine \ {p} /\ forgets' = forgets \cup {p}
  BY DEF WaitForExit, kernel, memory
<1>2. p \in Born /\ p # None /\ (n \in Names \ doubled => processes[n] = p)
  BY <1>1, NoneIsNoChild DEF RunInv, MapShown, Inv, MapOK, Born
<1>3. /\ StatusOK'
      /\ status'[p] \in Ended /\ (n \in Names \ doubled => shown'[n] \in Ended)
      /\ \A q \in Procs \ {p} : status'[q] = status[q]
      /\ \A m \in Names \ {n} : shown'[m] = shown[m]
  <2>1. CASE status[p] = "stopped"
    BY <1>1, <1>2, <2>1 DEF WaitForExit, RunInv, StatusOK, MapShown, Ended
  <2>2. CASE status[p] # "stopped"
    <3>1. PICK s \in Ended : status' = [status EXCEPT ![p] = s] /\ shown' = [shown EXCEPT ![n] = s]
      BY <2>2 DEF WaitForExit, Reset
    <3> QED BY <1>2, <3>1 DEF RunInv, StatusOK, Status
  <2> QED BY <2>1, <2>2
<1>4. Ours' \subseteq Ours
  BY <1>1 DEF Ours, Waiting
<1>5. OwnPids'
  BY <1>1, <1>4 DEF RunInv, OwnPids, Alive
<1>6. \A d \in Callers : StartOK(d)'
  BY <1>1, <1>2, <1>3 DEF RunInv, StartOK, Born, Inv, MapOK
<1>7. MapShown'
  <2>1. \A q \in mine' : proc'[q].name \in Names \ doubled' => processes'[proc'[q].name] = q
    BY <1>1, <1>2 DEF RunInv, MapShown, Inv, MapOK
  <2>2. \A m \in Names \ {n} : processes'[m] = processes[m] /\ processes[m] # p
    BY <1>1, <1>2 DEF Inv, MapOK
  <2>3. \A m \in Names \ doubled' : processes'[m] # None /\ status'[processes'[m]] \in Ended => shown'[m] \in Ended
    BY <1>1, <1>2, <1>3, <2>2 DEF RunInv, MapShown, Inv, MapOK
  <2> QED BY <2>1, <2>3 DEF MapShown
<1>8. RunningIsRecorded'
  BY <1>1, <1>3 DEF RunInv, RunningIsRecorded, Waiting, Alive, Inv, MapOK, Born
<1>9. EndIsShown'
  BY <1>1, <1>3 DEF RunInv, EndIsShown, Inv, MapOK
<1> QED BY <1>3, <1>5, <1>6, <1>7, <1>8, <1>9 DEF RunInv

LEMMA ForgetRun ==
    ASSUME Inv, FileInv, RunInv, NEW p \in Procs, Forget(p)
    PROVE  RunInv'
<1>1. /\ p \in forgets /\ forgets' = forgets \ {p} /\ records' = records \ {r \in records : proc[r].pid = proc[p].pid}
      /\ UNCHANGED <<proc, mine, call, processes, status, shown, doubled>>
  BY DEF Forget, Forgotten, kernel, manager, memory
<1>2. Ours' \subseteq Ours /\ p \in Ours
  BY <1>1 DEF Ours, Waiting
<1>3. OwnPids'
  BY <1>1, <1>2 DEF RunInv, OwnPids, Alive
<1>4. RunningIsRecorded'
  BY <1>1, <1>2 DEF RunInv, OwnPids, RunningIsRecorded, Waiting, Alive
<1> QED BY <1>1, <1>3, <1>4 DEF RunInv, StatusOK, StartOK, MapShown, EndIsShown, Born

LEMMA CrashRun ==
    ASSUME Inv, FileInv, RunInv, Crash
    PROVE  RunInv'
<1>1. /\ mine' = {} /\ forgets' = {} /\ processes' = [n \in Names |-> None]
      /\ shown' = [n \in Names |-> "stopped"] /\ call' = [c \in Callers |-> Idle]
      /\ UNCHANGED <<proc, status>>
  BY DEF Crash, kernel
<1>2. StatusOK' /\ EndIsShown' /\ MapShown'
  BY <1>1 DEF RunInv, StatusOK, EndIsShown, MapShown, Status, Ended
<1>3. OwnPids' /\ RunningIsRecorded' /\ \A c \in Callers : StartOK(c)'
  BY <1>1 DEF OwnPids, RunningIsRecorded, StartOK, Idle
<1> QED BY <1>2, <1>3 DEF RunInv

LEMMA CallRun ==
    ASSUME Inv, FileInv, RunInv, NEW c \in Callers,
           \/ \E n \in Names : Start(c, n) \/ StartExisting(c, n) \/ Stop(c, n)
           \/ Proceed(c) \/ Escalate(c) \/ DropRequest(c)
    PROVE  RunInv'
<1>2. CASE Launched(c)
  <2>1. call[c].name \in Names
    BY <1>2 DEF MaySpawn, Launched, Inv, CallsOK
  <2> QED BY <1>2, <2>1, SpawnOrRun DEF MaySpawn, Launched
<1>3. CASE Escalate(c)
  <2>1. /\ UNCHANGED <<mine, processes, status, shown, records, forgets, doubled>>
        /\ Signalled(proc[call[c].child].pid, "kill") /\ call' = [call EXCEPT ![c].pc = "kill"]
    BY <1>3 DEF Escalate, manager, files, memory
  <2>2. Aging /\ Born' = Born /\ Ours' \subseteq Ours
    BY <2>1, SignalAges, SignalType DEF Inv, Ours, Waiting, CallsOK
  <2>3. \A d \in Callers : call'[d] = call[d] \/ call'[d].pc \in {"idle", "term", "kill"}
    BY <2>1 DEF Inv, CallsOK
  <2> QED BY <2>1, <2>2, <2>3, RunFrame
<1>4. CASE TeardownTimeout(c) \/ StopReturns(c) \/ DropRequest(c)
  <2>1. /\ UNCHANGED <<proc, mine, processes, status, shown, records, forgets, doubled>>
        /\ call' = [call EXCEPT ![c] = Idle]
    BY <1>4 DEF TeardownTimeout, StopReturns, DropRequest, manager, files, kernel, memory
  <2>2. Born' = Born /\ Ours' \subseteq Ours
    BY <2>1 DEF Born, Ours, Waiting, Idle, Inv, CallsOK
  <2>3. \A d \in Callers : call'[d] = call[d] \/ call'[d].pc \in {"idle", "term", "kill"}
    BY <2>1 DEF Idle, Inv, CallsOK
  <2> QED BY <2>1, <2>2, <2>3, SameAges, RunFrame
<1> QED BY <1>2, <1>3, <1>4, StartRun, StopRun, RecordRun, ReadyRun DEF Proceed

LEMMA RestRun ==
    ASSUME Inv, FileInv, RunInv,
           \/ \E p \in Procs : Die(p)
           \/ \E pid \in Pids : Reuse(pid)
           \/ Boot \/ Sweeping \/ Serve \/ UNCHANGED vars
    PROVE  RunInv'
<1> USE DEF kernel, manager, files, sweep, memory
<1>1. UNCHANGED <<mine, processes, status, shown, forgets, call, doubled>>
  BY DEF Die, Reuse, Boot, Sweeping, SweepGone, SweepRefused, SweepTerm, SweepKill, Serve, vars
<1>2. Ours' = Ours
  BY <1>1 DEF Ours, Waiting
<1>3. records' = records \/ mine = {}
  <2>1. ASSUME NEW p \in Procs, p \in todo PROVE mine = {}
    BY <2>1 DEF FileInv, Swept
  <2>2. ASSUME NEW p \in Procs, SweepGone(p) \/ SweepKill(p) PROVE p \in todo
    BY <2>2, NoneIsNoChild DEF SweepGone, Turn, SweepKill, FileInv, Swept
  <2> QED BY <2>1, <2>2 DEF Die, Reuse, Boot, Sweeping, SweepRefused, SweepTerm, Serve, vars
<1>4. Aging /\ Born' = Born
  <2>1. CASE \E p \in Procs : Die(p)
    <3>1. PICK p \in Procs : Die(p)
      BY <2>1
    <3>2. Aging
      BY <3>1, DieAges DEF Inv
    <3>3. Born' = Born
      BY <3>1 DEF Die, Alive, Born, Inv, ChildrenOK
    <3> QED BY <3>2, <3>3
  <2>2. ASSUME NEW pid, NEW s \in {"term", "kill"}, Signalled(pid, s) PROVE Aging /\ Born' = Born
    BY <2>2, SignalAges, SignalType DEF Inv
  <2>3. CASE UNCHANGED proc
    BY <2>3, SameAges DEF Born
  <2> QED BY <2>1, <2>2, <2>3 DEF Reuse, Boot, Sweeping, SweepGone, SweepRefused, SweepTerm, SweepKill, Serve, vars
<1> QED BY <1>1, <1>2, <1>3, <1>4, RunFrame

LEMMA RunInit == Init => RunInv
BY DEF Init, RunInv, StatusOK, OwnPids, StartOK, MapShown, RunningIsRecorded, EndIsShown, Idle, Status, Ended

LEMMA RunNext == ASSUME Inv, FileInv, RunInv, [Next]_vars PROVE RunInv'
BY CallRun, WaitRun, ForgetRun, CrashRun, RestRun DEF Next

LEMMA RunAlways == Spec => []RunInv
<1>1. Inv /\ FileInv /\ RunInv /\ [Next]_vars => RunInv'
  BY RunNext
<1> QED BY <1>1, InvInit, InvNext, FileInit, FileNext, RunInit, PTL DEF Spec

(* However many requests start children at once: one that lives and has    *)
(* got past its start is on record, whatever pids go round.                *)
THEOREM RunningRecorded == Spec => []RunningIsRecorded
<1>1. RunInv => RunningIsRecorded
  BY DEF RunInv
<1> QED BY <1>1, RunAlways, PTL

(* A name without a child shows how its last one ended, however starts,    *)
(* stops, exits, dropped requests and deaths of the daemon fall, unless    *)
(* overlapping starts gave it two.                                         *)
THEOREM EndShown == Spec => []EndIsShown
<1>1. RunInv => EndIsShown
  BY DEF RunInv
<1> QED BY <1>1, RunAlways, PTL

-----------------------------------------------------------------------------
(* What TypeOK says beyond Inv and FileInv, whoever starts children.       *)
Typed ==
    /\ \A p \in Born : proc[p].name \in Names /\ proc[p].pid \in Pids
    /\ strangers \subseteq Pids /\ daemon \in {"up", "down", "sweep"}
    /\ StatusOK
    /\ daemon # "up" => \A c \in Callers : call[c] = Idle

(* Children keep their names and pids.                                     *)
LEMMA TypedFrame ==
    ASSUME Inv, Typed, Aging, Born' = Born, UNCHANGED strangers, StatusOK',
           daemon' \in {"up", "down", "sweep"},
           daemon' # "up" => \A c \in Callers : call'[c] = Idle
    PROVE  Typed'
BY DEF Typed, Aging

LEMMA TypedSpawn ==
    ASSUME Inv, Typed, NEW c \in Callers, NEW n \in Names, SpawnOr(c, n), daemon = "up"
    PROVE  Typed'
<1>1. CASE Spawn(c, n)
  <2> DEFINE p == Cardinality(Born) + 1
  <2>1. p \in Procs /\ p \notin Born
    BY <1>1, NextNumber DEF Inv, Spawn
  <2>2. PICK pid \in Pids \ Resting :
           /\ proc' = [proc EXCEPT ![p] = [name |-> n, pid |-> pid, state |-> "alive", signal |-> "none"]]
           /\ status' = [status EXCEPT ![p] = "starting"] /\ shown' = [shown EXCEPT ![n] = "starting"]
           /\ UNCHANGED <<strangers, daemon>>
    BY <1>1 DEF Spawn, Reset
  <2> HIDE DEF p
  <2>3. Born' = Born \cup {p} /\ proc'[p].pid = pid /\ proc'[p].name = n /\ \A q \in Born : proc'[q] = proc[q]
    BY <2>1, <2>2 DEF Inv, ChildrenOK, Born
  <2>4. StatusOK'
    BY <2>2 DEF Typed, StatusOK, Status
  <2> QED BY <2>2, <2>3, <2>4 DEF Typed
<1>2. CASE SpawnFails(c, n)
  <2>1. UNCHANGED <<proc, strangers, daemon, status>> /\ shown' = [shown EXCEPT ![n] = "failed"]
    BY <1>2 DEF SpawnFails, kernel, Reset
  <2>2. StatusOK'
    BY <2>1 DEF Typed, StatusOK, Status, Ended
  <2> QED BY <2>1, <2>2, SameAges, TypedFrame DEF Typed, Born
<1> QED BY <1>1, <1>2 DEF SpawnOr

(* A call, of a daemon that serves.                                        *)
LEMMA TypedCall ==
    ASSUME Inv, FileInv, Typed, NEW c \in Callers,
           \/ \E n \in Names : Start(c, n) \/ StartExisting(c, n) \/ Stop(c, n)
           \/ Proceed(c) \/ Escalate(c) \/ DropRequest(c)
    PROVE  Typed'
<1>1. daemon = "up"
  BY DEF Start, StartExisting, Stop, Serving, Proceed, MaySpawn, Launched, TeardownTimeout, RecordSpawn, Ready, StopReturns,
         Escalate, DropRequest, Typed, Idle
<1>3. CASE Launched(c)
  <2>1. call[c].name \in Names /\ SpawnOr(c, call[c].name)
    BY <1>3 DEF MaySpawn, Launched, Inv, CallsOK
  <2> QED BY <1>1, <2>1, TypedSpawn
<1>4. CASE \E n \in Names : Stop(c, n)
  <2>1. PICK n \in Names : Stop(c, n)
    BY <1>4
  <2>2. Aging /\ Born' = Born
    BY <2>1, SignalAges, SignalType DEF Stop, Inv
  <2>3. UNCHANGED <<strangers, daemon>> /\ StatusOK'
    BY <2>1 DEF Stop, Typed, StatusOK, Status, Ended, Reset
  <2> QED BY <1>1, <2>2, <2>3, TypedFrame DEF Typed
<1>5. CASE Escalate(c)
  <2>1. Aging /\ Born' = Born
    BY <1>5, SignalAges, SignalType DEF Escalate, Inv
  <2>2. UNCHANGED <<strangers, daemon>> /\ StatusOK'
    BY <1>5 DEF Escalate, manager, Typed, StatusOK
  <2> QED BY <1>1, <2>1, <2>2, TypedFrame DEF Typed
<1>6. CASE (\E n \in Names : Start(c, n) \/ StartExisting(c, n)) \/ TeardownTimeout(c) \/ RecordSpawn(c) \/ Ready(c) \/ StopReturns(c) \/ DropRequest(c)
  <2>1. UNCHANGED <<proc, strangers, daemon>> /\ StatusOK'
    BY <1>6 DEF Start, StartExisting, TeardownTimeout, RecordSpawn, Ready, StopReturns, DropRequest, kernel, manager, Reset,
                Typed, StatusOK, Status
  <2> QED BY <1>1, <2>1, SameAges, TypedFrame DEF Typed, Born
<1> QED BY <1>3, <1>4, <1>5, <1>6 DEF Proceed

LEMMA TypedNext == ASSUME Inv, FileInv, Typed, [Next]_vars PROVE Typed'
<1>1. CASE \E c \in Callers : (\E n \in Names : Start(c, n) \/ StartExisting(c, n) \/ Stop(c, n))
                              \/ Proceed(c) \/ Escalate(c) \/ DropRequest(c)
  BY <1>1, TypedCall
<1>2. ASSUME NEW p \in Procs, Die(p) PROVE Typed'
  <2>1. Aging /\ Born' = Born
    BY <1>2, DieAges DEF Die, Inv, ChildrenOK, Born, Alive
  <2> QED BY <1>2, <2>1, TypedFrame DEF Die, manager, Typed, StatusOK
<1>3. ASSUME NEW p \in Procs, WaitForExit(p) \/ Forget(p) PROVE Typed'
  <2>1. UNCHANGED <<proc, strangers, daemon, call>> /\ StatusOK'
    BY <1>3 DEF WaitForExit, Forget, kernel, manager, Reset, Typed, StatusOK, Status, Ended
  <2> QED BY <2>1, SameAges, TypedFrame DEF Typed, Born
<1>4. ASSUME NEW pid \in Pids, Reuse(pid) PROVE Typed'
  BY <1>4 DEF Reuse, manager, Typed, StatusOK, Born
<1>5. CASE Crash \/ Boot \/ Serve
  <2>1. UNCHANGED <<proc, strangers>> /\ StatusOK' /\ daemon' \in {"up", "down", "sweep"}
    BY <1>5 DEF Crash, Boot, Serve, kernel, manager, Typed, StatusOK, Status, Ended
  <2>2. daemon' # "up" => \A c \in Callers : call'[c] = Idle
    BY <1>5 DEF Crash, Boot, Serve, manager, Typed
  <2> QED BY <2>1, <2>2, SameAges, TypedFrame DEF Born
<1>6. ASSUME NEW p \in Procs, SweepGone(p) \/ SweepRefused(p) \/ SweepTerm(p) \/ SweepKill(p) PROVE Typed'
  <2>1. Aging /\ Born' = Born
    <3>1. ASSUME NEW pid, NEW s \in {"term", "kill"}, Signalled(pid, s) PROVE Aging /\ Born' = Born
      BY <3>1, SignalAges, SignalType DEF Inv
    <3>2. CASE UNCHANGED proc
      BY <3>2, SameAges DEF Born
    <3> QED BY <1>6, <3>1, <3>2 DEF SweepGone, SweepRefused, SweepTerm, SweepKill, kernel
  <2>2. UNCHANGED <<strangers, daemon, manager, call>>
    BY <1>6 DEF SweepGone, SweepRefused, SweepTerm, SweepKill, kernel
  <2> QED BY <2>1, <2>2, TypedFrame DEF manager, Typed, StatusOK
<1>7. CASE UNCHANGED vars
  BY <1>7 DEF vars, memory, kernel, manager, Typed, StatusOK, Born
<1> QED BY <1>1, <1>2, <1>3, <1>4, <1>5, <1>6, <1>7 DEF Next, Sweeping

(* Also when two requests start at once: the map leads to children of this *)
(* daemon only, the pidfile has one entry per pid, and a daemon that does  *)
(* not serve has no children and no calls.                                 *)
THEOREM TypeCorrect == Spec => []TypeOK
<1>1. Init => Typed
  BY DEF Init, Typed, StatusOK, Status, Ended, Born, Unborn
<1>2. Inv /\ FileInv /\ Typed /\ [Next]_vars => Typed'
  BY TypedNext
<1>3. Inv /\ FileInv /\ Typed => TypeOK
  <2>1. Inv => \A p \in Born : proc[p].state \in {"alive", "dead"}
    BY DEF Inv, ChildrenOK, Born
  <2> QED BY <2>1 DEF Inv, MapOK, FileInv, Filed, Swept, Typed, StatusOK, TypeOK
<1> QED BY <1>1, <1>2, <1>3, InvInit, InvNext, FileInit, FileNext, PTL DEF Spec

-----------------------------------------------------------------------------
(* The tunnels, which share nothing with the launched processes: one start *)
(* per port, and a stopped port stays down, for any number of ports,       *)
(* requests and children, with stops, deaths and dropped requests anywhere.*)

OpenedOK ==
    /\ child \in [Children -> [port : Ports \cup {Nil}, phase : Phases, alive : BOOLEAN, term : BOOLEAN]]
    /\ \A c \in Opened : Port(c) \in Ports

Entries == [kind : {"none", "starting", "ready"}, child : Children \cup {Nil}, cancel : BOOLEAN]

(* Children are numbered in the order of their birth.                      *)
OpenedInOrder == \E k \in 0..MaxChildren : Opened = 1..k

MapsOK ==
    /\ tunnels \in [Ports -> Opened \cup {Nil}]
    /\ entry \in [Ports -> Entries]
    /\ req \in [Requests -> [pc : {"idle", "spawn", "wait", "got"}, child : Children \cup {Nil}]]
    /\ \A r \in Requests : req[r].pc = "spawn" => req[r].child \in Opened

TunnelInv == OpenedOK /\ OpenedInOrder /\ MapsOK /\ OneStartPerPort

-----------------------------------------------------------------------------
LEMMA FreshNumber ==
    ASSUME OpenedInOrder, Opened # Children
    PROVE  LET c == Cardinality(Opened) + 1
           IN  c \in Children /\ c \notin Opened /\ \E k \in 0..MaxChildren : Opened \cup {c} = 1..k
<1>1. PICK k \in 0..MaxChildren : Opened = 1..k
  BY DEF OpenedInOrder
<1>2. MaxChildren \in Nat
  BY TunnelAssumption
<1>3. Cardinality(Opened) = k
  BY <1>1, <1>2, FS_Interval
<1>4. k + 1 \in 1..MaxChildren
  BY <1>1, <1>2 DEF Children
<1>5. k + 1 \notin 1..k /\ (1..k) \cup {k + 1} = 1..k + 1
  BY <1>2
<1> QED BY <1>1, <1>3, <1>4, <1>5 DEF Children

(* A stop tells a child; it ends none by itself.                           *)
LEMMA StopOnlyTells ==
    ASSUME TunnelInv, NEW p \in Ports
    PROVE  /\ AfterStop(p) \in [Children -> [port : Ports \cup {Nil}, phase : Phases, alive : BOOLEAN, term : BOOLEAN]]
           /\ \A c \in Children : AfterStop(p)[c].port = child[c].port /\ AfterStop(p)[c].phase = child[c].phase
<1>1. CASE tunnels[p] = Nil
  BY <1>1 DEF TunnelInv, OpenedOK, AfterStop
<1>2. CASE tunnels[p] # Nil
  <2>1. tunnels[p] \in Children /\ AfterStop(p) = [child EXCEPT ![tunnels[p]].term = TRUE]
    BY <1>2 DEF TunnelInv, MapsOK, AfterStop, Told, Opened
  <2>2. ASSUME NEW c \in Children
        PROVE  /\ AfterStop(p)[c] \in [port : Ports \cup {Nil}, phase : Phases, alive : BOOLEAN, term : BOOLEAN]
               /\ AfterStop(p)[c].port = child[c].port /\ AfterStop(p)[c].phase = child[c].phase
    <3>1. child[c] \in [port : Ports \cup {Nil}, phase : Phases, alive : BOOLEAN, term : BOOLEAN]
      BY DEF TunnelInv, OpenedOK
    <3>2. AfterStop(p)[c] = IF c = tunnels[p] THEN [child[c] EXCEPT !.term = TRUE] ELSE child[c]
      BY <2>1 DEF TunnelInv, OpenedOK
    <3> QED BY <3>1, <3>2
  <2>3. AfterStop(p) = [c \in Children |-> AfterStop(p)[c]]
    BY <2>1 DEF TunnelInv, OpenedOK
  <2> QED BY <2>2, <2>3
<1> QED BY <1>1, <1>2

(* A step that starts no child and keeps the entries of those that start.  *)
LEMMA Calm ==
    ASSUME TunnelInv,
           child' \in [Children -> [port : Ports \cup {Nil}, phase : Phases, alive : BOOLEAN, term : BOOLEAN]],
           \A c \in Children : /\ child'[c].port = child[c].port
                               /\ (child'[c].phase = "unborn") <=> (child[c].phase = "unborn")
                               /\ child'[c].phase \in {"scan", "dns"} => Starting(c),
           tunnels' \in [Ports -> Opened \cup {Nil}],
           entry' \in [Ports -> Entries],
           req' \in [Requests -> [pc : {"idle", "spawn", "wait", "got"}, child : Children \cup {Nil}]],
           \A r \in Requests : req'[r].pc = "spawn" => req'[r] = req[r],
           \A c \in Opened : child'[c].phase \in {"scan", "dns"} =>
               entry'[Port(c)].kind = entry[Port(c)].kind /\ entry'[Port(c)].child = entry[Port(c)].child
    PROVE  TunnelInv'
<1>1. Opened' = Opened
  BY DEF Opened
<1>2. OpenedOK' /\ OpenedInOrder'
  BY <1>1 DEF TunnelInv, OpenedOK, OpenedInOrder, Port, Opened
<1>3. MapsOK'
  BY <1>1 DEF TunnelInv, MapsOK
<1>4. OneStartPerPort'
  BY <1>1 DEF TunnelInv, OneStartPerPort, Starting, Port, Opened
<1> QED BY <1>2, <1>3, <1>4 DEF TunnelInv

LEMMA TunnelInvInit == InitTunnels => TunnelInv
<1> SUFFICES ASSUME InitTunnels PROVE TunnelInv
  OBVIOUS
<1>1. MaxChildren \in Nat /\ Opened = 1..0
  BY TunnelAssumption DEF InitTunnels, Opened, Unopened
<1>2. OpenedOK
  BY <1>1 DEF InitTunnels, OpenedOK, Unopened, Phases
<1>3. OpenedInOrder
  BY <1>1 DEF OpenedInOrder
<1>4. MapsOK
  BY DEF InitTunnels, MapsOK, NoEntry, Unasked, Entries
<1>5. OneStartPerPort
  BY <1>1 DEF OneStartPerPort
<1> QED BY <1>2, <1>3, <1>4, <1>5 DEF TunnelInv

(* A start begins on a port whose entry does not say so already, and so    *)
(* on one where no child starts.                                           *)
LEMMA OpenKeeps == ASSUME TunnelInv, NEW r \in Requests, NEW p \in Ports, Open(r, p) PROVE TunnelInv'
<1> DEFINE n == Cardinality(Opened) + 1
<1>1. n \in Children /\ n \notin Opened /\ \E k \in 0..MaxChildren : Opened \cup {n} = 1..k
  BY FreshNumber DEF TunnelInv, Open
<1>2. /\ child' = [AfterStop(p) EXCEPT ![n] = [port |-> p, phase |-> "scan", alive |-> TRUE, term |-> FALSE]]
      /\ entry' = [entry EXCEPT ![p] = [kind |-> "starting", child |-> n, cancel |-> FALSE]]
      /\ req' = [req EXCEPT ![r] = [pc |-> "spawn", child |-> n]]
      /\ tunnels' = [tunnels EXCEPT ![p] = Nil]
      /\ entry[p].kind # "starting"
  BY DEF Open, Spawned, Join
<1> HIDE DEF n
<1>3. /\ child' \in [Children -> [port : Ports \cup {Nil}, phase : Phases, alive : BOOLEAN, term : BOOLEAN]]
      /\ child'[n].port = p /\ child'[n].phase = "scan"
      /\ \A c \in Children \ {n} : child'[c].port = child[c].port /\ child'[c].phase = child[c].phase
  BY <1>1, <1>2, StopOnlyTells DEF Phases
<1>4. Opened' = Opened \cup {n}
  BY <1>1, <1>3 DEF Opened
<1>5. OpenedOK'
  BY <1>3, <1>4 DEF TunnelInv, OpenedOK, Port, Opened
<1>6. OpenedInOrder'
  BY <1>1, <1>4 DEF OpenedInOrder
<1>7. MapsOK'
  BY <1>1, <1>2, <1>4 DEF TunnelInv, MapsOK, Entries
<1>8. OneStartPerPort'
  BY <1>1, <1>2, <1>3, <1>4 DEF TunnelInv, OneStartPerPort, OpenedOK, MapsOK, Starting, Port, Opened
<1> QED BY <1>5, <1>6, <1>7, <1>8 DEF TunnelInv

(* The end of a start takes the entry of its port, and no other start is   *)
(* on that port.                                                           *)
LEMMA SettleKeeps ==
    ASSUME TunnelInv, NEW c \in Children, Starting(c), NEW what,
           child' \in [Children -> [port : Ports \cup {Nil}, phase : Phases, alive : BOOLEAN, term : BOOLEAN]],
           child'[c].port = child[c].port, child'[c].phase \in {"watched", "over"},
           \A d \in Children \ {c} : child'[d].port = child[d].port /\ child'[d].phase = child[d].phase,
           tunnels' \in [Ports -> Opened \cup {Nil}],
           NEW e \in Entries, entry' = [entry EXCEPT ![Port(c)] = e],
           Tell(c, what)
    PROVE  TunnelInv'
<1>1. c \in Opened /\ Port(c) \in Ports
  BY DEF Starting, Opened, TunnelInv, OpenedOK
<1>2. \A d \in Opened \ {c} : Starting(d) => Port(d) # Port(c)
  BY <1>1 DEF TunnelInv, OneStartPerPort
<1>3. \A d \in Children : /\ child'[d].port = child[d].port
                          /\ (child'[d].phase = "unborn") <=> (child[d].phase = "unborn")
                          /\ child'[d].phase \in {"scan", "dns"} => Starting(d) /\ d # c
  BY DEF Starting
<1>4. /\ entry' \in [Ports -> Entries]
      /\ \A p \in Ports \ {Port(c)} : entry'[p] = entry[p]
  BY <1>1 DEF TunnelInv, MapsOK
<1>5. /\ req' \in [Requests -> [pc : {"idle", "spawn", "wait", "got"}, child : Children \cup {Nil}]]
      /\ \A r \in Requests : req'[r].pc = "spawn" => req'[r] = req[r]
  BY DEF Tell, Unasked, TunnelInv, MapsOK
<1>6. \A d \in Opened : child'[d].phase \in {"scan", "dns"} =>
          entry'[Port(d)].kind = entry[Port(d)].kind /\ entry'[Port(d)].child = entry[Port(d)].child
  BY <1>2, <1>3, <1>4 DEF TunnelInv, OpenedOK, Opened
<1> QED BY <1>3, <1>4, <1>5, <1>6, Calm

LEMMA AdvanceKeeps == ASSUME TunnelInv, NEW c \in Children, Advance(c) PROVE TunnelInv'
<1> DEFINE Record == [port : Ports \cup {Nil}, phase : Phases, alive : BOOLEAN, term : BOOLEAN]
<1>0. NoEntry \in Entries
  BY DEF NoEntry, Entries
<1>1. CASE Connected(c)
  <2>1. child[c].phase = "scan" /\ c \in Opened /\ Port(c) \in Ports
    BY <1>1 DEF Connected, Opened, TunnelInv, OpenedOK
  <2>2. child' \in [Children -> Record]
    BY <1>1 DEF Connected, Phases, TunnelInv, OpenedOK
  <2>3. /\ \A d \in Children : child'[d].port = child[d].port /\ (d # c => child'[d].phase = child[d].phase)
        /\ child'[c].phase = "dns"
    BY <1>1 DEF Connected, TunnelInv, OpenedOK
  <2>4. tunnels' \in [Ports -> Opened \cup {Nil}]
    BY <1>1, <2>1 DEF Connected, TunnelInv, MapsOK
  <2>5. UNCHANGED <<entry, req>>
    BY <1>1 DEF Connected
  <2>6. \A d \in Children : /\ (child'[d].phase = "unborn") <=> (child[d].phase = "unborn")
                            /\ child'[d].phase \in {"scan", "dns"} => Starting(d)
    BY <2>1, <2>3 DEF Starting
  <2> QED BY <2>2, <2>3, <2>4, <2>5, <2>6, Calm DEF TunnelInv, MapsOK
<1>2. CASE EndEarly(c) \/ EndInDns(c)
  <2>1. Starting(c) /\ UNCHANGED tunnels /\ SettleErr(c)
    BY <1>2 DEF EndEarly, EndInDns, Starting
  <2>2. child' \in [Children -> Record]
    BY <1>2 DEF EndEarly, EndInDns, Phases, TunnelInv, OpenedOK
  <2>3. /\ child'[c].port = child[c].port /\ child'[c].phase = "over"
        /\ \A d \in Children \ {c} : child'[d].port = child[d].port /\ child'[d].phase = child[d].phase
    BY <1>2 DEF EndEarly, EndInDns, TunnelInv, OpenedOK
  <2> QED BY <1>0, <2>1, <2>2, <2>3, SettleKeeps DEF SettleErr, TunnelInv, MapsOK
<1>4. CASE DnsDone(c) /\ SettleCancelled(c)
  <2>1. Starting(c) /\ c \in Opened /\ Port(c) \in Ports
    BY <1>4 DEF DnsDone, Starting, Opened, TunnelInv, OpenedOK
  <2>2. /\ child' \in [Children -> [port : Ports \cup {Nil}, phase : Phases, alive : BOOLEAN, term : BOOLEAN]]
        /\ child'[c].port = child[c].port /\ child'[c].phase = "watched"
        /\ \A d \in Children \ {c} : child'[d].port = child[d].port /\ child'[d].phase = child[d].phase
    BY <1>4, <2>1, StopOnlyTells DEF SettleCancelled, Watched, Phases
  <2> QED BY <1>4, <2>1, <2>2, SettleKeeps DEF SettleCancelled, NoEntry, Entries, TunnelInv, MapsOK
<1>5. CASE DnsDone(c) /\ SettleReady(c)
  <2>1. Starting(c) /\ child' = [child EXCEPT ![c].phase = "watched"] /\ UNCHANGED tunnels
    BY <1>5 DEF DnsDone, SettleReady, Watched, Starting
  <2>2. child' \in [Children -> Record]
    BY <2>1 DEF Phases, TunnelInv, OpenedOK
  <2>3. /\ child'[c].port = child[c].port /\ child'[c].phase = "watched"
        /\ \A d \in Children \ {c} : child'[d].port = child[d].port /\ child'[d].phase = child[d].phase
    BY <2>1 DEF TunnelInv, OpenedOK
  <2>4. [kind |-> "ready", child |-> c, cancel |-> FALSE] \in Entries
    BY DEF Entries
  <2> QED BY <1>5, <2>1, <2>2, <2>3, <2>4, SettleKeeps DEF SettleReady, TunnelInv, MapsOK
<1> QED BY <1>1, <1>2, <1>4, <1>5 DEF Advance, DnsDone

(* The entry of a port with no start goes, and its tunnel is told to stop. *)
LEMMA StopClears ==
    ASSUME TunnelInv, NEW p \in Ports, child' = AfterStop(p) \/ child' = child, tunnels' = [tunnels EXCEPT ![p] = Nil] \/ tunnels' = tunnels,
           entry' = [entry EXCEPT ![p] = NoEntry], req' = req, entry[p].kind # "starting"
    PROVE  TunnelInv'
<1>1. /\ child' \in [Children -> [port : Ports \cup {Nil}, phase : Phases, alive : BOOLEAN, term : BOOLEAN]]
      /\ \A c \in Children : child'[c].port = child[c].port /\ child'[c].phase = child[c].phase
  BY StopOnlyTells DEF TunnelInv, OpenedOK
<1>2. \A c \in Opened : Starting(c) => Port(c) \in Ports \ {p}
  BY DEF TunnelInv, OpenedOK, OneStartPerPort
<1>3. /\ entry' \in [Ports -> Entries]
      /\ \A x \in Ports \ {p} : entry'[x] = entry[x]
  BY DEF TunnelInv, MapsOK, NoEntry, Entries
<1>4. tunnels' \in [Ports -> Opened \cup {Nil}]
  BY DEF TunnelInv, MapsOK
<1>5. req' \in [Requests -> [pc : {"idle", "spawn", "wait", "got"}, child : Children \cup {Nil}]]
  BY DEF TunnelInv, MapsOK
<1>6. \A c \in Children : /\ (child'[c].phase = "unborn") <=> (child[c].phase = "unborn")
                          /\ child'[c].phase \in {"scan", "dns"} => Starting(c)
  BY <1>1 DEF Starting
<1>7. \A c \in Opened : child'[c].phase \in {"scan", "dns"} =>
          entry'[Port(c)].kind = entry[Port(c)].kind /\ entry'[Port(c)].child = entry[Port(c)].child
  BY <1>2, <1>3, <1>6 DEF Opened
<1> QED BY <1>1, <1>3, <1>4, <1>5, <1>6, <1>7, Calm

LEMMA OthersKeep ==
    ASSUME TunnelInv, [NextTunnels]_tunnelVars
    PROVE  \/ TunnelInv'
           \/ \E r \in Requests, p \in Ports : Open(r, p)
           \/ \E c \in Children : Advance(c)
<1>1. ASSUME NEW r \in Requests, NEW p \in Ports, Wait(r, p) \/ TakeExisting(r, p) PROVE TunnelInv'
  BY <1>1, Calm DEF Wait, TakeExisting, Entries, managerVars, Starting, TunnelInv, OpenedOK, MapsOK
<1>2. ASSUME NEW r \in Requests, NEW p \in Ports, OpenFails(r, p) PROVE TunnelInv'
  <2>1. child' = AfterStop(p) /\ tunnels' = [tunnels EXCEPT ![p] = Nil] /\ entry' = [entry EXCEPT ![p] = NoEntry]
        /\ req' = req /\ entry[p].kind # "starting"
    BY <1>2 DEF OpenFails, Join
  <2> QED BY <2>1, StopClears
<1>3. ASSUME NEW r \in Requests, Answer(r) PROVE TunnelInv'
  BY <1>3, Calm DEF Answer, Unasked, managerVars, Starting, TunnelInv, OpenedOK, MapsOK
<1>4. ASSUME NEW r \in Requests, HangUp(r) PROVE TunnelInv'
  <2>1. /\ req' \in [Requests -> [pc : {"idle", "spawn", "wait", "got"}, child : Children \cup {Nil}]]
        /\ \A q \in Requests : req'[q].pc = "spawn" => req'[q] = req[q]
    BY <1>4 DEF HangUp, Unasked, TunnelInv, MapsOK
  <2>2. /\ tunnels' \in [Ports -> Opened \cup {Nil}] /\ entry' = entry /\ entry \in [Ports -> Entries]
    BY <1>4 DEF HangUp, TunnelInv, MapsOK
  <2>3. /\ child' \in [Children -> [port : Ports \cup {Nil}, phase : Phases, alive : BOOLEAN, term : BOOLEAN]]
        /\ \A c \in Children : /\ child'[c].port = child[c].port
                               /\ (child'[c].phase = "unborn") <=> (child[c].phase = "unborn")
                               /\ child'[c].phase \in {"scan", "dns"} => Starting(c)
    <3>1. CASE child' = child
      BY <3>1 DEF Starting, TunnelInv, OpenedOK
    <3>2. CASE req[r].pc = "spawn"
      <4>1. req[r].child \in Opened /\ child' = [child EXCEPT ![req[r].child].phase = "over", ![req[r].child].alive = FALSE]
        BY <1>4, <3>2 DEF HangUp, TunnelInv, MapsOK
      <4> QED BY <4>1 DEF Starting, Phases, Opened, TunnelInv, OpenedOK
    <3> QED BY <1>4, <3>1, <3>2 DEF HangUp
  <2> QED BY <2>1, <2>2, <2>3, Calm
<1>5. ASSUME NEW c \in Children, ChildEnds(c) \/ Reap(c) PROVE TunnelInv'
  <2>1. /\ tunnels' \in [Ports -> Opened \cup {Nil}] /\ UNCHANGED <<entry, req>>
        /\ entry \in [Ports -> Entries]
        /\ req \in [Requests -> [pc : {"idle", "spawn", "wait", "got"}, child : Children \cup {Nil}]]
    BY <1>5 DEF ChildEnds, Reap, TunnelInv, MapsOK
  <2>2. /\ child' \in [Children -> [port : Ports \cup {Nil}, phase : Phases, alive : BOOLEAN, term : BOOLEAN]]
        /\ \A d \in Children : /\ child'[d].port = child[d].port
                               /\ (child'[d].phase = "unborn") <=> (child[d].phase = "unborn")
                               /\ child'[d].phase \in {"scan", "dns"} => Starting(d)
    <3>1. CASE ChildEnds(c)
      BY <3>1 DEF ChildEnds, Starting, TunnelInv, OpenedOK
    <3>2. CASE Reap(c)
      <4>1. child' = [child EXCEPT ![c].phase = "over"] /\ child[c].phase # "unborn"
        BY <3>2 DEF Reap
      <4> QED BY <4>1 DEF Starting, Phases, TunnelInv, OpenedOK
    <3> QED BY <1>5, <3>1, <3>2
  <2> QED BY <2>1, <2>2, Calm
<1>6. ASSUME NEW p \in Ports, StopStarting(p) PROVE TunnelInv'
  <2>1. entry' = [entry EXCEPT ![p].cancel = TRUE] /\ UNCHANGED <<child, tunnels, req>>
    BY <1>6 DEF StopStarting, managerVars
  <2>2. /\ entry' \in [Ports -> Entries]
        /\ \A x \in Ports : entry'[x].kind = entry[x].kind /\ entry'[x].child = entry[x].child
    BY <2>1 DEF TunnelInv, MapsOK, Entries
  <2> QED BY <2>1, <2>2, Calm DEF Starting, TunnelInv, OpenedOK, MapsOK
<1>9. ASSUME NEW p \in Ports, List(p) PROVE TunnelInv'
  BY <1>9, StopClears DEF List, managerVars
<1>7. ASSUME NEW p \in Ports, StopReady(p) PROVE TunnelInv'
  BY <1>7, StopClears DEF StopReady
<1>8. CASE UNCHANGED tunnelVars
  BY <1>8, Calm DEF tunnelVars, managerVars, Starting, TunnelInv, OpenedOK, MapsOK
<1> QED BY <1>1, <1>2, <1>3, <1>4, <1>5, <1>6, <1>7, <1>8, <1>9 DEF NextTunnels

(* For any ports, requests and children: a port never has two starts, and  *)
(* the entry of the port leads to the one it has.                          *)
THEOREM SingleFlight == Tunneling => []OneStartPerPort
<1>1. TunnelInv /\ [NextTunnels]_tunnelVars => TunnelInv'
  BY OpenKeeps, AdvanceKeeps, OthersKeep
<1>2. TunnelInv => OneStartPerPort
  BY DEF TunnelInv
<1> QED BY <1>1, <1>2, TunnelInvInit, PTL DEF Tunneling

-----------------------------------------------------------------------------
(* A stopped port stays down.  The label of a port is one slot of the map  *)
(* for all children it ever had: a stop tells whom the slot holds, and a   *)
(* watcher clears it whoever it holds by then.                             *)

(* What the slot holds, by the phase of the child.  A child that lost its  *)
(* label to the watcher of another never gets it back.                     *)
Slot(c) ==
    LET p == Port(c)
    IN  /\ child[c].phase = "scan" => ~child[c].term /\ tunnels[p] # c /\ c \notin lost
        /\ child[c].phase = "dns" => ~child[c].term /\ (tunnels[p] = c \/ (tunnels[p] = Nil /\ c \in lost))
        /\ child[c].phase = "watched" /\ child[c].term => tunnels[p] # c
        /\ child[c].phase = "watched" /\ ~child[c].term =>
               c \in lost \/ (tunnels[p] = c /\ entry[p].kind = "ready" /\ entry[p].child = c)
        /\ child[c].phase = "over" => ~child[c].alive
        /\ c \in lost => tunnels[p] # c

(* Slots and entries are of children of their port, which start, are over, *)
(* or have started, as the entry says.                                     *)
PortOK(p) ==
    /\ tunnels[p] # Nil => Port(tunnels[p]) = p
    /\ entry[p].kind # "none" => entry[p].child \in Opened /\ Port(entry[p].child) = p
    /\ entry[p].kind = "ready" => ~Starting(entry[p].child)
    /\ entry[p].kind = "starting" => Starting(entry[p].child) \/ child[entry[p].child].phase = "over"

(* A stop is carried out, or noted where the start will find it.           *)
StopNoted(c) ==
    IF Starting(c) THEN entry[Port(c)].cancel
    ELSE c \in lost \/ ~child[c].alive \/ (child[c].term /\ tunnels[Port(c)] # c)

StopInv ==
    /\ \A c \in Opened : Slot(c)
    /\ \A p \in Ports : PortOK(p)
    /\ lost \subseteq Opened /\ stopped \subseteq Opened /\ \A c \in stopped : StopNoted(c)

LEMMA NilIsNoChild == Nil \notin Children
BY TunnelAssumption DEF Children

(* A stop tells the child that the slot holds and touches no other.        *)
LEMMA StopTells ==
    ASSUME TunnelInv, NEW p \in Ports, NEW c \in Children
    PROVE  /\ AfterStop(p)[c].port = child[c].port /\ AfterStop(p)[c].phase = child[c].phase
           /\ AfterStop(p)[c].alive = child[c].alive
           /\ child[c].term => AfterStop(p)[c].term
           /\ c # tunnels[p] => AfterStop(p)[c] = child[c]
           /\ c = tunnels[p] => AfterStop(p)[c].term
BY NilIsNoChild DEF TunnelInv, OpenedOK, MapsOK, AfterStop, Told, Opened

OnPort(p) == {c \in Opened : Port(c) = p}

(* A step acts on one port; what is on the others stays.                   *)
LEMMA OnePort ==
    ASSUME TunnelInv, StopInv, NEW p \in Ports,
           \A c \in Opened' \ OnPort(p)' : c \in Opened \ OnPort(p) /\ child'[c] = child[c],
           \A c \in Opened' : Port(c)' \in Ports,
           Opened \subseteq Opened', \A c \in Opened : Port(c)' = Port(c),
           \A q \in Ports \ {p} : tunnels'[q] = tunnels[q] /\ entry'[q] = entry[q],
           stopped' \subseteq Opened', stopped' \ OnPort(p)' \subseteq stopped,
           lost \subseteq lost', lost' \ OnPort(p)' \subseteq lost,
           \A c \in OnPort(p)' : Slot(c)',
           PortOK(p)',
           \A c \in stopped' \cap OnPort(p)' : StopNoted(c)'
    PROVE  StopInv'
<1>1. ASSUME NEW c \in Opened' \ OnPort(p)' PROVE Slot(c)'
  <2>1. c \in Opened /\ child'[c] = child[c] /\ Port(c) \in Ports \ {p} /\ (c \in lost' <=> c \in lost)
    BY <1>1 DEF OnPort, Port
  <2> QED BY <2>1 DEF StopInv, Slot, Port
<1>2. ASSUME NEW q \in Ports \ {p} PROVE PortOK(q)'
  <2>1. PortOK(q) /\ entry'[q] = entry[q]
    BY DEF StopInv
  <2>3. tunnels[q] # Nil => tunnels[q] \in Opened' /\ Port(tunnels[q])' = q
    BY <2>1 DEF PortOK, TunnelInv, MapsOK
  <2>2. entry[q].kind # "none" => LET d == entry[q].child IN d \in Opened' \ OnPort(p)' /\ child'[d] = child[d]
    BY <2>1 DEF PortOK, OnPort
  <2> QED BY <2>1, <2>2, <2>3 DEF PortOK, Port, Starting
<1>3. ASSUME NEW c \in stopped' \ OnPort(p)' PROVE StopNoted(c)'
  <2>1. /\ c \in stopped /\ c \in Opened' \ OnPort(p)' /\ child'[c] = child[c] /\ Port(c) \in Ports \ {p}
        /\ c \in lost' <=> c \in lost
    BY <1>3 DEF OnPort, Port
  <2> QED BY <2>1 DEF StopInv, StopNoted, Starting, Port
<1>4. lost' \subseteq Opened'
  BY DEF StopInv, OnPort
<1> QED BY <1>1, <1>2, <1>3, <1>4 DEF StopInv

LEMMA SpawnStops == ASSUME TunnelInv, StopInv, NEW r \in Requests, NEW p \in Ports, Open(r, p) PROVE StopInv'
<1> DEFINE n == Cardinality(Opened) + 1
<1>1. n \in Children /\ n \notin Opened
  BY FreshNumber DEF TunnelInv, Open
<1>2. /\ child' = [AfterStop(p) EXCEPT ![n] = [port |-> p, phase |-> "scan", alive |-> TRUE, term |-> FALSE]]
      /\ entry' = [entry EXCEPT ![p] = [kind |-> "starting", child |-> n, cancel |-> FALSE]]
      /\ tunnels' = [tunnels EXCEPT ![p] = Nil]
      /\ stopped' = stopped /\ lost' = lost
      /\ entry[p].kind # "starting" /\ (entry[p].kind = "ready" => tunnels[p] = Nil)
  BY DEF Open, Spawned, Join, Existing, GetUrl, history
<1> HIDE DEF n
<1>3. /\ child'[n] = [port |-> p, phase |-> "scan", alive |-> TRUE, term |-> FALSE]
      /\ \A c \in Children \ {n} : child'[c] = AfterStop(p)[c]
  BY <1>1, <1>2, StopOnlyTells
<1>4. \A c \in Children : /\ AfterStop(p)[c].port = child[c].port /\ AfterStop(p)[c].phase = child[c].phase
                         /\ AfterStop(p)[c].alive = child[c].alive
                         /\ (child[c].term => AfterStop(p)[c].term)
                         /\ (c # tunnels[p] => AfterStop(p)[c] = child[c])
                         /\ (c = tunnels[p] => AfterStop(p)[c].term)
  BY StopTells
<1>5. Opened' = Opened \cup {n} /\ OnPort(p)' = OnPort(p) \cup {n}
  BY <1>1, <1>3, <1>4 DEF Opened, OnPort, Port
<1>6. \A c \in OnPort(p) : c # n /\ child[c].phase \in {"watched", "over"} /\ (child[c].phase = "watched" /\ ~child[c].term => c \in lost)
  BY <1>1, <1>2, NilIsNoChild DEF OnPort, TunnelInv, OneStartPerPort, Starting, StopInv, Slot, OpenedOK, Phases, Opened
<1>7. \A c \in OnPort(p)' : Slot(c)'
  BY <1>1, <1>2, <1>3, <1>4, <1>5, <1>6, NilIsNoChild DEF OnPort, StopInv, Slot, Port, Opened, TunnelInv, MapsOK
<1>8. PortOK(p)'
  BY <1>1, <1>2, <1>3, <1>5 DEF PortOK, Port, Starting, TunnelInv, MapsOK
<1>9. \A c \in stopped' \cap OnPort(p)' : StopNoted(c)'
  <2>1. \A c \in stopped \cap OnPort(p) : c \in lost \/ ~child[c].alive \/ child[c].term
    BY <1>6 DEF StopInv, StopNoted, Starting
  <2>2. tunnels'[p] = Nil
    BY <1>2 DEF TunnelInv, MapsOK
  <2> QED BY <1>1, <1>2, <1>3, <1>4, <1>5, <1>6, <2>1, <2>2, NilIsNoChild
          DEF StopInv, StopNoted, Starting, OnPort, Port, Opened
<1>10. \A c \in Opened : Port(c)' = Port(c) /\ Port(c) \in Ports
  BY <1>1, <1>3, <1>4 DEF Port, Opened, TunnelInv, OpenedOK
<1>11. \A c \in Opened' \ OnPort(p)' : c \in Opened \ OnPort(p) /\ child'[c] = child[c]
  <2>1. \A c \in Opened \ OnPort(p) : c # tunnels[p]
    BY NilIsNoChild DEF StopInv, PortOK, OnPort, Opened
  <2> QED BY <1>1, <1>3, <1>4, <1>5, <2>1 DEF Opened
<1>12. \A q \in Ports \ {p} : tunnels'[q] = tunnels[q] /\ entry'[q] = entry[q]
  BY <1>2 DEF TunnelInv, MapsOK
<1>13. stopped' \subseteq Opened' /\ stopped' \ OnPort(p)' \subseteq stopped /\ \A c \in Opened' : Port(c)' \in Ports
  BY <1>1, <1>2, <1>3, <1>5, <1>10 DEF StopInv, Port
<1>14. lost \subseteq lost' /\ lost' \ OnPort(p)' \subseteq lost
  BY <1>2
<1> QED BY <1>5, <1>7, <1>8, <1>9, <1>10, <1>11, <1>12, <1>13, <1>14, OnePort

(* The same for a step that begets no child.                               *)
LEMMA StopStep ==
    ASSUME TunnelInv, StopInv, NEW p \in Ports,
           \A c \in Children : /\ child'[c].port = child[c].port
                               /\ (child'[c].phase = "unborn") <=> (child[c].phase = "unborn"),
           \A c \in Opened \ OnPort(p) : child'[c] = child[c],
           \A q \in Ports \ {p} : tunnels'[q] = tunnels[q] /\ entry'[q] = entry[q],
           stopped' \subseteq stopped \cup OnPort(p),
           lost \subseteq lost', lost' \subseteq lost \cup OnPort(p),
           \A c \in OnPort(p) : Slot(c)',
           PortOK(p)',
           \A c \in stopped' \cap OnPort(p) : StopNoted(c)'
    PROVE  StopInv'
<1>1. Opened' = Opened /\ \A c \in Opened : Port(c)' = Port(c) /\ Port(c)' \in Ports
  BY DEF Opened, Port, TunnelInv, OpenedOK
<1>2. OnPort(p)' = OnPort(p)
  BY <1>1 DEF OnPort
<1>3. stopped' \subseteq Opened' /\ stopped' \ OnPort(p)' \subseteq stopped /\ lost' \ OnPort(p)' \subseteq lost
  BY <1>1, <1>2 DEF StopInv, OnPort
<1> QED BY <1>1, <1>2, <1>3, OnePort

(* A step that leaves ports, slots and children what they are for StopInv. *)
LEMMA StopFrame ==
    ASSUME TunnelInv, StopInv, Opened' = Opened, \A c \in Opened : child'[c] = child[c],
           UNCHANGED <<tunnels, entry, stopped, lost>>
    PROVE  StopInv'
<1>1. \A c \in Opened : Slot(c)'
  BY DEF StopInv, Slot, Port
<1>2. ASSUME NEW p \in Ports PROVE PortOK(p)'
  <2>1. PortOK(p) /\ (tunnels[p] # Nil => tunnels[p] \in Opened)
    BY DEF StopInv, TunnelInv, MapsOK
  <2> QED BY <2>1 DEF PortOK, Starting, Port
<1>3. stopped' \subseteq Opened' /\ \A c \in stopped' : StopNoted(c)'
  BY DEF StopInv, StopNoted, Starting, Port
<1> QED BY <1>1, <1>2, <1>3 DEF StopInv

(* A child that connects takes the slot, whoever still ends beside it.     *)
LEMMA ConnectedStops == ASSUME TunnelInv, StopInv, NEW c \in Children, Connected(c) PROVE StopInv'
<1>0. PICK p \in Ports : p = Port(c)
  BY DEF Connected, Opened, TunnelInv, OpenedOK
<1>1. c \in Opened /\ p \in Ports /\ child[c].phase = "scan" /\ Starting(c)
  BY DEF Connected, Starting, Opened
<1>2. /\ child' = [child EXCEPT ![c].phase = "dns"] /\ tunnels' = [tunnels EXCEPT ![p] = c]
      /\ UNCHANGED <<entry, stopped, lost>>
  BY <1>0 DEF Connected, history
<1>3. entry[p].kind = "starting" /\ entry[p].child = c
  BY <1>0, <1>1 DEF TunnelInv, OneStartPerPort
<1>4. \A d \in OnPort(p) \ {c} : ~Starting(d) /\ (child[d].phase = "watched" => child[d].term \/ d \in lost)
  BY <1>3 DEF OnPort, StopInv, Slot, TunnelInv, OneStartPerPort
<1>5. /\ child'[c] = [child[c] EXCEPT !.phase = "dns"]
      /\ \A d \in Children \ {c} : child'[d] = child[d]
      /\ tunnels'[p] = c /\ \A q \in Ports \ {p} : tunnels'[q] = tunnels[q]
  BY <1>1, <1>2 DEF TunnelInv, OpenedOK, MapsOK
<1>6. Opened' = Opened /\ \A d \in Opened : Port(d)' = Port(d)
  BY <1>1, <1>5 DEF Opened, Port, TunnelInv, OpenedOK
<1>7. Port(c) = p
  BY <1>0
<1>8. \A d \in OnPort(p) : Slot(d)'
  BY <1>1, <1>2, <1>4, <1>5, <1>6, <1>7 DEF StopInv, Slot, Starting, OnPort, Port, Opened, TunnelInv, OpenedOK
<1>9. PortOK(p)'
  BY <1>1, <1>2, <1>3, <1>5, <1>6, <1>7 DEF PortOK, Starting, Port, TunnelInv, OpenedOK
<1>10. \A d \in stopped' \cap OnPort(p) : StopNoted(d)'
  BY <1>1, <1>2, <1>4, <1>5, <1>6, <1>7 DEF StopInv, StopNoted, Slot, Starting, OnPort, Port, Opened, TunnelInv, OpenedOK
<1>11. \A d \in Children : /\ child'[d].port = child[d].port
                           /\ (child'[d].phase = "unborn") <=> (child[d].phase = "unborn")
  BY <1>1, <1>5 DEF TunnelInv, OpenedOK
<1>12. \A d \in Opened \ OnPort(p) : child'[d] = child[d]
  BY <1>1, <1>5, <1>7 DEF OnPort, Opened
<1>13. p \in Ports /\ entry' = entry /\ stopped' = stopped /\ lost' = lost
  BY <1>1, <1>2
<1> QED BY <1>5, <1>8, <1>9, <1>10, <1>11, <1>12, <1>13, StopStep

(* Beside a child that starts, the port has only children on their way out.*)
LEMMA StartingAlone ==
    ASSUME TunnelInv, StopInv, NEW c \in Children, Starting(c), NEW p \in Ports, p = Port(c)
    PROVE  /\ c \in OnPort(p)
           /\ entry[p].kind = "starting" /\ entry[p].child = c
           /\ \A d \in OnPort(p) \ {c} :
                  child[d].phase = "over" \/ (child[d].phase = "watched" /\ tunnels[p] # d /\ (child[d].term \/ d \in lost))
<1>1. c \in OnPort(p) /\ entry[p].kind = "starting" /\ entry[p].child = c
  BY DEF TunnelInv, OneStartPerPort, OnPort, Opened, Starting
<1>2. \A d \in OnPort(p) \ {c} : ~Starting(d)
  BY <1>1 DEF OnPort, TunnelInv, OneStartPerPort
<1>3. \A d \in OnPort(p) : Slot(d) /\ Port(d) = p /\ child[d].phase \in Phases \ {"unborn"}
  BY DEF OnPort, StopInv, TunnelInv, OpenedOK, Opened
<1> QED BY <1>1, <1>2, <1>3 DEF Slot, Starting, Phases

(* The end of a start that gives no tunnel.                                *)
LEMMA FailedStops ==
    ASSUME TunnelInv, StopInv, NEW c \in Children, EndEarly(c) \/ EndInDns(c)
    PROVE  StopInv'
<1>0. PICK p \in Ports : p = Port(c)
  BY DEF EndEarly, EndInDns, Opened, TunnelInv, OpenedOK
<1>1. Starting(c)
  BY DEF EndEarly, EndInDns, Starting
<1>2. /\ child'[c].port = child[c].port /\ child'[c].phase = "over" /\ ~child'[c].alive
      /\ \A d \in Children \ {c} : child'[d] = child[d]
  <2>1. CASE EndEarly(c)
    BY <2>1 DEF EndEarly, TunnelInv, OpenedOK
  <2>2. CASE EndInDns(c)
    BY <2>2 DEF EndInDns, TunnelInv, OpenedOK
  <2> QED BY <2>1, <2>2
<1>3. /\ tunnels' = tunnels /\ stopped' = stopped /\ lost' = lost /\ entry'[p] = NoEntry
      /\ \A q \in Ports \ {p} : entry'[q] = entry[q]
  BY <1>0 DEF EndEarly, EndInDns, SettleErr, history, TunnelInv, MapsOK
<1>4. \A d \in Children : /\ child'[d].port = child[d].port
                          /\ (child'[d].phase = "unborn") <=> (child[d].phase = "unborn")
  BY <1>1, <1>2 DEF Starting, TunnelInv, OpenedOK
<1>5. Opened' = Opened /\ \A d \in Opened : Port(d)' = Port(d)
  BY <1>4 DEF Opened, Port
<1>6. /\ c \in OnPort(p)
      /\ \A d \in OnPort(p) \ {c} :
             child[d].phase = "over" \/ (child[d].phase = "watched" /\ tunnels[p] # d /\ (child[d].term \/ d \in lost))
  BY <1>0, <1>1, StartingAlone
<1>7. \A d \in OnPort(p) : Slot(d)'
  BY <1>2, <1>3, <1>5, <1>6 DEF StopInv, Slot, OnPort, Port, Opened, TunnelInv, OpenedOK
<1>8. PortOK(p)'
  BY <1>3, <1>4, <1>5 DEF PortOK, StopInv, NoEntry, Port, TunnelInv, MapsOK, Opened
<1>9. \A d \in stopped' \cap OnPort(p) : StopNoted(d)'
  BY <1>2, <1>3, <1>5, <1>6, <1>7 DEF StopNoted, Slot, Starting, OnPort, Port, Opened, TunnelInv, OpenedOK
<1>10. \A d \in Opened \ OnPort(p) : child'[d] = child[d]
  BY <1>2, <1>6 DEF Opened
<1> QED BY <1>3, <1>4, <1>7, <1>8, <1>9, <1>10, StopStep

(* A start that is through: its tunnel is published, or told to stop if    *)
(* that was asked for meanwhile.                                           *)
LEMMA DnsDoneStops == ASSUME TunnelInv, StopInv, NEW c \in Children, DnsDone(c) PROVE StopInv'
<1>0. PICK p \in Ports : p = Port(c)
  BY DEF DnsDone, Opened, TunnelInv, OpenedOK
<1>1. Starting(c) /\ child[c].phase = "dns"
  BY DEF DnsDone, Starting
<1>2. /\ c \in OnPort(p) /\ entry[p].kind = "starting" /\ entry[p].child = c
      /\ \A d \in OnPort(p) \ {c} :
             child[d].phase = "over" \/ (child[d].phase = "watched" /\ tunnels[p] # d /\ (child[d].term \/ d \in lost))
  BY <1>0, <1>1, StartingAlone
<1>3. ~child[c].term /\ (IF c \in lost THEN tunnels[p] = Nil ELSE tunnels[p] = c)
  BY <1>0, <1>1, <1>2 DEF StopInv, Slot, OnPort, Port
<1>4. stopped' = stopped /\ lost' = lost /\ \A d \in Children \ {c} : child'[d] = child[d]
  <2>1. CASE SettleReady(c)
    BY <2>1 DEF SettleReady, Watched, history, TunnelInv, OpenedOK
  <2>2. CASE SettleCancelled(c)
    <3>1. \A d \in Children \ {c} : AfterStop(p)[d] = child[d]
      BY <1>3, NilIsNoChild, StopTells
    <3> QED BY <1>0, <2>2, <3>1, StopOnlyTells DEF SettleCancelled, Watched, history
  <2> QED BY <2>1, <2>2 DEF DnsDone
<1>5. \A q \in Ports \ {p} : tunnels'[q] = tunnels[q] /\ entry'[q] = entry[q]
  BY <1>0 DEF DnsDone, SettleCancelled, SettleReady, TunnelInv, MapsOK
<1>6. \/ /\ ~entry[p].cancel
         /\ child'[c].phase = "watched" /\ ~child'[c].term /\ child'[c].port = child[c].port
         /\ tunnels'[p] = tunnels[p] /\ entry'[p] = [kind |-> "ready", child |-> c, cancel |-> FALSE]
      \/ /\ child'[c].phase = "watched" /\ (child'[c].term \/ c \in lost) /\ child'[c].port = child[c].port
         /\ tunnels'[p] = Nil /\ entry'[p] = NoEntry
  <2>1. CASE SettleReady(c) /\ ~entry[Port(c)].cancel
    BY <1>0, <1>3, <2>1 DEF SettleReady, Watched, TunnelInv, OpenedOK, MapsOK
  <2>2. CASE SettleCancelled(c)
    <3>1. (AfterStop(p)[c].term \/ c \in lost) /\ AfterStop(p)[c].port = child[c].port
      BY <1>3, StopTells
    <3>2. c \in DOMAIN AfterStop(p) /\ DOMAIN AfterStop(p)[c] = {"port", "phase", "alive", "term"}
      BY StopOnlyTells
    <3> QED BY <1>0, <2>2, <3>1, <3>2 DEF SettleCancelled, Watched, TunnelInv, MapsOK
  <2> QED BY <2>1, <2>2 DEF DnsDone
<1>7. \A d \in Children : /\ child'[d].port = child[d].port
                          /\ (child'[d].phase = "unborn") <=> (child[d].phase = "unborn")
  BY <1>1, <1>4, <1>6 DEF TunnelInv, OpenedOK
<1>8. Opened' = Opened /\ \A d \in Opened : Port(d)' = Port(d)
  BY <1>7 DEF Opened, Port
<1>9. \A d \in OnPort(p) : Slot(d)'
  <2>1. Slot(c)'
    BY <1>0, <1>3, <1>4, <1>6, NilIsNoChild DEF Slot, Port
  <2>2. ASSUME NEW d \in OnPort(p) \ {c} PROVE Slot(d)'
    <3>1. child'[d] = child[d] /\ Slot(d) /\ Port(d) = p /\ tunnels'[p] \in {tunnels[p], Nil} /\ lost' = lost
      BY <1>4, <1>6 DEF StopInv, OnPort, Opened
    <3>2. d # Nil
      BY NilIsNoChild DEF OnPort, Opened
    <3> QED BY <1>2, <3>1, <3>2 DEF Slot, Port
  <2> QED BY <2>1, <2>2
<1>10. PortOK(p)'
  <2>1. tunnels'[p] # Nil => tunnels'[p] = c
    BY <1>3, <1>6
  <2> QED BY <1>2, <1>6, <1>8, <2>1 DEF PortOK, NoEntry, Starting, OnPort, Port, Opened
<1>11. \A d \in stopped' \cap OnPort(p) : StopNoted(d)'
  BY <1>0, <1>1, <1>2, <1>3, <1>4, <1>6, <1>8, <1>9, NilIsNoChild
     DEF StopInv, StopNoted, Slot, Starting, OnPort, Port, Opened, TunnelInv, OpenedOK
<1>12. \A d \in Opened \ OnPort(p) : child'[d] = child[d]
  BY <1>2, <1>4 DEF Opened
<1> QED BY <1>4, <1>5, <1>7, <1>9, <1>10, <1>11, <1>12, StopStep

(* No start: what the slot holds is told, the slot and the entry go.       *)
LEMMA ClearedStops ==
    ASSUME TunnelInv, StopInv, NEW p \in Ports, entry[p].kind # "starting",
           child' = AfterStop(p), tunnels' = [tunnels EXCEPT ![p] = Nil], entry' = [entry EXCEPT ![p] = NoEntry],
           lost' = lost,
           stopped' \subseteq stopped \cup {c \in OnPort(p) : entry[p].kind = "ready" /\ entry[p].child = c}
    PROVE  StopInv'
<1>1. \A d \in Children : /\ child'[d].port = child[d].port /\ child'[d].phase = child[d].phase
                          /\ child'[d].alive = child[d].alive
                          /\ (child[d].term => child'[d].term)
                          /\ (d # tunnels[p] => child'[d] = child[d])
                          /\ (d = tunnels[p] => child'[d].term)
  BY StopTells
<1>2. Opened' = Opened /\ \A d \in Opened : Port(d)' = Port(d)
  BY <1>1 DEF Opened, Port
<1>3. tunnels'[p] = Nil /\ entry'[p] = NoEntry /\ \A q \in Ports \ {p} : tunnels'[q] = tunnels[q] /\ entry'[q] = entry[q]
  BY DEF TunnelInv, MapsOK
<1>4. \A d \in OnPort(p) : child[d].phase = "over" \/ child[d].phase = "watched"
  BY DEF OnPort, TunnelInv, OneStartPerPort, OpenedOK, Starting, Phases, Opened
<1>5. \A d \in OnPort(p) : child'[d].phase = "watched" => child'[d].term \/ d \in lost
  BY <1>1, <1>4 DEF OnPort, Opened, StopInv, Slot
<1>6. \A d \in OnPort(p) : Slot(d)'
  BY <1>1, <1>2, <1>3, <1>4, <1>5, NilIsNoChild DEF StopInv, Slot, OnPort, Port, Opened
<1>7. PortOK(p)'
  BY <1>3 DEF PortOK, NoEntry
<1>8. \A d \in stopped' \cap OnPort(p) : StopNoted(d)'
  BY <1>1, <1>2, <1>3, <1>4, <1>5, <1>6, NilIsNoChild DEF StopNoted, Slot, Starting, OnPort, Port, Opened
<1>9. \A d \in Opened \ OnPort(p) : child'[d] = child[d]
  BY <1>1, NilIsNoChild DEF StopInv, PortOK, OnPort, Opened
<1>10. stopped' \subseteq stopped \cup OnPort(p)
  BY DEF OnPort
<1> QED BY <1>1, <1>3, <1>6, <1>7, <1>8, <1>9, <1>10, StopStep

(* A stop that meets a start is left for it to find.                       *)
LEMMA StopStartingStops == ASSUME TunnelInv, StopInv, NEW p \in Ports, StopStarting(p) PROVE StopInv'
<1>1. /\ child' = child /\ tunnels' = tunnels /\ lost' = lost /\ entry[p].kind = "starting" /\ entry[p].child \in OnPort(p)
      /\ stopped' = stopped \cup {entry[p].child}
  BY DEF StopStarting, managerVars, StopInv, PortOK, OnPort
<1>2. /\ entry'[p].kind = "starting" /\ entry'[p].child = entry[p].child /\ entry'[p].cancel
      /\ \A q \in Ports \ {p} : entry'[q] = entry[q]
  BY DEF StopStarting, TunnelInv, MapsOK, Entries
<1>3. Opened' = Opened /\ \A d \in Opened : Port(d)' = Port(d)
  BY <1>1 DEF Opened, Port
<1>4. \A d \in OnPort(p) : Slot(d)'
  BY <1>1, <1>2, <1>3 DEF StopInv, Slot, OnPort, Port, Opened
<1>5. PortOK(p)'
  BY <1>1, <1>2, <1>3 DEF StopInv, PortOK, Starting, Port, OnPort
<1>6. ~child[entry[p].child].alive \/ Starting(entry[p].child)
  BY <1>1 DEF OnPort, StopInv, PortOK, Slot
<1>7. \A d \in stopped' \cap OnPort(p) : StopNoted(d)'
  BY <1>1, <1>2, <1>6 DEF StopInv, StopNoted, Starting, OnPort, Port
<1> QED BY <1>1, <1>2, <1>4, <1>5, <1>7, StopStep

(* A ready entry whose slot was cleared goes; the slot holds nothing.      *)
LEMMA ListStops == ASSUME TunnelInv, StopInv, NEW p \in Ports, List(p) PROVE StopInv'
<1>1. AfterStop(p) = child /\ [tunnels EXCEPT ![p] = Nil] = tunnels
  BY DEF List, GetUrl, AfterStop, TunnelInv, MapsOK
<1> QED BY <1>1, ClearedStops DEF List, managerVars, history

(* A child that ends, or is seen to have ended: whom its watcher finds in  *)
(* the slot has lost its label.                                            *)
LEMMA DeathStops ==
    ASSUME TunnelInv, StopInv, NEW c \in Children, NEW p \in Ports, p = Port(c),
           child[c].phase # "unborn", child'[c].phase \in {child[c].phase, "over"},
           child'[c].port = child[c].port, child'[c].term = child[c].term, ~child'[c].alive,
           \A d \in Children \ {c} : child'[d] = child[d],
           UNCHANGED <<entry, stopped>>,
           \/ UNCHANGED <<tunnels, lost>>
           \/ /\ child[c].phase = "watched" /\ child'[c].phase = "over"
              /\ tunnels' = [tunnels EXCEPT ![p] = Nil]
              /\ lost' = lost \cup ({tunnels[p]} \ {c, Nil})
    PROVE  StopInv'
<1>1. c \in OnPort(p) /\ Opened' = Opened /\ \A d \in Opened : Port(d)' = Port(d)
  BY DEF OnPort, Opened, Port
<1>3. /\ \A q \in Ports \ {p} : tunnels'[q] = tunnels[q] /\ entry'[q] = entry[q]
      /\ \/ tunnels'[p] = tunnels[p] /\ lost' = lost
         \/ /\ tunnels'[p] = Nil /\ child[c].phase = "watched" /\ child'[c].phase = "over"
            /\ lost' = lost \cup ({tunnels[p]} \ {c, Nil})
  BY DEF TunnelInv, MapsOK
<1>2. lost \subseteq lost' /\ lost' \subseteq lost \cup OnPort(p)
  BY DEF StopInv, PortOK, OnPort, TunnelInv, MapsOK
<1>4. \A d \in OnPort(p) : Slot(d)'
  BY <1>1, <1>2, <1>3, NilIsNoChild DEF StopInv, Slot, OnPort, Port, Opened
<1>5. PortOK(p)'
  <2>1. \A d \in Opened : child'[d].port = child[d].port /\ child'[d].phase \in {child[d].phase, "over"}
    BY DEF Opened
  <2>2. entry' = entry /\ tunnels'[p] \in {tunnels[p], Nil}
    BY <1>3
  <2>3. tunnels[p] # Nil => tunnels[p] \in Opened
    BY DEF TunnelInv, MapsOK
  <2> QED BY <1>1, <2>1, <2>2, <2>3 DEF StopInv, PortOK, Starting, Port
<1>6. \A d \in stopped' \cap OnPort(p) : StopNoted(d)'
  BY <1>1, <1>3, NilIsNoChild DEF StopInv, StopNoted, Starting, OnPort, Port, Opened
<1>7. \A d \in Children : /\ child'[d].port = child[d].port
                          /\ (child'[d].phase = "unborn") <=> (child[d].phase = "unborn")
  OBVIOUS
<1>8. \A d \in Opened \ OnPort(p) : child'[d] = child[d]
  BY <1>1 DEF Opened
<1> QED BY <1>2, <1>3, <1>4, <1>5, <1>6, <1>7, <1>8, StopStep

LEMMA StopNext == ASSUME TunnelInv, StopInv, [NextTunnels]_tunnelVars PROVE StopInv'
<1>1. ASSUME NEW r \in Requests, NEW p \in Ports, Wait(r, p) \/ TakeExisting(r, p) PROVE StopInv'
  BY <1>1, StopFrame DEF Wait, TakeExisting, managerVars, history, Opened
<1>2. ASSUME NEW r \in Requests, NEW p \in Ports, OpenFails(r, p) PROVE StopInv'
  BY <1>2, ClearedStops DEF OpenFails, Join, history
<1>3. ASSUME NEW r \in Requests, Answer(r) PROVE StopInv'
  BY <1>3, StopFrame DEF Answer, managerVars, history, Opened
<1>4. ASSUME NEW r \in Requests, HangUp(r) PROVE StopInv'
  <2>1. CASE req[r].pc = "spawn"
    <3>1. PICK c \in Opened : c = req[r].child
      BY <2>1 DEF TunnelInv, MapsOK
    <3>2. child' = [child EXCEPT ![c].phase = "over", ![c].alive = FALSE] /\ UNCHANGED <<tunnels, entry, stopped, lost>>
      BY <1>4, <2>1, <3>1 DEF HangUp
    <3>3. /\ child'[c].phase = "over" /\ ~child'[c].alive
          /\ child'[c].port = child[c].port /\ child'[c].term = child[c].term
          /\ \A d \in Children \ {c} : child'[d] = child[d]
      BY <3>1, <3>2 DEF TunnelInv, OpenedOK, Opened
    <3>4. c \in Children /\ child[c].phase # "unborn" /\ Port(c) \in Ports
      BY <3>1 DEF TunnelInv, OpenedOK, Opened
    <3> QED BY <3>2, <3>3, <3>4, DeathStops
  <2>2. CASE req[r].pc # "spawn"
    BY <1>4, <2>2, StopFrame DEF HangUp, Opened
  <2> QED BY <2>1, <2>2
<1>5. ASSUME NEW c \in Children, ChildEnds(c) \/ Reap(c) PROVE StopInv'
  <2>1. /\ child'[c].phase \in {child[c].phase, "over"} /\ ~child'[c].alive
        /\ child'[c].port = child[c].port /\ child'[c].term = child[c].term
        /\ \A d \in Children \ {c} : child'[d] = child[d]
    BY <1>5 DEF ChildEnds, Reap, TunnelInv, OpenedOK
  <2>2. /\ UNCHANGED <<entry, stopped>>
        /\ \/ UNCHANGED <<tunnels, lost>>
           \/ /\ child[c].phase = "watched" /\ child'[c].phase = "over"
              /\ tunnels' = [tunnels EXCEPT ![Port(c)] = Nil]
              /\ lost' = lost \cup ({tunnels[Port(c)]} \ {c, Nil})
    BY <1>5 DEF ChildEnds, Reap, history, TunnelInv, OpenedOK
  <2>3. CASE child[c].phase = "unborn"
    <3>1. ChildEnds(c) /\ Opened' = Opened /\ \A d \in Opened : child'[d] = child[d]
      BY <1>5, <2>1, <2>3 DEF ChildEnds, Reap, Opened, TunnelInv, OpenedOK
    <3> QED BY <3>1, StopFrame DEF ChildEnds, history
  <2>4. CASE child[c].phase # "unborn"
    <3>1. Port(c) \in Ports
      BY <2>4 DEF TunnelInv, OpenedOK, Opened
    <3> QED BY <2>1, <2>2, <2>4, <3>1, DeathStops
  <2> QED BY <2>3, <2>4
<1>6. ASSUME NEW p \in Ports, StopReady(p) PROVE StopInv'
  <2>1. entry[p].child \in OnPort(p)
    BY <1>6 DEF StopReady, StopInv, PortOK, OnPort
  <2> QED BY <1>6, <2>1, ClearedStops DEF StopReady
<1>7. CASE UNCHANGED tunnelVars
  BY <1>7, StopFrame DEF tunnelVars, managerVars, history, Opened
<1> QED BY <1>1, <1>2, <1>3, <1>4, <1>5, <1>6, <1>7, SpawnStops, ConnectedStops, FailedStops, DnsDoneStops,
           StopStartingStops, ListStops DEF NextTunnels, Advance

LEMMA StopAlways == Tunneling => []StopInv
<1>1. InitTunnels => StopInv
  BY DEF InitTunnels, StopInv, PortOK, Opened, Unopened, NoEntry
<1>2. TunnelInv /\ StopInv /\ [NextTunnels]_tunnelVars => StopInv'
  BY StopNext
<1>3. TunnelInv /\ [NextTunnels]_tunnelVars => TunnelInv'
  BY OpenKeeps, AdvanceKeeps, OthersKeep
<1> QED BY <1>1, <1>2, <1>3, TunnelInvInit, PTL DEF Tunneling

(* For any ports, requests and children: what was stopped is told to, or   *)
(* dead, and its port leads to it no more, unless a late watcher removed   *)
(* its label.                                                              *)
THEOREM StoppedStaysDown == Tunneling => []StopStops
<1>1. StopInv => StopStops
  BY DEF StopInv, StopNoted, StopStops
<1> QED BY <1>1, StopAlways, PTL

(* And a tunnel that is up is the one its port leads to, so that the       *)
(* manager can end it, or it was told to stop already; but for the one     *)
(* event that takes a label from a tunnel that is up.                      *)
THEOREM TunnelsKnown == Tunneling => []NoTunnelLost
<1>1. StopInv => NoTunnelLost
  BY DEF StopInv, Slot, NoTunnelLost
<1> QED BY <1>1, StopAlways, PTL

-----------------------------------------------------------------------------
(* Slots and entries name children of their port, and as long as no        *)
(* request is dropped in the middle of its start, the manager's set of     *)
(* children not yet connected is what its name says.                       *)
Named ==
    /\ \A p \in Ports : tunnels[p] # Nil => Port(tunnels[p]) = p
    /\ \A p \in Ports : entry[p].kind # "none" => entry[p].child \in Opened /\ Port(entry[p].child) = p

PendingOK == pending \subseteq Opened /\ (dropped \/ pending = {c \in Opened : child[c].phase = "scan"})

LEMMA NamedStep == ASSUME TunnelInv, Named, PendingOK, [NextTunnels]_tunnelVars PROVE Named'
<1>1. TunnelInv'
  BY OpenKeeps, AdvanceKeeps, OthersKeep
<1>2. \A c \in Opened : c \in Opened' /\ Port(c)' = Port(c)
  <2>1. ASSUME NEW r \in Requests, NEW p \in Ports, Open(r, p) PROVE \A c \in Opened : child'[c].port = child[c].port /\ child'[c].phase = child[c].phase
    <3>1. Cardinality(Opened) + 1 \notin Opened
      BY <2>1, FreshNumber DEF TunnelInv, Open
    <3>2. child' = [AfterStop(p) EXCEPT ![Cardinality(Opened) + 1] = [port |-> p, phase |-> "scan", alive |-> TRUE, term |-> FALSE]]
      BY <2>1 DEF Open, Spawned
    <3> QED BY <3>1, <3>2, StopOnlyTells DEF Opened
  <2>2. ASSUME NEW p \in Ports, child' = AfterStop(p) PROVE \A c \in Opened : child'[c].port = child[c].port /\ child'[c].phase = child[c].phase
    BY <2>2, StopOnlyTells DEF Opened
  <2>3. ASSUME NEW c \in Children, DnsDone(c)
        PROVE  \A d \in Opened : child'[d].port = child[d].port /\ (child'[d].phase = child[d].phase \/ child'[d].phase = "watched")
    <3>1. Port(c) \in Ports
      BY <2>3 DEF DnsDone, Opened, TunnelInv, OpenedOK
    <3>2. CASE SettleCancelled(c)
      BY <3>1, <3>2, StopOnlyTells DEF SettleCancelled, Watched, Opened
    <3>3. CASE SettleReady(c)
      BY <3>3 DEF SettleReady, Watched, Opened, TunnelInv, OpenedOK
    <3> QED BY <2>3, <3>2, <3>3 DEF DnsDone
  <2>4. ASSUME NEW c \in Children, Connected(c) \/ EndEarly(c) \/ EndInDns(c) \/ ChildEnds(c) \/ Reap(c)
        PROVE  \A d \in Opened : child'[d].port = child[d].port /\ child'[d].phase # "unborn"
    BY <2>4 DEF Connected, EndEarly, EndInDns, ChildEnds, Reap, Opened, TunnelInv, OpenedOK
  <2>5. ASSUME NEW r \in Requests, HangUp(r)
        PROVE  \A d \in Opened : child'[d].port = child[d].port /\ child'[d].phase # "unborn"
    BY <2>5 DEF HangUp, Opened, TunnelInv, OpenedOK
  <2>6. CASE UNCHANGED child
    BY <2>6 DEF Opened, Port
  <2>7. \A c \in Opened : child'[c].port = child[c].port /\ child'[c].phase # "unborn"
    BY <2>1, <2>2, <2>3, <2>4, <2>5, <2>6
       DEF NextTunnels, Advance, Wait, TakeExisting, OpenFails, Answer, StopStarting, StopReady, List, tunnelVars, managerVars, Opened
  <2> QED BY <2>7, <1>1 DEF Opened, Port, TunnelInv, OpenedOK
<1>3. \A p \in Ports : tunnels'[p] # Nil => tunnels'[p] = tunnels[p] \/ (tunnels'[p] \in Opened /\ Port(tunnels'[p]) = p)
  <2>1. ASSUME NEW c \in Children, Connected(c)
        PROVE  \A p \in Ports : tunnels'[p] # Nil => tunnels'[p] = tunnels[p] \/ (tunnels'[p] \in Opened /\ Port(tunnels'[p]) = p)
    BY <2>1 DEF Connected, TunnelInv, MapsOK, Opened
  <2> QED BY <2>1
          DEF NextTunnels, Advance, Wait, TakeExisting, Open, OpenFails, Answer, HangUp, EndEarly, EndInDns, DnsDone, SettleErr,
              SettleCancelled, SettleReady, ChildEnds, Reap, StopStarting, StopReady, List, tunnelVars, managerVars, TunnelInv, MapsOK
<1>4. \A p \in Ports : entry'[p].kind # "none" =>
          \/ entry[p].kind # "none" /\ entry'[p].child = entry[p].child
          \/ entry'[p].child \in Opened' /\ child'[entry'[p].child].port = p
  <2>1. ASSUME NEW r \in Requests, NEW p \in Ports, Open(r, p)
        PROVE  \A q \in Ports : entry'[q] = entry[q] \/ (entry'[q].child \in Opened' /\ child'[entry'[q].child].port = q)
    <3> DEFINE n == Cardinality(Opened) + 1
    <3>1. n \in Children
      BY <2>1, FreshNumber DEF TunnelInv, Open
    <3>2. /\ child' = [AfterStop(p) EXCEPT ![n] = [port |-> p, phase |-> "scan", alive |-> TRUE, term |-> FALSE]]
          /\ entry' = [entry EXCEPT ![p] = [kind |-> "starting", child |-> n, cancel |-> FALSE]]
      BY <2>1 DEF Open, Spawned
    <3> HIDE DEF n
    <3>3. n \in Opened' /\ child'[n].port = p
      BY <3>1, <3>2, StopOnlyTells DEF Opened, Port
    <3> QED BY <3>2, <3>3 DEF TunnelInv, MapsOK
  <2>2. ASSUME NEW c \in Children, DnsDone(c)
        PROVE  \A q \in Ports : \/ entry'[q] = entry[q] \/ entry'[q].kind = "none"
                                \/ (entry'[q].child \in Opened' /\ child'[entry'[q].child].port = q)
    <3>1. c \in Opened' /\ Port(c)' = Port(c)
      BY <2>2, <1>2 DEF DnsDone, Opened
    <3>2. \A q \in Ports : entry'[q] = IF q = Port(c) THEN entry'[Port(c)] ELSE entry[q]
      BY <2>2 DEF DnsDone, SettleCancelled, SettleReady, TunnelInv, MapsOK
    <3>3. Port(c) \in Ports => entry'[Port(c)].kind = "none" \/ entry'[Port(c)].child = c
      BY <2>2 DEF DnsDone, SettleCancelled, SettleReady, NoEntry, TunnelInv, MapsOK
    <3> QED BY <3>1, <3>2, <3>3 DEF Port
  <2>3. ASSUME NEW c \in Children, EndEarly(c) \/ EndInDns(c)
        PROVE  \A q \in Ports : entry'[q] = entry[q] \/ entry'[q].kind = "none"
    BY <2>3 DEF EndEarly, EndInDns, SettleErr, NoEntry, TunnelInv, MapsOK
  <2>4. ASSUME NEW p \in Ports, StopStarting(p)
        PROVE  \A q \in Ports : entry'[q].kind = entry[q].kind /\ entry'[q].child = entry[q].child
    BY <2>4 DEF StopStarting, TunnelInv, MapsOK, Entries
  <2>5. ASSUME NEW p \in Ports, entry' = [entry EXCEPT ![p] = NoEntry]
        PROVE  \A q \in Ports : entry'[q] = entry[q] \/ entry'[q].kind = "none"
    BY <2>5 DEF NoEntry, TunnelInv, MapsOK
  <2> QED BY <2>1, <2>2, <2>3, <2>4, <2>5
          DEF NextTunnels, Advance, Wait, TakeExisting, OpenFails, Answer, HangUp, Connected, ChildEnds, Reap, StopReady, List, tunnelVars, managerVars
<1> QED BY <1>1, <1>2, <1>3, <1>4 DEF Named, TunnelInv, MapsOK, Port

LEMMA PendingStep == ASSUME TunnelInv, PendingOK, [NextTunnels]_tunnelVars PROVE PendingOK'
<1>1. ASSUME NEW r \in Requests, NEW p \in Ports, Open(r, p) PROVE PendingOK'
  <2> DEFINE n == Cardinality(Opened) + 1
  <2>1. n \in Children /\ n \notin Opened
    BY <1>1, FreshNumber DEF TunnelInv, Open
  <2>2. /\ child' = [AfterStop(p) EXCEPT ![n] = [port |-> p, phase |-> "scan", alive |-> TRUE, term |-> FALSE]]
        /\ pending' = pending \cup {n} /\ dropped' = dropped
    BY <1>1 DEF Open, Spawned, history
  <2> HIDE DEF n
  <2>3. Opened' = Opened \cup {n} /\ child'[n].phase = "scan" /\ \A c \in Opened : child'[c].phase = child[c].phase
    BY <2>1, <2>2, StopOnlyTells DEF Opened
  <2> QED BY <2>2, <2>3 DEF PendingOK
<1>2. ASSUME NEW p \in Ports, child' = AfterStop(p), UNCHANGED <<pending, dropped>> PROVE PendingOK'
  <2>1. Opened' = Opened /\ \A c \in Opened : child'[c].phase = child[c].phase
    BY <1>2, StopOnlyTells DEF Opened
  <2> QED BY <1>2, <2>1 DEF PendingOK
<1>3. ASSUME NEW c \in Children, Connected(c) \/ EndEarly(c) PROVE PendingOK'
  <2>1. /\ child[c].phase = "scan" /\ pending' = pending \ {c} /\ dropped' = dropped
        /\ child'[c].phase \in {"dns", "over"} /\ \A d \in Children \ {c} : child'[d].phase = child[d].phase
    BY <1>3 DEF Connected, EndEarly, SettleErr, history, TunnelInv, OpenedOK
  <2>2. Opened' = Opened
    BY <2>1 DEF Opened
  <2> QED BY <2>1, <2>2 DEF PendingOK, Opened
<1>4. ASSUME NEW c \in Children, DnsDone(c) PROVE PendingOK'
  <2>1. UNCHANGED <<pending, dropped>> /\ child[c].phase = "dns" /\ Port(c) \in Ports
    BY <1>4 DEF DnsDone, SettleCancelled, SettleReady, history, Opened, TunnelInv, OpenedOK
  <2>2. child'[c].phase = "watched" /\ \A d \in Children \ {c} : child'[d].phase = child[d].phase
    <3>1. CASE SettleCancelled(c)
      BY <3>1, <2>1, StopOnlyTells DEF SettleCancelled, Watched
    <3>2. CASE SettleReady(c)
      BY <3>2 DEF SettleReady, Watched, TunnelInv, OpenedOK
    <3> QED BY <1>4, <3>1, <3>2 DEF DnsDone
  <2>3. Opened' = Opened
    BY <2>1, <2>2 DEF Opened
  <2> QED BY <2>1, <2>2, <2>3 DEF PendingOK, Opened
<1>5. ASSUME NEW c \in Children, EndInDns(c) \/ ChildEnds(c) \/ Reap(c) PROVE PendingOK'
  <2>1. /\ UNCHANGED <<pending, dropped>>
        /\ \A d \in Children : \/ child'[d].phase = child[d].phase
                               \/ child'[d].phase = "over" /\ child[d].phase \in {"dns", "watched"}
    BY <1>5 DEF EndInDns, SettleErr, history, ChildEnds, Reap, TunnelInv, OpenedOK
  <2>2. Opened' = Opened
    BY <2>1 DEF Opened
  <2> QED BY <2>1, <2>2 DEF PendingOK, Opened
<1>6. ASSUME NEW r \in Requests, HangUp(r) PROVE PendingOK'
  <2>1. CASE req[r].pc = "spawn"
    <3>1. dropped' = TRUE /\ pending' = pending /\ \A c \in Opened : c \in Opened'
      BY <1>6, <2>1 DEF HangUp, Opened, TunnelInv, OpenedOK
    <3> QED BY <3>1 DEF PendingOK
  <2>2. CASE req[r].pc # "spawn"
    BY <1>6, <2>2 DEF HangUp, PendingOK, Opened
  <2> QED BY <2>1, <2>2
<1>7. CASE UNCHANGED <<child, pending, dropped>>
  BY <1>7 DEF PendingOK, Opened
<1> QED BY <1>1, <1>2, <1>3, <1>4, <1>5, <1>6, <1>7
        DEF NextTunnels, Advance, Wait, TakeExisting, OpenFails, Answer, StopStarting, StopReady, List, tunnelVars, managerVars, history

(* Slots and entries keep to children of their port, also when an old      *)
(* watcher is late, and the set of children not yet connected is exact     *)
(* until a start is dropped with its request.                              *)
THEOREM TunnelTypes == Tunneling => []TunnelTypeOK
<1>1. InitTunnels => Named /\ PendingOK
  BY DEF InitTunnels, Named, PendingOK, NoEntry, Opened, Unopened
<1>2. TunnelInv /\ [NextTunnels]_tunnelVars => TunnelInv'
  BY OpenKeeps, AdvanceKeeps, OthersKeep
<1>3. TunnelInv /\ Named /\ PendingOK /\ [NextTunnels]_tunnelVars => Named' /\ PendingOK'
  BY NamedStep, PendingStep
<1>4. TunnelInv /\ Named /\ PendingOK => TunnelTypeOK
  BY DEF TunnelInv, OpenedOK, MapsOK, Named, PendingOK, TunnelTypeOK
<1> QED BY <1>1, <1>2, <1>3, <1>4, TunnelInvInit, PTL DEF Tunneling

=============================================================================
