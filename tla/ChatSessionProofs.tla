-------------------------- MODULE ChatSessionProofs --------------------------
(***************************************************************************)
(* For any senders and bounds, with the process dying at any time: races   *)
(* of sends leave no second and no unreachable CLI, a queued badge stands  *)
(* for a message that is still to be processed, and a chat whose CLI works *)
(* says so.                                                                *)
(***************************************************************************)
EXTENDS ChatSession, SequenceTheorems, FiniteSetTheorems, TLAPS

(* The steps of a call that loads the chat and starts its CLI.             *)
Starting == {"load", "loading", "joinLoad", "create", "spawn"}
Pcs == Starting \cup {"quiet", "joinStart", "require", "prepare", "write", "writeQueued", "record", "done", "failed"}
Processes == [born : BOOLEAN, alive : BOOLEAN, child : BOOLEAN, doomed : BOOLEAN, reaped : BOOLEAN, told : BOOLEAN]
Closers == [pc : {"quiet", "tasks", "kill", "killing", "drop"}, op : {"none", "stop", "end", "archive"},
            cell : 0..MaxCells, sess : 0..History]
Cancels == [pc : {"quiet", "asked", "cancelled"}, msg : Senders \cup {0}, sess : 0..MaxSessions, asked : Nat]
Lines == [kind : {"ack", "message", "result"}, msg : Senders \cup {0}]

ChatShape ==
    /\ active \in 0..MaxCells /\ session \in [Cells -> 0..History]
    /\ flights \subseteq {"starting", "loading"}
    /\ cells \in 0..MaxCells /\ sessions \in 0..MaxSessions
CallShape ==
    /\ sender \in [Senders -> [pc : Pcs, sess : 0..MaxSessions]]
    /\ closer \in Closers /\ cancel \in Cancels
    /\ closer.pc # "quiet" => closer.cell \in Cells
    /\ cancel.pc # "quiet" => cancel.sess \in Sessions /\ cancel.msg \in Senders
    /\ \A s \in Senders : sender[s].pc \in {"spawn", "prepare", "write", "writeQueued"} => sender[s].sess \in Sessions
CliShape ==
    /\ proc \in [Sessions -> Processes]
    /\ inbox \in [Sessions -> Seq(Senders)] /\ lines \in [Sessions -> Seq(Lines)] /\ busy \subseteq Sessions
ViewShape ==
    /\ state \in {"none", "idle", "working"} /\ flag \subseteq Senders /\ refs \subseteq Senders
    /\ seen \subseteq {"overlap", "ignored", "gone", "late", "cancel"}
Shape == ChatShape /\ CallShape /\ CliShape /\ ViewShape

(* One call flies at a time.                                               *)
Flies(s) == sender[s].pc \in Starting
OneFlight ==
    /\ \A s, t \in Senders : Flies(s) /\ Flies(t) => s = t
    /\ "starting" \in flights <=> \E s \in Senders : Flies(s)
    /\ "loading" \in flights <=> \E s \in Senders : At(s, "loading")

(* A process lives once, and in the order of its phases; the numbers not   *)
(* given out yet are of nothing.                                           *)
Lives ==
    /\ \A g \in Sessions :
          /\ proc[g].born => g <= sessions
          /\ proc[g].alive => proc[g].born /\ ~proc[g].reaped
          /\ proc[g].reaped => proc[g].born
          /\ proc[g].told => proc[g].reaped
    /\ busy \subseteq {g \in Sessions : proc[g].alive}
Unborn == \A s \in Senders : At(s, "spawn") => ~proc[sender[s].sess].born /\ sender[s].sess <= sessions
Fresh == active <= cells /\ \A k \in Cells : k > cells => session[k] = 0
LivesOnce == Lives /\ Unborn /\ Fresh

(* As long as closes and starts keep apart.                                *)
NoChild == \A g \in Sessions : ~proc[g].child
Apart ==
    /\ \A g \in Sessions : proc[g].child => Current = g
    /\ closer.pc # "quiet" =>
          /\ flights = {} /\ active = closer.cell /\ Current = closer.sess
          /\ closer.pc = "drop" => NoChild
    /\ \A s \in Senders :
          /\ At(s, "loading") => NoChild
          /\ At(s, "spawn") => NoChild /\ Current = sender[s].sess
KeptApart == "overlap" \notin seen => Apart

(* The last a CLI in a turn has said is that it speaks.                    *)
SpokeLast == \A g \in busy : lines[g] # <<>> => lines[g][Len(lines[g])].kind = "message"

-----------------------------------------------------------------------------
(* Types *)

LEMMA Bounds == /\ MaxSessions \in Nat /\ MaxCells \in Nat
                /\ 0 \notin Sessions /\ History \notin Sessions /\ History \in 0..History /\ 0 \in 0..History
                /\ Sessions \subseteq 0..MaxSessions /\ Sessions \subseteq 0..History /\ 0 \notin Cells
BY BoundAssumption DEF Sessions, History, Cells

LEMMA CurrentType == ASSUME ChatShape PROVE Current \in 0..History
BY Bounds DEF ChatShape, Current, Cells

LEMMA ChatStep == ASSUME Shape, [Next]_vars PROVE ChatShape'
<1> USE Bounds DEF Shape, ChatShape
<1>1. ASSUME NEW s \in Senders, Sending(s) PROVE ChatShape'
  <2>1. CASE Send(s)
    BY <2>1 DEF Send, count
  <2>2. CASE LoadChat(s)
    <3>1. CASE UNCHANGED <<chat, cells>>
      BY <2>2, <3>1 DEF LoadChat, chat
    <3>2. CASE ~UNCHANGED <<chat, cells>>
      <4>1. cells < MaxCells /\ cells' = cells + 1 /\ active' = cells + 1
        BY <2>2, <3>2 DEF LoadChat, chat
      <4>2. cells + 1 \in 0..MaxCells
        BY <4>1
      <4>3. flights' = flights \cup {"loading"} /\ session' = session /\ sessions' = sessions
        BY <2>2, <3>2 DEF LoadChat, chat
      <4> QED BY <4>1, <4>2, <4>3
    <3> QED BY <3>1, <3>2
  <2>3. CASE FinishLoad(s)
    <3>1. session' = session \/ session' = [session EXCEPT ![active] = History]
      BY <2>3 DEF FinishLoad
    <3>2. session' \in [Cells -> 0..History]
      BY <3>1
    <3> QED BY <2>3, <3>2 DEF FinishLoad, count
  <2>4. CASE CreateSession(s)
    <3>1. sessions + 1 \in Sessions \/ UNCHANGED session
      BY <2>4, BoundAssumption DEF CreateSession, Sessions
    <3> QED BY <2>4, <3>1, BoundAssumption DEF CreateSession, EndStart, Sessions
  <2>5. CASE StartFails(s) \/ Spawn(s)
    BY <2>5 DEF StartFails, Spawn, EndStart, count
  <2>6. CASE RequireLiveSession(s) \/ StoreMessage(s) \/ WriteMessage(s) \/ RecordQueuedRef(s)
    BY <2>6 DEF RequireLiveSession, StoreMessage, WriteMessage, RecordQueuedRef, chat, count
  <2> QED BY <1>1, <2>1, <2>2, <2>3, <2>4, <2>5, <2>6 DEF Sending
<1>2. ASSUME NEW s \in Senders, AskCancel(s) PROVE ChatShape'
  BY <1>2 DEF AskCancel, chat, count
<1>3. CASE Cancelling
  BY <1>3 DEF Cancelling, CliCancels, FinishCancel, chat, count
<1>4. CASE Kill \/ KillReturns
  BY <1>4 DEF Kill, KillReturns, chat, count
<1>5. CASE DropSession
  BY <1>5 DEF DropSession, count
<1>6. ASSUME NEW op \in {"stop", "end", "archive"}, Close(op) PROVE ChatShape'
  BY <1>6 DEF Close, chat
<1>7. ASSUME NEW g \in Sessions, Exiting(g) \/ Die(g) \/ Take(g) \/ FinishTurn(g) \/ Reading(g) PROVE ChatShape'
  BY <1>7 DEF Exiting, Reap, OnExit, Die, Take, FinishTurn, Reading, OnQueuedProcessed, OnMessage, OnResult, chat, count
<1>8. CASE UNCHANGED vars
  BY <1>8 DEF vars, chat, count
<1> QED BY <1>1, <1>2, <1>3, <1>4, <1>5, <1>6, <1>7, <1>8 DEF Next, Closing

(* A step of one call.                                                     *)
LEMMA SenderGoes ==
    ASSUME CallShape, NEW s \in Senders, NEW pc \in Pcs, NEW g \in 0..MaxSessions,
           sender' = [sender EXCEPT ![s] = [@ EXCEPT !.pc = pc, !.sess = g]],
           pc \in {"spawn", "prepare", "write", "writeQueued"} => g \in Sessions, UNCHANGED <<closer, cancel>>
    PROVE  CallShape'
<1>1. [sender[s] EXCEPT !.pc = pc, !.sess = g] = [pc |-> pc, sess |-> g]
  <2> DEFINE q == [sender[s] EXCEPT !.pc = pc]
  <2>1. sender[s] \in [pc : Pcs, sess : 0..MaxSessions]
    BY DEF CallShape
  <2>2. [sender[s] EXCEPT !.pc = pc, !.sess = g] = [q EXCEPT !.sess = g]
    BY <2>1
  <2>3. q \in [pc : Pcs, sess : 0..MaxSessions] /\ q.pc = pc
    BY <2>1
  <2> HIDE DEF q
  <2>4. [q EXCEPT !.sess = g] = [pc |-> q.pc, sess |-> g]
    BY <2>3
  <2> QED BY <2>2, <2>3, <2>4
<1>2. ASSUME NEW t \in Senders PROVE sender'[t] = IF t = s THEN [pc |-> pc, sess |-> g] ELSE sender[t]
  BY <1>1 DEF CallShape
<1>3. sender' \in [Senders -> [pc : Pcs, sess : 0..MaxSessions]]
  BY <1>2 DEF CallShape
<1>4. \A t \in Senders : sender'[t].pc \in {"spawn", "prepare", "write", "writeQueued"} => sender'[t].sess \in Sessions
  BY <1>2 DEF CallShape
<1> QED BY <1>3, <1>4 DEF CallShape

LEMMA SenderMoves ==
    ASSUME CallShape, NEW s \in Senders, NEW pc \in Pcs, Go(s, pc),
           pc \in {"spawn", "prepare", "write", "writeQueued"} => sender[s].sess \in Sessions, UNCHANGED <<closer, cancel>>
    PROVE  CallShape'
<1>1. sender[s] = [pc |-> sender[s].pc, sess |-> sender[s].sess] /\ sender[s].sess \in 0..MaxSessions
  BY DEF CallShape
<1>2. sender' = [sender EXCEPT ![s] = [@ EXCEPT !.pc = pc, !.sess = sender[s].sess]]
  BY <1>1 DEF Go
<1> QED BY <1>1, <1>2, SenderGoes

LEMMA SenderLands ==
    ASSUME CallShape, NEW s \in Senders, NEW joined, NEW pc \in {"create", "require"},
           sender' = Landed(s, joined, pc), UNCHANGED <<closer, cancel>>
    PROVE  CallShape'
<1>1. ASSUME NEW t \in Senders
      PROVE  /\ sender'[t] \in [pc : Pcs, sess : 0..MaxSessions] /\ sender'[t].sess = sender[t].sess
             /\ sender'[t].pc \in {pc, sender[t].pc}
  <2>1. sender[t] \in [pc : Pcs, sess : 0..MaxSessions]
    BY DEF CallShape
  <2> QED BY <2>1 DEF Landed, Pcs, Starting
<1>2. sender' \in [Senders -> [pc : Pcs, sess : 0..MaxSessions]]
  BY <1>1 DEF Landed
<1> QED BY <1>1, <1>2 DEF CallShape

LEMMA CallStep == ASSUME Shape, [Next]_vars PROVE CallShape'
<1> USE DEF Shape
<1>1. ASSUME NEW s \in Senders, Sending(s) PROVE CallShape'
  <2>1. CASE Send(s)
    BY <2>1, SenderMoves DEF Send, Pcs, Starting
  <2>2. CASE LoadChat(s)
    BY <2>2, SenderMoves DEF LoadChat, Pcs, Starting
  <2>3. CASE FinishLoad(s)
    BY <2>3, SenderLands DEF FinishLoad
  <2>4. CASE CreateSession(s)
    <3>1. CASE EndStart(s)
      BY <2>4, <3>1, SenderLands DEF CreateSession, EndStart
    <3>2. CASE ~EndStart(s)
      <4>1. sessions + 1 \in Sessions
        BY <2>4, BoundAssumption DEF CreateSession, Sessions, ChatShape
      <4> QED BY <2>4, <3>2, <4>1, SenderGoes, Bounds DEF CreateSession, Pcs, Starting
    <3> QED BY <3>1, <3>2
  <2>5. CASE StartFails(s) \/ Spawn(s)
    BY <2>5, SenderLands DEF StartFails, Spawn, EndStart
  <2>6. CASE RequireLiveSession(s)
    <3>1. CASE Spawned
      <4>1. Current \in Sessions
        BY <3>1 DEF Spawned, HasChild
      <4> QED BY <2>6, <3>1, <4>1, SenderGoes, Bounds DEF RequireLiveSession, Pcs, Starting
    <3>2. CASE ~Spawned
      BY <2>6, <3>2, SenderMoves DEF RequireLiveSession, Pcs, Starting
    <3> QED BY <3>1, <3>2
  <2>7. CASE StoreMessage(s)
    BY <2>7, SenderMoves DEF StoreMessage, Pcs, Starting, At, CallShape
  <2>8. CASE WriteMessage(s) \/ RecordQueuedRef(s)
    BY <2>8, SenderMoves DEF WriteMessage, RecordQueuedRef, Pcs, Starting
  <2> QED BY <1>1, <2>1, <2>2, <2>3, <2>4, <2>5, <2>6, <2>7, <2>8 DEF Sending
<1>2. ASSUME NEW s \in Senders, AskCancel(s) PROVE CallShape'
  <2>1. Current \in Sessions /\ cancel.asked + 1 \in Nat
    BY <1>2 DEF AskCancel, HasChild, CallShape, Cancels
  <2>2. cancel' = [pc |-> "asked", msg |-> s, sess |-> Current, asked |-> cancel.asked + 1] /\ UNCHANGED <<sender, closer>>
    BY <1>2 DEF AskCancel
  <2> QED BY <2>1, <2>2, Bounds DEF CallShape, Cancels
<1>3. CASE Cancelling
  <2>1. /\ UNCHANGED <<sender, closer>> /\ cancel.pc # "quiet"
        /\ \E pc \in {"quiet", "cancelled"} : cancel' = [cancel EXCEPT !.pc = pc]
    BY <1>3 DEF Cancelling, CliCancels, FinishCancel
  <2> QED BY <2>1 DEF CallShape, Cancels
<1>4. CASE Closing
  <2>1. UNCHANGED <<sender, cancel>>
    BY <1>4 DEF Closing, Kill, KillReturns, DropSession
  <2>2. closer' = Nobody \/ (closer.pc # "quiet" /\ \E pc \in {"killing", "drop"} : closer' = [closer EXCEPT !.pc = pc])
    BY <1>4 DEF Closing, Kill, KillReturns, DropSession
  <2>3. Nobody \in Closers /\ Nobody.pc = "quiet"
    BY Bounds DEF Nobody, Closers
  <2> QED BY <2>1, <2>2, <2>3 DEF CallShape, Closers
<1>5. ASSUME NEW op \in {"stop", "end", "archive"}, Close(op) PROVE CallShape'
  <2>1. active \in Cells /\ Current \in 0..History
    BY <1>5, Bounds, CurrentType DEF Close, ChatShape, Cells
  <2>2. UNCHANGED <<sender, cancel>>
        /\ \E pc \in {"tasks", "kill", "drop"} : closer' = [pc |-> pc, op |-> op, cell |-> active, sess |-> Current]
    BY <1>5 DEF Close
  <2> QED BY <2>1, <2>2 DEF CallShape, Closers, ChatShape
<1>6. ASSUME NEW g \in Sessions, Exiting(g) \/ Die(g) \/ Take(g) \/ FinishTurn(g) \/ Reading(g) PROVE CallShape'
  BY <1>6 DEF Exiting, Reap, OnExit, Die, Take, FinishTurn, Reading, OnQueuedProcessed, OnMessage, OnResult, calls, CallShape
<1>7. CASE UNCHANGED vars
  BY <1>7 DEF vars, calls, CallShape
<1> QED BY <1>1, <1>2, <1>3, <1>4, <1>5, <1>6, <1>7 DEF Next

(* What a sequence holds.                                                  *)
LEMMA AppendIn ==
    ASSUME NEW S, NEW q \in Seq(S), NEW e \in S
    PROVE  /\ Append(q, e) \in Seq(S) /\ In(e, Append(q, e))
           /\ \A x : In(x, q) => In(x, Append(q, e))
<1>1. /\ Append(q, e) \in Seq(S) /\ DOMAIN Append(q, e) = 1..Len(q) + 1 /\ DOMAIN q = 1..Len(q)
      /\ Len(q) \in Nat /\ \A i \in 1..Len(q) : Append(q, e)[i] = q[i]
      /\ Append(q, e)[Len(q) + 1] = e
  OBVIOUS
<1>2. Len(q) + 1 \in DOMAIN Append(q, e) /\ \A i \in DOMAIN q : i \in DOMAIN Append(q, e)
  BY <1>1
<1> QED BY <1>1, <1>2 DEF In

LEMMA ConcatIn ==
    ASSUME NEW S, NEW q \in Seq(S), NEW r \in Seq(S)
    PROVE  /\ q \o r \in Seq(S)
           /\ \A x : In(x, q) \/ In(x, r) => In(x, q \o r)
<1>1. /\ q \o r \in Seq(S) /\ Len(q \o r) = Len(q) + Len(r) /\ DOMAIN (q \o r) = 1..Len(q) + Len(r)
      /\ DOMAIN q = 1..Len(q) /\ DOMAIN r = 1..Len(r) /\ Len(q) \in Nat /\ Len(r) \in Nat
      /\ \A i \in 1..Len(q) : (q \o r)[i] = q[i]
  OBVIOUS
<1>2. ASSUME NEW i \in 1..Len(r) PROVE Len(q) + i \in DOMAIN (q \o r) /\ (q \o r)[Len(q) + i] = r[i]
  BY <1>1
<1>3. \A i \in DOMAIN q : i \in DOMAIN (q \o r)
  BY <1>1
<1> QED BY <1>1, <1>2, <1>3 DEF In

LEMMA TailIn ==
    ASSUME NEW S, NEW q \in Seq(S), q # <<>>
    PROVE  /\ Tail(q) \in Seq(S) /\ Head(q) \in S
           /\ \A x : In(x, q) => x = Head(q) \/ In(x, Tail(q))
<1>1. /\ Tail(q) \in Seq(S) /\ Head(q) \in S /\ Head(q) = q[1] /\ Len(q) \in Nat /\ DOMAIN q = 1..Len(q)
      /\ DOMAIN Tail(q) = 1..Len(q) - 1
      /\ \A i \in 1..Len(q) - 1 : Tail(q)[i] = q[i + 1]
  OBVIOUS
<1>2. ASSUME NEW x, NEW i \in DOMAIN q, q[i] = x, i # 1 PROVE In(x, Tail(q))
  <2>1. i - 1 \in DOMAIN Tail(q) /\ (i - 1) + 1 = i
    BY <1>1, <1>2
  <2>2. Tail(q)[i - 1] = x
    BY <1>1, <1>2, <2>1
  <2> QED BY <2>1, <2>2 DEF In
<1> QED BY <1>1, <1>2 DEF In

LEMMA Part ==
    ASSUME NEW S, NEW q \in Seq(S), NEW lo \in Nat \ {0}, NEW hi \in Nat, lo <= hi + 1, hi <= Len(q)
    PROVE  /\ SubSeq(q, lo, hi) \in Seq(S)
           /\ \A x, j : j \in lo..hi /\ q[j] = x => In(x, SubSeq(q, lo, hi))
<1> DEFINE p == SubSeq(q, lo, hi)
<1>1. \A j \in lo..hi : q[j] \in S
  OBVIOUS
<1>2. /\ p \in Seq(S) /\ Len(p) = IF lo <= hi THEN hi - lo + 1 ELSE 0
      /\ \A k \in 1..hi - lo + 1 : p[k] = q[lo + k - 1]
  BY <1>1, SubSeqProperties
<1> HIDE DEF p
<1>3. ASSUME NEW x, NEW j \in lo..hi, q[j] = x PROVE In(x, p)
  <2>1. j - lo + 1 \in 1..hi - lo + 1 /\ lo + (j - lo + 1) - 1 = j /\ DOMAIN p = 1..hi - lo + 1
    BY <1>2
  <2>2. p[j - lo + 1] = x
    BY <1>2, <1>3, <2>1
  <2> QED BY <2>1, <2>2 DEF In
<1> QED BY <1>2, <1>3 DEF p

LEMMA WithoutIn ==
    ASSUME NEW S, NEW q \in Seq(S), NEW m, In(m, q)
    PROVE  /\ Without(q, m) \in Seq(S)
           /\ \A x : x # m /\ In(x, q) => In(x, Without(q, m))
<1> DEFINE i == CHOOSE j \in DOMAIN q : q[j] = m
           a == SubSeq(q, 1, i - 1)
           b == SubSeq(q, i + 1, Len(q))
<1>1. i \in DOMAIN q /\ q[i] = m
  BY DEF In
<1>2. Without(q, m) = a \o b
  BY DEF Without
<1> HIDE DEF i
<1>3. Len(q) \in Nat /\ i \in 1..Len(q) /\ DOMAIN q = 1..Len(q)
  BY <1>1
<1>4. i - 1 \in Nat /\ i + 1 \in Nat \ {0} /\ i + 1 <= Len(q) + 1 /\ i - 1 <= Len(q) /\ 1 <= (i - 1) + 1
  BY <1>3
<1>5. a \in Seq(S) /\ \A x, j : j \in 1..i - 1 /\ q[j] = x => In(x, a)
  BY <1>3, <1>4, Part
<1>6. b \in Seq(S) /\ \A x, j : j \in i + 1..Len(q) /\ q[j] = x => In(x, b)
  BY <1>3, <1>4, Part
<1> HIDE DEF a, b
<1>7. ASSUME NEW x, x # m, NEW j \in DOMAIN q, q[j] = x PROVE In(x, a) \/ In(x, b)
  <2>1. j # i
    BY <1>1, <1>7
  <2>2. j \in 1..i - 1 \/ j \in i + 1..Len(q)
    BY <1>3, <2>1
  <2> QED BY <1>5, <1>6, <1>7, <2>2
<1>8. ASSUME NEW x, x # m, In(x, q) PROVE In(x, a) \/ In(x, b)
  BY <1>7, <1>8 DEF In
<1> QED BY <1>2, <1>5, <1>6, <1>8, ConcatIn

(* What a start and the waiter make of a process.                          *)
LEMMA ProcessRecords ==
    ASSUME NEW r \in Processes
    PROVE  LET p == [r EXCEPT !.born = TRUE, !.alive = TRUE, !.child = TRUE]
               q == [r EXCEPT !.child = FALSE, !.reaped = TRUE]
           IN  /\ p \in Processes /\ p.born /\ p.alive /\ p.child /\ p.reaped = r.reaped /\ p.told = r.told
               /\ q \in Processes /\ q.born = r.born /\ q.alive = r.alive /\ ~q.child /\ q.reaped /\ q.told = r.told
               /\ [r EXCEPT !.doomed = TRUE] \in Processes /\ [r EXCEPT !.child = FALSE] \in Processes
<1> DEFINE p == [r EXCEPT !.born = TRUE, !.alive = TRUE, !.child = TRUE]
           q == [r EXCEPT !.child = FALSE, !.reaped = TRUE]
<1>1. p \in Processes /\ p.born /\ p.alive /\ p.child /\ p.reaped = r.reaped /\ p.told = r.told
  BY DEF Processes
<1>2. q \in Processes /\ q.born = r.born /\ q.alive = r.alive /\ ~q.child /\ q.reaped /\ q.told = r.told
  BY DEF Processes
<1>3. [r EXCEPT !.doomed = TRUE] \in Processes /\ [r EXCEPT !.child = FALSE] \in Processes
  BY DEF Processes
<1> QED BY <1>1, <1>2, <1>3

LEMMA CliStep == ASSUME Shape, [Next]_vars PROVE CliShape'
<1> USE DEF Shape, CliShape
<1>1. ASSUME NEW s \in Senders, Sending(s) PROVE CliShape'
  <2>1. CASE Spawn(s)
    <3> DEFINE g == sender[s].sess
    <3>1. g \in Sessions
      BY <2>1 DEF Spawn, At, CallShape
    <3>2. [proc[g] EXCEPT !.born = TRUE, !.alive = TRUE, !.child = TRUE] \in Processes
      BY <3>1, ProcessRecords
    <3> QED BY <2>1, <3>1, <3>2 DEF Spawn, cliv
  <2>2. CASE WriteMessage(s)
    <3> DEFINE g == sender[s].sess
    <3>1. g \in Sessions
      BY <2>2 DEF WriteMessage, At, CallShape
    <3>2. Append(inbox[g], s) \in Seq(Senders)
      BY <3>1, AppendIn
    <3>3. inbox' = [inbox EXCEPT ![g] = Append(inbox[g], s)] \/ inbox' = inbox
      BY <2>2 DEF WriteMessage
    <3>4. inbox' \in [Sessions -> Seq(Senders)]
      BY <3>1, <3>2, <3>3
    <3> QED BY <2>2, <3>4 DEF WriteMessage
  <2>3. CASE UNCHANGED <<proc, cliv>>
    BY <2>3 DEF cliv
  <2> QED BY <1>1, <2>1, <2>2, <2>3 DEF Sending, Send, LoadChat, FinishLoad, CreateSession, StartFails, RequireLiveSession, StoreMessage, RecordQueuedRef
<1>2. ASSUME NEW s \in Senders, AskCancel(s) PROVE CliShape'
  BY <1>2 DEF AskCancel, cliv
<1>3. CASE CliCancels
  <2> DEFINE g == cancel.sess
  <2>1. g \in Sessions
    BY <1>3 DEF CliCancels, CallShape
  <2>2. CASE UNCHANGED inbox
    BY <1>3, <2>2 DEF CliCancels
  <2>3. CASE In(cancel.msg, inbox[g]) /\ inbox' = [inbox EXCEPT ![g] = Without(inbox[g], cancel.msg)]
    <3>1. Without(inbox[g], cancel.msg) \in Seq(Senders)
      BY <2>1, <2>3, WithoutIn
    <3> QED BY <1>3, <2>1, <2>3, <3>1 DEF CliCancels
  <2> QED BY <1>3, <2>2, <2>3 DEF CliCancels
<1>4. CASE FinishCancel \/ DropSession
  BY <1>4 DEF FinishCancel, DropSession, cliv
<1>5. CASE Kill \/ KillReturns
  <2> DEFINE g == closer.sess
  <2>1. \/ UNCHANGED proc
        \/ proc' = [proc EXCEPT ![g].doomed = TRUE]
        \/ proc' = [proc EXCEPT ![g].child = FALSE]
    BY <1>5 DEF Kill, KillReturns
  <2>2. ASSUME NEW p, proc' = [proc EXCEPT ![g] = p], g \in Sessions => p \in Processes PROVE proc' \in [Sessions -> Processes]
    BY <2>2
  <2>3. proc' \in [Sessions -> Processes]
    <3>1. g \in Sessions => proc[g] \in Processes
      OBVIOUS
    <3>2. g \in Sessions => [proc[g] EXCEPT !.doomed = TRUE] \in Processes /\ [proc[g] EXCEPT !.child = FALSE] \in Processes
      BY <3>1, ProcessRecords
    <3> QED BY <2>1, <2>2, <3>2
  <2> QED BY <1>5, <2>3 DEF Kill, KillReturns, cliv
<1>6. ASSUME NEW op \in {"stop", "end", "archive"}, Close(op) PROVE CliShape'
  BY <1>6 DEF Close, cliv
<1>7. ASSUME NEW g \in Sessions, Exiting(g) \/ Die(g) \/ Take(g) \/ FinishTurn(g) \/ Reading(g) PROVE CliShape'
  <2>1. CASE Reap(g)
    <3>1. [proc[g] EXCEPT !.child = FALSE, !.reaped = TRUE] \in Processes
      BY ProcessRecords
    <3> QED BY <2>1, <3>1 DEF Reap, cliv
  <2>2. CASE OnExit(g)
    BY <2>2 DEF OnExit, cliv, Processes
  <2>3. CASE Die(g)
    <3>1. <<>> \in Seq(Senders)
      OBVIOUS
    <3> QED BY <2>3, <3>1 DEF Die, Processes
  <2>4. CASE Take(g)
    <3> DEFINE m == Head(inbox[g])
    <3>1. m \in Senders /\ Tail(inbox[g]) \in Seq(Senders)
      BY <2>4, TailIn DEF Take
    <3>2. <<Line("ack", m), Line("message", m)>> \in Seq(Lines)
      BY <3>1 DEF Line, Lines
    <3>3. lines[g] \o <<Line("ack", m), Line("message", m)>> \in Seq(Lines)
      BY <3>2, ConcatIn
    <3> HIDE DEF m
    <3> QED BY <2>4, <3>1, <3>3 DEF Take, Emit, m
  <2>5. CASE FinishTurn(g)
    <3>1. <<Line("result", 0)>> \in Seq(Lines)
      BY DEF Line, Lines
    <3>2. lines[g] \o <<Line("result", 0)>> \in Seq(Lines)
      BY <3>1, ConcatIn
    <3> QED BY <2>5, <3>2 DEF FinishTurn, Emit
  <2>6. CASE Reading(g)
    <3>1. lines' = [lines EXCEPT ![g] = Tail(@)] /\ lines[g] # <<>> /\ UNCHANGED <<proc, inbox, busy>>
      BY <2>6 DEF Reading, OnQueuedProcessed, OnMessage, OnResult, Reads
    <3>2. Tail(lines[g]) \in Seq(Lines)
      BY <3>1, TailIn
    <3> QED BY <3>1, <3>2
  <2> QED BY <1>7, <2>1, <2>2, <2>3, <2>4, <2>5, <2>6 DEF Exiting
<1>8. CASE UNCHANGED vars
  BY <1>8 DEF vars, cliv
<1> QED BY <1>1, <1>2, <1>3, <1>4, <1>5, <1>6, <1>7, <1>8 DEF Next, Closing, Cancelling

LEMMA ViewStep == ASSUME Shape, [Next]_vars PROVE ViewShape'
<1> USE DEF Shape, ViewShape
<1>1. ASSUME NEW s \in Senders, Sending(s) PROVE ViewShape'
  BY <1>1 DEF Sending, Send, LoadChat, FinishLoad, CreateSession, StartFails, Spawn, RequireLiveSession, StoreMessage,
              WriteMessage, RecordQueuedRef, queue
<1>2. ASSUME NEW s \in Senders, AskCancel(s) PROVE ViewShape'
  BY <1>2 DEF AskCancel, queue
<1>3. CASE Cancelling
  BY <1>3 DEF Cancelling, CliCancels, FinishCancel, queue
<1>4. CASE Closing
  BY <1>4 DEF Closing, Kill, KillReturns, DropSession, queue
<1>5. ASSUME NEW op \in {"stop", "end", "archive"}, Close(op) PROVE ViewShape'
  BY <1>5 DEF Close, queue
<1>6. ASSUME NEW g \in Sessions, Exiting(g) \/ Die(g) \/ Take(g) \/ FinishTurn(g) PROVE ViewShape'
  BY <1>6 DEF Exiting, Reap, OnExit, Die, Take, FinishTurn, queue
<1>7. ASSUME NEW g \in Sessions, Reading(g) PROVE ViewShape'
  BY <1>7 DEF Reading, OnQueuedProcessed, OnMessage, OnResult, Reads, queue
<1>8. CASE UNCHANGED vars
  BY <1>8 DEF vars, queue
<1> QED BY <1>1, <1>2, <1>3, <1>4, <1>5, <1>6, <1>7, <1>8 DEF Next

LEMMA ShapeStep == ASSUME Shape, [Next]_vars PROVE Shape'
BY ChatStep, CallStep, CliStep, ViewStep DEF Shape

-----------------------------------------------------------------------------
(* One flight *)

LEMMA Goes ==
    ASSUME CallShape, NEW s \in Senders, NEW pc, Go(s, pc)
    PROVE  \A t \in Senders : /\ sender'[t].pc = IF t = s THEN pc ELSE sender[t].pc
                              /\ sender'[t].sess = sender[t].sess
BY DEF CallShape, Go

LEMMA Lands ==
    ASSUME CallShape, NEW s \in Senders, NEW joined, NEW pc, sender' = Landed(s, joined, pc)
    PROVE  \A t \in Senders : /\ sender'[t].pc = IF t = s \/ sender[t].pc = joined THEN pc ELSE sender[t].pc
                              /\ sender'[t].sess = sender[t].sess
BY DEF CallShape, Landed

LEMMA Creates ==
    ASSUME CallShape, NEW s \in Senders, NEW g,
           sender' = [sender EXCEPT ![s] = [@ EXCEPT !.pc = "spawn", !.sess = g]]
    PROVE  \A t \in Senders : /\ sender'[t].pc = IF t = s THEN "spawn" ELSE sender[t].pc
                              /\ sender'[t].sess = IF t = s THEN g ELSE sender[t].sess
BY DEF CallShape

LEMMA Requires ==
    ASSUME CallShape, NEW s \in Senders, RequireLiveSession(s)
    PROVE  \A t \in Senders : /\ t # s => sender'[t].pc = sender[t].pc /\ sender'[t].sess = sender[t].sess
                              /\ t = s => sender'[t].pc \in {"prepare", "done"}
BY DEF CallShape, RequireLiveSession, Go

LEMMA FlightSending == ASSUME Shape, OneFlight, NEW s \in Senders, Sending(s) PROVE OneFlight'
<1>0. CallShape
  BY DEF Shape
<1>1. CASE Send(s)
  <2>1. CASE flights' = flights \cup {"starting"} /\ Go(s, "load") /\ "starting" \notin flights
    <3>1. \A t \in Senders : ~Flies(t)
      BY <2>1 DEF OneFlight
    <3>2. \A t \in Senders : Flies(t)' <=> t = s
      BY <1>0, <2>1, <3>1, Goes DEF Flies, Starting
    <3>3. \A t \in Senders : ~At(t, "loading") /\ ~At(t, "loading")'
      BY <1>0, <2>1, <3>1, Goes DEF Flies, Starting, At
    <3> QED BY <2>1, <3>2, <3>3 DEF OneFlight
  <2>2. CASE flights' = flights /\ At(s, "quiet") /\ \E pc \in {"require", "joinStart"} : Go(s, pc)
    <3>1. \A t \in Senders : (Flies(t)' <=> Flies(t)) /\ (At(t, "loading")' <=> At(t, "loading"))
      BY <1>0, <2>2, Goes DEF Flies, Starting, At
    <3> QED BY <2>2, <3>1 DEF OneFlight
  <2> QED BY <1>1, <2>1, <2>2 DEF Send
<1>2. CASE LoadChat(s)
  <2>1. CASE flights' = flights /\ \E pc \in {"joinLoad", "create"} : Go(s, pc)
    <3>1. \A t \in Senders : (Flies(t)' <=> Flies(t)) /\ (At(t, "loading")' <=> At(t, "loading"))
      BY <1>0, <1>2, <2>1, Goes DEF LoadChat, Flies, Starting, At
    <3> QED BY <2>1, <3>1 DEF OneFlight
  <2>2. CASE flights' = flights \cup {"loading"} /\ Go(s, "loading")
    <3>1. \A t \in Senders : Flies(t)' <=> Flies(t)
      BY <1>0, <1>2, <2>2, Goes DEF LoadChat, Flies, Starting, At
    <3>2. At(s, "loading")'
      BY <1>0, <2>2, Goes DEF At
    <3> QED BY <2>2, <3>1, <3>2 DEF OneFlight
  <2> QED BY <1>2, <2>1, <2>2 DEF LoadChat, chat
<1>3. CASE FinishLoad(s)
  <2>1. sender' = Landed(s, "joinLoad", "create") /\ flights' = flights \ {"loading"} /\ At(s, "loading")
    BY <1>3 DEF FinishLoad
  <2>2. \A t \in Senders : t # s => sender[t].pc \notin Starting
    BY <2>1 DEF OneFlight, Flies, At, Starting
  <2>3. \A t \in Senders : sender'[t].pc = IF t = s THEN "create" ELSE sender[t].pc
    BY <1>0, <2>1, <2>2, Lands DEF Starting
  <2>4. \A t \in Senders : Flies(t)' <=> Flies(t)
    BY <2>1, <2>3 DEF Flies, Starting, At
  <2>5. \A t \in Senders : ~At(t, "loading")'
    BY <2>2, <2>3 DEF At, Starting
  <2> QED BY <2>1, <2>4, <2>5 DEF OneFlight
<1>4. CASE EndStart(s) /\ (At(s, "create") \/ At(s, "spawn"))
  <2>1. sender' = Landed(s, "joinStart", "require") /\ flights' = flights \ {"starting"}
    BY <1>4 DEF EndStart
  <2>2. Flies(s) /\ ~At(s, "loading")
    BY <1>4 DEF Flies, At, Starting
  <2>3. \A t \in Senders : t # s => ~Flies(t)
    BY <2>2 DEF OneFlight
  <2>4. \A t \in Senders : ~Flies(t)'
    BY <1>0, <2>1, <2>3, Lands DEF Flies, Starting
  <2>5. \A t \in Senders : ~At(t, "loading") /\ ~At(t, "loading")'
    BY <2>2, <2>3, <2>4 DEF Flies, Starting, At
  <2> QED BY <2>1, <2>4, <2>5 DEF OneFlight
<1>5. CASE CreateSession(s)
  <2>1. CASE EndStart(s)
    BY <1>4, <1>5, <2>1 DEF CreateSession
  <2>2. CASE ~EndStart(s)
    <3>1. flights' = flights /\ At(s, "create")
          /\ sender' = [sender EXCEPT ![s] = [@ EXCEPT !.pc = "spawn", !.sess = sessions + 1]]
      BY <1>5, <2>2 DEF CreateSession
    <3>2. \A t \in Senders : sender'[t].pc = IF t = s THEN "spawn" ELSE sender[t].pc
      BY <1>0, <3>1, Creates
    <3>3. \A t \in Senders : (Flies(t)' <=> Flies(t)) /\ (At(t, "loading")' <=> At(t, "loading"))
      BY <3>1, <3>2 DEF Flies, Starting, At
    <3> QED BY <3>1, <3>3 DEF OneFlight
  <2> QED BY <2>1, <2>2
<1>6. CASE StartFails(s) \/ Spawn(s)
  BY <1>4, <1>6 DEF StartFails, Spawn
<1>7. CASE RequireLiveSession(s)
  <2>1. flights' = flights /\ At(s, "require")
    BY <1>7 DEF RequireLiveSession, chat
  <2>2. \A t \in Senders : (Flies(t)' <=> Flies(t)) /\ (At(t, "loading")' <=> At(t, "loading"))
    BY <1>0, <1>7, <2>1, Requires DEF Flies, Starting, At
  <2> QED BY <2>1, <2>2 DEF OneFlight
<1>8. CASE StoreMessage(s) \/ WriteMessage(s) \/ RecordQueuedRef(s)
  <2>1. /\ flights' = flights /\ sender[s].pc \in {"prepare", "write", "writeQueued", "record"}
        /\ \E pc \in {"write", "writeQueued", "done", "record", "failed"} : Go(s, pc)
    BY <1>8 DEF StoreMessage, WriteMessage, RecordQueuedRef, chat, At
  <2>2. \A t \in Senders : (Flies(t)' <=> Flies(t)) /\ (At(t, "loading")' <=> At(t, "loading"))
    BY <1>0, <2>1, Goes DEF Flies, Starting, At
  <2> QED BY <2>1, <2>2 DEF OneFlight
<1> QED BY <1>1, <1>2, <1>3, <1>5, <1>6, <1>7, <1>8 DEF Sending

LEMMA FlightStep == ASSUME Shape, OneFlight, [Next]_vars PROVE OneFlight'
<1>1. ASSUME NEW s \in Senders, Sending(s) PROVE OneFlight'
  BY <1>1, FlightSending
<1>2. CASE UNCHANGED <<flights, sender>>
  BY <1>2 DEF OneFlight, Flies, At
<1>3. ASSUME NEW s \in Senders, AskCancel(s) PROVE OneFlight'
  BY <1>2, <1>3 DEF AskCancel, chat
<1>4. CASE Cancelling \/ Closing
  BY <1>2, <1>4 DEF Cancelling, CliCancels, FinishCancel, Closing, Kill, KillReturns, DropSession, chat
<1>5. ASSUME NEW op \in {"stop", "end", "archive"}, Close(op) PROVE OneFlight'
  BY <1>2, <1>5 DEF Close, chat
<1>6. ASSUME NEW g \in Sessions, Exiting(g) \/ Die(g) \/ Take(g) \/ FinishTurn(g) \/ Reading(g) PROVE OneFlight'
  BY <1>2, <1>6 DEF Exiting, Reap, OnExit, Die, Take, FinishTurn, Reading, OnQueuedProcessed, OnMessage, OnResult, chat, calls
<1>7. CASE UNCHANGED vars
  BY <1>2, <1>7 DEF vars, chat, calls
<1> QED BY <1>1, <1>3, <1>4, <1>5, <1>6, <1>7 DEF Next

-----------------------------------------------------------------------------
(* A process lives once *)

LEMMA LivesSame ==
    ASSUME Shape, Lives, UNCHANGED <<proc, busy>>, sessions' \in {sessions, sessions + 1}
    PROVE  Lives'
BY DEF Shape, ChatShape, Lives, Sessions

LEMMA LivesOther ==
    ASSUME Shape, Lives, NEW g, NEW r, proc' = [proc EXCEPT ![g] = r], UNCHANGED sessions,
           g \in Sessions => /\ r.born => g <= sessions
                             /\ r.alive => r.born /\ ~r.reaped
                             /\ r.reaped => r.born
                             /\ r.told => r.reaped
                             /\ g \in busy' => r.alive,
           busy' \subseteq busy \cup {g}, g \in busy' => g \in Sessions
    PROVE  Lives'
<1>1. \A h \in Sessions : proc'[h] = IF h = g THEN r ELSE proc[h]
  BY DEF Shape, CliShape
<1>2. \A h \in busy' : h \in Sessions /\ proc'[h].alive
  BY <1>1 DEF Lives
<1> QED BY <1>1, <1>2 DEF Lives

LEMMA LivesStep == ASSUME Shape, LivesOnce, [Next]_vars PROVE Lives'
<1>0. Lives /\ Unborn /\ proc \in [Sessions -> Processes]
  BY DEF LivesOnce, Shape, CliShape
<1>1. ASSUME NEW s \in Senders, Sending(s) PROVE Lives'
  <2>1. CASE Spawn(s)
    <3> DEFINE g == sender[s].sess
               r == [proc[g] EXCEPT !.born = TRUE, !.alive = TRUE, !.child = TRUE]
    <3>1. g \in Sessions /\ ~proc[g].born /\ g <= sessions /\ ~proc[g].reaped /\ ~proc[g].told
      BY <1>0, <2>1 DEF Spawn, Shape, CallShape, Unborn, Lives, At
    <3>2. proc' = [proc EXCEPT ![g] = r] /\ UNCHANGED <<sessions, busy>>
      BY <2>1 DEF Spawn, count, cliv
    <3>3. r.born /\ r.alive /\ ~r.reaped /\ ~r.told
      BY <1>0, <3>1, ProcessRecords
    <3> HIDE DEF g, r
    <3> QED BY <1>0, <3>1, <3>2, <3>3, LivesOther
  <2>2. CASE ~Spawn(s)
    <3>1. UNCHANGED <<proc, busy>> /\ sessions' \in {sessions, sessions + 1}
      BY <1>1, <2>2 DEF Sending, Send, LoadChat, FinishLoad, CreateSession, StartFails, RequireLiveSession, StoreMessage, WriteMessage,
                        RecordQueuedRef, cliv, count
    <3> QED BY <1>0, <3>1, LivesSame
  <2> QED BY <2>1, <2>2
<1>2. ASSUME UNCHANGED <<proc, busy, sessions>> PROVE Lives'
  BY <1>0, <1>2, LivesSame
<1>3. ASSUME NEW s \in Senders, AskCancel(s) PROVE Lives'
  BY <1>2, <1>3 DEF AskCancel, cliv, count
<1>4. CASE Cancelling
  BY <1>2, <1>4 DEF Cancelling, CliCancels, FinishCancel, cliv, count
<1>5. CASE Closing
  <2>1. CASE UNCHANGED proc
    BY <1>2, <1>5, <2>1 DEF Closing, Kill, KillReturns, DropSession, cliv, count
  <2>2. CASE ~UNCHANGED proc
    <3> DEFINE g == closer.sess
    <3>1. UNCHANGED <<busy, sessions>>
      BY <1>5 DEF Closing, Kill, KillReturns, DropSession, cliv, count
    <3>2. PICK r : proc' = [proc EXCEPT ![g] = r] /\ r \in {[proc[g] EXCEPT !.doomed = TRUE], [proc[g] EXCEPT !.child = FALSE]}
      BY <1>5, <2>2 DEF Closing, Kill, KillReturns, DropSession
    <3>3. g \in Sessions => r.born = proc[g].born /\ r.alive = proc[g].alive /\ r.reaped = proc[g].reaped /\ r.told = proc[g].told
      BY <1>0, <3>2 DEF Processes
    <3>4. g \in busy => g \in Sessions /\ proc[g].alive
      BY <1>0 DEF Lives
    <3> HIDE DEF g
    <3> QED BY <1>0, <3>1, <3>2, <3>3, <3>4, LivesOther DEF Lives
  <2> QED BY <2>1, <2>2
<1>6. ASSUME NEW op \in {"stop", "end", "archive"}, Close(op) PROVE Lives'
  BY <1>2, <1>6 DEF Close, cliv
<1>7. ASSUME NEW g \in Sessions, Exiting(g) \/ Die(g) \/ Take(g) \/ FinishTurn(g) \/ Reading(g) PROVE Lives'
  <2>1. CASE Reap(g)
    <3> DEFINE r == [proc[g] EXCEPT !.child = FALSE, !.reaped = TRUE]
    <3>1. r.born = proc[g].born /\ r.alive = proc[g].alive /\ r.reaped /\ r.told = proc[g].told
      BY <1>0, ProcessRecords
    <3>2. proc' = [proc EXCEPT ![g] = r] /\ UNCHANGED <<sessions, busy>> /\ proc[g].born /\ ~proc[g].alive
      BY <2>1 DEF Reap, count, cliv
    <3>3. g \notin busy
      BY <1>0, <3>2 DEF Lives
    <3> HIDE DEF r
    <3> QED BY <1>0, <3>1, <3>2, <3>3, LivesOther DEF Lives
  <2>2. CASE OnExit(g)
    <3> DEFINE r == [proc[g] EXCEPT !.told = TRUE]
    <3>1. r.born = proc[g].born /\ r.alive = proc[g].alive /\ r.reaped = proc[g].reaped /\ r.told
      BY <1>0 DEF Processes
    <3>2. proc' = [proc EXCEPT ![g] = r] /\ UNCHANGED <<sessions, busy>> /\ proc[g].reaped
      BY <2>2 DEF OnExit, count, cliv
    <3>3. g \notin busy
      BY <1>0, <3>2 DEF Lives
    <3> HIDE DEF r
    <3> QED BY <1>0, <3>1, <3>2, <3>3, LivesOther DEF Lives
  <2>3. CASE Die(g)
    <3> DEFINE r == [proc[g] EXCEPT !.alive = FALSE]
    <3>1. r.born = proc[g].born /\ ~r.alive /\ r.reaped = proc[g].reaped /\ r.told = proc[g].told
      BY <1>0 DEF Processes
    <3>2. proc' = [proc EXCEPT ![g] = r] /\ UNCHANGED sessions /\ busy' = busy \ {g}
      BY <2>3 DEF Die
    <3> HIDE DEF r
    <3> QED BY <1>0, <3>1, <3>2, LivesOther DEF Lives
  <2>4. CASE Take(g) \/ FinishTurn(g)
    <3>1. UNCHANGED <<proc, sessions>> /\ proc[g].alive /\ busy' \subseteq busy \cup {g}
      BY <2>4 DEF Take, FinishTurn, count
    <3> QED BY <1>0, <3>1 DEF Lives
  <2>5. CASE Reading(g)
    BY <1>2, <2>5 DEF Reading, OnQueuedProcessed, OnMessage, OnResult, count
  <2> QED BY <1>7, <2>1, <2>2, <2>3, <2>4, <2>5 DEF Exiting
<1>8. CASE UNCHANGED vars
  BY <1>2, <1>8 DEF vars, cliv, count
<1> QED BY <1>1, <1>3, <1>4, <1>5, <1>6, <1>7, <1>8 DEF Next

(* Only a start gives a session a process.                                 *)
LEMMA OnlySpawnBears ==
    ASSUME Shape, [Next]_vars, \A s \in Senders : ~Spawn(s), NEW h \in Sessions
    PROVE  (proc'[h].born <=> proc[h].born) /\ (proc'[h].child => proc[h].child)
<1>0. proc \in [Sessions -> Processes]
  BY DEF Shape, CliShape
<1>1. ASSUME NEW s \in Senders, Sending(s) PROVE UNCHANGED proc
  BY <1>1 DEF Sending, Send, LoadChat, FinishLoad, CreateSession, StartFails, RequireLiveSession, StoreMessage, WriteMessage,
              RecordQueuedRef
<1>2. ASSUME NEW s \in Senders, AskCancel(s) PROVE UNCHANGED proc
  BY <1>2 DEF AskCancel
<1>3. CASE Cancelling \/ DropSession
  BY <1>3 DEF Cancelling, CliCancels, FinishCancel, DropSession
<1>4. CASE Kill
  BY <1>0, <1>4 DEF Kill, Processes
<1>5. CASE KillReturns
  BY <1>0, <1>5 DEF KillReturns, Processes
<1>6. ASSUME NEW op \in {"stop", "end", "archive"}, Close(op) PROVE UNCHANGED proc
  BY <1>6 DEF Close
<1>7. ASSUME NEW g \in Sessions, Exiting(g) \/ Die(g) \/ Take(g) \/ FinishTurn(g) \/ Reading(g)
      PROVE  (proc'[h].born <=> proc[h].born) /\ (proc'[h].child => proc[h].child)
  <2>1. CASE Reap(g)
    <3> DEFINE r == [proc[g] EXCEPT !.child = FALSE, !.reaped = TRUE]
    <3>1. r.born = proc[g].born /\ ~r.child
      BY <1>0, ProcessRecords
    <3>2. proc' = [proc EXCEPT ![g] = r]
      BY <2>1 DEF Reap
    <3> HIDE DEF r
    <3> QED BY <1>0, <3>1, <3>2
  <2>2. CASE OnExit(g)
    BY <1>0, <2>2 DEF OnExit, Processes
  <2>3. CASE Die(g)
    BY <1>0, <2>3 DEF Die, Processes
  <2>4. CASE UNCHANGED proc
    BY <2>4
  <2> QED BY <1>7, <2>1, <2>2, <2>3, <2>4 DEF Exiting, Take, FinishTurn, Reading, OnQueuedProcessed, OnMessage, OnResult
<1>8. CASE UNCHANGED vars
  BY <1>8 DEF vars
<1> QED BY <1>1, <1>2, <1>3, <1>4, <1>5, <1>6, <1>7, <1>8 DEF Next, Closing

(* The end of a start leaves no call in one.                               *)
LEMMA NoneSpawns ==
    ASSUME Shape, OneFlight, NEW s \in Senders, Flies(s), EndStart(s)
    PROVE  \A t \in Senders : ~Flies(t)'
<1>1. sender' = Landed(s, "joinStart", "require")
  BY DEF EndStart
<1>2. \A t \in Senders : t # s => ~Flies(t)
  BY DEF OneFlight
<1> QED BY <1>1, <1>2, Lands DEF Shape, Flies, Starting

LEMMA EndsOrCreates ==
    ASSUME CallShape, NEW s \in Senders, EndStart(s), NEW g,
           sender' = [sender EXCEPT ![s] = [@ EXCEPT !.pc = "spawn", !.sess = g]]
    PROVE  FALSE
<1>1. sender'[s].pc = "spawn"
  BY DEF CallShape
<1>2. sender' = Landed(s, "joinStart", "require")
  BY DEF EndStart
<1>3. sender'[s].pc = "require"
  BY <1>2, Lands
<1> QED BY <1>1, <1>3

(* A call in a start that stays in it keeps its session.                   *)
LEMMA SpawnsStay ==
    ASSUME Shape, OneFlight, NEW s \in Senders, Sending(s), ~CreateSession(s), NEW t \in Senders, At(t, "spawn")'
    PROVE  At(t, "spawn") /\ sender'[t].sess = sender[t].sess
<1>0. CallShape
  BY DEF Shape
<1>1. CASE Spawn(s) \/ StartFails(s)
  <2>1. Flies(s) /\ EndStart(s)
    BY <1>1 DEF Spawn, StartFails, Flies, Starting, At
  <2> QED BY <2>1, NoneSpawns DEF Flies, Starting, At
<1>2. CASE FinishLoad(s)
  <2>1. sender' = Landed(s, "joinLoad", "create")
    BY <1>2 DEF FinishLoad
  <2> QED BY <1>0, <2>1, Lands DEF At
<1>3. CASE RequireLiveSession(s)
  BY <1>0, <1>3, Requires DEF At
<1>4. CASE \E pc \in Pcs \ {"spawn"} : Go(s, pc)
  BY <1>0, <1>4, Goes DEF At
<1> QED BY <1>1, <1>2, <1>3, <1>4 DEF Sending, Send, LoadChat, StoreMessage, WriteMessage, RecordQueuedRef, Pcs, Starting

(* A new session is the one of the only start.                             *)
LEMMA Created ==
    ASSUME Shape, OneFlight, NEW s \in Senders, CreateSession(s), ~EndStart(s)
    PROVE  /\ active # 0 /\ ~Spawned /\ At(s, "create") /\ sessions + 1 \in Sessions /\ sessions' = sessions + 1
           /\ session' = [session EXCEPT ![active] = sessions + 1] /\ flights' = flights
           /\ sender'[s].pc = "spawn" /\ sender'[s].sess = sessions + 1
           /\ \A t \in Senders : t # s => ~Flies(t)' /\ sender'[t] = sender[t]
<1>0. sender' = [sender EXCEPT ![s] = [@ EXCEPT !.pc = "spawn", !.sess = sessions + 1]] /\ CallShape
  BY DEF CreateSession, Shape
<1>1. /\ active # 0 /\ ~Spawned /\ At(s, "create") /\ sessions < MaxSessions /\ sessions' = sessions + 1
      /\ session' = [session EXCEPT ![active] = sessions + 1] /\ flights' = flights
  BY DEF CreateSession
<1>2. sessions + 1 \in Sessions
  BY <1>1, BoundAssumption DEF Sessions, Shape, ChatShape
<1>3. \A t \in Senders : t # s => ~Flies(t)
  BY <1>1 DEF OneFlight, Flies, At, Starting
<1>4. \A t \in Senders : t # s => sender'[t] = sender[t]
  BY <1>0 DEF CallShape
<1>5. sender'[s].pc = "spawn" /\ sender'[s].sess = sessions + 1
  <2> DEFINE g == sessions + 1
  <2>1. sender' = [sender EXCEPT ![s] = [@ EXCEPT !.pc = "spawn", !.sess = g]]
    BY <1>0
  <2> HIDE DEF g
  <2>2. sender'[s].pc = "spawn" /\ sender'[s].sess = g
    BY <1>0, <2>1, Creates
  <2> QED BY <2>2 DEF g
<1> QED BY <1>1, <1>2, <1>3, <1>4, <1>5 DEF Flies

LEMMA UnbornStep == ASSUME Shape, OneFlight, LivesOnce, [Next]_vars PROVE Unborn'
<1>0. Lives /\ Unborn /\ CallShape
  BY DEF LivesOnce, Shape
<1>1. ASSUME NEW s \in Senders, Sending(s) PROVE Unborn'
  <2>1. CASE CreateSession(s) /\ ~EndStart(s)
    <3>1. sessions + 1 \in Sessions /\ UNCHANGED proc
      BY <2>1, Created DEF CreateSession
    <3>2. sessions \in Nat
      BY DEF Shape, ChatShape
    <3>3. ~proc[sessions + 1].born
      BY <1>0, <3>1, <3>2 DEF Lives
    <3>4. \A t \in Senders : At(t, "spawn")' => t = s
      BY <2>1, Created DEF Flies, Starting, At
    <3>5. sessions + 1 <= sessions'
      BY <2>1, Created DEF Shape, ChatShape
    <3> QED BY <2>1, <3>1, <3>3, <3>4, <3>5, Created DEF Unborn
  <2>2. CASE (CreateSession(s) /\ EndStart(s)) \/ Spawn(s)
    <3>1. \A t \in Senders : ~Flies(t)'
      BY <2>2, NoneSpawns DEF CreateSession, Spawn, Flies, Starting, At
    <3> QED BY <3>1 DEF Unborn, Flies, Starting, At
  <2>3. CASE ~CreateSession(s) /\ ~Spawn(s)
    <3>1. UNCHANGED <<proc, sessions>>
      BY <1>1, <2>3 DEF Sending, Send, LoadChat, FinishLoad, StartFails, RequireLiveSession, StoreMessage, WriteMessage,
                        RecordQueuedRef, count
    <3>2. \A t \in Senders : At(t, "spawn")' => At(t, "spawn") /\ sender'[t].sess = sender[t].sess
      BY <1>1, <2>3, SpawnsStay
    <3> QED BY <1>0, <3>1, <3>2 DEF Unborn
  <2> QED BY <2>1, <2>2, <2>3
<1>2. ASSUME UNCHANGED <<sender, sessions>>, \A s \in Senders : ~Sending(s) PROVE Unborn'
  <2>1. \A s \in Senders : At(s, "spawn") => sender[s].sess \in Sessions
    BY <1>0 DEF CallShape, At
  <2>2. \A h \in Sessions : proc'[h].born <=> proc[h].born
    BY <1>2, OnlySpawnBears DEF Sending
  <2> QED BY <1>0, <1>2, <2>1, <2>2 DEF Unborn, At
<1>3. ASSUME \A s \in Senders : ~Sending(s) PROVE UNCHANGED <<sender, sessions>>
  <2>1. ASSUME NEW s \in Senders, AskCancel(s) PROVE UNCHANGED <<sender, sessions>>
    BY <2>1 DEF AskCancel, count
  <2>2. CASE Cancelling \/ Closing
    BY <2>2 DEF Cancelling, CliCancels, FinishCancel, Closing, Kill, KillReturns, DropSession, count
  <2>3. ASSUME NEW op \in {"stop", "end", "archive"}, Close(op) PROVE UNCHANGED <<sender, sessions>>
    BY <2>3 DEF Close
  <2>4. ASSUME NEW g \in Sessions, Exiting(g) \/ Die(g) \/ Take(g) \/ FinishTurn(g) \/ Reading(g) PROVE UNCHANGED <<sender, sessions>>
    BY <2>4 DEF Exiting, Reap, OnExit, Die, Take, FinishTurn, Reading, OnQueuedProcessed, OnMessage, OnResult, calls, count
  <2>5. CASE UNCHANGED vars
    BY <2>5 DEF vars, calls, count
  <2> QED BY <1>3, <2>1, <2>2, <2>3, <2>4, <2>5 DEF Next
<1> QED BY <1>1, <1>2, <1>3

LEMMA FreshStep == ASSUME Shape, Fresh, [Next]_vars PROVE Fresh'
<1>0. ChatShape
  BY DEF Shape
<1>1. ASSUME NEW s \in Senders, Sending(s) PROVE Fresh'
  <2>1. CASE LoadChat(s)
    <3>1. UNCHANGED session /\ (UNCHANGED <<active, cells>> \/ (cells' = cells + 1 /\ active' = cells + 1))
      BY <2>1 DEF LoadChat, chat
    <3>2. cells \in Nat /\ \A k \in Cells : k \in Int
      BY <1>0 DEF ChatShape, Cells
    <3> QED BY <3>1, <3>2 DEF Fresh
  <2>2. CASE FinishLoad(s) \/ CreateSession(s)
    <3>1. /\ UNCHANGED <<active, cells>>
          /\ session' = session \/ \E x : session' = [session EXCEPT ![active] = x]
      BY <2>2 DEF FinishLoad, CreateSession, count
    <3>2. ASSUME NEW k \in Cells, k > cells PROVE session'[k] = 0
      <4>1. k # active /\ session[k] = 0
        BY <1>0, <3>2 DEF Fresh, ChatShape, Cells
      <4> QED BY <1>0, <3>1, <4>1 DEF ChatShape
    <3> QED BY <3>1, <3>2 DEF Fresh
  <2>3. CASE UNCHANGED <<active, session, cells>>
    BY <2>3 DEF Fresh
  <2> QED BY <1>1, <2>1, <2>2, <2>3
          DEF Sending, Send, StartFails, Spawn, RequireLiveSession, StoreMessage, WriteMessage, RecordQueuedRef, chat, count
<1>2. ASSUME UNCHANGED <<active, session, cells>> PROVE Fresh'
  BY <1>2 DEF Fresh
<1>3. ASSUME NEW s \in Senders, AskCancel(s) PROVE Fresh'
  BY <1>2, <1>3 DEF AskCancel, chat, count
<1>4. CASE Cancelling \/ Kill \/ KillReturns
  BY <1>2, <1>4 DEF Cancelling, CliCancels, FinishCancel, Kill, KillReturns, chat, count
<1>5. CASE DropSession
  BY <1>0, <1>5 DEF DropSession, count, Fresh, ChatShape
<1>6. ASSUME NEW op \in {"stop", "end", "archive"}, Close(op) PROVE Fresh'
  BY <1>2, <1>6 DEF Close, chat
<1>7. ASSUME NEW g \in Sessions, Exiting(g) \/ Die(g) \/ Take(g) \/ FinishTurn(g) \/ Reading(g) PROVE Fresh'
  BY <1>2, <1>7 DEF Exiting, Reap, OnExit, Die, Take, FinishTurn, Reading, OnQueuedProcessed, OnMessage, OnResult, chat, count
<1>8. CASE UNCHANGED vars
  BY <1>2, <1>8 DEF vars, chat, count
<1> QED BY <1>1, <1>3, <1>4, <1>5, <1>6, <1>7, <1>8 DEF Next, Closing

LEMMA LivesOnceStep == ASSUME Shape, OneFlight, LivesOnce, [Next]_vars PROVE LivesOnce'
BY LivesStep, UnbornStep, FreshStep DEF LivesOnce

-----------------------------------------------------------------------------
(* Closes and starts kept apart *)

LEMMA SeenStays == ASSUME [Next]_vars PROVE seen \subseteq seen'
<1>1. ASSUME NEW s \in Senders, Sending(s) \/ AskCancel(s) PROVE seen \subseteq seen'
  BY <1>1 DEF Sending, Send, LoadChat, FinishLoad, CreateSession, StartFails, Spawn, RequireLiveSession, StoreMessage, WriteMessage,
              RecordQueuedRef, AskCancel
<1>2. CASE Cancelling \/ Closing
  BY <1>2 DEF Cancelling, CliCancels, FinishCancel, Closing, Kill, KillReturns, DropSession
<1>3. ASSUME NEW op \in {"stop", "end", "archive"}, Close(op) PROVE seen \subseteq seen'
  BY <1>3 DEF Close
<1>4. ASSUME NEW g \in Sessions, Exiting(g) \/ Die(g) \/ Take(g) \/ FinishTurn(g) \/ Reading(g) PROVE seen \subseteq seen'
  BY <1>4 DEF Exiting, Reap, OnExit, Die, Take, FinishTurn, Reading, OnQueuedProcessed, OnMessage, OnResult, Reads
<1>5. CASE UNCHANGED vars
  BY <1>5 DEF vars
<1> QED BY <1>1, <1>2, <1>3, <1>4, <1>5 DEF Next

LEMMA ApartSame ==
    ASSUME Apart, UNCHANGED <<active, session, closer>>, closer.pc # "quiet" => flights' \subseteq flights,
           \A g \in Sessions : proc'[g].child => proc[g].child,
           \A t \in Senders : /\ At(t, "loading")' => At(t, "loading")
                              /\ At(t, "spawn")' => At(t, "spawn") /\ sender'[t].sess = sender[t].sess
    PROVE  Apart'
<1>1. Current' = Current /\ (NoChild => NoChild')
  BY DEF Current, NoChild
<1> QED BY <1>1 DEF Apart

(* While a call flies, nothing closes.                                     *)
LEMMA FliesAlone == ASSUME OneFlight, Apart, NEW s \in Senders, Flies(s) PROVE closer.pc = "quiet"
BY DEF OneFlight, Apart

LEMMA ApartSending == ASSUME Shape, OneFlight, Apart, "overlap" \notin seen', NEW s \in Senders, Sending(s) PROVE Apart'
<1>0. ChatShape /\ CallShape
  BY DEF Shape
<1>1. ASSUME NEW t \in Senders, At(t, "loading")', ~LoadChat(s) PROVE At(t, "loading")
  <2>1. CASE FinishLoad(s)
    BY <1>0, <1>1, <2>1, Lands DEF FinishLoad, At
  <2>2. CASE (CreateSession(s) /\ EndStart(s)) \/ StartFails(s) \/ Spawn(s)
    <3>1. Flies(s) /\ EndStart(s)
      BY <2>2 DEF CreateSession, StartFails, Spawn, Flies, Starting, At
    <3> QED BY <1>1, <3>1, NoneSpawns DEF Flies, Starting, At
  <2>3. CASE CreateSession(s) /\ ~EndStart(s)
    <3>1. t # s /\ sender'[t] = sender[t]
      BY <1>1, <2>3, Created DEF At
    <3> QED BY <1>1, <3>1 DEF At
  <2>4. CASE RequireLiveSession(s)
    BY <1>0, <1>1, <2>4, Requires DEF At
  <2>5. CASE \E pc \in Pcs \ {"loading"} : Go(s, pc)
    BY <1>0, <1>1, <2>5, Goes DEF At
  <2> QED BY <1>1, <2>1, <2>2, <2>3, <2>4, <2>5 DEF Sending, Send, StoreMessage, WriteMessage, RecordQueuedRef, Pcs, Starting
<1>2. CASE Send(s)
  <2>1. UNCHANGED <<active, session, closer, proc>> /\ (closer.pc # "quiet" => flights' \subseteq flights) /\ ~LoadChat(s) /\ ~CreateSession(s)
    BY <1>2 DEF Send, LoadChat, CreateSession, At
  <2> QED BY <1>1, <2>1, ApartSame, SpawnsStay
<1>3. CASE LoadChat(s)
  <2>1. Flies(s) /\ closer.pc = "quiet" /\ ~CreateSession(s) /\ UNCHANGED <<closer, proc, session>>
    BY <1>3, FliesAlone DEF LoadChat, CreateSession, Flies, Starting, At, chat
  <2>2. CASE \E pc \in {"joinLoad", "create"} : Go(s, pc) /\ UNCHANGED active
    <3>1. \A t \in Senders : At(t, "loading")' => At(t, "loading")
      BY <1>0, <2>2, Goes DEF At
    <3> QED BY <2>1, <2>2, <3>1, ApartSame, SpawnsStay
  <2>3. CASE active = 0
    <3>1. NoChild
      BY <2>3, Bounds DEF Apart, Current, NoChild
    <3>2. NoChild'
      BY <2>1, <3>1 DEF NoChild
    <3>3. \A t \in Senders : ~At(t, "spawn")'
      BY <1>3, <2>1, SpawnsStay DEF LoadChat, OneFlight, Flies, Starting, At
    <3> QED BY <2>1, <3>2, <3>3 DEF Apart, NoChild
  <2> QED BY <1>3, <2>2, <2>3 DEF LoadChat, chat
<1>4. CASE FinishLoad(s)
  <2>1. At(s, "loading") /\ Flies(s) /\ UNCHANGED <<closer, proc>> /\ ~CreateSession(s)
    BY <1>4 DEF FinishLoad, CreateSession, Flies, Starting, At
  <2>2. NoChild /\ closer.pc = "quiet"
    BY <2>1, FliesAlone DEF Apart
  <2>3. NoChild'
    BY <2>1, <2>2 DEF NoChild
  <2>4. \A t \in Senders : ~At(t, "spawn")'
    BY <1>4, <2>1, SpawnsStay DEF OneFlight, Flies, Starting, At
  <2> QED BY <2>1, <2>2, <2>3, <2>4 DEF Apart, NoChild
<1>5. CASE EndStart(s) /\ (CreateSession(s) \/ StartFails(s))
  <2>1. Flies(s) /\ UNCHANGED <<active, closer, proc>>
    BY <1>5 DEF CreateSession, StartFails, Flies, Starting, At
  <2>2. UNCHANGED session
    <3>1. CASE StartFails(s)
      BY <3>1 DEF StartFails
    <3>2. CASE CreateSession(s)
      <4>1. ASSUME NEW g, sender' = [sender EXCEPT ![s] = [@ EXCEPT !.pc = "spawn", !.sess = g]] PROVE FALSE
        BY <1>0, <1>5, <4>1, EndsOrCreates
      <4>2. CASE sender' = [sender EXCEPT ![s] = [@ EXCEPT !.pc = "spawn", !.sess = sessions + 1]]
        BY <4>1, <4>2
      <4>3. CASE UNCHANGED session
        BY <4>3
      <4> QED BY <3>2, <4>2, <4>3 DEF CreateSession
    <3> QED BY <1>5, <3>1, <3>2
  <2>3. closer.pc = "quiet" /\ \A t \in Senders : ~At(t, "loading")' /\ ~At(t, "spawn")'
    BY <1>5, <2>1, FliesAlone, NoneSpawns DEF Flies, Starting, At
  <2> QED BY <2>1, <2>2, <2>3, ApartSame
<1>6. CASE CreateSession(s) /\ ~EndStart(s)
  <2>1. UNCHANGED <<active, closer, proc>> /\ Flies(s)
    BY <1>6 DEF CreateSession, Flies, Starting, At
  <2>2. NoChild
    BY <1>6, Created DEF Apart, NoChild, Spawned, HasChild
  <2>3. NoChild'
    BY <2>1, <2>2 DEF NoChild
  <2>4. Current' = sender'[s].sess
    <3>1. active \in Cells /\ session' = [session EXCEPT ![active] = sessions + 1] /\ sender'[s].sess = sessions + 1
      BY <1>0, <1>6, Created DEF ChatShape, Cells
    <3>2. session'[active] = sessions + 1
      BY <1>0, <3>1 DEF ChatShape
    <3> QED BY <2>1, <3>1, <3>2, Bounds DEF Current
  <2>5. closer.pc = "quiet"
    BY <2>1, FliesAlone
  <2>6. \A t \in Senders : At(t, "spawn")' => t = s
    BY <1>6, Created DEF Flies, Starting, At
  <2> QED BY <2>1, <2>3, <2>4, <2>5, <2>6 DEF Apart, NoChild
<1>7. CASE Spawn(s)
  <2> DEFINE g == sender[s].sess
             r == [proc[g] EXCEPT !.born = TRUE, !.alive = TRUE, !.child = TRUE]
  <2>1. Flies(s) /\ EndStart(s) /\ UNCHANGED <<active, session, closer>> /\ At(s, "spawn") /\ proc' = [proc EXCEPT ![g] = r]
    BY <1>7 DEF Spawn, Flies, Starting, At
  <2>2. NoChild /\ Current = g /\ closer.pc = "quiet" /\ Current' = Current
    BY <2>1, FliesAlone DEF Apart, Current
  <2> HIDE DEF g, r
  <2>3. \A h \in Sessions : proc'[h].child => h = g
    BY <2>1, <2>2 DEF NoChild, Shape, CliShape
  <2>4. \A t \in Senders : ~At(t, "loading")' /\ ~At(t, "spawn")'
    BY <2>1, NoneSpawns DEF Flies, Starting, At
  <2> QED BY <2>1, <2>2, <2>3, <2>4 DEF Apart
<1>8. CASE RequireLiveSession(s) \/ StoreMessage(s) \/ WriteMessage(s) \/ RecordQueuedRef(s)
  <2>1. UNCHANGED <<active, session, flights, closer, proc>>
    BY <1>8 DEF RequireLiveSession, StoreMessage, WriteMessage, RecordQueuedRef, chat
  <2>2. ~LoadChat(s) /\ ~CreateSession(s)
    BY <1>8 DEF RequireLiveSession, StoreMessage, WriteMessage, RecordQueuedRef, LoadChat, CreateSession, At
  <2> QED BY <1>1, <2>1, <2>2, ApartSame, SpawnsStay
<1> QED BY <1>2, <1>3, <1>4, <1>5, <1>6, <1>7, <1>8 DEF Sending, StartFails

LEMMA ApartStep == ASSUME Shape, OneFlight, Apart, "overlap" \notin seen', [Next]_vars PROVE Apart'
<1>1. ASSUME NEW s \in Senders, Sending(s) PROVE Apart'
  BY <1>1, ApartSending
<1>2. ASSUME UNCHANGED <<active, session, flights, sender, closer>>, \A s \in Senders : ~Spawn(s) PROVE Apart'
  BY <1>2, ApartSame, OnlySpawnBears DEF At
<1>3. ASSUME NEW s \in Senders, AskCancel(s) PROVE Apart'
  <2>1. UNCHANGED <<active, session, flights, sender, closer, proc>>
    BY <1>3 DEF AskCancel, chat
  <2> QED BY <2>1, ApartSame DEF At
<1>4. CASE Cancelling
  <2>1. UNCHANGED <<active, session, flights, sender, closer, proc>>
    BY <1>4 DEF Cancelling, CliCancels, FinishCancel, chat
  <2> QED BY <2>1, ApartSame DEF At
<1>5. CASE Closing
  <2>0. closer.pc # "quiet" /\ UNCHANGED <<flights, sender>>
    BY <1>5 DEF Closing, Kill, KillReturns, DropSession, chat
  <2>1. flights = {} /\ active = closer.cell /\ Current = closer.sess
    BY <2>0 DEF Apart
  <2>2. \A s \in Senders : ~At(s, "loading")' /\ ~At(s, "spawn")'
    BY <2>0, <2>1 DEF OneFlight, Flies, Starting, At
  <2>3. ASSUME NEW g \in Sessions, proc'[g].child PROVE proc[g].child
    <3>1. \A s \in Senders : ~Spawn(s)
      BY <2>0, <2>1 DEF OneFlight, Flies, Starting, At, Spawn
    <3> QED BY <2>3, <3>1, OnlySpawnBears
  <2>4. CASE Kill
    <3>1. UNCHANGED <<active, session>> /\ closer'.cell = closer.cell /\ closer'.sess = closer.sess
      BY <2>4 DEF Kill, chat, Shape, CallShape, Closers
    <3>2. ASSUME closer'.pc = "drop" PROVE NoChild
      <4>1. ~HasChild(closer.sess)
        BY <2>4, <3>2 DEF Kill, Shape, CallShape, Closers
      <4> QED BY <2>1, <4>1 DEF HasChild, NoChild, Apart
    <3>3. Current' = Current /\ (NoChild => NoChild')
      BY <2>3, <3>1 DEF Current, NoChild
    <3> QED BY <2>0, <2>1, <2>2, <2>3, <3>1, <3>2, <3>3 DEF Apart
  <2>5. CASE KillReturns
    <3>1. UNCHANGED <<active, session>> /\ closer'.cell = closer.cell /\ closer'.sess = closer.sess
      BY <2>5 DEF KillReturns, chat, Shape, CallShape, Closers
    <3>2. closer.sess \in Sessions => ~proc'[closer.sess].child
      BY <2>5 DEF KillReturns, Shape, CliShape, Processes
    <3>3. NoChild'
      BY <2>1, <2>3, <3>2 DEF NoChild, Apart
    <3>4. Current' = Current
      BY <3>1 DEF Current
    <3> QED BY <2>0, <2>1, <2>2, <3>1, <3>3, <3>4 DEF Apart, NoChild
  <2>6. CASE DropSession
    <3>1. closer' = Nobody /\ NoChild
      BY <2>6 DEF DropSession, Apart
    <3>2. NoChild' /\ closer'.pc = "quiet"
      BY <2>3, <3>1 DEF NoChild, Nobody
    <3> QED BY <2>2, <3>2 DEF Apart, NoChild
  <2> QED BY <1>5, <2>4, <2>5, <2>6 DEF Closing
<1>6. ASSUME NEW op \in {"stop", "end", "archive"}, Close(op) PROVE Apart'
  <2>1. UNCHANGED <<active, session, flights, sender, proc>> /\ flights = {}
    BY <1>6 DEF Close, chat
  <2>2. closer'.cell = active /\ closer'.sess = Current /\ (closer'.pc = "drop" => ~Spawned)
    BY <1>6 DEF Close
  <2>3. Current' = Current /\ (~Spawned => NoChild) /\ (NoChild => NoChild')
    BY <2>1 DEF Current, Spawned, HasChild, NoChild, Apart
  <2>4. \A s \in Senders : ~At(s, "loading")' /\ ~At(s, "spawn")'
    BY <2>1 DEF OneFlight, Flies, Starting, At
  <2> QED BY <2>1, <2>2, <2>3, <2>4 DEF Apart
<1>7. ASSUME NEW g \in Sessions, Exiting(g) \/ Die(g) \/ Take(g) \/ FinishTurn(g) \/ Reading(g) PROVE Apart'
  <2>1. UNCHANGED <<active, session, flights, sender, closer>>
    BY <1>7 DEF Exiting, Reap, OnExit, Die, Take, FinishTurn, Reading, OnQueuedProcessed, OnMessage, OnResult, chat, calls
  <2>2. ASSUME NEW s \in Senders, Spawn(s) PROVE FALSE
    <3>1. Flies(s) /\ EndStart(s)
      BY <2>2 DEF Spawn, Flies, Starting, At
    <3> QED BY <2>1, <3>1, NoneSpawns DEF Flies
  <2> QED BY <1>2, <2>1, <2>2
<1>8. CASE UNCHANGED vars
  BY <1>8, ApartSame DEF vars, chat, calls, At
<1> QED BY <1>1, <1>3, <1>4, <1>5, <1>6, <1>7, <1>8 DEF Next

LEMMA KeptApartStep == ASSUME Shape, OneFlight, KeptApart, [Next]_vars PROVE KeptApart'
BY ApartStep, SeenStays DEF KeptApart

-----------------------------------------------------------------------------
(* A CLI that works speaks last *)

LEMMA LastOfTail ==
    ASSUME NEW q \in Seq(Lines), q # <<>>, Tail(q) # <<>>
    PROVE  Tail(q)[Len(Tail(q))] = q[Len(q)]
<1>1. Len(q) \in Nat /\ Len(Tail(q)) = Len(q) - 1 /\ Tail(q) \in Seq(Lines)
  OBVIOUS
<1>2. Len(Tail(q)) # 0
  BY <1>1
<1>3. Tail(q)[Len(q) - 1] = q[Len(q) - 1 + 1]
  BY <1>1, <1>2
<1> QED BY <1>1, <1>3

LEMMA OneLine ==
    ASSUME NEW q \in Seq(Lines), q # <<>>, Tail(q) = <<>>
    PROVE  Head(q) = q[Len(q)]
<1>1. Len(q) \in Nat /\ Len(Tail(q)) = Len(q) - 1
  OBVIOUS
<1>2. Len(q) = 1
  BY <1>1
<1> QED BY <1>2

LEMMA Speaks ==
    ASSUME NEW q \in Seq(Lines), NEW m \in Senders
    PROVE  LET e == q \o <<Line("ack", m), Line("message", m)>>
           IN  e # <<>> /\ e[Len(e)].kind = "message"
<1> DEFINE r == <<Line("ack", m), Line("message", m)>>
<1>1. r \in Seq(Lines) /\ Len(r) = 2 /\ r[2].kind = "message"
  BY DEF Line, Lines
<1> HIDE DEF r
<1>2. Len(q) \in Nat /\ Len(q \o r) = Len(q) + 2
  <2>1. Len(q \o r) = Len(q) + Len(r)
    BY <1>1, ConcatProperties
  <2>2. Len(q) \in Nat
    OBVIOUS
  <2> QED BY <1>1, <2>1, <2>2
<1>3. (q \o r)[Len(q) + 2] = r[2]
  <2>1. \A i \in 1..Len(q) + Len(r) : (q \o r)[i] = IF i <= Len(q) THEN q[i] ELSE r[i - Len(q)]
    BY <1>1, ConcatProperties
  <2>2. Len(q) + 2 \in 1..Len(q) + Len(r) /\ ~(Len(q) + 2 <= Len(q)) /\ (Len(q) + 2) - Len(q) = 2
    BY <1>1, <1>2
  <2> QED BY <2>1, <2>2
<1>4. q \o r # <<>>
  BY <1>2
<1> QED BY <1>1, <1>2, <1>3, <1>4 DEF r

LEMMA SpokeStep == ASSUME Shape, SpokeLast, [Next]_vars PROVE SpokeLast'
<1>0. lines \in [Sessions -> Seq(Lines)] /\ inbox \in [Sessions -> Seq(Senders)] /\ busy \subseteq Sessions
  BY DEF Shape, CliShape
<1>1. ASSUME UNCHANGED lines, busy' \subseteq busy PROVE SpokeLast'
  BY <1>1 DEF SpokeLast
<1>2. ASSUME NEW s \in Senders, Sending(s) \/ AskCancel(s) PROVE SpokeLast'
  BY <1>1, <1>2 DEF Sending, Send, LoadChat, FinishLoad, CreateSession, StartFails, Spawn, RequireLiveSession, StoreMessage,
                    WriteMessage, RecordQueuedRef, AskCancel, cliv
<1>3. CASE Cancelling \/ Closing
  BY <1>1, <1>3 DEF Cancelling, CliCancels, FinishCancel, Closing, Kill, KillReturns, DropSession, cliv
<1>4. ASSUME NEW op \in {"stop", "end", "archive"}, Close(op) PROVE SpokeLast'
  BY <1>1, <1>4 DEF Close, cliv
<1>5. ASSUME NEW g \in Sessions, Exiting(g) \/ Die(g) PROVE SpokeLast'
  BY <1>1, <1>5 DEF Exiting, Reap, OnExit, Die, cliv
<1>6. ASSUME NEW g \in Sessions, Take(g) PROVE SpokeLast'
  <2> DEFINE m == Head(inbox[g])
             r == <<Line("ack", m), Line("message", m)>>
  <2>1. m \in Senders /\ busy' = busy \cup {g} /\ lines' = [lines EXCEPT ![g] = lines[g] \o r]
    BY <1>0, <1>6, TailIn DEF Take, Emit
  <2>2. (lines[g] \o r)[Len(lines[g] \o r)].kind = "message"
    BY <1>0, <2>1, Speaks
  <2> HIDE DEF r, m
  <2>3. \A h \in Sessions : lines'[h] = IF h = g THEN lines[g] \o r ELSE lines[h]
    BY <1>0, <2>1
  <2> QED BY <1>0, <2>1, <2>2, <2>3 DEF SpokeLast
<1>7. ASSUME NEW g \in Sessions, FinishTurn(g) PROVE SpokeLast'
  BY <1>0, <1>7 DEF FinishTurn, Emit, SpokeLast
<1>8. ASSUME NEW g \in Sessions, Reading(g) PROVE SpokeLast'
  <2>1. lines[g] # <<>> /\ lines' = [lines EXCEPT ![g] = Tail(lines[g])] /\ UNCHANGED busy
    BY <1>8 DEF Reading, OnQueuedProcessed, OnMessage, OnResult, Reads
  <2>2. \A h \in Sessions : lines'[h] = IF h = g THEN Tail(lines[g]) ELSE lines[h]
    BY <1>0, <2>1
  <2>3. Tail(lines[g]) # <<>> => Tail(lines[g])[Len(Tail(lines[g]))] = lines[g][Len(lines[g])]
    BY <1>0, <2>1, LastOfTail
  <2> QED BY <1>0, <2>1, <2>2, <2>3 DEF SpokeLast
<1>9. CASE UNCHANGED vars
  BY <1>1, <1>9 DEF vars, cliv
<1> QED BY <1>2, <1>3, <1>4, <1>5, <1>6, <1>7, <1>8, <1>9 DEF Next

(* No step makes a session that works the one of the chat.                 *)
LEMMA CurrentStays ==
    ASSUME Shape, LivesOnce, [Next]_vars, NEW g \in busy, Current' = g
    PROVE  Current = g
<1>0. Lives /\ Fresh /\ ChatShape /\ CallShape /\ g \in Sessions /\ g # 0 /\ g # History /\ proc[g].born
  BY Bounds DEF LivesOnce, Lives, Shape
<1>1. ASSUME UNCHANGED <<active, session>> PROVE Current = g
  BY <1>1 DEF Current
<1>2. ASSUME NEW s \in Senders, Sending(s) PROVE Current = g
  <2>1. CASE LoadChat(s)
    <3>1. CASE UNCHANGED chat
      BY <1>1, <3>1 DEF chat
    <3>2. CASE ~UNCHANGED chat
      <4>1. cells < MaxCells /\ active' = cells + 1 /\ UNCHANGED session
        BY <2>1, <3>2 DEF LoadChat
      <4>2. cells \in Nat /\ cells + 1 \in Cells /\ cells + 1 > cells /\ cells + 1 # 0
        BY <1>0, <4>1, BoundAssumption DEF ChatShape, Cells
      <4>3. session[cells + 1] = 0
        BY <1>0, <4>2 DEF Fresh
      <4>4. Current' = 0
        BY <4>1, <4>2, <4>3 DEF Current
      <4> QED BY <1>0, <4>4
    <3> QED BY <3>1, <3>2
  <2>2. CASE FinishLoad(s)
    <3>1. CASE UNCHANGED session
      BY <1>1, <2>2, <3>1 DEF FinishLoad
    <3>2. CASE active # 0 /\ session' = [session EXCEPT ![active] = History]
      <4>1. active \in Cells /\ UNCHANGED active
        BY <1>0, <2>2, <3>2 DEF FinishLoad, ChatShape, Cells
      <4>2. Current' = History
        BY <1>0, <3>2, <4>1 DEF Current, ChatShape
      <4> QED BY <1>0, <4>2
    <3> QED BY <2>2, <3>1, <3>2 DEF FinishLoad
  <2>3. CASE CreateSession(s)
    <3>1. CASE UNCHANGED session
      BY <1>1, <2>3, <3>1 DEF CreateSession
    <3>2. CASE active # 0 /\ session' = [session EXCEPT ![active] = sessions + 1]
      <4>1. active \in Cells /\ UNCHANGED active
        BY <1>0, <2>3, <3>2 DEF CreateSession, ChatShape, Cells
      <4>2. Current' = sessions + 1
        BY <1>0, <3>2, <4>1, Bounds DEF Current, ChatShape
      <4>3. g <= sessions /\ g \in Int /\ sessions \in Int
        BY <1>0 DEF Lives, ChatShape, Sessions
      <4> QED BY <4>2, <4>3
    <3> QED BY <2>3, <3>1, <3>2 DEF CreateSession
  <2>4. CASE UNCHANGED <<active, session>>
    BY <1>1, <2>4
  <2> QED BY <1>2, <2>1, <2>2, <2>3, <2>4
          DEF Sending, Send, StartFails, Spawn, RequireLiveSession, StoreMessage, WriteMessage, RecordQueuedRef, chat
<1>3. ASSUME NEW s \in Senders, AskCancel(s) PROVE Current = g
  BY <1>1, <1>3 DEF AskCancel, chat
<1>4. CASE Cancelling \/ Kill \/ KillReturns
  BY <1>1, <1>4 DEF Cancelling, CliCancels, FinishCancel, Kill, KillReturns, chat
<1>5. CASE DropSession
  <2>1. CASE active' = 0
    BY <1>0, <2>1 DEF Current
  <2>2. CASE UNCHANGED active /\ session' = [session EXCEPT ![closer.cell] = 0]
    BY <1>0, <2>2 DEF Current, ChatShape, Cells
  <2> QED BY <1>5, <2>1, <2>2 DEF DropSession
<1>6. ASSUME NEW op \in {"stop", "end", "archive"}, Close(op) PROVE Current = g
  BY <1>1, <1>6 DEF Close, chat
<1>7. ASSUME NEW h \in Sessions, Exiting(h) \/ Die(h) \/ Take(h) \/ FinishTurn(h) \/ Reading(h) PROVE Current = g
  BY <1>1, <1>7 DEF Exiting, Reap, OnExit, Die, Take, FinishTurn, Reading, OnQueuedProcessed, OnMessage, OnResult, chat
<1>8. CASE UNCHANGED vars
  BY <1>1, <1>8 DEF vars, chat
<1> QED BY <1>2, <1>3, <1>4, <1>5, <1>6, <1>7, <1>8 DEF Next, Closing

LEMMA BusyStep ==
    ASSUME Shape, LivesOnce, SpokeLast, BusyIsWorking, [Next]_vars
    PROVE  BusyIsWorking'
<1> SUFFICES ASSUME NEW g \in busy', Current' = g, lines'[g] = <<>>, "late" \notin seen'
             PROVE  state' = "working"
  BY DEF BusyIsWorking
<1>0. /\ lines \in [Sessions -> Seq(Lines)] /\ inbox \in [Sessions -> Seq(Senders)] /\ busy \subseteq Sessions
      /\ "late" \notin seen
  BY SeenStays DEF Shape, CliShape
<1>1. ASSUME g \in busy, lines[g] = <<>> PROVE state = "working"
  BY <1>0, <1>1, CurrentStays DEF BusyIsWorking
<1>2. ASSUME NEW s \in Senders, Sending(s) \/ AskCancel(s) PROVE state' = "working"
  <2>1. busy' = busy /\ lines' = lines /\ state' \in {state, "working"}
    BY <1>2 DEF Sending, Send, LoadChat, FinishLoad, CreateSession, StartFails, Spawn, RequireLiveSession, StoreMessage, WriteMessage,
                RecordQueuedRef, AskCancel, cliv, queue
  <2> QED BY <1>1, <2>1
<1>3. CASE Cancelling \/ Closing
  <2>1. busy' = busy /\ lines' = lines /\ state' = state
    BY <1>3 DEF Cancelling, CliCancels, FinishCancel, Closing, Kill, KillReturns, DropSession, cliv, queue
  <2> QED BY <1>1, <2>1
<1>4. ASSUME NEW op \in {"stop", "end", "archive"}, Close(op) PROVE state' = "working"
  BY <1>1, <1>4 DEF Close, cliv, queue
<1>5. ASSUME NEW h \in Sessions, Reap(h) \/ Die(h) \/ FinishTurn(h) PROVE state' = "working"
  <2>1. g \in busy /\ state' = state /\ lines'[g] = lines[g]
    BY <1>0, <1>5 DEF Reap, Die, FinishTurn, Emit, cliv, queue
  <2> QED BY <1>1, <2>1
<1>6. ASSUME NEW h \in Sessions, OnExit(h) PROVE state' = "working"
  <2>1. g \in busy /\ lines' = lines /\ proc[h].reaped
    BY <1>6 DEF OnExit, cliv
  <2>2. h # g
    BY <2>1 DEF LivesOnce, Lives
  <2>3. Current = g /\ g # 0
    BY <1>0, <2>1, CurrentStays, Bounds
  <2>4. state' = state
    BY <1>6, <2>2, <2>3 DEF OnExit, Stale, queue
  <2> QED BY <1>1, <2>1, <2>4
<1>7. ASSUME NEW h \in Sessions, Take(h) PROVE state' = "working"
  <2>1. UNCHANGED state /\ busy' = busy \cup {h} /\ lines' = [lines EXCEPT ![h] = lines[h] \o <<Line("ack", Head(inbox[h])), Line("message", Head(inbox[h]))>>]
    BY <1>7 DEF Take, Emit, queue
  <2>2. CASE g = h
    <3> DEFINE m == Head(inbox[h])
    <3>1. m \in Senders
      BY <1>0, <1>7, TailIn DEF Take
    <3>2. lines'[h] = lines[h] \o <<Line("ack", m), Line("message", m)>>
      BY <1>0, <2>1
    <3> HIDE DEF m
    <3> QED BY <1>0, <2>2, <3>1, <3>2, Speaks
  <2>3. CASE g # h
    BY <1>0, <1>1, <2>1, <2>3
  <2> QED BY <2>2, <2>3
<1>8. ASSUME NEW h \in Sessions, Reading(h) PROVE state' = "working"
  <2>1. /\ lines[h] # <<>> /\ lines' = [lines EXCEPT ![h] = Tail(lines[h])] /\ UNCHANGED <<busy, active, session>>
        /\ h = Current
    BY <1>8 DEF Reading, OnQueuedProcessed, OnMessage, OnResult, Reads, chat
  <2>2. g = h /\ g \in busy
    BY <2>1 DEF Current
  <2>3. Tail(lines[h]) = <<>>
    BY <1>0, <2>1, <2>2
  <2>4. Head(lines[h]).kind = "message"
    BY <1>0, <2>1, <2>2, <2>3, OneLine DEF SpokeLast
  <2>5. active # 0
    BY <1>0, <2>1, <2>2, Bounds DEF Current
  <2> QED BY <1>8, <2>4, <2>5 DEF Reading, OnQueuedProcessed, OnMessage, OnResult, Reads
<1>9. CASE UNCHANGED vars
  BY <1>1, <1>9 DEF vars, cliv, queue
<1> QED BY <1>2, <1>3, <1>4, <1>5, <1>6, <1>7, <1>8, <1>9 DEF Next, Exiting

-----------------------------------------------------------------------------
(* What a badge stands for *)

Written(m) == At(m, "writeQueued") \/ At(m, "failed")
Withdrawn(m) == cancel.pc = "cancelled" /\ cancel.msg = m
Held(m) == \E g \in Sessions : In(m, inbox[g]) \/ In(Line("ack", m), lines[g])
Untold == \E g \in Sessions : proc[g].born /\ ~proc[g].alive /\ ~proc[g].told
Stands(m) == "ignored" \in seen \/ Written(m) \/ Withdrawn(m) \/ Held(m) \/ Untold
LEMMA BadgeStands == BadgeHonest <=> \A m \in flag : Stands(m)
BY DEF BadgeHonest, Stands, Written, Withdrawn, Held, Untold
LEMMA BadgeStandsNext == BadgeHonest' <=> \A m \in flag' : Stands(m)'
BY DEF BadgeHonest, Stands, Written, Withdrawn, Held, Untold

(* A dead CLI stays dead, and only on_exit tells.                          *)
LEMMA UntoldStays ==
    ASSUME Shape, LivesOnce, [Next]_vars, Untold, \A g \in Sessions : ~OnExit(g)
    PROVE  Untold'
<1>0. Lives /\ Unborn /\ proc \in [Sessions -> Processes]
  BY DEF LivesOnce, Shape, CliShape
<1> PICK h \in Sessions : proc[h].born /\ ~proc[h].alive /\ ~proc[h].told
  BY DEF Untold
<1> SUFFICES proc'[h].born /\ ~proc'[h].alive /\ ~proc'[h].told
  BY DEF Untold
<1>1. ASSUME UNCHANGED proc PROVE proc'[h].born /\ ~proc'[h].alive /\ ~proc'[h].told
  BY <1>1
<1>2. ASSUME NEW s \in Senders, Sending(s) PROVE proc'[h].born /\ ~proc'[h].alive /\ ~proc'[h].told
  <2>1. CASE Spawn(s)
    <3>1. h # sender[s].sess
      BY <1>0, <2>1 DEF Spawn, Unborn
    <3> QED BY <1>0, <2>1, <3>1 DEF Spawn
  <2>2. CASE UNCHANGED proc
    BY <2>2
  <2> QED BY <1>2, <2>1, <2>2 DEF Sending, Send, LoadChat, FinishLoad, CreateSession, StartFails, RequireLiveSession, StoreMessage,
                                  WriteMessage, RecordQueuedRef
<1>3. ASSUME NEW s \in Senders, AskCancel(s) PROVE UNCHANGED proc
  BY <1>3 DEF AskCancel
<1>4. CASE Cancelling \/ DropSession
  BY <1>4 DEF Cancelling, CliCancels, FinishCancel, DropSession
<1>5. CASE Kill
  BY <1>0, <1>5 DEF Kill, Processes
<1>6. CASE KillReturns
  BY <1>0, <1>6 DEF KillReturns, Processes
<1>7. ASSUME NEW op \in {"stop", "end", "archive"}, Close(op) PROVE UNCHANGED proc
  BY <1>7 DEF Close
<1>8. ASSUME NEW g \in Sessions, Exiting(g) \/ Die(g) \/ Take(g) \/ FinishTurn(g) \/ Reading(g)
      PROVE  proc'[h].born /\ ~proc'[h].alive /\ ~proc'[h].told
  <2>1. CASE Reap(g)
    <3> DEFINE r == [proc[g] EXCEPT !.child = FALSE, !.reaped = TRUE]
    <3>1. r.born = proc[g].born /\ r.alive = proc[g].alive /\ r.told = proc[g].told
      BY <1>0, ProcessRecords
    <3>2. proc' = [proc EXCEPT ![g] = r]
      BY <2>1 DEF Reap
    <3> HIDE DEF r
    <3> QED BY <1>0, <3>1, <3>2
  <2>2. CASE Die(g)
    BY <1>0, <2>2 DEF Die, Processes
  <2>3. CASE UNCHANGED proc
    BY <2>3
  <2> QED BY <1>8, <2>1, <2>2, <2>3 DEF Exiting, Take, FinishTurn, Reading, OnQueuedProcessed, OnMessage, OnResult
<1>9. CASE UNCHANGED vars
  BY <1>9 DEF vars
<1> QED BY <1>1, <1>2, <1>3, <1>4, <1>5, <1>6, <1>7, <1>8, <1>9 DEF Next, Closing

(* What the CLI holds goes to the lines, not away.                         *)
LEMMA HeldStays ==
    ASSUME Shape, NEW m \in Senders, Held(m),
           \A g \in Sessions : /\ In(m, inbox[g]) => In(m, inbox'[g]) \/ In(Line("ack", m), lines'[g])
                               /\ In(Line("ack", m), lines[g]) => In(Line("ack", m), lines'[g])
    PROVE  Held(m)'
BY DEF Held

(* A call on the way keeps a message that is being written, or writes it.  *)
LEMMA WrittenStays ==
    ASSUME Shape, NEW s \in Senders, Sending(s), NEW m \in Senders, Written(m)
    PROVE  Written(m)' \/ Held(m)'
<1>0. CallShape /\ CliShape
  BY DEF Shape
<1>1. CASE s = m
  <2>1. WriteMessage(s) /\ At(s, "writeQueued")
    BY <1>1 DEF Sending, Send, LoadChat, FinishLoad, CreateSession, StartFails, Spawn, RequireLiveSession, StoreMessage,
                WriteMessage, RecordQueuedRef, Written, At
  <2> DEFINE g == sender[s].sess
  <2>2. g \in Sessions
    BY <1>0, <2>1 DEF CallShape, At
  <2>3. CASE proc[g].child
    <3>1. inbox' = [inbox EXCEPT ![g] = Append(inbox[g], s)]
      BY <2>1, <2>3 DEF WriteMessage
    <3>2. In(s, Append(inbox[g], s))
      BY <1>0, <2>2, AppendIn DEF CliShape
    <3>3. In(s, inbox'[g])
      BY <1>0, <2>2, <3>1, <3>2 DEF CliShape
    <3> QED BY <1>1, <2>2, <3>3 DEF Held
  <2>4. CASE ~proc[g].child
    <3>1. Go(s, "failed")
      BY <2>1, <2>4 DEF WriteMessage
    <3>2. sender'[s].pc = "failed"
      BY <1>0, <3>1, Goes
    <3> QED BY <1>1, <3>2 DEF Written, At
  <2> QED BY <2>3, <2>4
<1>2. CASE s # m
  <2>1. ASSUME sender'[m].pc = sender[m].pc PROVE Written(m)'
    BY <2>1 DEF Written, At
  <2>2. CASE \E pc \in Pcs : Go(s, pc)
    BY <1>0, <1>2, <2>1, <2>2, Goes
  <2>3. CASE sender' = Landed(s, "joinLoad", "create") \/ sender' = Landed(s, "joinStart", "require")
    BY <1>0, <1>2, <2>1, <2>3, Lands DEF Written, At
  <2>4. CASE CreateSession(s) /\ ~EndStart(s)
    <3>1. sender'[m] = sender[m]
      BY <1>0, <1>2, <2>4 DEF CreateSession, CallShape
    <3> QED BY <2>1, <3>1
  <2>5. CASE RequireLiveSession(s)
    BY <1>0, <1>2, <2>1, <2>5, Requires
  <2> QED BY <2>2, <2>3, <2>4, <2>5
          DEF Sending, Send, LoadChat, FinishLoad, CreateSession, StartFails, Spawn, StoreMessage, WriteMessage,
              RecordQueuedRef, EndStart, Pcs, Starting
<1> QED BY <1>1, <1>2

LEMMA BadgeSending ==
    ASSUME Shape, LivesOnce, BadgeHonest, [Next]_vars, \A g \in Sessions : ~OnExit(g),
           NEW s \in Senders, Sending(s), NEW m \in flag'
    PROVE  Stands(m)'
<1>0. CallShape /\ ViewShape /\ CliShape /\ m \in Senders
  BY ViewStep DEF Shape, ViewShape
<1>1. CASE m \notin flag
  <2>1. StoreMessage(s) /\ m = s /\ state = "working"
    BY <1>1 DEF Sending, Send, LoadChat, FinishLoad, CreateSession, StartFails, Spawn, RequireLiveSession, StoreMessage,
                WriteMessage, RecordQueuedRef, queue
  <2>2. sender'[s].pc = "writeQueued"
    BY <1>0, <2>1, Goes DEF StoreMessage
  <2> QED BY <2>1, <2>2 DEF Stands, Written, At
<1>2. CASE "ignored" \in seen
  BY <1>2, SeenStays DEF Stands
<1>3. CASE Untold
  BY <1>3, UntoldStays DEF Stands
<1>4. CASE Withdrawn(m)
  <2>1. cancel' = cancel
    BY DEF Sending, Send, LoadChat, FinishLoad, CreateSession, StartFails, Spawn, RequireLiveSession, StoreMessage, WriteMessage,
           RecordQueuedRef
  <2> QED BY <1>4, <2>1 DEF Stands, Withdrawn
<1>5. CASE Held(m)
  <2>1. lines' = lines
    BY DEF Sending, Send, LoadChat, FinishLoad, CreateSession, StartFails, Spawn, RequireLiveSession, StoreMessage, WriteMessage,
           RecordQueuedRef, cliv
  <2>2. ASSUME NEW g \in Sessions, In(m, inbox[g]) PROVE In(m, inbox'[g])
    <3>1. CASE WriteMessage(s)
      <4>1. inbox' = inbox \/ inbox' = [inbox EXCEPT ![sender[s].sess] = Append(inbox[sender[s].sess], s)]
        BY <3>1 DEF WriteMessage
      <4>2. In(m, Append(inbox[g], s))
        BY <1>0, <2>2, AppendIn DEF CliShape
      <4>3. inbox'[g] = inbox[g] \/ inbox'[g] = Append(inbox[g], s)
        BY <1>0, <4>1 DEF CliShape
      <4> QED BY <2>2, <4>2, <4>3
    <3>2. CASE ~WriteMessage(s)
      BY <2>2, <3>2 DEF Sending, Send, LoadChat, FinishLoad, CreateSession, StartFails, Spawn, RequireLiveSession, StoreMessage,
                        RecordQueuedRef, cliv
    <3> QED BY <3>1, <3>2
  <2> QED BY <1>0, <1>5, <2>1, <2>2, HeldStays DEF Stands
<1>6. CASE Written(m)
  BY <1>0, <1>6, WrittenStays DEF Stands
<1> QED BY <1>1, <1>2, <1>3, <1>4, <1>5, <1>6, BadgeStands DEF Stands

LEMMA BadgeStep == ASSUME Shape, LivesOnce, BadgeHonest, [Next]_vars PROVE BadgeHonest'
<1>1. ASSUME NEW g \in Sessions, OnExit(g) PROVE BadgeHonest'
  <2>1. CASE Stale(g)
    <3>1. "ignored" \in seen'
      BY <1>1, <2>1 DEF OnExit
    <3> QED BY <3>1, BadgeStandsNext DEF Stands
  <2>2. CASE ~Stale(g)
    <3>1. flag' = {}
      BY <1>1, <2>2 DEF OnExit
    <3> QED BY <3>1, BadgeStandsNext
  <2> QED BY <2>1, <2>2
<1>2. ASSUME \A g \in Sessions : ~OnExit(g), NEW m \in flag' PROVE Stands(m)'
  <2>0. CallShape /\ CliShape /\ m \in Senders /\ (Untold => Untold') /\ (m \in flag => Stands(m)) /\ ("ignored" \in seen => "ignored" \in seen')
    BY <1>2, ViewStep, UntoldStays, BadgeStands, SeenStays DEF Shape, ViewShape
  <2>1. ASSUME NEW s \in Senders, Sending(s) PROVE Stands(m)'
    BY <1>2, <2>1, BadgeSending
  <2>2. ASSUME m \in flag, UNCHANGED <<sender, inbox, lines>>, Withdrawn(m) => Withdrawn(m)' PROVE Stands(m)'
    BY <2>0, <2>2 DEF Stands, Written, Held, At
  <2>3. ASSUME NEW s \in Senders, AskCancel(s) PROVE Stands(m)'
    BY <2>2, <2>3 DEF AskCancel, queue, cliv, Withdrawn
  <2>4. CASE CliCancels
    <3> DEFINE g == cancel.sess
    <3>1. ~Withdrawn(m) /\ m \in flag /\ UNCHANGED <<sender, lines>> /\ g \in Sessions
      BY <2>0, <2>4 DEF CliCancels, Withdrawn, queue, CallShape
    <3>2. CASE UNCHANGED inbox
      BY <2>2, <3>1, <3>2
    <3>3. CASE /\ In(cancel.msg, inbox[g]) /\ inbox' = [inbox EXCEPT ![g] = Without(inbox[g], cancel.msg)]
               /\ cancel' = [cancel EXCEPT !.pc = "cancelled"]
      <4>1. CASE m = cancel.msg
        <5>1. Withdrawn(m)'
          BY <2>0, <3>3, <4>1 DEF Withdrawn, CallShape, Cancels
        <5> QED BY <5>1 DEF Stands
      <4>2. CASE m # cancel.msg
        <5>1. ASSUME NEW h \in Sessions, In(m, inbox[h]) PROVE In(m, inbox'[h])
          <6>1. h = g => In(m, Without(inbox[g], cancel.msg))
            BY <2>0, <3>3, <4>2, <5>1, WithoutIn DEF CliShape
          <6>2. inbox'[h] = IF h = g THEN Without(inbox[g], cancel.msg) ELSE inbox[h]
            BY <2>0, <3>3 DEF CliShape
          <6> QED BY <5>1, <6>1, <6>2
        <5>2. Held(m) => Held(m)'
          BY <2>0, <3>1, <5>1, HeldStays
        <5> QED BY <2>0, <3>1, <5>2 DEF Stands, Written, At
      <4> QED BY <4>1, <4>2
    <3> QED BY <2>4, <3>2, <3>3 DEF CliCancels
  <2>5. CASE FinishCancel
    BY <2>2, <2>5 DEF FinishCancel, cliv, Withdrawn
  <2>6. CASE Closing
    <3>1. m \in flag /\ UNCHANGED <<sender, inbox, lines, cancel>>
      BY <2>6 DEF Closing, Kill, KillReturns, DropSession, queue, cliv
    <3> QED BY <2>2, <3>1 DEF Withdrawn
  <2>7. ASSUME NEW op \in {"stop", "end", "archive"}, Close(op) PROVE Stands(m)'
    BY <2>2, <2>7 DEF Close, queue, cliv, Withdrawn
  <2>8. ASSUME NEW g \in Sessions, Die(g) PROVE Stands(m)'
    <3>1. proc'[g].born /\ ~proc'[g].alive /\ ~proc'[g].told
      BY <2>0, <2>8 DEF Die, CliShape, Processes, LivesOnce, Lives
    <3> QED BY <3>1 DEF Stands, Untold
  <2>9. ASSUME NEW g \in Sessions, Reap(g) PROVE Stands(m)'
    BY <2>2, <2>9 DEF Reap, queue, cliv, calls, Withdrawn
  <2>10. ASSUME NEW g \in Sessions, Take(g) PROVE Stands(m)'
    <3> DEFINE h == Head(inbox[g])
               r == <<Line("ack", h), Line("message", h)>>
    <3>1. /\ inbox[g] # <<>> /\ inbox' = [inbox EXCEPT ![g] = Tail(inbox[g])]
          /\ lines' = [lines EXCEPT ![g] = lines[g] \o r] /\ m \in flag /\ UNCHANGED calls
      BY <2>10 DEF Take, Emit, queue
    <3>2. h \in Senders /\ (In(m, inbox[g]) => m = h \/ In(m, Tail(inbox[g])))
      BY <2>0, <3>1, TailIn DEF CliShape
    <3>3. r \in Seq(Lines) /\ In(Line("ack", h), r)
      BY <3>2 DEF Line, Lines, In
    <3> HIDE DEF h, r
    <3>4. \A x : In(x, lines[g]) \/ In(x, r) => In(x, lines[g] \o r)
      BY <2>0, <3>3, ConcatIn DEF CliShape
    <3>5. \A k \in Sessions : /\ inbox'[k] = IF k = g THEN Tail(inbox[g]) ELSE inbox[k]
                              /\ lines'[k] = IF k = g THEN lines[g] \o r ELSE lines[k]
      BY <2>0, <3>1 DEF CliShape
    <3>6. Held(m) => Held(m)'
      BY <2>0, <3>2, <3>3, <3>4, <3>5, HeldStays
    <3> QED BY <2>0, <3>1, <3>6 DEF Stands, Written, Withdrawn, At, calls
  <2>11. ASSUME NEW g \in Sessions, FinishTurn(g) PROVE Stands(m)'
    <3> DEFINE r == <<Line("result", 0)>>
    <3>1. lines' = [lines EXCEPT ![g] = lines[g] \o r] /\ m \in flag /\ UNCHANGED <<calls, inbox>>
      BY <2>11 DEF FinishTurn, Emit, queue
    <3>2. r \in Seq(Lines)
      BY DEF Line, Lines
    <3> HIDE DEF r
    <3>3. \A x : In(x, lines[g]) => In(x, lines[g] \o r)
      BY <2>0, <3>2, ConcatIn DEF CliShape
    <3>4. \A k \in Sessions : lines'[k] = IF k = g THEN lines[g] \o r ELSE lines[k]
      BY <2>0, <3>1 DEF CliShape
    <3>5. Held(m) => Held(m)'
      BY <2>0, <3>1, <3>3, <3>4, HeldStays
    <3> QED BY <2>0, <3>1, <3>5 DEF Stands, Written, Withdrawn, At, calls
  <2>12. ASSUME NEW g \in Sessions, Reading(g) PROVE Stands(m)'
    <3>1. /\ lines[g] # <<>> /\ lines' = [lines EXCEPT ![g] = Tail(lines[g])] /\ UNCHANGED <<calls, inbox>>
      BY <2>12 DEF Reading, OnQueuedProcessed, OnMessage, OnResult, Reads
    <3>2. m \in flag /\ Head(lines[g]) # Line("ack", m)
      BY <2>12 DEF Reading, OnQueuedProcessed, OnMessage, OnResult, Reads, Line, queue
    <3>3. In(Line("ack", m), lines[g]) => In(Line("ack", m), Tail(lines[g]))
      BY <2>0, <3>1, <3>2, TailIn DEF CliShape
    <3>4. \A k \in Sessions : lines'[k] = IF k = g THEN Tail(lines[g]) ELSE lines[k]
      BY <2>0, <3>1 DEF CliShape
    <3>5. Held(m) => Held(m)'
      BY <2>0, <3>1, <3>3, <3>4, HeldStays
    <3> QED BY <2>0, <3>1, <3>2, <3>5 DEF Stands, Written, Withdrawn, At, calls
  <2>13. CASE UNCHANGED vars
    BY <2>2, <2>13 DEF vars, calls, queue, cliv, Withdrawn
  <2> QED BY <1>2, <2>1, <2>3, <2>4, <2>5, <2>6, <2>7, <2>8, <2>9, <2>10, <2>11, <2>12, <2>13 DEF Next, Exiting, Cancelling
<1> QED BY <1>1, <1>2, BadgeStandsNext

-----------------------------------------------------------------------------
(* The invariant of the session, and what it gives.                        *)
SessionInv == Shape /\ OneFlight /\ LivesOnce /\ KeptApart /\ SpokeLast /\ BadgeHonest /\ BusyIsWorking

LEMMA InvInit == Init => SessionInv
<1> SUFFICES ASSUME Init PROVE SessionInv
  OBVIOUS
<1>1. ChatShape
  BY Bounds DEF Init, ChatShape
<1>2. CallShape
  BY Bounds DEF Init, CallShape, Nobody, Closers, Cancels, Pcs, Starting
<1>3. CliShape
  <2>1. <<>> \in Seq(Senders) /\ <<>> \in Seq(Lines)
    OBVIOUS
  <2> QED BY <2>1 DEF Init, CliShape, Processes
<1>4. ViewShape /\ OneFlight /\ SpokeLast /\ BadgeHonest /\ BusyIsWorking
  BY DEF Init, ViewShape, OneFlight, Flies, Starting, At, SpokeLast, BadgeHonest, BusyIsWorking
<1>5. LivesOnce
  BY Bounds DEF Init, LivesOnce, Lives, Unborn, Fresh, At
<1>6. Apart
  BY DEF Init, Apart, Nobody, At
<1> QED BY <1>1, <1>2, <1>3, <1>4, <1>5, <1>6 DEF SessionInv, Shape, KeptApart

LEMMA InvStep == SessionInv /\ [Next]_vars => SessionInv'
BY ShapeStep, FlightStep, LivesOnceStep, KeptApartStep, SpokeStep, BadgeStep, BusyStep DEF SessionInv

LEMMA InvHolds == Spec => []SessionInv
BY InvInit, InvStep, PTL DEF Spec

(* Starts are single-flight: however sends, failures and exits interleave, *)
(* one call at most loads the chat and starts its CLI, and the slot of     *)
(* run_single_flight is taken exactly while it does.                       *)
THEOREM StartsSingly == Spec => []OneStart
<1>1. SessionInv => OneStart
  BY DEF SessionInv, OneFlight, OneStart, Flies, Starting, At
<1> QED BY <1>1, InvHolds, PTL

(* Every variable keeps its type.                                          *)
THEOREM TypeCorrect == Spec => []TypeOK
<1>1. SessionInv => TypeOK
  <2> SUFFICES ASSUME SessionInv PROVE TypeOK
    OBVIOUS
  <2>1. Pcs = {"quiet", "load", "loading", "joinLoad", "create", "spawn", "joinStart",
               "require", "prepare", "write", "writeQueued", "record", "done", "failed"}
    BY DEF Pcs, Starting
  <2>2. sender \in [Senders -> [pc : Pcs, sess : 0..MaxSessions]] /\ busy \subseteq {g \in Sessions : proc[g].alive}
    BY DEF SessionInv, Shape, CallShape, LivesOnce, Lives
  <2> QED BY <2>1, <2>2 DEF SessionInv, Shape, ChatShape, ViewShape, TypeOK
<1> QED BY <1>1, InvHolds, PTL

(* Sends that race through load_chat and start_chat leave no second CLI    *)
(* running and none that the chat does not lead to, as long as no close    *)
(* overlaps a start.                                                       *)
THEOREM NoneOrphaned == Spec => []NoOrphan
<1>1. SessionInv => NoOrphan
  BY DEF SessionInv, KeptApart, Apart, NoOrphan
<1> QED BY <1>1, InvHolds, PTL

(* A queued badge stands for a message that is still to be processed, or   *)
(* whose exit is still to be told (send.rs, event_handler.rs).             *)
THEOREM NoStrayBadge == Spec => []BadgeHonest
<1>1. SessionInv => BadgeHonest
  BY DEF SessionInv
<1> QED BY <1>1, InvHolds, PTL

(* While the CLI of the chat is in a turn whose lines are read, the chat   *)
(* says that it works: no exit and no result of another session hides it.  *)
THEOREM TurnShows == Spec => []BusyIsWorking
<1>1. SessionInv => BusyIsWorking
  BY DEF SessionInv
<1> QED BY <1>1, InvHolds, PTL
=============================================================================
