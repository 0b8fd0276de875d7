------------------------ MODULE PermissionQueueProofs ------------------------
(***************************************************************************)
(* The prompts of a chat, for any number of requests, clients and faults:  *)
(* a promotion is announced unless a plan clears the context, no prompt of *)
(* a CLI that can be written to is lost, and a withdrawn one is not        *)
(* answered while its id is remembered.                                    *)
(***************************************************************************)
EXTENDS PermissionQueue, SequenceTheorems, TLAPS

Lines == [kind : {"ask", "cancel", "result"}, req : Ids]
Opened == {r \in Requests : cli[r] # "unasked"}
Closed == {r \in Requests : cli[r] \notin {"unasked", "open"}}

(* Only a turn of a live process has open requests, and only a live        *)
(* session a process.                                                      *)
OpenLives ==
    /\ proc # "none" => session = "live"
    /\ \A r \in Requests : cli[r] = "open" => turn /\ proc # "none"

(* The daemon knows no request before the CLI has asked it.                *)
KnownAreOpened ==
    /\ \A i \in DOMAIN pipe : pipe[i].kind = "ask" /\ pipe[i].req \in Requests => pipe[i].req \in Opened
    /\ \A i \in DOMAIN pending : pending[i] \in Requests => pending[i] \in Opened
    /\ announced \cap Requests \subseteq Opened
    /\ \A c \in Clients : answer[c].req \in Requests => answer[c].req \in Opened

(* What was written to a process that hears, or withdrawn by a line on its *)
(* way, is not open.                                                       *)
Answered == {"written", "approved", "denied"}
WrittenAreClosed ==
    \A c \in Clients :
        answer[c].pc \in Answered /\ answer[c].req \in Requests => answer[c].req \in Closed \/ proc = "deaf"
CancelledAreClosed ==
    \A i \in DOMAIN pipe : pipe[i].kind = "cancel" /\ pipe[i].req \in Requests => pipe[i].req \in Closed

(* A result in the pipe is older than every question that is still open.   *)
ResultsAreOld ==
    \A i \in DOMAIN pipe, r \in Requests :
        pipe[i].kind = "result" /\ cli[r] = "open" =>
            \E j \in DOMAIN pipe : j > i /\ pipe[j] = Line("ask", r)

(* The ring holds the last ids that withdrawals took off the queue.        *)
RingIsRecent ==
    /\ Len(tombstones) = IF Len(removed) < CancelledMemory THEN Len(removed) ELSE CancelledMemory
    /\ \A i \in DOMAIN tombstones : tombstones[i] = removed[Len(removed) - Len(tombstones) + i]

-----------------------------------------------------------------------------
(* Every variable keeps its type: one lemma for each that moves in more    *)
(* than one way.                                                           *)
LEMMA PipeMoves ==
    ASSUME [Next]_vars
    PROVE  \/ pipe' = pipe \/ pipe' = <<>>
           \/ pipe # <<>> /\ pipe' = Tail(pipe)
           \/ \E r \in Requests : Ask(r) /\ pipe' = Append(pipe, Line("ask", r))
           \/ \E r \in Requests : Withdraw(r) /\ pipe' = Append(pipe, Line("cancel", r))
           \/ EndTurn /\ pipe' = Append(pipe, Line("result", Placeholder))
<1>1. ASSUME NEW r \in Requests, Ask(r) PROVE pipe' = Append(pipe, Line("ask", r))
  BY <1>1 DEF Ask
<1>2. ASSUME NEW r \in Requests, Withdraw(r) PROVE pipe' = Append(pipe, Line("cancel", r))
  BY <1>2 DEF Withdraw
<1>3. EndTurn => pipe' = Append(pipe, Line("result", Placeholder))
  BY DEF EndTurn
<1> QED
  BY <1>1, <1>2, <1>3 DEF Next, Goes, Escalate, ShiftSilently, KillSession, Fetch, Deafen, Dead, Exited, Answering,
     Reading, Cli, Daemon, Drop, Forward, StartFresh, Started, Write,
     Complete, OnPermission, OnPermissionCancelled, OnResult, Reads, Interrupt, Load, Start,
     Archive, BeginTurn, Die, Restart, vars, manager, process, shown, bounds

LEMMA TailFacts ==
    ASSUME NEW S, NEW s \in Seq(S), s # <<>>
    PROVE  /\ Tail(s) \in Seq(S) /\ Len(s) \in Nat \ {0} /\ Len(Tail(s)) = Len(s) - 1
           /\ Head(s) = s[1] /\ s[1] \in S /\ 1 \in DOMAIN s /\ DOMAIN Tail(s) = 1..Len(s) - 1
           /\ \A i \in 1..Len(s) - 1 : i + 1 \in DOMAIN s /\ Tail(s)[i] = s[i + 1]
BY HeadTailProperties, EmptySeq

LEMMA AppendFacts ==
    ASSUME NEW S, NEW s \in Seq(S), NEW e \in S
    PROVE  /\ Append(s, e) \in Seq(S) /\ Len(s) \in Nat /\ Len(Append(s, e)) = Len(s) + 1
           /\ DOMAIN Append(s, e) = 1..Len(s) + 1 /\ DOMAIN s = 1..Len(s)
           /\ Append(s, e)[Len(s) + 1] = e /\ \A i \in 1..Len(s) : Append(s, e)[i] = s[i]
           /\ Append(s, e) # <<>>
BY AppendProperties

LEMMA FunctionsAreSeqs ==
    ASSUME NEW S, NEW n \in Nat, NEW f \in [1..n -> S]
    PROVE  f \in Seq(S) /\ Len(f) = n
<1>1. f \in Seq(S)
  OBVIOUS
<1>2. DOMAIN f = 1..n /\ DOMAIN f = 1..Len(f) /\ Len(f) \in Nat
  BY <1>1, LenProperties
<1> QED BY <1>1, <1>2

LEMMA WithoutType ==
    ASSUME NEW S, NEW s \in Seq(S), NEW i \in DOMAIN s
    PROVE  /\ Without(s, i) \in Seq(S) /\ Len(Without(s, i)) = Len(s) - 1
           /\ \A j \in DOMAIN Without(s, i) : \E k \in DOMAIN s : Without(s, i)[j] = s[k]
           /\ \A k \in DOMAIN s : k # i => \E j \in DOMAIN Without(s, i) : Without(s, i)[j] = s[k]
<1>1. /\ Len(s) \in Nat /\ DOMAIN s = 1..Len(s)
      /\ Len(s) - 1 \in Nat
  OBVIOUS
<1>2. \A j \in 1..Len(s) - 1 : Without(s, i)[j] = IF j < i THEN s[j] ELSE s[j + 1]
  BY <1>1 DEF Without
<1>3. Without(s, i) \in [1..Len(s) - 1 -> S]
  BY <1>1 DEF Without
<1>4. Without(s, i) \in Seq(S) /\ Len(Without(s, i)) = Len(s) - 1
  BY <1>1, <1>3, FunctionsAreSeqs
<1>5. \A j \in DOMAIN Without(s, i) : \E k \in DOMAIN s : Without(s, i)[j] = s[k]
  BY <1>1, <1>2, <1>4
<1>6. ASSUME NEW k \in DOMAIN s, k # i PROVE \E j \in DOMAIN Without(s, i) : Without(s, i)[j] = s[k]
  <2>1. CASE k < i
    BY <1>1, <1>2, <1>4, <2>1
  <2>2. CASE k > i
    <3>1. k - 1 \in 1..Len(s) - 1 /\ ~(k - 1 < i) /\ (k - 1) + 1 = k
      BY <1>1, <2>2
    <3> QED BY <1>2, <1>4, <3>1
  <2> QED BY <1>1, <1>6, <2>1, <2>2
<1> QED BY <1>4, <1>5, <1>6

LEMMA QueueMoves ==
    ASSUME [Next]_vars, TypeOK
    PROVE  \/ pending' = pending
           \/ (OnResult \/ Interrupt \/ Restart \/ session # "live") /\ pending' = <<>>
           \/ session = "absent" /\ pending = <<>> /\ pending' = <<Placeholder>>
           \/ \E c \in Clients : /\ answer[c].pc \in Answered \/ session # "live"
                                /\ MatchesPending(answer[c].req) /\ pending' = Tail(pending)
           \/ \E r \in Requests : OnPermission(r) /\ pending' = Append(pending, r)
           \/ \E r \in Requests, i \in DOMAIN pending :
                 OnPermissionCancelled(r) /\ pending[i] = r /\ pending' = Without(pending, i)
<1>1. ASSUME NEW c \in Clients, Complete(c) \/ ShiftSilently(c)
      PROVE \/ pending' = pending
            \/ /\ answer[c].pc \in Answered \/ session # "live"
               /\ MatchesPending(answer[c].req) /\ pending' = Tail(pending)
  <2>1. pending' = Shifted(answer[c].req) /\ (answer[c].pc \in Answered \/ session # "live")
    BY <1>1 DEF Complete, ShiftSilently, Answered
  <2> QED BY <2>1 DEF Shifted
<1>2. ASSUME NEW r \in Requests, OnPermission(r) PROVE pending' = Append(pending, r)
  BY <1>2 DEF OnPermission
<1>3. ASSUME NEW r \in Requests, OnPermissionCancelled(r)
      PROVE pending' = pending \/ \E i \in DOMAIN pending : pending[i] = r /\ pending' = Without(pending, i)
  BY <1>3 DEF OnPermissionCancelled
<1> QED
  BY <1>1, <1>2, <1>3 DEF Next, Goes, Escalate, ShiftSilently, KillSession, Fetch, Deafen, Dead, Exited, Answering,
     Reading, Cli, Daemon, Drop, Forward, StartFresh, Started, Write,
     OnResult, Clear, Interrupt, Load, Start, Archive, BeginTurn, Ask, Withdraw, EndTurn, Die,
     Restart, vars, manager, process, shown, bounds

LEMMA AnswerMoves ==
    ASSUME [Next]_vars, TypeOK
    PROVE  \/ answer' = answer
           \/ answer' = [c \in Clients |-> Quiet]
           \/ \E c \in Clients : \E r \in {answer[c].req, Placeholder} \cup announced, pc \in Pcs : SetAnswer(c, pc, r)
<1>1. ASSUME NEW c \in Clients, Goes(c)
      PROVE \E r \in {answer[c].req, Placeholder}, pc \in Pcs : SetAnswer(c, pc, r)
  BY <1>1 DEF Goes, Started, Write, Written, Writing, Complete, Escalate, ShiftSilently, KillSession, Pcs
<1>2. ASSUME NEW c \in Clients, NEW r \in Ids, Forward(c, r) \/ StartFresh(c, r)
      PROVE r \in announced /\ \E pc \in Pcs : SetAnswer(c, pc, r)
  BY <1>2 DEF Forward, StartFresh, MayAnswer, Ways, Writing, Pcs
<1> QED
  BY <1>1, <1>2 DEF Next, Answering, Reading, Cli, Daemon, Drop, OnPermission, OnPermissionCancelled, OnResult,
     Interrupt, Load, Fetch, Start, Exited, Archive, BeginTurn, Ask, Withdraw, EndTurn, Deafen, Die, Restart, vars,
     manager, process, shown, bounds

LEMMA RingMoves ==
    ASSUME [Next]_vars
    PROVE  \/ tombstones' = tombstones /\ removed' = removed
           \/ tombstones' = <<>> /\ removed' = <<>>
           \/ \E r \in Requests : tombstones' = Remembering(r) /\ removed' = Append(removed, r)
BY DEF Next, Goes, Escalate, ShiftSilently, KillSession, Fetch, Deafen, Dead, Exited, Answering, Reading, Cli,
   Daemon, Drop, Forward, StartFresh, Started, Write, Complete,
     OnPermission, OnPermissionCancelled, OnResult, Clear, Interrupt, Load, Start, Archive, BeginTurn, Ask,
     Withdraw, EndTurn, Die, Restart, vars, manager, process, shown, bounds

LEMMA AnnouncedMoves ==
    ASSUME [Next]_vars
    PROVE  \/ announced' \in {announced, announced \cup {Placeholder}, announced \cup Promoted(pending')}
           \/ pending # <<>> /\ announced' = announced \cup {Head(pending)}
BY DEF Next, Goes, Escalate, ShiftSilently, KillSession, Fetch, Deafen, Dead, Exited, Answering, Reading, Cli,
   Daemon, Drop, Forward, StartFresh, Started, Write, Complete,
     OnPermission, OnPermissionCancelled, OnResult, Clear, Interrupt, Load, Start, Archive, BeginTurn, Ask,
     Withdraw, EndTurn, Die, Restart, vars, manager, process, shown, bounds

LEMMA TypeStep == TypeOK /\ [Next]_vars => TypeOK'
<1> SUFFICES ASSUME TypeOK, [Next]_vars PROVE TypeOK'
  OBVIOUS
<1>1. pending' \in Seq(Ids)
  <2>1. pending \in Seq(Ids)
    BY DEF TypeOK
  <2>2. \A i \in DOMAIN pending : Without(pending, i) \in Seq(Ids)
    BY <2>1, WithoutType
  <2>3. pending # <<>> => Tail(pending) \in Seq(Ids)
    BY <2>1, TailFacts
  <2>4. \A r \in Ids : Append(pending, r) \in Seq(Ids)
    BY <2>1, AppendFacts
  <2>5. <<>> \in Seq(Ids) /\ <<Placeholder>> \in Seq(Ids)
    BY DEF Ids
  <2>6. Requests \subseteq Ids
    BY DEF Ids
  <2> QED BY <2>1, <2>2, <2>3, <2>4, <2>5, <2>6, QueueMoves DEF MatchesPending
<1>2. tombstones' \in Seq(Requests) /\ Len(tombstones') <= CancelledMemory /\ removed' \in Seq(Requests)
  <2>1. /\ tombstones \in Seq(Requests) /\ Len(tombstones) <= CancelledMemory /\ removed \in Seq(Requests)
        /\ CancelledMemory \in Nat \ {0}
    BY BoundAssumption DEF TypeOK
  <2>2. CASE tombstones' = <<>> /\ removed' = <<>>
    BY <2>1, <2>2
  <2>3. ASSUME NEW r \in Requests, tombstones' = Remembering(r), removed' = Append(removed, r)
        PROVE tombstones' \in Seq(Requests) /\ Len(tombstones') <= CancelledMemory /\ removed' \in Seq(Requests)
    <3> DEFINE ring == Append(tombstones, r)
    <3>1. ring \in Seq(Requests) /\ Len(ring) = Len(tombstones) + 1 /\ ring # <<>> /\ Len(tombstones) \in Nat
      BY <2>1, AppendFacts
    <3>2. Tail(ring) \in Seq(Requests) /\ Len(Tail(ring)) = Len(ring) - 1
      BY <3>1, TailFacts
    <3>3. removed' \in Seq(Requests)
      BY <2>1, <2>3, AppendFacts
    <3>4. tombstones' = IF Len(ring) > CancelledMemory THEN Tail(ring) ELSE ring
      BY <2>3 DEF Remembering
    <3> HIDE DEF ring
    <3> QED BY <2>1, <3>1, <3>2, <3>3, <3>4
  <2> QED BY <2>1, <2>2, <2>3, RingMoves
<1>3. answer' \in [Clients -> [pc : Pcs, req : Ids]]
  <2> DEFINE Calls == [pc : Pcs, req : Ids]
  <2>1. answer \in [Clients -> Calls] /\ Placeholder \in Ids /\ announced \subseteq Ids
    BY DEF TypeOK, Ids
  <2>2. CASE answer' = [c \in Clients |-> Quiet]
    BY <2>1, <2>2 DEF Quiet, Pcs
  <2>3. ASSUME NEW c \in Clients, NEW r \in Ids, NEW pc \in Pcs, SetAnswer(c, pc, r)
        PROVE answer' \in [Clients -> Calls]
    <3>1. [pc |-> pc, req |-> r] \in Calls
      OBVIOUS
    <3> HIDE DEF Calls
    <3> QED BY <2>1, <2>3, <3>1 DEF SetAnswer
  <2>4. \A c \in Clients : {answer[c].req, Placeholder} \cup announced \subseteq Ids
    BY <2>1
  <2> QED BY <2>1, <2>2, <2>3, <2>4, AnswerMoves
<1>4. announced' \subseteq Ids
  <2>1. pending # <<>> => Head(pending) \in Ids
    BY TailFacts DEF TypeOK
  <2>2. pending' # <<>> => Head(pending') \in Ids
    BY <1>1, TailFacts
  <2> QED BY <2>1, <2>2, AnnouncedMoves DEF TypeOK, Promoted, Ids
<1>5. pipe' \in Seq([kind : {"ask", "cancel", "result"}, req : Ids])
  <2>1. pipe \in Seq(Lines) /\ <<>> \in Seq(Lines)
    BY DEF TypeOK, Lines
  <2>2. pipe # <<>> => Tail(pipe) \in Seq(Lines)
    BY <2>1, TailFacts
  <2>3. \A l \in Lines : Append(pipe, l) \in Seq(Lines)
    BY <2>1, AppendFacts
  <2>4. \A r \in Ids, k \in {"ask", "cancel", "result"} : Line(k, r) \in Lines
    BY DEF Line, Lines
  <2>5. Requests \subseteq Ids /\ Placeholder \in Ids
    BY DEF Ids
  <2>6. pipe' \in Seq(Lines)
    BY <2>1, <2>2, <2>3, <2>4, <2>5, PipeMoves
  <2> QED BY <2>6 DEF Lines
<1>6. cli' \in [Requests -> {"unasked", "open", "answered", "withdrawn", "gone"}]
  BY DEF TypeOK, Next, Goes, Escalate, ShiftSilently, KillSession, Fetch, Deafen, Dead, Exited, Answering, Reading,
     Cli, Daemon, Drop, Forward, StartFresh, Started, Write,
     Complete, OnPermission, OnPermissionCancelled, OnResult, Interrupt, Load, Start, Archive, BeginTurn, Ask,
     Withdraw, EndTurn, Die, Restart, Reach, Abandoned, vars, process, shown
<1>7. interrupted' \in BOOLEAN
  BY DEF TypeOK, Next, Goes, Escalate, ShiftSilently, KillSession, Fetch, Deafen, Dead, Exited, Answering, Reading,
     Cli, Daemon, Drop, Forward, StartFresh, Started, Write,
     Complete, OnPermission, OnPermissionCancelled, OnResult, Clear, Interrupt, Load, Start, Archive, BeginTurn,
     Ask, Withdraw, EndTurn, Die, Restart, vars, manager
<1>8. session' \in {"absent", "loaded", "live"}
  BY DEF TypeOK, Next, Goes, Escalate, ShiftSilently, KillSession, Fetch, Deafen, Dead, Exited, Answering, Reading,
     Cli, Daemon, Drop, Forward, StartFresh, Started, Write,
     Complete, OnPermission, OnPermissionCancelled, OnResult, Interrupt, Load, Start, Archive, BeginTurn,
     Ask, Withdraw, EndTurn, Die, Restart, vars
<1>9. turn' \in BOOLEAN /\ stopping' \in BOOLEAN
  BY DEF TypeOK, Next, Goes, Escalate, ShiftSilently, KillSession, Fetch, Deafen, Dead, Exited, Answering, Reading,
     Cli, Daemon, Drop, Forward, StartFresh, Started, Write,
     Complete, OnPermission, OnPermissionCancelled, OnResult, Interrupt, Load, Start, Archive, BeginTurn,
     Ask, Withdraw, EndTurn, Die, Restart, vars, process, shown
<1>10. turns' \in 0..MaxTurns
  BY BoundAssumption DEF TypeOK, Next, Goes, Escalate, ShiftSilently, KillSession, Fetch, Deafen, Dead, Exited,
     Answering, Reading, Cli, Daemon, Drop, Forward, StartFresh, Started,
     Write, Complete, OnPermission, OnPermissionCancelled, OnResult, Interrupt, Load, Start, Archive,
     BeginTurn, Ask, Withdraw, EndTurn, Die, Restart, vars, bounds
<1>11. faults' \in 0..MaxFaults
  BY BoundAssumption DEF TypeOK, Next, Goes, Counted, Escalate, ShiftSilently, KillSession, Fetch, Deafen, Dead, Exited,
     Answering, Reading, Cli, Daemon, Drop, Forward, StartFresh, Started,
     Write, Complete, OnPermission, OnPermissionCancelled, OnResult, Interrupt, Load, Start, Archive,
     BeginTurn, Ask, Withdraw, EndTurn, Die, Restart, vars, bounds
<1>12. hushed' \subseteq Ids
  <2>1. hushed' \in {hushed, hushed \cup Promoted(pending')}
    BY DEF Next, Goes, Escalate, ShiftSilently, KillSession, Fetch, Deafen, Dead, Exited, Answering, Reading, Cli,
       Daemon, Drop, Forward, StartFresh, Started, Write, Complete, OnPermission,
       OnPermissionCancelled, OnResult, Interrupt, Load, Start, Archive, BeginTurn, Ask, Withdraw, EndTurn, Die,
       Restart, vars, shown
  <2>2. pending' # <<>> => Head(pending') \in Ids
    BY <1>1, TailFacts
  <2> QED BY <2>1, <2>2 DEF TypeOK, Promoted
<1>13. proc' \in {"none", "hearing", "deaf"}
  BY DEF TypeOK, Next, Goes, Escalate, ShiftSilently, KillSession, Fetch, Deafen, Dead, Exited, Answering, Reading,
     Cli, Daemon, Drop, Forward, StartFresh, Started, Write, Complete, OnPermission,
     OnPermissionCancelled, OnResult, Interrupt, Load, Start, Archive, BeginTurn, Ask, Withdraw, EndTurn, Die,
     Restart, vars, process
<1> QED
  BY <1>1, <1>2, <1>3, <1>4, <1>5, <1>6, <1>7, <1>8, <1>9, <1>10, <1>11, <1>12, <1>13 DEF TypeOK

(* A request, once asked, stays asked; once closed, it stays closed.       *)
LEMMA CliMovesOn ==
    ASSUME TypeOK, [Next]_vars
    PROVE  Opened \subseteq Opened' /\ Closed \subseteq Closed'
<1>1. CASE cli' = cli
  BY <1>1 DEF Opened, Closed
<1>2. CASE cli' = Abandoned
  BY <1>2 DEF Opened, Closed, Abandoned
<1>3. ASSUME NEW c \in Clients, Write(c) \/ Escalate(c) PROVE Opened \subseteq Opened' /\ Closed \subseteq Closed'
  BY <1>3 DEF Opened, Closed, Write, Escalate, Reach, TypeOK
<1>4. ASSUME NEW q \in Requests, Ask(q) \/ Withdraw(q)
      PROVE Opened \subseteq Opened' /\ Closed \subseteq Closed'
  BY <1>4 DEF Opened, Closed, Ask, Withdraw, TypeOK
<1> QED
  BY <1>1, <1>2, <1>3, <1>4 DEF Next, Goes, Escalate, ShiftSilently, KillSession, Fetch, Deafen, Dead, Exited,
     Answering, Reading, Cli, Daemon, vars, process, shown, Drop, Forward, StartFresh,
     Started, Complete, OnPermission, OnPermissionCancelled, OnResult, BeginTurn, EndTurn, Die,
     Interrupt, Load, Start, Archive, Restart

LEMMA OpenLivesStep ==
    ASSUME TypeOK, [Next]_vars, OpenLives
    PROVE  OpenLives'
<1>1. CASE (Dead /\ session' = "loaded") \/ (Dead /\ session' = session) \/ Restart \/ EndTurn
  BY <1>1 DEF OpenLives, Abandoned, Dead, Restart, EndTurn
<1>2. CASE UNCHANGED <<cli, turn, session, proc>>
  BY <1>2 DEF OpenLives
<1>3. ASSUME NEW c \in Clients, Write(c) \/ Escalate(c) PROVE OpenLives'
  BY <1>3 DEF OpenLives, Write, Escalate, Reach, TypeOK
<1>4. ASSUME NEW q \in Requests, Ask(q) \/ Withdraw(q) PROVE OpenLives'
  BY <1>4 DEF OpenLives, Ask, Withdraw, TypeOK
<1>5. CASE BeginTurn \/ Load \/ Start \/ Archive \/ Exited \/ Deafen
  BY <1>5 DEF OpenLives, BeginTurn, Load, Start, Archive, Exited, Deafen, process, shown
<1>6. ASSUME NEW c \in Clients, KillSession(c) PROVE OpenLives'
  <2>1. CASE session = "live"
    BY <1>1, <1>6, <2>1 DEF KillSession
  <2>2. CASE session # "live"
    BY <1>2, <1>6, <2>2 DEF KillSession, process
  <2> QED BY <2>1, <2>2
<1>7. ASSUME NEW c \in Clients, Started(c) \/ Complete(c) \/ ShiftSilently(c) PROVE OpenLives'
  BY <1>2, <1>7 DEF Started, Complete, ShiftSilently, process
<1>8. CASE Die
  BY <1>1, <1>8 DEF Die
<1> QED
  BY <1>1, <1>2, <1>3, <1>4, <1>5, <1>6, <1>7, <1>8 DEF Next, Goes, Answering, Reading, Cli, Daemon, vars, process,
     Drop, Forward, StartFresh, OnPermission, OnPermissionCancelled, OnResult, Interrupt, Fetch

(* What a step leaves in the pipe was in it, or is the line it appends.    *)
LEMMA PipeElements ==
    ASSUME TypeOK, [Next]_vars, NEW i \in DOMAIN pipe'
    PROVE  \/ \E j \in DOMAIN pipe : pipe'[i] = pipe[j]
           \/ \E r \in Requests : Ask(r) /\ pipe'[i] = Line("ask", r)
           \/ \E r \in Requests : Withdraw(r) /\ pipe'[i] = Line("cancel", r)
           \/ EndTurn /\ pipe'[i] = Line("result", Placeholder)
<1>1. pipe \in Seq(Lines)
  BY DEF TypeOK, Lines
<1>2. ASSUME NEW l \in Lines, pipe' = Append(pipe, l)
      PROVE (\E j \in DOMAIN pipe : pipe'[i] = pipe[j]) \/ pipe'[i] = l
  BY <1>1, <1>2, AppendFacts
<1>3. CASE pipe # <<>> /\ pipe' = Tail(pipe)
  BY <1>1, <1>3, TailFacts
<1>4. \A r \in Ids, k \in {"ask", "cancel", "result"} : Line(k, r) \in Lines
  BY DEF Line, Lines
<1>5. Requests \subseteq Ids /\ Placeholder \in Ids
  BY DEF Ids
<1>6. CASE pipe' = pipe \/ pipe' = <<>>
  BY <1>6
<1> QED BY <1>2, <1>3, <1>4, <1>5, <1>6, PipeMoves

LEMMA QueueElements ==
    ASSUME TypeOK, [Next]_vars, NEW i \in DOMAIN pending'
    PROVE  \/ \E j \in DOMAIN pending : pending'[i] = pending[j]
           \/ pending'[i] = Placeholder
           \/ \E r \in Requests : OnPermission(r) /\ pending'[i] = r
<1>1. pending \in Seq(Ids) /\ Requests \subseteq Ids
  BY DEF TypeOK, Ids
<1>2. CASE pending # <<>> /\ pending' = Tail(pending)
  BY <1>1, <1>2, TailFacts
<1>3. ASSUME NEW r \in Requests, pending' = Append(pending, r)
      PROVE (\E j \in DOMAIN pending : pending'[i] = pending[j]) \/ pending'[i] = r
  BY <1>1, <1>3, AppendFacts
<1>4. ASSUME NEW k \in DOMAIN pending, pending' = Without(pending, k)
      PROVE \E j \in DOMAIN pending : pending'[i] = pending[j]
  BY <1>1, <1>4, WithoutType
<1>5. CASE pending' = pending \/ pending' = <<>> \/ pending' = <<Placeholder>>
  BY <1>5
<1> QED BY <1>2, <1>3, <1>4, <1>5, QueueMoves DEF MatchesPending

(* A line that is read was asked before.                                   *)
LEMMA ReadIsHead ==
    ASSUME TypeOK, NEW k, NEW r, Reads(k, r)
    PROVE  1 \in DOMAIN pipe /\ pipe[1].kind = k /\ pipe[1].req = r /\ pipe[1] = Line(k, r)
<1>1. pipe \in Seq(Lines)
  BY DEF TypeOK, Lines
<1> QED BY <1>1, TailFacts DEF Reads, Line

LEMMA KnownStep ==
    ASSUME TypeOK, [Next]_vars, KnownAreOpened
    PROVE  KnownAreOpened'
<1>1. Opened \subseteq Opened'
  BY CliMovesOn
<1>2. \A i \in DOMAIN pipe' : pipe'[i].kind = "ask" /\ pipe'[i].req \in Requests => pipe'[i].req \in Opened'
  <2> SUFFICES ASSUME NEW i \in DOMAIN pipe', pipe'[i].kind = "ask", pipe'[i].req \in Requests
               PROVE pipe'[i].req \in Opened'
    OBVIOUS
  <2>1. ASSUME NEW j \in DOMAIN pipe, pipe'[i] = pipe[j] PROVE pipe'[i].req \in Opened'
    BY <1>1, <2>1 DEF KnownAreOpened
  <2>2. ASSUME NEW r \in Requests, Ask(r), pipe'[i] = Line("ask", r) PROVE pipe'[i].req \in Opened'
    BY <2>2 DEF Ask, Line, Opened, TypeOK
  <2>3. \A r : Line("cancel", r).kind # "ask" /\ Line("result", r).kind # "ask"
    BY DEF Line
  <2> QED BY <2>1, <2>2, <2>3, PipeElements
<1>3. \A i \in DOMAIN pending' : pending'[i] \in Requests => pending'[i] \in Opened'
  <2> SUFFICES ASSUME NEW i \in DOMAIN pending', pending'[i] \in Requests PROVE pending'[i] \in Opened'
    OBVIOUS
  <2>1. ASSUME NEW j \in DOMAIN pending, pending'[i] = pending[j] PROVE pending'[i] \in Opened'
    BY <1>1, <2>1 DEF KnownAreOpened
  <2>2. ASSUME NEW r \in Requests, OnPermission(r) PROVE r \in Opened'
    <3>1. Reads("ask", r)
      BY <2>2 DEF OnPermission
    <3> QED BY <1>1, <3>1, ReadIsHead DEF KnownAreOpened
  <2> QED BY <2>1, <2>2, QueueElements, IdAssumption
<1>4. announced' \cap Requests \subseteq Opened'
  <2>1. Promoted(pending') \cap Requests \subseteq Opened'
    <3> SUFFICES ASSUME pending' # <<>>, Head(pending') \in Requests PROVE Head(pending') \in Opened'
      BY DEF Promoted
    <3>1. pending' \in Seq(Ids)
      BY TypeStep DEF TypeOK
    <3>2. Head(pending') = pending'[1] /\ 1 \in DOMAIN pending'
      BY <3>1, TailFacts
    <3> QED BY <1>3, <3>2
  <2>2. pending # <<>> /\ Head(pending) \in Requests => Head(pending) \in Opened
    BY TailFacts DEF KnownAreOpened, TypeOK
  <2> QED BY <1>1, <2>1, <2>2, AnnouncedMoves, IdAssumption DEF KnownAreOpened
<1>5. \A c \in Clients : answer'[c].req \in Requests => answer'[c].req \in Opened'
  <2>1. \A c \in Clients : answer'[c].req \in {answer[c].req, Placeholder} \cup announced
    <3>1. CASE answer' = [c \in Clients |-> Quiet]
      BY <3>1 DEF Quiet
    <3>2. ASSUME NEW c \in Clients, NEW r \in {answer[c].req, Placeholder} \cup announced, NEW pc, SetAnswer(c, pc, r)
          PROVE \A d \in Clients : answer'[d].req \in {answer[d].req, Placeholder} \cup announced
      BY <3>2 DEF SetAnswer, TypeOK
    <3> QED BY <3>1, <3>2, AnswerMoves
  <2> QED BY <1>1, <2>1, IdAssumption DEF KnownAreOpened
<1> QED BY <1>2, <1>3, <1>4, <1>5 DEF KnownAreOpened

LEMMA CancelledStep ==
    ASSUME TypeOK, [Next]_vars, CancelledAreClosed
    PROVE  CancelledAreClosed'
<1>1. Closed \subseteq Closed'
  BY CliMovesOn
<1> SUFFICES ASSUME NEW i \in DOMAIN pipe', pipe'[i].kind = "cancel", pipe'[i].req \in Requests
             PROVE pipe'[i].req \in Closed'
  BY DEF CancelledAreClosed, Closed
<1>2. ASSUME NEW j \in DOMAIN pipe, pipe'[i] = pipe[j] PROVE pipe'[i].req \in Closed'
  BY <1>1, <1>2 DEF CancelledAreClosed
<1>3. ASSUME NEW r \in Requests, Withdraw(r), pipe'[i] = Line("cancel", r) PROVE pipe'[i].req \in Closed'
  BY <1>3 DEF Withdraw, Line, Closed, TypeOK
<1>4. \A r : Line("ask", r).kind # "cancel" /\ Line("result", r).kind # "cancel"
  BY DEF Line
<1> QED BY <1>2, <1>3, <1>4, PipeElements

LEMMA WrittenStep ==
    ASSUME TypeOK, [Next]_vars, WrittenAreClosed, KnownAreOpened, OpenLives
    PROVE  WrittenAreClosed'
<1>1. Closed \subseteq Closed'
  BY CliMovesOn
<1> SUFFICES ASSUME NEW c \in Clients, answer'[c].pc \in Answered, answer'[c].req \in Requests
             PROVE answer'[c].req \in Closed' \/ proc' = "deaf"
  BY DEF WrittenAreClosed, Closed
<1>2. answer'[c] = answer[c] \/ (Write(c) /\ answer'[c].req = answer[c].req)
  <2>1. ASSUME NEW d \in Clients,
  Write(d) PROVE answer'[c] = answer[c] \/ (Write(c) /\ answer'[c].req = answer[c].req)
    <3>1. CASE c = d
      <4>1. answer'[c].pc = "quiet" \/ answer'[c].req = answer[c].req
        BY <2>1, <3>1 DEF Write, SetAnswer, TypeOK
      <4> QED BY <2>1, <3>1, <4>1 DEF Answered
    <3>2. CASE c # d
      BY <2>1, <3>2 DEF Write, SetAnswer, TypeOK
    <3> QED BY <3>1, <3>2
  <2>2. ASSUME NEW d \in Clients, Started(d) \/ Complete(d) \/ Escalate(d) \/ ShiftSilently(d) \/ KillSession(d)
        PROVE answer'[c] = answer[c]
    BY <2>2 DEF Started, Complete, Escalate, ShiftSilently, KillSession, SetAnswer, TypeOK, Answered
  <2>3. ASSUME NEW d \in Clients, NEW q \in Ids, Forward(d, q) \/ StartFresh(d, q) PROVE answer'[c] = answer[c]
    <3>1. \E pc \in Writing \cup {"starting"} : SetAnswer(d, pc, q)
      BY <2>3 DEF Forward, StartFresh, Ways, Writing
    <3>2. answer'[d].pc \in Writing \cup {"starting"} /\ (c # d => answer'[c] = answer[c])
      BY <3>1 DEF SetAnswer, TypeOK
    <3> QED BY <3>2 DEF Answered, Writing
  <2>4. CASE Restart
    BY <2>4 DEF Restart, Quiet, Answered
  <2> QED
    BY <2>1, <2>2, <2>3, <2>4 DEF Next, Goes, Answering, Reading, Cli, Daemon, vars, Drop, OnPermission,
       OnPermissionCancelled, OnResult, BeginTurn, Ask, Withdraw, EndTurn, Deafen, Die, Interrupt, Load, Fetch, Start,
       Exited, Archive
<1>3. CASE Write(c) /\ answer'[c].req = answer[c].req
  <2>1. answer[c].req \in Opened /\ proc' = proc
    BY <1>3 DEF Write, KnownAreOpened
  <2>2. CASE cli[answer[c].req] # "open"
    BY <1>1, <1>3, <2>1, <2>2 DEF Closed, Opened
  <2>3. CASE cli[answer[c].req] = "open"
    BY <1>3, <2>1, <2>3 DEF Write, Reach, Closed, OpenLives, TypeOK
  <2> QED BY <2>2, <2>3
<1>4. CASE answer'[c] = answer[c] /\ answer[c].req \notin Closed
  <2>1. proc = "deaf" /\ answer[c].req \in Opened
    BY <1>4 DEF WrittenAreClosed, KnownAreOpened
  <2>2. proc' = "deaf" \/ Dead
    BY <2>1 DEF Next, Goes, Answering, Reading, Cli, Daemon, vars, process, Started, Write, Complete, Escalate,
       ShiftSilently,
       KillSession, Drop, Forward, StartFresh, OnPermission, OnPermissionCancelled, OnResult, BeginTurn, Ask,
       Withdraw,
       EndTurn, Deafen, Die, Interrupt, Load, Fetch, Start, Exited, Archive, Restart, OpenLives
  <2>3. Dead => answer[c].req \in Closed'
    BY <1>4, <2>1 DEF Dead, Abandoned, Closed, Opened
  <2> QED BY <1>4, <2>2, <2>3
<1> QED BY <1>1, <1>2, <1>3, <1>4

(* No step opens a request but the one that asks it.                       *)
LEMMA OnlyAskOpens ==
    ASSUME TypeOK, [Next]_vars, NEW r \in Requests, cli'[r] = "open"
    PROVE  cli[r] = "open" \/ (Ask(r) /\ pipe' = Append(pipe, Line("ask", r)))
<1>1. CASE cli' = cli
  BY <1>1
<1>2. CASE cli' = Abandoned
  BY <1>2 DEF Abandoned
<1>3. ASSUME NEW c \in Clients, Write(c) \/ Escalate(c) PROVE cli[r] = "open"
  BY <1>3 DEF Write, Escalate, Reach, TypeOK
<1>4. ASSUME NEW q \in Requests, Ask(q) PROVE cli[r] = "open" \/ (Ask(r) /\ pipe' = Append(pipe, Line("ask", r)))
  BY <1>4 DEF Ask, TypeOK
<1>5. ASSUME NEW q \in Requests, Withdraw(q) PROVE cli[r] = "open"
  BY <1>5 DEF Withdraw, TypeOK
<1> QED
  BY <1>1, <1>2, <1>3, <1>4, <1>5 DEF Next, Goes, Escalate, ShiftSilently, KillSession, Fetch, Deafen, Dead,
     Exited, Answering, Reading, Cli, Daemon, vars, process, shown, Drop, Forward,
     StartFresh, Started, Complete, OnPermission, OnPermissionCancelled, OnResult, BeginTurn, EndTurn,
     Die, Interrupt, Load, Start, Archive, Restart

LEMMA ResultsStep ==
    ASSUME TypeOK, [Next]_vars, ResultsAreOld
    PROVE  ResultsAreOld'
<1> SUFFICES ASSUME NEW i \in DOMAIN pipe', NEW r \in Requests, pipe'[i].kind = "result", cli'[r] = "open"
             PROVE \E j \in DOMAIN pipe' : j > i /\ pipe'[j] = Line("ask", r)
  BY DEF ResultsAreOld
<1>1. pipe \in Seq(Lines) /\ Len(pipe) \in Nat /\ DOMAIN pipe = 1..Len(pipe)
  BY LenProperties DEF TypeOK, Lines
<1>2. \A q \in Requests, k \in {"ask", "cancel"} : Line(k, q) \in Lines /\ Line(k, q).kind = k
  BY DEF Line, Lines, Ids
<1>3. CASE Ask(r) /\ pipe' = Append(pipe, Line("ask", r))
  <2>1. /\ DOMAIN pipe' = 1..Len(pipe) + 1 /\ pipe'[Len(pipe) + 1] = Line("ask", r)
    BY <1>1, <1>2, <1>3, AppendFacts
  <2>2. i # Len(pipe) + 1
    BY <1>2, <2>1
  <2> QED BY <1>1, <2>1, <2>2
<1>4. CASE cli[r] = "open" /\ pipe # <<>> /\ pipe' = Tail(pipe)
  <2>1. /\ DOMAIN pipe' = 1..Len(pipe) - 1
        /\ \A k \in 1..Len(pipe) - 1 : k + 1 \in DOMAIN pipe /\ pipe'[k] = pipe[k + 1]
    BY <1>1, <1>4, TailFacts
  <2>2. PICK j \in DOMAIN pipe : j > i + 1 /\ pipe[j] = Line("ask", r)
    BY <1>4, <2>1 DEF ResultsAreOld
  <2>3. j - 1 \in 1..Len(pipe) - 1 /\ j - 1 > i /\ (j - 1) + 1 = j
    BY <1>1, <2>1, <2>2
  <2> QED BY <2>1, <2>2, <2>3
<1>5. ASSUME cli[r] = "open", NEW q \in Requests, NEW k \in {"ask", "cancel"}, pipe' = Append(pipe, Line(k, q))
      PROVE \E j \in DOMAIN pipe' : j > i /\ pipe'[j] = Line("ask", r)
  <2>1. /\ DOMAIN pipe' = 1..Len(pipe) + 1 /\ pipe'[Len(pipe) + 1] = Line(k, q)
        /\ \A m \in 1..Len(pipe) : pipe'[m] = pipe[m]
    BY <1>1, <1>2, <1>5, AppendFacts
  <2>2. i \in 1..Len(pipe)
    BY <1>1, <1>2, <2>1
  <2>3. PICK j \in DOMAIN pipe : j > i /\ pipe[j] = Line("ask", r)
    BY <1>1, <1>5, <2>1, <2>2 DEF ResultsAreOld
  <2> QED BY <1>1, <2>1, <2>3
<1>6. EndTurn => cli'[r] # "open"
  BY DEF EndTurn, Abandoned
<1>7. CASE cli[r] = "open" /\ (pipe' = pipe \/ pipe' = <<>>)
  BY <1>7 DEF ResultsAreOld
<1> QED BY <1>3, <1>4, <1>5, <1>6, <1>7, OnlyAskOpens, PipeMoves

Standing == OpenLives /\ KnownAreOpened /\ WrittenAreClosed /\ CancelledAreClosed /\ ResultsAreOld

(* One step of NothingLost: a question leaves the pipe for the queue, and  *)
(* the queue by the answer that closed it, by a result that came after it  *)
(* or by an interrupt, which stops the turn.                               *)
LEMMA LostStep ==
    ASSUME TypeOK, [Next]_vars, Standing, NothingLost
    PROVE  NothingLost'
<1> SUFFICES ASSUME NEW r \in Requests, cli'[r] = "open", proc' = "hearing", ~stopping'
             PROVE Kept(r)'
  BY DEF NothingLost
<1>0. cli'[r] = "open" /\ r \in Requests
  OBVIOUS
<1>1. pipe \in Seq(Lines) /\ pending \in Seq(Ids)
  BY DEF TypeOK, Lines
<1>2. Line("ask", r) \in Lines /\ r \in Ids /\ r # Placeholder
  BY IdAssumption DEF Line, Lines, Ids
<1>3. CASE Ask(r) /\ pipe' = Append(pipe, Line("ask", r))
  BY <1>1, <1>2, <1>3, AppendFacts DEF Kept, In
<1>4. ASSUME cli[r] = "open" PROVE Kept(r)'
  <2>1. turn /\ proc # "none" /\ session = "live"
    BY <1>4 DEF Standing, OpenLives
  <2>0. proc = "hearing"
    BY <2>1 DEF Next, Goes, Answering, Reading, Cli, Daemon, vars, process, Started, Write, Complete, Escalate,
       ShiftSilently,
       KillSession, Drop, Forward, StartFresh, OnPermission, OnPermissionCancelled, OnResult, BeginTurn, Ask,
       Withdraw,
       EndTurn, Deafen, Dead, Die, Interrupt, Load, Fetch, Start, Exited, Archive, Restart
  <2>2. \/ Kept(r)
        \/ stopping
    BY <1>4, <2>0, <2>1 DEF NothingLost
  <2>3. stopping' \in {stopping, turn} \/ ~turn \/ cli' = Abandoned
    BY DEF Next, Goes, Escalate, ShiftSilently, KillSession, Fetch, Deafen, Dead, Exited, Answering, Reading, Cli,
       Daemon, vars, process, shown, Drop, Forward, StartFresh, Started, Write,
       Complete, OnPermission, OnPermissionCancelled, OnResult, BeginTurn, Ask, Withdraw, EndTurn, Die,
       Interrupt, Load, Start, Archive, Restart
  <2>4. cli' # Abandoned
    BY DEF Abandoned
  <2>5. Kept(r) /\ stopping' = stopping /\ ~Interrupt
    BY <2>1, <2>2, <2>3, <2>4 DEF Interrupt
  <2>6. ASSUME In(Line("ask", r), pipe) PROVE Kept(r)'
    <3>1. PICK i \in DOMAIN pipe : pipe[i] = Line("ask", r)
      BY <2>6 DEF In
    <3>2. CASE pipe # <<>> /\ pipe' = Tail(pipe)
      <4>1. CASE i = 1
        <5>1. OnPermission(r)
          <6>1. Head(pipe) = Line("ask", r)
            BY <1>1, <3>1, <3>2, <4>1, TailFacts
          <6>2. \A k, q : Reads(k, q) => k = "ask" /\ q = r
            BY <6>1 DEF Reads, Line
          <6>3. pipe' # pipe /\ \A l \in Lines : pipe' # Append(pipe, l)
            BY <1>1, <3>2, TailFacts, AppendFacts
          <6>4. \A q \in Requests, k \in {"ask", "cancel"} : Line(k, q) \in Lines
            BY DEF Line, Lines, Ids
          <6>5. ASSUME NEW q \in Requests PROVE ~Ask(q) /\ ~Withdraw(q)
            BY <6>3, <6>4 DEF Ask, Withdraw
          <6>6. ~OnResult /\ \A q \in Requests : ~OnPermissionCancelled(q) /\ (OnPermission(q) => q = r)
            BY <6>2 DEF OnResult, OnPermissionCancelled, OnPermission
          <6>7. ~EndTurn /\ ~Die /\ ~Restart /\ ~Dead
            BY <2>4 DEF EndTurn, Die, Restart, Dead
          <6> QED
            BY <6>3, <6>5, <6>6, <6>7 DEF Next, Goes, Answering, Reading, Cli, Daemon, vars, process, Drop, Forward,
               StartFresh, Started, Write, Complete, Escalate, ShiftSilently, KillSession, BeginTurn, Deafen,
               Interrupt,
               Load, Fetch, Start, Exited, Archive
        <5>2. pending' = Append(pending, r)
          BY <5>1 DEF OnPermission
        <5> QED BY <1>1, <1>2, <5>2, AppendFacts DEF Kept, In
      <4>2. CASE i # 1
        <5>1. i - 1 \in DOMAIN pipe' /\ pipe'[i - 1] = pipe[i]
          BY <1>1, <3>2, <4>2, TailFacts
        <5> QED BY <3>1, <5>1 DEF Kept, In
      <4> QED BY <4>1, <4>2
    <3>3. ASSUME NEW l \in Lines, pipe' = Append(pipe, l) PROVE Kept(r)'
      <4>1. i \in DOMAIN pipe' /\ pipe'[i] = pipe[i]
        BY <1>1, <3>3, AppendFacts
      <4> QED BY <3>1, <4>1 DEF Kept, In
    <3>4. pipe' # <<>> \/ pipe' = Tail(pipe)
      <4>1. pipe' = <<>> => pipe' = Tail(pipe) \/ Restart \/ Dead \/ pipe' = pipe
        BY <1>1, <1>2, AppendFacts DEF Next, Goes, Answering, Reading, Cli, Daemon, vars, process, bounds, Drop,
           Forward,
           StartFresh, Started, Write, Complete, Escalate, ShiftSilently, KillSession, OnPermission,
           OnPermissionCancelled, OnResult, Reads, BeginTurn, EndTurn, Deafen, Interrupt, Load, Fetch, Start, Exited,
           Archive, Die, Ask, Withdraw
      <4>2. ~Restart /\ ~Dead
        BY <2>4 DEF Restart, Dead
      <4> QED BY <3>1, <4>1, <4>2
    <3>5. CASE pipe' = pipe
      BY <3>1, <3>5 DEF Kept, In
    <3>6. \A q \in Ids, k \in {"ask", "cancel", "result"} : Line(k, q) \in Lines
      BY DEF Line, Lines
    <3>7. Requests \subseteq Ids /\ Placeholder \in Ids
      BY DEF Ids
    <3>8. pipe # <<>>
      BY <3>1
    <3> QED BY <3>2, <3>3, <3>4, <3>5, <3>6, <3>7, <3>8, PipeMoves
  <2>7. ASSUME In(r, pending) PROVE Kept(r)'
    <3>1. PICK i \in DOMAIN pending : pending[i] = r
      BY <2>7 DEF In
    <3>2. CASE OnResult
      <4>1. 1 \in DOMAIN pipe /\ pipe[1].kind = "result" /\ pipe # <<>> /\ pipe' = Tail(pipe)
        BY <3>2, ReadIsHead DEF OnResult, Reads
      <4>2. PICK j \in DOMAIN pipe : j > 1 /\ pipe[j] = Line("ask", r)
        BY <1>4, <4>1 DEF Standing, ResultsAreOld
      <4>3. j - 1 \in DOMAIN pipe' /\ pipe'[j - 1] = pipe[j]
        BY <1>1, <4>1, <4>2, TailFacts
      <4> QED BY <4>2, <4>3 DEF Kept, In
    <3>3. ASSUME NEW c \in Clients, answer[c].pc \in Answered, MatchesPending(answer[c].req), pending' = Tail(pending)
          PROVE Kept(r)'
      <4>1. pending # <<>> /\ pending[1] = answer[c].req
        BY <1>1, <3>3, TailFacts DEF MatchesPending
      <4>2. i # 1
        BY <1>4, <2>0, <3>1, <3>3, <4>1 DEF Standing, WrittenAreClosed, Closed
      <4>3. i - 1 \in DOMAIN pending' /\ pending'[i - 1] = pending[i]
        BY <1>1, <3>3, <4>1, <4>2, TailFacts
      <4> QED BY <3>1, <4>3 DEF Kept, In
    <3>4. ASSUME NEW q \in Requests, pending' = Append(pending, q) PROVE Kept(r)'
      <4>1. q \in Ids
        BY DEF Ids
      <4>2. i \in DOMAIN pending' /\ pending'[i] = pending[i]
        BY <1>1, <3>4, <4>1, AppendFacts
      <4> QED BY <3>1, <4>2 DEF Kept, In
    <3>5. ASSUME NEW q \in Requests, NEW k \in DOMAIN pending, OnPermissionCancelled(q), pending[k] = q,
                 pending' = Without(pending, k)
          PROVE Kept(r)'
      <4>1. Reads("cancel", q)
        BY <3>5 DEF OnPermissionCancelled
      <4>2. q \in Closed
        BY <4>1, ReadIsHead DEF Standing, CancelledAreClosed
      <4>3. i # k
        BY <1>4, <3>1, <3>5, <4>2 DEF Closed
      <4>4. \E j \in DOMAIN pending' : pending'[j] = pending[i]
        BY <1>1, <3>5, <4>3, WithoutType
      <4> QED BY <3>1, <4>4 DEF Kept, In
    <3>6. CASE pending' = pending
      BY <3>1, <3>6 DEF Kept, In
    <3>7. ~Restart
      BY <2>4 DEF Restart, Dead
    <3> QED BY <2>1, <2>5, <3>2, <3>3, <3>4, <3>5, <3>6, <3>7, QueueMoves
  <2>8. ASSUME NEW c \in Clients, answer[c].pc \in Writing, answer[c].req = r PROVE Kept(r)'
    <3>1. ASSUME NEW d \in Clients, Write(d) PROVE answer'[c] = answer[c]
      BY <1>0, <1>4, <2>0, <2>8, <3>1 DEF Write, Reach, SetAnswer, TypeOK
    <3>2. ASSUME NEW d \in Clients, Started(d) \/ Complete(d) \/ Escalate(d) \/ ShiftSilently(d) \/ KillSession(d)
          PROVE answer'[c] = answer[c]
      BY <2>1, <2>8, <3>2 DEF Started, Complete, Escalate, ShiftSilently, KillSession, SetAnswer, TypeOK, Writing
    <3>3. ASSUME NEW d \in Clients, NEW q \in Ids, Forward(d, q) \/ StartFresh(d, q) PROVE answer'[c] = answer[c]
      BY <2>8, <3>3 DEF Forward, StartFresh, MayAnswer, SetAnswer, TypeOK, Writing
    <3>4. ~Restart
      BY <2>4 DEF Restart, Dead
    <3>5. answer'[c] = answer[c]
      BY <3>1, <3>2, <3>3, <3>4 DEF Next, Goes, Answering, Reading, Cli, Daemon, vars, Drop, OnPermission,
         OnPermissionCancelled, OnResult, BeginTurn, Ask, Withdraw, EndTurn, Deafen, Die, Interrupt, Load, Fetch,
         Start, Exited, Archive
    <3> QED BY <2>8, <3>5 DEF Kept
  <2> QED BY <2>5, <2>6, <2>7, <2>8 DEF Kept
<1> QED BY <1>3, <1>4, OnlyAskOpens

-----------------------------------------------------------------------------
Safe == TypeOK /\ Standing /\ NothingLost /\ RingIsRecent /\ FrontIsShown

LEMMA RingStep ==
    ASSUME TypeOK, [Next]_vars, RingIsRecent
    PROVE  RingIsRecent'
<1>1. /\ tombstones \in Seq(Requests) /\ removed \in Seq(Requests) /\ CancelledMemory \in Nat \ {0}
      /\ Len(tombstones) \in Nat /\ Len(removed) \in Nat
      /\ DOMAIN tombstones = 1..Len(tombstones) /\ DOMAIN removed = 1..Len(removed)
  BY BoundAssumption, LenProperties DEF TypeOK
<1>2. CASE tombstones' = tombstones /\ removed' = removed
  BY <1>2 DEF RingIsRecent
<1>3. CASE tombstones' = <<>> /\ removed' = <<>>
  BY <1>1, <1>3, EmptySeq DEF RingIsRecent
<1>4. ASSUME NEW r \in Requests, tombstones' = Remembering(r), removed' = Append(removed, r)
      PROVE RingIsRecent'
  <2> DEFINE ring == Append(tombstones, r)
             n == Len(tombstones)
             m == Len(removed)
  <2>1. /\ ring \in Seq(Requests) /\ Len(ring) = n + 1 /\ ring # <<>> /\ DOMAIN ring = 1..n + 1
        /\ ring[n + 1] = r /\ \A i \in 1..n : ring[i] = tombstones[i]
    BY <1>1, AppendFacts
  <2>2. /\ Len(removed') = m + 1 /\ removed'[m + 1] = r /\ \A i \in 1..m : removed'[i] = removed[i]
    BY <1>1, <1>4, AppendFacts
  <2>3. /\ n \in Nat /\ m \in Nat /\ n = IF m < CancelledMemory THEN m ELSE CancelledMemory
        /\ \A i \in 1..n : tombstones[i] = removed[m - n + i]
    BY <1>1 DEF RingIsRecent
  <2>4. tombstones' = IF n + 1 > CancelledMemory THEN Tail(ring) ELSE ring
    BY <1>4, <2>1 DEF Remembering
  <2>5. Len(Tail(ring)) = n /\ DOMAIN Tail(ring) = 1..n /\ \A i \in 1..n : Tail(ring)[i] = ring[i + 1]
    BY <2>1, <2>3, TailFacts
  <2> HIDE DEF ring, n, m
  <2>6. \A i \in 1..n + 1 : ring[i] = removed'[m - n + i]
    <3>1. ASSUME NEW i \in 1..n PROVE ring[i] = removed'[m - n + i]
      <4>1. m - n + i \in 1..m
        BY <1>1, <2>3
      <4>2. ring[i] = tombstones[i]
        BY <2>1
      <4>3. tombstones[i] = removed[m - n + i]
        BY <2>3
      <4>4. removed'[m - n + i] = removed[m - n + i]
        BY <2>2, <4>1
      <4> QED BY <4>2, <4>3, <4>4
    <3>2. m - n + (n + 1) = m + 1
      BY <2>3
    <3>3. ring[n + 1] = removed'[m - n + (n + 1)]
      BY <2>1, <2>2, <3>2
    <3>4. \A i \in 1..n + 1 : i \in 1..n \/ i = n + 1
      BY <2>3
    <3> QED BY <3>1, <3>3, <3>4
  <2>7. CASE n + 1 > CancelledMemory
    <3>1. n = CancelledMemory /\ ~(m + 1 < CancelledMemory)
      BY <1>1, <2>3, <2>7
    <3>2. ASSUME NEW i \in 1..n PROVE tombstones'[i] = removed'[(m + 1) - n + i]
      <4>1. i + 1 \in 1..n + 1 /\ m - n + (i + 1) = (m + 1) - n + i
        BY <2>3
      <4> QED BY <2>4, <2>5, <2>6, <2>7, <4>1
    <3> QED BY <2>2, <2>4, <2>5, <2>7, <3>1, <3>2 DEF RingIsRecent
  <2>8. CASE ~(n + 1 > CancelledMemory)
    <3>1. n = m /\ (IF m + 1 < CancelledMemory THEN m + 1 ELSE CancelledMemory) = n + 1
      BY <1>1, <2>3, <2>8
    <3>2. ASSUME NEW i \in 1..n + 1 PROVE tombstones'[i] = removed'[(m + 1) - (n + 1) + i]
      <4>1. m - n + i = (m + 1) - (n + 1) + i
        BY <2>3
      <4> QED BY <2>4, <2>6, <2>8, <4>1
    <3> QED BY <2>1, <2>2, <2>4, <2>8, <3>1, <3>2 DEF RingIsRecent
  <2> QED BY <2>7, <2>8
<1> QED BY <1>2, <1>3, <1>4, RingMoves

LEMMA FrontStep ==
    ASSUME TypeOK, [Next]_vars, FrontIsShown
    PROVE  FrontIsShown'
<1>1. announced \subseteq announced' /\ hushed \subseteq hushed'
  BY DEF Next, Goes, Answering, Reading, Cli, Daemon, vars, shown, Drop, Forward, StartFresh, Started, Write,
     Complete,
     Escalate, ShiftSilently, KillSession, OnPermission, OnPermissionCancelled, OnResult, BeginTurn, Ask, Withdraw,
     EndTurn, Deafen, Die, Interrupt, Load, Fetch, Start, Exited, Archive, Restart
<1>2. CASE Promoted(pending') \subseteq announced' \cup hushed'
  BY <1>1, <1>2 DEF FrontIsShown, Unseen, Promoted
<1>3. CASE pending' = <<>> \/ pending' = pending
  BY <1>1, <1>3 DEF FrontIsShown, Unseen
<1>4. CASE pending' = <<Placeholder>> /\ announced' = announced \cup {Placeholder}
  BY <1>4 DEF FrontIsShown, Unseen
<1>5. ASSUME NEW c \in Clients,
Complete(c) \/ ShiftSilently(c) PROVE Promoted(pending') \subseteq announced' \cup hushed'
  BY <1>5 DEF Complete, ShiftSilently
<1>6. ASSUME NEW r \in Requests, OnPermission(r) PROVE Promoted(pending') \subseteq announced' \cup hushed'
  BY <1>6 DEF OnPermission
<1>7. ASSUME NEW r \in Requests, OnPermissionCancelled(r)
      PROVE Promoted(pending') \subseteq announced' \cup hushed' \/ pending' = pending
  BY <1>7 DEF OnPermissionCancelled
<1> QED
  BY <1>2, <1>3, <1>4, <1>5, <1>6, <1>7 DEF Next, Goes, Answering, Reading, Cli, Daemon, vars, manager, Drop, Forward,
     StartFresh, Started, Write, Escalate, KillSession, OnResult, Clear, BeginTurn, Ask, Withdraw, EndTurn, Deafen,
     Die,
     Interrupt, Load, Fetch, Start, Exited, Archive, Restart

LEMMA SafeInit == Init => Safe
<1> SUFFICES ASSUME Init PROVE Safe
  OBVIOUS
<1>1. TypeOK
  <2>1. MaxTurns \in Nat /\ MaxFaults \in Nat /\ CancelledMemory \in Nat \ {0}
    BY BoundAssumption
  <2>2. \A S : <<>> \in Seq(S) /\ Len(<<>>) = 0
    BY EmptySeq
  <2>3. answer \in [Clients -> [pc : Pcs, req : Ids]]
    BY DEF Init, Quiet, Pcs, Ids
  <2>4. 0 \in 0..MaxTurns /\ 0 \in 0..MaxFaults
    BY <2>1
  <2>5. /\ pending \in Seq(Ids) /\ pipe \in Seq([kind : {"ask", "cancel", "result"}, req : Ids])
        /\ tombstones \in Seq(Requests) /\ removed \in Seq(Requests) /\ Len(tombstones) <= CancelledMemory
    BY <2>1, <2>2 DEF Init
  <2>6. cli \in [Requests -> {"unasked", "open", "answered", "withdrawn", "gone"}]
    BY DEF Init
  <2>7. turns \in 0..MaxTurns /\ faults \in 0..MaxFaults /\ announced \subseteq Ids /\ hushed \subseteq Ids
        /\ session = "absent" /\ proc = "none" /\ interrupted \in BOOLEAN /\ turn \in BOOLEAN /\ stopping \in BOOLEAN
    BY <2>4 DEF Init
  <2> QED BY <2>3, <2>5, <2>6, <2>7 DEF TypeOK
<1>2. Standing
  BY IdAssumption DEF Init, Standing, OpenLives, KnownAreOpened, WrittenAreClosed, CancelledAreClosed,
     ResultsAreOld, Answered, Quiet
<1>3. NothingLost /\ FrontIsShown
  BY DEF Init, NothingLost, FrontIsShown, Unseen
<1>4. RingIsRecent
  BY BoundAssumption DEF Init, RingIsRecent
<1> QED BY <1>1, <1>2, <1>3, <1>4 DEF Safe

LEMMA SafeStep == Safe /\ [Next]_vars => Safe'
BY TypeStep, OpenLivesStep, KnownStep, WrittenStep, CancelledStep, ResultsStep, LostStep, RingStep, FrontStep
   DEF Safe, Standing

(* An answer begins with an id the ring does not hold, and the ring holds  *)
(* the last CancelledMemory withdrawals.                                   *)
LEMMA BegunIsRemembered ==
    ASSUME Safe, [Next]_vars, NEW c \in Clients, answer[c].pc = "quiet", answer'[c].pc # "quiet",
           NEW i \in DOMAIN removed, i > Len(removed) - CancelledMemory
    PROVE  removed[i] # answer'[c].req
<1>1. /\ tombstones \in Seq(Requests) /\ removed \in Seq(Requests) /\ CancelledMemory \in Nat \ {0}
      /\ Len(tombstones) \in Nat /\ Len(removed) \in Nat /\ removed[i] \in Requests
      /\ DOMAIN tombstones = 1..Len(tombstones) /\ DOMAIN removed = 1..Len(removed)
  BY BoundAssumption, LenProperties, ElementOfSeq DEF Safe, TypeOK
<1>2. ~WasCancelled(answer'[c].req)
  <2>1. ASSUME NEW d \in Clients, Goes(d) PROVE answer'[c].pc = "quiet"
    <3>1. answer[d].pc # "quiet" /\ \E r, pc : SetAnswer(d, pc, r)
      BY <2>1 DEF Goes, Started, Write, Writing, Complete, Escalate, ShiftSilently, KillSession
    <3> QED BY <3>1 DEF SetAnswer, Safe, TypeOK
  <2>2. ASSUME NEW d \in Clients, NEW r \in Ids, Forward(d, r) \/ StartFresh(d, r) PROVE ~WasCancelled(answer'[c].req)
    <3>1. ~WasCancelled(r) /\ \E pc : SetAnswer(d, pc, r)
      BY <2>2 DEF Forward, StartFresh
    <3>2. answer'[d].req = r /\ (c # d => answer'[c] = answer[c])
      BY <3>1 DEF SetAnswer, Safe, TypeOK
    <3> QED BY <3>1, <3>2
  <2>3. Restart => answer'[c].pc = "quiet"
    BY DEF Restart, Quiet
  <2> QED
    BY <2>1, <2>2, <2>3 DEF Next, Answering, Reading, Cli, Daemon, vars, Drop, OnPermission, OnPermissionCancelled,
       OnResult, BeginTurn, Ask, Withdraw, EndTurn, Deafen, Die, Interrupt, Load, Fetch, Start, Exited, Archive
<1>3. \E j \in DOMAIN tombstones : tombstones[j] = removed[i]
  <2> DEFINE j == i - (Len(removed) - Len(tombstones))
  <2>1. j \in 1..Len(tombstones) /\ Len(removed) - Len(tombstones) + j = i
    BY <1>1 DEF Safe, RingIsRecent
  <2> QED BY <1>1, <2>1 DEF Safe, RingIsRecent
<1> QED BY <1>1, <1>2, <1>3, IdAssumption DEF WasCancelled, In

LEMMA AlwaysSafe == Spec => []Safe
BY SafeInit, SafeStep, PTL DEF Spec

(* Every variable keeps its type: the ring of withdrawn requests never     *)
(* outgrows CancelledMemory, and an answer is of a known kind and request. *)
THEOREM TypeCorrect == Spec => []TypeOK
BY AlwaysSafe, PTL DEF Safe

(* The active prompt of a chat is one the clients were told of, unless the *)
(* clear-context approval of a plan promoted it silently: a promotion by   *)
(* an answer, a withdrawal or an empty queue is announced.                 *)
THEOREM FrontShown == Spec => []FrontIsShown
BY AlwaysSafe, PTL DEF Safe

(* A question that a CLI with an open stdin waits on is in the pipe, in    *)
(* the queue or being written, whatever answers, withdrawals, results and  *)
(* deaths race.                                                            *)
THEOREM NoPromptLost == Spec => []NothingLost
BY AlwaysSafe, PTL DEF Safe

(* An answer to one of the last CancelledMemory withdrawn prompts never    *)
(* begins, whatever cleared the queue in between.                          *)
THEOREM WithdrawnUnanswered == Spec => WithdrawnStaysUnanswered
<1>1. Safe /\ [Next]_vars =>
        [\A c \in Clients :
            answer[c].pc = "quiet" /\ answer'[c].pc # "quiet" =>
                \A i \in DOMAIN removed :
                    i > Len(removed) - CancelledMemory => removed[i] # answer'[c].req]_vars
  BY BegunIsRemembered
<1> QED BY <1>1, AlwaysSafe, PTL DEF Spec, WithdrawnStaysUnanswered

=============================================================================
