----------------------- MODULE BackgroundTasksProofs -----------------------
(***************************************************************************)
(* The daemon does not call a bash task stopped while its process writes:  *)
(* for any number of tasks, processes, failing lsofs and deaths of the     *)
(* daemon, whoever calls the tracker meanwhile.  And no agent is left      *)
(* running when the exit of its CLI has been handled.                      *)
(***************************************************************************)
EXTENDS BackgroundTasks, SequenceTheorems, TLAPS

(* Those whose verdict the daemon itself has come to.                      *)
Judges == {"sweep", "kill", "boot"}

(* No process writes the file, and none will again.                        *)
Gone(t) == Spooled(t) /\ Writers(t) = {}

Ops == {"none", "start", "end", "adopt", "link"}
Stages == {"none", "read", "write", "send"}
States == {"none", "running", "completed", "stopped"}
Kinds == {"started", "link", "updated", "ended"}

Calls == [op : Ops, t : Tasks \cup {None}, st : States, step : Stages, keep : BOOLEAN]
Probes == [t : Tasks \cup {None}, ok : BOOLEAN, pids : SUBSET Pids]
Lines == [kind : Kinds, t : Tasks]

WorldShape ==
    /\ proc \in [Bash -> [Pids -> {"unborn", "alive", "dead"}]]
    /\ lines \in Seq(Lines)

BookShape ==
    /\ status \in [Tasks -> States] /\ old \in [Tasks -> BOOLEAN] /\ blind \in BOOLEAN
    /\ call \in [Actors -> Calls]
    /\ todo \in [Actors -> SUBSET Tasks]
    /\ probe \in [Actors -> Probes]

Shape == WorldShape /\ BookShape

(* What is past its grace has had its file opened.                         *)
OldOK == \A t \in Bash : old[t] => Spooled(t)

CallOK(a) ==
    /\ call[a].keep /\ call[a].t \in Bash => Spooled(call[a].t)
    /\ a \in Judges => call[a].op \in {"none", "end", "adopt"}
    /\ call[a].op = "adopt" /\ call[a].t \in Bash => Spooled(call[a].t)
    /\ a \in Judges /\ call[a].op # "none" /\ call[a].st = "stopped" /\ call[a].t \in Bash =>
           Gone(call[a].t) \/ (blind /\ a # "sweep")

ListOK(a) == a \in {"sweep", "boot"} => \A t \in todo[a] : t \in Bash /\ Spooled(t)

(* An answer of lsof stays true once it is that nobody writes. Only kills  *)
(* ask about files that may not be there yet.                              *)
ProbeOK(a) ==
    a \in Judges /\ probe[a].t # None =>
        /\ probe[a].t \in Bash
        /\ a # "kill" => Spooled(probe[a].t)
        /\ a # "kill" /\ probe[a].ok /\ probe[a].pids = {} => Gone(probe[a].t)
        /\ probe[a].pids # {} \/ probe[a].t \notin todo[a] => Spooled(probe[a].t)

Inv == Shape /\ OldOK /\ \A a \in Actors : CallOK(a) /\ ListOK(a) /\ ProbeOK(a)

-----------------------------------------------------------------------------
(* A step in which no file is forgotten or gets a writer again keeps what  *)
(* holds of every actor whose call, list and probe it leaves alone.        *)
OneWay == \A t \in Bash : (Spooled(t) => Spooled(t)') /\ (Gone(t) => Gone(t)')

LEMMA Carry ==
    ASSUME Inv, OneWay, blind => blind', NEW a \in Actors
    PROVE  /\ call'[a] = call[a] => CallOK(a)'
           /\ todo'[a] = todo[a] => ListOK(a)'
           /\ todo'[a] = todo[a] /\ probe'[a] = probe[a] => ProbeOK(a)'
<1>1. CallOK(a) /\ ListOK(a) /\ ProbeOK(a)
  BY DEF Inv
<1>2. call'[a] = call[a] => CallOK(a)'
  BY <1>1 DEF OneWay, CallOK
<1>3. todo'[a] = todo[a] => ListOK(a)'
  BY <1>1 DEF OneWay, ListOK
<1>4. todo'[a] = todo[a] /\ probe'[a] = probe[a] => ProbeOK(a)'
  BY <1>1 DEF OneWay, ProbeOK
<1> QED BY <1>2, <1>3, <1>4

LEMMA Still == ASSUME UNCHANGED proc PROVE OneWay
BY DEF OneWay, Spooled, Gone, Writers

LEMMA Unasking ==
    ASSUME NEW a \in Actors, BookShape, Forgotten(a)
    PROVE  probe' \in [Actors -> Probes] /\ ProbeOK(a)' /\ \A b \in Actors \ {a} : probe'[b] = probe[b]
<1>1. Unasked \in Probes /\ Unasked.t = None
  BY DEF Unasked, Probes
<1> QED BY <1>1 DEF Forgotten, BookShape, ProbeOK

LEMMA Calling ==
    ASSUME NEW a \in Actors, BookShape, NEW op \in Ops, NEW t \in Tasks \cup {None}, NEW st \in States,
           NEW step \in Stages, Call(a, op, t, st, step)
    PROVE  /\ call' \in [Actors -> Calls] /\ \A b \in Actors \ {a} : call'[b] = call[b]
           /\ call'[a] = [op |-> op, t |-> t, st |-> st, step |-> step, keep |-> FALSE]
BY DEF Call, BookShape, Calls

LEMMA Asking ==
    ASSUME Inv, NEW a \in Actors, NEW t \in Bash, Lsof(a, t), UNCHANGED proc,
           a \in {"sweep", "boot"} => Spooled(t), a = "kill" => t \in todo'[a]
    PROVE  /\ probe' \in [Actors -> Probes] /\ ProbeOK(a)'
           /\ \A b \in Actors \ {a} : probe'[b] = probe[b]
<1>1. t \in Tasks /\ Writers(t) \in SUBSET Pids
  BY TaskAssumption DEF Writers
<1>2. Spooled(t)' <=> Spooled(t)
  BY DEF Spooled
<1>3. Writers(t)' = Writers(t)
  BY DEF Writers
<1>4. Writers(t) # {} => Spooled(t)
  BY DEF Writers, Spooled
<1>5. CASE probe' = [probe EXCEPT ![a] = [t |-> t, ok |-> TRUE, pids |-> Writers(t)]]
  BY <1>1, <1>2, <1>3, <1>4, <1>5 DEF Inv, Shape, BookShape, Probes, ProbeOK, Gone, Judges
<1>6. CASE probe' = [probe EXCEPT ![a] = [t |-> t, ok |-> FALSE, pids |-> {}]]
  BY <1>1, <1>2, <1>6 DEF Inv, Shape, BookShape, Probes, ProbeOK, Judges
<1> QED BY <1>5, <1>6 DEF Lsof

LEMMA SeqOfOne == ASSUME NEW S, NEW x \in S PROVE <<x>> \in Seq(S)
OBVIOUS

LEMMA SeqOfTwo == ASSUME NEW S, NEW x \in S, NEW y \in S PROVE <<x, y>> \in Seq(S)
OBVIOUS

LEMMA Saying ==
    ASSUME WorldShape, NEW t \in Tasks, NEW k1 \in Kinds, NEW k2 \in Kinds,
           \/ lines' = lines \o <<Line(k1, t)>>
           \/ lines' = lines \o <<Line(k1, t), Line(k2, t)>>
           \/ lines' = lines
    PROVE  lines' \in Seq(Lines)
<1>1. Line(k1, t) \in Lines /\ Line(k2, t) \in Lines
  BY DEF Line, Lines
<1>2. <<Line(k1, t)>> \in Seq(Lines) /\ <<Line(k1, t), Line(k2, t)>> \in Seq(Lines)
  BY <1>1, SeqOfOne, SeqOfTwo
<1>3. lines \in Seq(Lines)
  BY DEF WorldShape
<1>4. /\ lines \o <<Line(k1, t)>> \in Seq(Lines)
      /\ lines \o <<Line(k1, t), Line(k2, t)>> \in Seq(Lines)
  BY <1>2, <1>3, ConcatProperties
<1> QED BY <1>3, <1>4

(* A step of one actor that leaves the books of the others alone.          *)
LEMMA Acting ==
    ASSUME Inv, OneWay, blind => blind', Shape', OldOK', NEW a \in Actors,
           \A b \in Actors \ {a} : call'[b] = call[b] /\ todo'[b] = todo[b] /\ probe'[b] = probe[b],
           CallOK(a)', ListOK(a)', ProbeOK(a)'
    PROVE  Inv'
<1>1. ASSUME NEW b \in Actors PROVE CallOK(b)' /\ ListOK(b)' /\ ProbeOK(b)'
  <2>1. CASE b = a
    BY <2>1
  <2>2. CASE b # a
    BY <2>2, Carry
  <2> QED BY <2>1, <2>2
<1> QED BY <1>1 DEF Inv

LEMMA Passing ==
    ASSUME Inv, OneWay, blind => blind', Shape', OldOK', UNCHANGED actors
    PROVE  Inv'
<1>1. ASSUME NEW b \in Actors PROVE CallOK(b)' /\ ListOK(b)' /\ ProbeOK(b)'
  BY Carry DEF actors
<1> QED BY <1>1 DEF Inv

LEMMA InvInit == Init => Inv
<1> SUFFICES ASSUME Init PROVE Inv
  OBVIOUS
<1>1. Idle \in Calls /\ Idle.op = "none" /\ Idle.keep = FALSE
  BY DEF Idle, Calls, Ops, Stages, States
<1>2. Unasked \in Probes /\ Unasked.t = None
  BY DEF Unasked, Probes
<1>3. WorldShape
  BY EmptySeq DEF Init, WorldShape
<1>4. BookShape
  BY <1>1, <1>2 DEF Init, BookShape, States
<1>5. OldOK
  BY TaskAssumption DEF Init, OldOK
<1>6. ASSUME NEW a \in Actors PROVE CallOK(a) /\ ListOK(a) /\ ProbeOK(a)
  BY <1>1, <1>2 DEF Init, CallOK, ListOK, ProbeOK
<1> QED BY <1>3, <1>4, <1>5, <1>6 DEF Inv, Shape

-----------------------------------------------------------------------------
(* The tracker *)

LEMMA TrackInv == ASSUME Inv, NEW a \in Actors, Track(a) PROVE Inv'
<1>1. UNCHANGED <<proc, lines, todo, probe, blind>>
  BY DEF Track, StartRead, StartWrite, EndRead, EndWrite, AdoptWrite, LinkWrite, Send, world, tracker, count
<1>2. OneWay
  BY <1>1, Still
<1>3. CallOK(a) /\ call[a] \in Calls /\ a \in DOMAIN call
  BY DEF Inv, Shape, BookShape
<1>4. Idle \in Calls /\ Idle.op = "none" /\ Idle.keep = FALSE
  BY DEF Idle, Calls, Ops, Stages, States
<1>5. /\ call' \in [Actors -> Calls] /\ \A b \in Actors \ {a} : call'[b] = call[b]
      /\ status' \in [Tasks -> States] /\ old' \in [Tasks -> BOOLEAN]
      /\ OldOK' /\ CallOK(a)'
  <2>1. CASE StartRead(a)
    BY <1>1, <1>3, <2>1 DEF StartRead, At, tracker, Inv, Shape, BookShape, Calls, Ops, Stages, States, OldOK, CallOK, Spooled, Gone, Writers, Judges
  <2>2. CASE StartWrite(a)
    <3>1. call[a].op = "start" /\ call' = [call EXCEPT ![a].step = "send"]
      BY <2>2 DEF StartWrite, At
    <3>2. PICK o \in BOOLEAN : old' = [old EXCEPT ![call[a].t] = o] /\ (o /\ call[a].t \in Bash => Spooled(call[a].t))
      BY <1>3, <2>2, <3>1 DEF StartWrite, CallOK, Calls
    <3>3. old' \in [Tasks -> BOOLEAN] /\ status' \in [Tasks -> States]
      BY <1>3, <2>2, <3>2 DEF StartWrite, Inv, Shape, BookShape, Calls, States
    <3>4. OldOK'
      BY <1>1, <3>2, TaskAssumption DEF Inv, Shape, BookShape, OldOK, Spooled
    <3>5. call' \in [Actors -> Calls] /\ \A b \in Actors \ {a} : call'[b] = call[b]
      BY <1>3, <3>1 DEF Inv, Shape, BookShape, Calls, Stages
    <3>6. CallOK(a)'
      BY <1>1, <1>3, <3>1 DEF Inv, Shape, BookShape, Calls, CallOK, Spooled, Gone, Writers, Judges
    <3> QED BY <3>3, <3>4, <3>5, <3>6
  <2>3. CASE EndRead(a)
    BY <1>1, <1>3, <1>4, <2>3 DEF EndRead, At, tracker, Inv, Shape, BookShape, Calls, Ops, Stages, States, OldOK, CallOK, Spooled, Gone, Writers, Judges
  <2>4. CASE EndWrite(a)
    <3>1. call[a].op = "end" /\ call' = [call EXCEPT ![a].step = "send"] /\ old' = old
      BY <2>4 DEF EndWrite, At
    <3>2. status' \in [Tasks -> States]
      BY <1>3, <2>4 DEF EndWrite, Inv, Shape, BookShape, Calls, States
    <3>3. old' \in [Tasks -> BOOLEAN] /\ OldOK'
      BY <1>1, <3>1 DEF Inv, Shape, BookShape, OldOK, Spooled
    <3>4. call' \in [Actors -> Calls] /\ \A b \in Actors \ {a} : call'[b] = call[b]
      BY <1>3, <3>1 DEF Inv, Shape, BookShape, Calls, Stages
    <3>5. CallOK(a)'
      BY <1>1, <1>3, <3>1 DEF Inv, Shape, BookShape, Calls, CallOK, Spooled, Gone, Writers, Judges
    <3> QED BY <3>2, <3>3, <3>4, <3>5
  <2>5. CASE AdoptWrite(a)
    <3>1. call[a].op = "adopt" /\ call' = [call EXCEPT ![a].step = "send"]
      BY <2>5 DEF AdoptWrite, At
    <3>2. PICK o \in BOOLEAN : old' = [old EXCEPT ![call[a].t] = o] /\ (o /\ call[a].t \in Bash => Spooled(call[a].t))
      BY <1>3, <2>5, <3>1 DEF AdoptWrite, CallOK, Calls
    <3>3. old' \in [Tasks -> BOOLEAN] /\ status' \in [Tasks -> States]
      BY <1>3, <2>5, <3>2 DEF AdoptWrite, Inv, Shape, BookShape, Calls, States
    <3>4. OldOK'
      BY <1>1, <3>2, TaskAssumption DEF Inv, Shape, BookShape, OldOK, Spooled
    <3>5. /\ call' \in [Actors -> Calls] /\ \A b \in Actors \ {a} : call'[b] = call[b]
          /\ CallOK(a)'
      BY <1>1, <1>3, <3>1 DEF Inv, Shape, BookShape, Calls, Stages, CallOK, Spooled, Gone, Writers, Judges
    <3> QED BY <3>3, <3>4, <3>5
  <2>6. CASE LinkWrite(a)
    BY <1>1, <1>3, <1>4, <2>6 DEF LinkWrite, At, tracker, Inv, Shape, BookShape, Calls, Ops, Stages, States, OldOK, CallOK, Spooled, Gone, Writers, Judges
  <2>7. CASE Send(a)
    BY <1>1, <1>3, <1>4, <2>7 DEF Send, Inv, Shape, BookShape, Calls, Ops, Stages, States, OldOK, CallOK, Spooled, Gone, Writers, Judges
  <2> QED BY <2>1, <2>2, <2>3, <2>4, <2>5, <2>6, <2>7 DEF Track
<1>6. Shape'
  BY <1>1, <1>5 DEF Inv, Shape, WorldShape, BookShape
<1>7. ListOK(a)' /\ ProbeOK(a)'
  BY <1>1, <1>2, Carry
<1> QED BY <1>1, <1>2, <1>5, <1>6, <1>7, Acting

-----------------------------------------------------------------------------
(* Steps that are nobody's call *)

LEMMA WorldInv ==
    ASSUME Inv, OneWay, WorldShape', UNCHANGED <<tracker, actors, blind>>
    PROVE  Inv'
<1>1. BookShape'
  BY DEF Inv, Shape, BookShape, tracker, actors
<1>2. OldOK'
  BY DEF Inv, OldOK, OneWay, tracker
<1> QED BY <1>1, <1>2, Passing DEF Shape

LEMMA CliInv ==
    ASSUME Inv, StartCli \/ Die \/ \E t \in Tasks : Begin(t) \/ Tell(t)
    PROVE  Inv'
<1>1. UNCHANGED <<proc, tracker, actors, blind>>
  BY DEF StartCli, Begin, Tell, Die, count, sweeper
<1>2. lines' \in Seq(Lines)
  <2>1. CASE StartCli
    <3>1. CASE lines' = <<>>
      BY <3>1, EmptySeq
    <3>2. CASE \E u \in Bash : lines' = <<Line("started", u)>>
      <4>1. PICK u \in Bash : lines' = <<Line("started", u)>>
        BY <3>2
      <4>2. Line("started", u) \in Lines
        BY TaskAssumption DEF Line, Lines, Kinds
      <4> QED BY <4>1, <4>2, SeqOfOne
    <3> QED BY <2>1, <3>1, <3>2 DEF StartCli
  <2>2. ASSUME NEW t \in Tasks, Begin(t) PROVE lines' \in Seq(Lines)
    <3>1. WorldShape
      BY DEF Inv, Shape
    <3>2. \/ lines' = lines \o <<Line("started", t)>>
          \/ lines' = lines \o <<Line("started", t), Line("link", t)>>
      BY <2>2 DEF Begin, Says
    <3> QED BY <3>1, <3>2, Saying DEF Kinds
  <2>3. ASSUME NEW t \in Tasks, Tell(t) PROVE lines' \in Seq(Lines)
    BY <2>3, Saying DEF Tell, Says, Inv, Shape, Kinds
  <2>4. CASE Die
    BY <2>4 DEF Die, Inv, Shape, WorldShape
  <2> QED BY <2>1, <2>2, <2>3, <2>4
<1>3. WorldShape'
  BY <1>1, <1>2 DEF Inv, Shape, WorldShape
<1> QED BY <1>1, <1>3, Still, WorldInv

LEMMA ProcessInv ==
    ASSUME Inv, NEW t \in Bash, NEW p \in Pids, Open(t, p) \/ Quit(t, p)
    PROVE  Inv'
<1>1. PICK s \in {"alive", "dead"} :
          proc' = [proc EXCEPT ![t][p] = s] /\ (s = "alive" => ~Gone(t))
  BY DEF Open, Quit, Gone
<1>2. WorldShape'
  BY <1>1 DEF Open, Quit, Inv, Shape, WorldShape
<1>3. OneWay
  BY <1>1 DEF Inv, Shape, WorldShape, OneWay, Gone, Spooled, Writers
<1>4. UNCHANGED <<tracker, actors, blind>>
  BY DEF Open, Quit, count
<1> QED BY <1>2, <1>3, <1>4, WorldInv

LEMMA AgeInv == ASSUME Inv, NEW t \in Tasks, Age(t) PROVE Inv'
<1>1. UNCHANGED <<proc, lines, status, actors, blind>> /\ old' = [old EXCEPT ![t] = TRUE]
  BY DEF Age, world, count
<1>2. Shape'
  BY <1>1 DEF Inv, Shape, WorldShape, BookShape, actors
<1>3. OldOK'
  BY <1>1, TaskAssumption DEF Age, Inv, Shape, BookShape, OldOK, Spooled
<1> QED BY <1>1, <1>2, <1>3, Still, Passing

LEMMA RemoveInv == ASSUME Inv, Remove PROVE Inv'
<1>1. UNCHANGED <<proc, lines, actors, blind>> /\ status' = [t \in Tasks |-> "none"] /\ old' = [t \in Tasks |-> FALSE]
  BY DEF Remove, world
<1>2. Shape'
  BY <1>1 DEF Inv, Shape, WorldShape, BookShape, actors, States
<1>3. OldOK'
  BY <1>1, TaskAssumption DEF OldOK
<1> QED BY <1>1, <1>2, <1>3, Still, Passing

LEMMA CrashInv == ASSUME Inv, Crash PROVE Inv'
<1>1. Idle \in Calls /\ Idle.op = "none" /\ Idle.keep = FALSE
  BY DEF Idle, Calls, Ops, Stages, States
<1>2. Unasked \in Probes /\ Unasked.t = None
  BY DEF Unasked, Probes
<1>3. WorldShape'
  BY EmptySeq DEF Crash, Inv, Shape, WorldShape
<1>4. BookShape'
  BY <1>1, <1>2 DEF Crash, Inv, Shape, BookShape, States
<1>5. OldOK'
  BY TaskAssumption DEF Crash, OldOK
<1>6. ASSUME NEW a \in Actors PROVE CallOK(a)' /\ ListOK(a)' /\ ProbeOK(a)'
  BY <1>1, <1>2 DEF Crash, CallOK, ListOK, ProbeOK
<1> QED BY <1>3, <1>4, <1>5, <1>6 DEF Inv, Shape

-----------------------------------------------------------------------------
(* The reader and the exit *)

(* A call to end that nobody has judged, or one for which the file is gone.*)
LEMMA Ending ==
    ASSUME Inv, OneWay, blind => blind', blind' \in BOOLEAN, NEW a \in Actors, NEW t \in Tasks,
           NEW st \in States,
           Call(a, "end", t, st, "read"),
           a \in Judges /\ st = "stopped" /\ t \in Bash => Gone(t)' \/ (blind' /\ a # "sweep")
    PROVE  call' \in [Actors -> Calls] /\ CallOK(a)' /\ \A b \in Actors \ {a} : call'[b] = call[b]
<1>1. "end" \in Ops /\ "read" \in Stages /\ BookShape /\ t \in Tasks \cup {None}
  BY DEF Inv, Shape, Ops, Stages
<1>2. /\ call' \in [Actors -> Calls] /\ \A b \in Actors \ {a} : call'[b] = call[b]
      /\ call'[a] = [op |-> "end", t |-> t, st |-> st, step |-> "read", keep |-> FALSE]
  BY <1>1, Calling
<1>3. CallOK(a)'
  BY <1>2 DEF CallOK
<1> QED BY <1>2, <1>3

LEMMA ReadInv == ASSUME Inv, Read PROVE Inv'
<1> DEFINE l == Head(lines)
<1>1. UNCHANGED <<proc, status, old, todo, probe, blind>> /\ lines # <<>> /\ lines' = Tail(lines)
  BY DEF Read, tracker, count
<1>2. l \in Lines /\ lines' \in Seq(Lines)
  BY <1>1, HeadTailProperties DEF Inv, Shape, WorldShape
<1>3. PICK op \in Ops, st \in States, step \in Stages :
          Call("reader", op, l.t, st, step) /\ op # "adopt"
  BY <1>2 DEF Read, Ops, States, Stages
<1>4. "reader" \in Actors /\ "reader" \notin Judges /\ l.t \in Tasks \cup {None}
  BY <1>2 DEF Actors, Judges, Lines
<1>5. /\ call' \in [Actors -> Calls] /\ \A b \in Actors \ {"reader"} : call'[b] = call[b]
      /\ call'["reader"].keep = FALSE /\ call'["reader"].op # "adopt"
  <2>1. BookShape
    BY DEF Inv, Shape
  <2>2. /\ call' \in [Actors -> Calls] /\ \A b \in Actors \ {"reader"} : call'[b] = call[b]
        /\ call'["reader"] = [op |-> op, t |-> l.t, st |-> st, step |-> step, keep |-> FALSE]
    BY <1>3, <1>4, <2>1, Calling
  <2> QED BY <1>3, <2>2
<1>6. CallOK("reader")'
  BY <1>4, <1>5 DEF CallOK
<1>7. Shape' /\ OldOK'
  BY <1>1, <1>2, <1>5 DEF Inv, Shape, WorldShape, BookShape, OldOK, Spooled
<1>8. OneWay
  BY <1>1, Still
<1>9. ListOK("reader")' /\ ProbeOK("reader")'
  BY <1>1, <1>4, <1>8, Carry
<1> QED BY <1>1, <1>4, <1>5, <1>6, <1>7, <1>8, <1>9, Acting

(* A step that only gives an actor a list.                                 *)
LEMMA Listing ==
    ASSUME Inv, UNCHANGED <<proc, lines, status, old, call, probe, blind>>, NEW a \in Actors, NEW ts \in SUBSET Tasks,
           todo' = [todo EXCEPT ![a] = ts],
           a \in {"sweep", "boot"} => \A t \in ts : t \in Bash /\ Spooled(t),
           a = "kill" => probe[a].t = None
    PROVE  Inv'
<1>1. OneWay
  BY Still
<1>2. Shape' /\ OldOK'
  BY DEF Inv, Shape, WorldShape, BookShape, OldOK, Spooled
<1>3. CallOK(a)'
  BY <1>1, Carry
<1>4. ListOK(a)'
  BY <1>1 DEF Inv, Shape, BookShape, ListOK, OneWay
<1>5. ProbeOK(a)'
  <2>1. ProbeOK(a) /\ probe'[a] = probe[a] /\ todo'[a] = ts
    BY DEF Inv, Shape, BookShape
  <2> QED BY <1>1, <2>1 DEF ProbeOK, OneWay
<1> QED BY <1>1, <1>2, <1>3, <1>4, <1>5, Acting

LEMMA ExitInv == ASSUME Inv, OnExit \/ \E t \in Tasks : ExitNext(t) PROVE Inv'
<1>1. "exit" \in Actors /\ "exit" \notin Judges /\ "stopped" \in States /\ Running \in SUBSET Tasks
  BY DEF Actors, Judges, States, Running
<1>2. UNCHANGED <<proc, lines, status, old, probe, blind>>
  BY DEF OnExit, ExitNext, world, tracker, count
<1>3. CASE OnExit
  BY <1>1, <1>2, <1>3, Listing DEF OnExit
<1>4. ASSUME NEW t \in Tasks, ExitNext(t) PROVE Inv'
  <2>1. OneWay /\ blind' \in BOOLEAN
    BY <1>2, Still DEF Inv, Shape, BookShape
  <2>2. call' \in [Actors -> Calls] /\ CallOK("exit")' /\ \A b \in Actors \ {"exit"} : call'[b] = call[b]
    BY <1>1, <1>2, <1>4, <2>1, Ending DEF ExitNext
  <2>3. todo' \in [Actors -> SUBSET Tasks] /\ \A b \in Actors \ {"exit"} : todo'[b] = todo[b]
    BY <1>4 DEF ExitNext, Inv, Shape, BookShape
  <2>4. Shape' /\ OldOK'
    BY <1>2, <2>2, <2>3 DEF Inv, Shape, WorldShape, BookShape, OldOK, Spooled
  <2>5. ListOK("exit")' /\ ProbeOK("exit")'
    BY <1>1 DEF ListOK, ProbeOK
  <2> QED BY <1>1, <1>2, <2>1, <2>2, <2>3, <2>4, <2>5, Acting
<1> QED BY <1>3, <1>4

-----------------------------------------------------------------------------
(* The sweep *)

LEMMA TickInv == ASSUME Inv, Tick PROVE Inv'
<1> DEFINE ts == {t \in Running \cap Bash : old[t]}
<1>1. UNCHANGED <<proc, lines, status, old, call, probe, blind>>
  BY DEF Tick, world, tracker, count
<1>2. "sweep" \in Actors /\ ts \in SUBSET Tasks
  BY DEF Actors, Running
<1>3. \A t \in ts : t \in Bash /\ Spooled(t)
  BY DEF Inv, OldOK
<1>4. todo' = [todo EXCEPT !["sweep"] = ts]
  BY DEF Tick
<1> QED BY ONLY Inv, <1>1, <1>2, <1>3, <1>4, Listing

(* An actor takes a task off its list, whose file is there, and asks.      *)
LEMMA Taking ==
    ASSUME Inv, NEW a \in {"sweep", "boot"}, NEW t \in todo[a], Lsof(a, t), UNCHANGED <<proc, lines, status, old, call, blind>>,
           todo' = [todo EXCEPT ![a] = @ \ {t}]
    PROVE  Inv'
<1>1. a \in Actors /\ a # "kill"
  BY DEF Actors
<1>2. t \in Bash /\ Spooled(t)
  BY <1>1 DEF Inv, ListOK
<1>3. OneWay
  BY Still
<1>4. probe' \in [Actors -> Probes] /\ ProbeOK(a)' /\ \A b \in Actors \ {a} : probe'[b] = probe[b]
  BY <1>1, <1>2, Asking
<1>5. todo' \in [Actors -> SUBSET Tasks] /\ \A b \in Actors \ {a} : todo'[b] = todo[b]
  BY <1>1 DEF Inv, Shape, BookShape
<1>6. Shape' /\ OldOK'
  BY <1>4, <1>5 DEF Inv, Shape, WorldShape, BookShape, OldOK, Spooled
<1>7. ListOK(a)'
  BY <1>1, <1>3 DEF Inv, Shape, BookShape, ListOK, OneWay
<1>8. CallOK(a)'
  BY <1>1, <1>3, Carry
<1> QED BY <1>1, <1>3, <1>4, <1>5, <1>6, <1>7, <1>8, Acting

(* An actor gives up its answer, and perhaps passes a verdict.             *)
LEMMA Judging ==
    ASSUME Inv, NEW a \in Actors, Forgotten(a), UNCHANGED <<proc, lines, status, old, todo>>,
           blind => blind', blind' \in BOOLEAN, call' \in [Actors -> Calls], CallOK(a)',
           \A b \in Actors \ {a} : call'[b] = call[b]
    PROVE  Inv'
<1>1. OneWay
  BY Still
<1>2. probe' \in [Actors -> Probes] /\ ProbeOK(a)' /\ \A b \in Actors \ {a} : probe'[b] = probe[b]
  BY Unasking DEF Inv, Shape
<1>3. Shape' /\ OldOK'
  BY <1>2 DEF Inv, Shape, WorldShape, BookShape, OldOK, Spooled
<1>4. ListOK(a)'
  BY <1>1, Carry
<1> QED BY <1>1, <1>2, <1>3, <1>4, Acting

LEMMA ConcludeInv == ASSUME Inv, Conclude PROVE Inv'
<1>0. PICK t : t = probe["sweep"].t
  OBVIOUS
<1>1. UNCHANGED <<proc, lines, status, old, todo, blind>> /\ Forgotten("sweep")
  BY DEF Conclude, world, tracker, count
<1>2. "sweep" \in Actors /\ "sweep" \in Judges /\ blind' \in BOOLEAN /\ "stopped" \in States
  BY <1>1 DEF Actors, Judges, Inv, Shape, BookShape, States
<1>3. OneWay
  BY <1>1, Still
<1>4. CASE probe["sweep"].ok /\ Nobody("sweep") /\ Call("sweep", "end", t, "stopped", "read")
  <2>1. t \in Tasks
    BY <1>0, <1>2 DEF Conclude, Asked, Inv, Shape, BookShape, Probes
  <2>2. t \in Bash => Gone(t)'
    BY <1>0, <1>2, <1>3, <1>4 DEF Conclude, Asked, Nobody, Inv, ProbeOK, OneWay
  <2>3. call' \in [Actors -> Calls] /\ CallOK("sweep")' /\ \A b \in Actors \ {"sweep"} : call'[b] = call[b]
    BY <1>1, <1>2, <1>3, <1>4, <2>1, <2>2, Ending
  <2> QED BY <1>1, <1>2, <2>3, Judging
<1>5. CASE UNCHANGED call
  <2>1. CallOK("sweep")'
    BY <1>1, <1>2, <1>3, <1>5, Carry
  <2> QED BY <1>1, <1>2, <1>5, <2>1, Judging DEF Inv, Shape, BookShape
<1> QED BY <1>0, <1>4, <1>5 DEF Conclude

-----------------------------------------------------------------------------
(* Boot *)

LEMMA BootInv == ASSUME Inv, Boot PROVE Inv'
<1>1. PICK ts : ts = IF purged THEN {} ELSE {t \in Bash : Spooled(t)}
  OBVIOUS
<1>3. ts \in SUBSET Tasks /\ \A t \in ts : t \in Bash /\ Spooled(t)
  BY <1>1, TaskAssumption
<1>4. todo' = [todo EXCEPT !["boot"] = ts]
  BY <1>1 DEF Boot
<1>2. UNCHANGED <<proc, lines, status, old, call, probe, blind>> /\ "boot" \in Actors
  BY DEF Boot, world, tracker, Actors
<1> QED BY <1>2, <1>3, <1>4, Listing

LEMMA RecoverInv == ASSUME Inv, Recover PROVE Inv'
<1>0. PICK t, st : t = probe["boot"].t /\ st = IF Nobody("boot") THEN "stopped" ELSE "running"
  OBVIOUS
<1>1. UNCHANGED <<proc, lines, status, old, todo>> /\ Forgotten("boot") /\ Call("boot", "adopt", t, st, "write")
  BY <1>0 DEF Recover, world, tracker
<1>2. "boot" \in Actors /\ "boot" \in Judges /\ (blind => blind') /\ blind' \in BOOLEAN
  BY DEF Recover, Actors, Judges, Inv, Shape, BookShape
<1>3. OneWay
  BY <1>1, Still
<1>4. st \in States /\ "adopt" \in Ops /\ "write" \in Stages /\ t \in Tasks \cup {None} /\ BookShape
  BY <1>0, <1>2 DEF States, Ops, Stages, Inv, Shape, BookShape, Probes
<1>5. /\ call' \in [Actors -> Calls] /\ \A b \in Actors \ {"boot"} : call'[b] = call[b]
      /\ call'["boot"] = [op |-> "adopt", t |-> t, st |-> st, step |-> "write", keep |-> FALSE]
  BY <1>1, <1>2, <1>4, Calling
<1>6. Spooled(t)' /\ (st = "stopped" => Gone(t)' \/ blind')
  <2>1. t # None /\ (st = "stopped" => probe["boot"].pids = {}) /\ (~probe["boot"].ok => blind')
    BY <1>0 DEF Recover, Asked, Nobody
  <2> QED BY <1>0, <1>2, <1>3, <2>1 DEF Inv, ProbeOK, OneWay
<1>7. CallOK("boot")'
  BY <1>5, <1>6 DEF CallOK
<1> QED BY <1>1, <1>2, <1>5, <1>7, Judging

-----------------------------------------------------------------------------
(* Kills *)

LEMMA KillListInv == ASSUME Inv, Purge \/ \E t \in Tasks : Kill(t) PROVE Inv'
<1>1. UNCHANGED <<proc, lines, status, old, call, probe, blind>>
  BY DEF Kill, Purge, world, tracker, count
<1>2. {"kill", "purge"} \subseteq Actors /\ Running \in SUBSET Tasks 
  BY DEF Actors, Running
<1>3. ASSUME NEW t \in Tasks, Kill(t) PROVE Inv'
  BY <1>1, <1>2, <1>3, {t} \in SUBSET Tasks, Listing DEF Kill, Resting, Asked
<1>4. CASE Purge
  BY <1>1, <1>2, <1>4, Listing DEF Purge
<1> QED BY <1>3, <1>4

LEMMA StopByCliInv == ASSUME Inv, NEW a \in Killers, NEW t \in Tasks, StopByCli(a, t) PROVE Inv'
<1>1. UNCHANGED <<status, old, probe, blind>> /\ todo' = [todo EXCEPT ![a] = @ \ {t}] /\ probe[a].t = None
  BY DEF StopByCli, tracker, count, Asked
<1>2. a \in Actors /\ a \notin {"sweep", "boot"} /\ "stopped" \in States /\ blind' \in BOOLEAN
  BY <1>1 DEF Killers, Actors, States, Inv, Shape, BookShape
<1>3. lines' \in Seq(Lines)
  BY Saying DEF StopByCli, Says, Inv, Shape, Kinds
<1>4. proc' \in [Bash -> [Pids -> {"unborn", "alive", "dead"}]] /\ OneWay
  <2>1. CASE t \in Bash
    <3>1. proc' = [proc EXCEPT ![t] = [p \in Pids |-> IF @[p] = "alive" THEN "dead" ELSE @[p]]]
      BY <2>1 DEF StopByCli
    <3> QED BY <2>1, <3>1 DEF Inv, Shape, WorldShape, OneWay, Gone, Spooled, Writers
  <2>2. CASE t \notin Bash
    BY <2>2, Still DEF StopByCli, Inv, Shape, WorldShape
  <2> QED BY <2>1, <2>2
<1>5. call' \in [Actors -> Calls] /\ CallOK(a)' /\ \A b \in Actors \ {a} : call'[b] = call[b]
  <2>1. CASE a = "purge"
    <3>1. a \notin Judges /\ Call(a, "end", t, "stopped", "read")
      BY <2>1 DEF Judges, StopByCli
    <3> QED BY <1>1, <1>2, <1>4, <3>1, Ending
  <2>2. CASE a # "purge"
    BY <1>1, <1>2, <1>4, <2>2, Carry DEF StopByCli, Inv, Shape, BookShape
  <2> QED BY <2>1, <2>2
<1>6. todo' \in [Actors -> SUBSET Tasks] /\ \A b \in Actors \ {a} : todo'[b] = todo[b]
  BY <1>1 DEF Inv, Shape, BookShape
<1>7. Shape' /\ OldOK'
  BY <1>1, <1>3, <1>4, <1>5, <1>6 DEF Inv, Shape, WorldShape, BookShape, OldOK, OneWay
<1>8. ListOK(a)' /\ ProbeOK(a)'
  BY <1>1, <1>2 DEF ListOK, ProbeOK
<1> QED BY <1>1, <1>2, <1>4, <1>5, <1>6, <1>7, <1>8, Acting

LEMMA StopByHandInv == ASSUME Inv, NEW a \in Killers, NEW t \in Tasks, StopByHand(a, t) PROVE Inv'
<1>1. UNCHANGED <<proc, lines, status, old, call, blind>> /\ t \in todo[a] /\ probe[a].t = None
  BY DEF StopByHand, world, tracker, Asked
<1>2. a \in Actors /\ a \notin {"sweep", "boot"}
  BY DEF Killers, Actors
<1>3. OneWay
  BY <1>1, Still
<1>4. CASE t \in Bash
  <2>1. Lsof(a, t) /\ UNCHANGED todo
    BY <1>4 DEF StopByHand
  <2>2. probe' \in [Actors -> Probes] /\ ProbeOK(a)' /\ \A b \in Actors \ {a} : probe'[b] = probe[b]
    BY <1>1, <1>2, <1>4, <2>1, Asking
  <2>3. Shape' /\ OldOK'
    BY <1>1, <2>1, <2>2 DEF Inv, Shape, WorldShape, BookShape, OldOK, Spooled
  <2>4. CallOK(a)' /\ ListOK(a)'
    BY <1>1, <1>2, <1>3, <2>1, Carry
  <2> QED BY <1>1, <1>2, <1>3, <2>1, <2>2, <2>3, <2>4, Acting
<1>5. CASE t \notin Bash
  <2>1. PICK ts : ts = todo[a] \ {t}
    OBVIOUS
  <2>2. todo' = [todo EXCEPT ![a] = ts] /\ UNCHANGED probe
    BY <1>5, <2>1 DEF StopByHand
  <2>3. ts \in SUBSET Tasks
    BY <1>2, <2>1 DEF Inv, Shape, BookShape
  <2> QED BY <1>1, <1>2, <2>2, <2>3, Listing
<1> QED BY <1>4, <1>5

LEMMA NoWriterInv == ASSUME Inv, NEW a \in Killers, NoWriter(a) PROVE Inv'
<1>1. UNCHANGED <<proc, lines, status, old, call, blind>> /\ Forgotten(a)
  BY DEF NoWriter, world, tracker, count
<1>2. a \in Actors /\ a \notin {"sweep", "boot"}
  BY DEF Killers, Actors
<1>3. OneWay
  BY <1>1, Still
<1>4. probe' \in [Actors -> Probes] /\ ProbeOK(a)' /\ \A b \in Actors \ {a} : probe'[b] = probe[b]
  BY <1>1, <1>2, Unasking DEF Inv, Shape
<1>5. todo' \in [Actors -> SUBSET Tasks] /\ \A b \in Actors \ {a} : todo'[b] = todo[b]
  BY DEF NoWriter, Inv, Shape, BookShape
<1>6. Shape' /\ OldOK'
  BY <1>1, <1>4, <1>5 DEF Inv, Shape, WorldShape, BookShape, OldOK, Spooled
<1>7. CallOK(a)' /\ ListOK(a)'
  BY <1>1, <1>2, <1>3, Carry DEF ListOK
<1> QED BY <1>1, <1>2, <1>3, <1>4, <1>5, <1>6, <1>7, Acting

LEMMA SignalInv == ASSUME Inv, NEW a \in Killers, Signal(a) PROVE Inv'
<1>0. PICK t : t = probe[a].t
  OBVIOUS
<1>1. /\ UNCHANGED <<lines, status, old, call, blind>> /\ t # None /\ probe[a].pids # {}
      /\ proc' = [proc EXCEPT ![t] = [p \in Pids |-> IF p \in probe[a].pids THEN "dead" ELSE @[p]]]
      /\ todo' = [todo EXCEPT ![a] = @ \ {t}]
      /\ probe' = [probe EXCEPT ![a].pids = {}, ![a].ok = FALSE]
  BY <1>0 DEF Signal, tracker, count, Asked, Nobody
<1>2. a \in Actors /\ a \notin {"sweep", "boot"}
  BY DEF Killers, Actors
<1>3. proc' \in [Bash -> [Pids -> {"unborn", "alive", "dead"}]] /\ OneWay
  BY <1>1 DEF Inv, Shape, WorldShape, OneWay, Gone, Spooled, Writers
<1>4. probe' \in [Actors -> Probes] /\ \A b \in Actors \ {a} : probe'[b] = probe[b]
  BY <1>1 DEF Inv, Shape, BookShape, Probes
<1>5. todo' \in [Actors -> SUBSET Tasks] /\ \A b \in Actors \ {a} : todo'[b] = todo[b]
  BY <1>1 DEF Inv, Shape, BookShape
<1>6. Shape' /\ OldOK'
  BY <1>1, <1>3, <1>4, <1>5 DEF Inv, Shape, WorldShape, BookShape, OldOK, OneWay
<1>7. CallOK(a)' /\ ListOK(a)'
  BY <1>1, <1>2, <1>3, Carry DEF ListOK
<1>8. ProbeOK(a)'
  <2>1. a \in Judges => t \in Bash /\ Spooled(t)'
    BY <1>0, <1>1, <1>2, <1>3 DEF Inv, ProbeOK, OneWay
  <2>2. probe'[a].t = t
    BY <1>0, <1>1, <1>2 DEF Inv, Shape, BookShape, Probes
  <2>3. a = "kill" \/ a \notin Judges
    BY <1>2 DEF Killers, Judges
  <2> QED BY <2>1, <2>2, <2>3 DEF ProbeOK
<1> QED BY <1>1, <1>2, <1>3, <1>4, <1>5, <1>6, <1>7, <1>8, Acting

LEMMA RecheckInv == ASSUME Inv, NEW a \in Killers, Recheck(a) PROVE Inv'
<1>0. PICK t : t = probe[a].t
  OBVIOUS
<1>1. /\ UNCHANGED <<proc, lines, status, old, todo>> /\ Forgotten(a) /\ t # None /\ t \notin todo[a]
      /\ \/ /\ Call(a, "end", t, "stopped", "read")
            /\ (Writers(t) = {} /\ UNCHANGED blind) \/ blind' = TRUE
         \/ UNCHANGED <<call, blind>>
  BY <1>0 DEF Recheck, Checking, Asked, world, tracker
<1>2. /\ a \in Actors /\ a # "sweep" /\ "stopped" \in States
      /\ (blind => blind') /\ blind' \in BOOLEAN /\ t \in Tasks
  <2>1. a \in Actors /\ a # "sweep" /\ "stopped" \in States
    BY DEF Killers, Actors, States
  <2>2. blind \in BOOLEAN /\ probe[a] \in Probes
    BY <2>1 DEF Inv, Shape, BookShape
  <2>3. t \in Tasks
    BY <1>0, <1>1, <2>2 DEF Probes
  <2> QED BY <1>1, <2>1, <2>2, <2>3
<1>3. OneWay
  BY <1>1, Still
<1>4. CASE Call(a, "end", t, "stopped", "read") /\ (Writers(t) = {} \/ blind' = TRUE)
  <2>1. a \in Judges /\ t \in Bash => Gone(t)' \/ blind'
    BY <1>0, <1>1, <1>2, <1>3, <1>4 DEF Inv, ProbeOK, OneWay, Gone
  <2>2. call' \in [Actors -> Calls] /\ CallOK(a)' /\ \A b \in Actors \ {a} : call'[b] = call[b]
    BY <1>2, <1>3, <1>4, <2>1, Ending
  <2> QED BY <1>1, <1>2, <2>2, Judging
<1>5. CASE UNCHANGED <<call, blind>>
  <2>1. CallOK(a)'
    BY <1>2, <1>3, <1>5, Carry
  <2> QED BY <1>1, <1>2, <1>5, <2>1, Judging DEF Inv, Shape, BookShape
<1> QED BY <1>1, <1>4, <1>5

-----------------------------------------------------------------------------
LEMMA NextInv == Inv /\ [Next]_vars => Inv'
<1> SUFFICES ASSUME Inv, [Next]_vars PROVE Inv'
  OBVIOUS
<1>1. CASE UNCHANGED vars
  BY <1>1 DEF vars, world, tracker, actors, sweeper, count, Inv, Shape, WorldShape, BookShape, OldOK,
              CallOK, ListOK, ProbeOK, Gone, Spooled, Writers
<1>2. CASE \E a \in Actors : Track(a)
  BY <1>2, TrackInv
<1>3. CASE \E t \in Tasks : Age(t) \/ Begin(t) \/ Tell(t) \/ Kill(t)
  BY <1>3, AgeInv, CliInv, KillListInv
<1>4. CASE Children
  BY <1>4, ProcessInv DEF Children
<1>5. CASE StartCli \/ Die \/ Purge
  BY <1>5, CliInv, KillListInv
<1>6. CASE Read
  BY <1>6, ReadInv
<1>7. CASE Exiting
  BY <1>7, ExitInv DEF Exiting
<1>8. CASE Sweeping
  <2>1. ASSUME NEW t \in Tasks, Sweep(t) PROVE Inv'
    <3>1. t \in todo["sweep"] /\ Lsof("sweep", t) /\ todo' = [todo EXCEPT !["sweep"] = @ \ {t}]
      BY <2>1 DEF Sweep
    <3>2. UNCHANGED <<proc, lines, status, old, call, blind>>
      BY <2>1 DEF Sweep, world, tracker
    <3> QED BY <3>1, <3>2, Taking
  <2> QED BY <1>8, <2>1, TickInv, ConcludeInv DEF Sweeping
<1>9. CASE Remove
  BY <1>9, RemoveInv
<1>10. CASE \E a \in Killers : Killing(a)
  BY <1>10, StopByCliInv, StopByHandInv, NoWriterInv, SignalInv, RecheckInv DEF Killing
<1>11. CASE Crash \/ Boot
  BY <1>11, CrashInv, BootInv
<1>12. CASE Recovering
  <2>1. ASSUME NEW t \in Tasks, Reconcile(t) PROVE Inv'
    <3>1. t \in todo["boot"] /\ Lsof("boot", t) /\ todo' = [todo EXCEPT !["boot"] = @ \ {t}]
      BY <2>1 DEF Reconcile
    <3>2. UNCHANGED <<proc, lines, status, old, call, blind>>
      BY <2>1 DEF Reconcile, world, tracker
    <3> QED BY <3>1, <3>2, Taking
  <2> QED BY <1>12, <2>1, RecoverInv DEF Recovering
<1> QED BY <1>1, <1>2, <1>3, <1>4, <1>5, <1>6, <1>7, <1>8, <1>9, <1>10, <1>11, <1>12 DEF Next

(* The verdict of the sweep, of a kill or of the reconcile that a bash     *)
(* task is over finds no process writing its file, unless a kill or the    *)
(* reconcile had no answer from lsof (liveness.rs:93-117, kill.rs:239-285, *)
(* reconcile.rs:142-147).                                                  *)
THEOREM LiveTasksSafe == Spec => []OnlyGoneAreStopped
<1>1. Inv => OnlyGoneAreStopped
  BY DEF Inv, CallOK, OnlyGoneAreStopped, Gone, Judges, Actors
<1> QED BY <1>1, InvInit, NextInv, PTL DEF Spec

-----------------------------------------------------------------------------
(* No agent stays running without a CLI.  Calls overlap: the exit goes     *)
(* through a list it took, while a line read before may still start a task *)
(* or the next session may already run.                                    *)

Agents == Tasks \ Bash

(* Only the reader starts tasks, on the word of a CLI whose exit is not    *)
(* handled; only files are adopted; an end is never to "running".          *)
WordOK(a) ==
    /\ call[a].op = "start" => a = "reader" /\ (late \/ cli # "none")
    /\ call[a].op = "adopt" => call[a].t \in Bash
    /\ call[a].op = "end" => call[a].st # "running"

LinesOK == late \/ lines = <<>> \/ cli # "none"

(* The exit has still to come, or it has the task on its list or in hand.  *)
Doomed(t) ==
    \/ cli # "none" \/ t \in todo["exit"]
    \/ call["exit"].op = "end" /\ call["exit"].t = t /\ call["exit"].step \in {"read", "write"}

PinInv ==
    /\ \A a \in Actors : WordOK(a)
    /\ LinesOK
    /\ \A t \in Agents : late \/ (status[t] = "running" => Doomed(t))

(* A step that starts no agent, leaves the exit alone and keeps the CLI,   *)
(* and of which at most one actor has a new call.                          *)
LEMMA PinStep ==
    ASSUME Inv, PinInv, late' = late, cli # "none" => cli' # "none",
           \A t \in Agents : status'[t] = "running" => status[t] = "running",
           todo'["exit"] = todo["exit"], call'["exit"] = call["exit"],
           NEW a \in Actors, \A b \in Actors \ {a} : call'[b] = call[b], WordOK(a)',
           lines' = lines \/ lines' = <<>> \/ cli' # "none"
    PROVE  PinInv'
<1>1. \A b \in Actors \ {a} : WordOK(b)'
  BY DEF PinInv, WordOK
<1>2. LinesOK'
  BY DEF PinInv, LinesOK
<1>3. \A t \in Agents : Doomed(t) => Doomed(t)'
  BY DEF Doomed
<1>4. \A t \in Agents : late' \/ (status'[t] = "running" => Doomed(t)')
  BY <1>3 DEF PinInv
<1>5. Agents' = Agents
  BY DEF Agents
<1> QED BY <1>1, <1>2, <1>4, <1>5 DEF PinInv

LEMMA PinStill ==
    ASSUME Inv, PinInv, UNCHANGED <<late, call>>, cli # "none" => cli' # "none",
           \A t \in Agents : status'[t] = "running" => status[t] = "running",
           todo'["exit"] = todo["exit"],
           lines' = lines \/ lines' = <<>> \/ cli' # "none"
    PROVE  PinInv'
<1>1. "exit" \in Actors /\ WordOK("exit")'
  BY DEF Actors, PinInv, WordOK
<1> QED BY <1>1, PinStep

(* The exit takes its list; what it cannot see yet is late.                *)
LEMMA OnExitPin == ASSUME Inv, PinInv, OnExit PROVE PinInv'
<1>1. /\ late' = (late \/ lines # <<>> \/ call["reader"] # Idle) /\ todo'["exit"] = Running
      /\ UNCHANGED <<lines, status, call>>
  BY DEF OnExit, tracker, Inv, Shape, BookShape, Actors
<1>2. ASSUME NEW a \in Actors PROVE WordOK(a)'
  <2>1. call["reader"].op = "start" => call["reader"] # Idle
    BY DEF Idle
  <2>2. call["reader"].op = "start" => late'
    BY <1>1, <2>1
  <2> QED BY <1>1, <2>2 DEF PinInv, WordOK
<1>3. LinesOK'
  BY <1>1 DEF LinesOK
<1>4. \A t \in Agents : status'[t] = "running" => Doomed(t)'
  BY <1>1 DEF Doomed, Running, Agents
<1>5. Agents' = Agents
  BY DEF Agents
<1> QED BY <1>2, <1>3, <1>4, <1>5 DEF PinInv

LEMMA ExitNextPin == ASSUME Inv, PinInv, NEW t \in Tasks, ExitNext(t) PROVE PinInv'
<1>1. /\ call' = [call EXCEPT !["exit"] = [op |-> "end", t |-> t, st |-> "stopped", step |-> "read", keep |-> FALSE]]
      /\ todo' = [todo EXCEPT !["exit"] = @ \ {t}] /\ call["exit"] = Idle
      /\ UNCHANGED <<cli, lines, status, late>>
  BY DEF ExitNext, Call, Free, world, tracker, count
<1>2. "exit" \in Actors /\ call'["exit"].op = "end" /\ call'["exit"].t = t /\ call'["exit"].step = "read"
      /\ call'["exit"].st = "stopped" /\ todo'["exit"] = todo["exit"] \ {t}
      /\ \A b \in Actors \ {"exit"} : call'[b] = call[b]
  BY <1>1 DEF Inv, Shape, BookShape, Actors
<1>3. \A a \in Actors : WordOK(a)'
  BY <1>1, <1>2 DEF PinInv, WordOK
<1>4. LinesOK'
  BY <1>1 DEF PinInv, LinesOK
<1>5. \A u \in Agents : Doomed(u) => Doomed(u)'
  BY <1>1, <1>2 DEF Doomed, Idle
<1>6. Agents' = Agents
  BY DEF Agents
<1> QED BY <1>1, <1>3, <1>4, <1>5, <1>6 DEF PinInv

(* The tracker: one call after the other may still be on its way.          *)
LEMMA TrackPin == ASSUME Inv, PinInv, NEW a \in Actors, Track(a) PROVE PinInv'
<1> DEFINE s == call[a].t
<1>1. /\ UNCHANGED <<cli, lines, late, todo>> /\ WordOK(a) /\ call[a] \in Calls
      /\ call \in [Actors -> Calls] /\ status \in [Tasks -> States]
  BY DEF Track, StartRead, StartWrite, EndRead, EndWrite, AdoptWrite, LinkWrite, Send, world, tracker, count,
         PinInv, Inv, Shape, BookShape
<1>2. /\ \A b \in Actors \ {a} : call'[b] = call[b]
      /\ call'[a] = Idle
         \/ /\ call'[a].op = call[a].op /\ call'[a].t = call[a].t
            /\ call[a].op = "end" => call'[a].st = call[a].st
  <2>1. CASE LinkWrite(a)
    BY <1>1, <2>1 DEF LinkWrite, At, Calls
  <2>2. CASE EndRead(a)
    BY <1>1, <2>2 DEF EndRead, Calls
  <2>3. CASE EndWrite(a)
    BY <1>1, <2>3 DEF EndWrite, Calls
  <2> QED BY <1>1, <2>1, <2>2, <2>3 DEF Track, StartRead, StartWrite, AdoptWrite, Send, Calls
<1>3. WordOK(a)'
  BY <1>1, <1>2 DEF WordOK, Idle
<1>4. \A b \in Actors : WordOK(b)'
  BY <1>1, <1>2, <1>3 DEF PinInv, WordOK
<1>5. LinesOK'
  BY <1>1 DEF PinInv, LinesOK
<1>6. ASSUME NEW t \in Agents, ~late, status'[t] = "running" PROVE Doomed(t)'
  <2>1. CASE status[t] # "running"
    <3>1. cli # "none"
      <4>1. CASE StartWrite(a)
        BY <1>1, <1>6, <4>1 DEF StartWrite, At, WordOK
      <4>2. CASE EndWrite(a)
        BY <1>1, <1>6, <2>1, <4>2 DEF EndWrite, At, WordOK, Agents
      <4>3. CASE AdoptWrite(a)
        BY <1>1, <1>6, <2>1, <4>3 DEF AdoptWrite, At, WordOK, Agents
      <4> QED BY <1>6, <2>1, <4>1, <4>2, <4>3 DEF Track, StartRead, EndRead, LinkWrite, Send, tracker
    <3> QED BY <1>1, <3>1 DEF Doomed
  <2>2. CASE status[t] = "running"
    <3>1. Doomed(t)
      BY <1>6, <2>2 DEF PinInv
    <3>2. CASE cli # "none" \/ t \in todo["exit"]
      BY <1>1, <3>2 DEF Doomed
    <3>3. CASE call["exit"].op = "end" /\ call["exit"].t = t /\ call["exit"].step \in {"read", "write"}
      <4>1. CASE a # "exit"
        BY <1>2, <3>3, <4>1 DEF Doomed, Actors
      <4>2. CASE a = "exit" /\ EndRead(a)
        BY <1>1, <2>2, <3>3, <4>2 DEF EndRead, Doomed, Calls
      <4>3. ~(a = "exit" /\ EndWrite(a))
        BY <1>1, <1>6, <2>2, <3>3 DEF EndWrite, WordOK, Agents
      <4> QED BY <3>3, <4>1, <4>2, <4>3 DEF Track, StartRead, StartWrite, AdoptWrite, LinkWrite, Send, At
    <3> QED BY <3>1, <3>2, <3>3 DEF Doomed
  <2> QED BY <2>1, <2>2
<1>7. Agents' = Agents
  BY DEF Agents
<1> QED BY <1>1, <1>4, <1>5, <1>6, <1>7 DEF PinInv

(* A call of the reader, of a judge or of the purge.                       *)
LEMMA CallPin ==
    ASSUME Inv, PinInv, NEW a \in Actors \ {"exit"}, NEW op, NEW t \in Tasks, NEW st, NEW step,
           Call(a, op, t, st, step) \/ UNCHANGED call,
           op = "start" => a = "reader" /\ (late \/ cli # "none"),
           op = "adopt" => t \in Bash, op = "end" => st # "running",
           UNCHANGED <<late, cli, status>>, todo'["exit"] = todo["exit"],
           lines' = lines \/ lines' = <<>> \/ cli' # "none" \/ late'
    PROVE  PinInv'
<1>1. a \in DOMAIN call /\ \A b \in Actors \ {a} : call'[b] = call[b]
  BY DEF Call, Inv, Shape, BookShape
<1>2. WordOK(a)'
  <2>1. CASE UNCHANGED call
    BY <2>1 DEF PinInv, WordOK
  <2>2. CASE Call(a, op, t, st, step)
    BY <1>1, <2>2 DEF Call, WordOK
  <2> QED BY <2>1, <2>2
<1>3. call'["exit"] = call["exit"]
  BY <1>1 DEF Actors
<1>4. CASE ~late
  BY <1>1, <1>2, <1>3, <1>4, PinStep
<1>5. CASE late
  BY <1>1, <1>2, <1>5 DEF PinInv, WordOK, LinesOK
<1> QED BY <1>4, <1>5

LEMMA CliPin ==
    ASSUME Inv, PinInv, StartCli \/ Die \/ \E t \in Tasks : Begin(t) \/ Tell(t)
    PROVE  PinInv'
<1>1. UNCHANGED <<late, call, status, todo>> /\ cli' # "none"
  BY DEF StartCli, Die, Begin, Tell, tracker, actors, count
<1> QED BY <1>1, PinStill

LEMMA QuietPin ==
    ASSUME Inv, PinInv,
           \/ \E t \in Tasks : Age(t) \/ Kill(t) \/ Sweep(t) \/ Reconcile(t)
           \/ Children \/ Tick \/ Purge \/ Remove \/ Boot
           \/ \E a \in Killers : NoWriter(a) \/ Signal(a) \/ \E t \in Tasks : StopByHand(a, t)
           \/ UNCHANGED vars
    PROVE  PinInv'
<1>1. UNCHANGED <<cli, late, call, lines>>
  BY DEF Age, Kill, Sweep, Reconcile, Children, Open, Quit, Tick, Purge, Remove, Boot, NoWriter, Signal,
         StopByHand, vars, world, actors, count
<1>2. todo'["exit"] = todo["exit"]
  BY DEF Age, Kill, Sweep, Reconcile, Children, Open, Quit, Tick, Purge, Remove, Boot, NoWriter, Signal,
         StopByHand, vars, actors, Killers, Inv, Shape, BookShape, Actors
<1>3. status' = status \/ status' = [t \in Tasks |-> "none"]
  BY DEF Age, Kill, Sweep, Reconcile, Children, Open, Quit, Tick, Purge, Remove, Boot, NoWriter, Signal,
         StopByHand, vars, tracker
<1>4. \A t \in Agents : status'[t] = "running" => status[t] = "running"
  BY <1>3 DEF Agents
<1> QED BY <1>1, <1>2, <1>4, PinStill

LEMMA CrashPin == ASSUME Crash PROVE PinInv'
BY DEF Crash, PinInv, WordOK, LinesOK, Agents, Idle

LEMMA ReadPin == ASSUME Inv, PinInv, Read PROVE PinInv'
<1>1. /\ lines # <<>> /\ UNCHANGED <<cli, status, todo, late>> /\ lines' = Tail(lines)
      /\ late \/ cli # "none"
  BY DEF Read, tracker, count, PinInv, LinesOK
<1>2. Head(lines) \in Lines
  BY <1>1, HeadTailProperties DEF Inv, Shape, WorldShape
<1>3. Head(lines).t \in Tasks
  BY <1>2 DEF Lines
<1>4. \/ Call("reader", "start", Head(lines).t, "running", "read")
      \/ Call("reader", "link", Head(lines).t, "none", "write")
      \/ Call("reader", "end", Head(lines).t, "completed", "read")
  BY DEF Read
<1>5. "reader" \in Actors \ {"exit"}
  BY DEF Actors
<1> QED BY <1>1, <1>3, <1>4, <1>5, CallPin

LEMMA JudgePin ==
    ASSUME Inv, PinInv, Conclude \/ Recover \/ \E a \in Killers : Recheck(a)
    PROVE  PinInv'
<1>1. CASE Conclude
  <2>1. probe["sweep"].t \in Tasks /\ "sweep" \in Actors \ {"exit"}
    BY <1>1 DEF Conclude, Asked, Inv, Shape, BookShape, Probes, Actors
  <2>2. /\ UNCHANGED <<cli, status, todo, late, lines>>
        /\ Call("sweep", "end", probe["sweep"].t, "stopped", "read") \/ UNCHANGED call
    BY <1>1 DEF Conclude, world, tracker, count
  <2> QED BY <2>1, <2>2, CallPin
<1>2. CASE Recover
  <2>1. "boot" \in Actors \ {"exit"} /\ "boot" \in Judges
    BY DEF Actors, Judges
  <2>2. probe["boot"].t \in Bash /\ probe["boot"].t \in Tasks
    BY <1>2, <2>1, TaskAssumption DEF Recover, Asked, Inv, ProbeOK
  <2>3. UNCHANGED <<cli, status, todo, late, lines>>
    BY <1>2 DEF Recover, world, tracker
  <2>4. PICK st : Call("boot", "adopt", probe["boot"].t, st, "write")
    BY <1>2 DEF Recover
  <2> QED BY <2>1, <2>2, <2>3, <2>4, CallPin
<1>3. ASSUME NEW a \in Killers, Recheck(a) PROVE PinInv'
  <2>1. a \in Actors \ {"exit"}
    BY DEF Killers, Actors
  <2>2. probe[a].t \in Tasks
    BY <1>3, <2>1 DEF Recheck, Checking, Asked, Inv, Shape, BookShape, Probes
  <2>3. /\ UNCHANGED <<cli, status, todo, late, lines>>
        /\ Call(a, "end", probe[a].t, "stopped", "read") \/ UNCHANGED call
    BY <1>3 DEF Recheck, world, tracker
  <2> QED BY <2>1, <2>2, <2>3, CallPin
<1> QED BY <1>1, <1>2, <1>3

LEMMA StopPin ==
    ASSUME Inv, PinInv, NEW a \in Killers, NEW t \in Tasks, StopByCli(a, t)
    PROVE  PinInv'
<1>1. a \in Actors \ {"exit"}
  BY DEF Killers, Actors
<1>2. /\ UNCHANGED <<cli, status, late>> /\ cli = "live"
      /\ Call(a, "end", t, "stopped", "read") \/ UNCHANGED call
  BY DEF StopByCli, tracker, count
<1>3. todo'["exit"] = todo["exit"]
  BY <1>1 DEF StopByCli, Inv, Shape, BookShape, Actors
<1> QED BY <1>1, <1>2, <1>3, CallPin

LEMMA NextPin == ASSUME Inv, PinInv, [Next]_vars PROVE PinInv'
<1>1. CASE Exiting
  BY <1>1, OnExitPin, ExitNextPin DEF Exiting
<1>2. CASE Sweeping
  BY <1>2, QuietPin, JudgePin DEF Sweeping
<1>3. CASE Recovering
  BY <1>3, QuietPin, JudgePin DEF Recovering
<1>4. ASSUME NEW a \in Killers, Killing(a) PROVE PinInv'
  BY <1>4, QuietPin, JudgePin, StopPin DEF Killing
<1>5. ASSUME NEW t \in Tasks, Age(t) \/ Begin(t) \/ Tell(t) \/ Kill(t) PROVE PinInv'
  BY <1>5, QuietPin, CliPin
<1> QED BY <1>1, <1>2, <1>3, <1>4, <1>5, TrackPin, QuietPin, CliPin, CrashPin, ReadPin DEF Next

(* For any agents, sessions, kills and restarts: once an exit has been     *)
(* handled after all lines of its CLI, no agent is left running without    *)
(* somebody to end it (event_handler.rs:1040-1044).                        *)
THEOREM AgentsEnd == Spec => []NothingPinned
<1>1. Init => PinInv
  BY DEF Init, PinInv, WordOK, LinesOK, Agents, Idle
<1>2. PinInv => NothingPinned
  <2> SUFFICES ASSUME PinInv, cli = "none", \A a \in Actors : call[a] = Idle /\ todo[a] = {}, ~late
               PROVE  \A t \in Agents : status[t] # "running"
    BY DEF NothingPinned, Agents
  <2>1. call["exit"].op = "none" /\ todo["exit"] = {}
    BY DEF Actors, Idle
  <2> QED BY <2>1 DEF PinInv, Doomed
<1>3. Spec => []Inv
  BY InvInit, NextInv, PTL DEF Spec
<1> QED BY <1>1, <1>2, <1>3, NextPin, PTL DEF Spec

-----------------------------------------------------------------------------
(* What TypeOK says beyond Inv: what the clients were told, the CLI, the   *)
(* misses of the sweep, and that a daemon that is down makes no calls.     *)
Typed ==
    /\ cli \in {"none", "live", "dead"} /\ began \in [Tasks -> {"not", "on", "over"}]
    /\ shown \in [Tasks -> States]
    /\ miss \subseteq Tasks /\ trial \in Trials
    /\ ~up => cli = "none" /\ call = [a \in Actors |-> Idle]

(* A step of the tracker, by a daemon that is up.                          *)
LEMMA TypedTrack == ASSUME Inv, Typed, NEW a \in Actors, Track(a) PROVE Typed'
<1>1. up /\ UNCHANGED <<cli, began, miss, trial, up>>
  BY DEF Track, StartRead, StartWrite, EndRead, EndWrite, AdoptWrite, LinkWrite, Send, At, world, sweeper, count
<1>2. shown' \in [Tasks -> States]
  <2>1. CASE Send(a)
    BY <2>1 DEF Send, Typed, Inv, Shape, BookShape, Calls
  <2>2. CASE UNCHANGED shown
    BY <2>2 DEF Typed
  <2> QED BY <2>1, <2>2 DEF Track, StartRead, StartWrite, EndRead, EndWrite, AdoptWrite, LinkWrite, tracker
<1> QED BY <1>1, <1>2 DEF Typed

(* The CLI and the processes of its tasks.                                 *)
LEMMA TypedCli ==
    ASSUME Inv, Typed,
           StartCli \/ Die \/ Children \/ (\E t \in Tasks : Begin(t) \/ Tell(t))
             \/ \E a \in Killers, t \in Tasks : StopByCli(a, t)
    PROVE  Typed'
<1>2. UNCHANGED <<shown, miss, trial, up>>
  BY DEF StartCli, Die, Children, Open, Quit, Begin, Tell, StopByCli, tracker, sweeper, count
<1>3. cli' \in {"none", "live", "dead"} /\ began' \in [Tasks -> {"not", "on", "over"}]
  BY DEF StartCli, Die, Children, Open, Quit, Begin, Tell, StopByCli, Typed
<1>4. ~up => cli' = "none" /\ call' = call
  BY DEF StartCli, Die, Children, Open, Quit, Begin, Tell, StopByCli, Free, Typed, actors
<1> QED BY <1>2, <1>3, <1>4 DEF Typed

(* Steps of a daemon that is up, which tell the clients nothing.           *)
LEMMA TypedBusy ==
    ASSUME Inv, Typed, up,
           UNCHANGED <<began, shown, trial, up>>, cli' \in {"none", "live", "dead"}, miss' \subseteq Tasks
    PROVE  Typed'
BY DEF Typed

LEMMA TypedSweep == ASSUME Inv, Typed, Sweeping PROVE Typed'
<1>1. CASE Tick
  BY <1>1, TypedBusy DEF Tick, Resting, Free, world, tracker, count, Typed
<1>2. CASE Conclude
  <2>1. probe["sweep"].t \in Tasks
    BY <1>2 DEF Conclude, Asked, Inv, Shape, BookShape, Probes, Actors
  <2>2. miss' \subseteq Tasks
    BY <1>2, <2>1 DEF Conclude, Typed
  <2> QED BY <1>2, <2>2, TypedBusy DEF Conclude, Free, world, tracker, count, Typed
<1>3. CASE \E t \in Tasks : Sweep(t)
  BY <1>3, TypedBusy DEF Sweep, Free, world, tracker, sweeper, Typed
<1> QED BY <1>1, <1>2, <1>3 DEF Sweeping

LEMMA TypedNext == ASSUME Inv, Typed, [Next]_vars PROVE Typed'
<1>1. CASE \E a \in Actors : Track(a)
  BY <1>1, TypedTrack
<1>2. CASE StartCli \/ Die \/ Children \/ \E t \in Tasks : Begin(t) \/ Tell(t)
  BY <1>2, TypedCli
<1>3. CASE \E t \in Tasks : Age(t) \/ Kill(t)
  BY <1>3, TypedBusy DEF Age, Kill, Resting, Free, world, tracker, sweeper, count, Typed
<1>4. CASE Read \/ Exiting
  BY <1>4, TypedBusy DEF Read, Exiting, OnExit, ExitNext, Free, world, tracker, sweeper, count, Typed
<1>5. CASE Sweeping
  BY <1>5, TypedSweep
<1>6. CASE Purge \/ Remove
  BY <1>6, TypedBusy DEF Purge, Remove, Resting, Free, world, tracker, sweeper, count, Typed
<1>7. ASSUME NEW a \in Killers, Killing(a) PROVE Typed'
  <2>1. CASE \E t \in Tasks : StopByCli(a, t)
    BY <2>1, TypedCli
  <2>2. CASE NoWriter(a) \/ Signal(a) \/ Recheck(a) \/ \E t \in Tasks : StopByHand(a, t)
    BY <2>2, TypedBusy DEF NoWriter, Signal, Recheck, Checking, StopByHand, Free, world, tracker, sweeper, count, Typed
  <2> QED BY <1>7, <2>1, <2>2 DEF Killing
<1>8. CASE Crash
  BY <1>8 DEF Crash, Typed, States
<1>9. CASE Boot
  BY <1>9 DEF Boot, world, tracker, sweeper, Typed
<1>10. CASE Recovering
  BY <1>10, TypedBusy DEF Recovering, Recover, Reconcile, Free, world, tracker, sweeper, Typed
<1>11. CASE UNCHANGED vars
  BY <1>11 DEF vars, world, tracker, actors, sweeper, count, Typed
<1> QED BY <1>1, <1>2, <1>3, <1>4, <1>5, <1>6, <1>7, <1>8, <1>9, <1>10, <1>11 DEF Next

(* Every variable keeps its type: the tracker and the clients know of no   *)
(* status beside running and the ends of a task, every list and lsof is    *)
(* of tasks, and a daemon that is down makes no calls.                     *)
THEOREM TypeCorrect == Spec => []TypeOK
<1>1. Init => Typed
  BY DEF Init, Typed, States
<1>2. Inv /\ Typed /\ [Next]_vars => Typed'
  BY TypedNext
<1>3. Inv /\ Typed => TypeOK
  BY DEF Inv, Shape, BookShape, Calls, Ops, Stages, Probes, States, Terminal, Typed, TypeOK
<1> QED BY <1>1, <1>2, <1>3, InvInit, NextInv, PTL DEF Spec
=============================================================================
