---------------------------- MODULE BlockReplay ----------------------------
(***************************************************************************)
(* What the walk makes of a checkpoint when it comes by again: as          *)
(* BlockMeaning, but an attempt or a branch with a marker is taken at the  *)
(* marker's word and one without is still open.  With it, the invariant    *)
(* that the two properties of BlockMeaning follow from.                    *)
(***************************************************************************)
EXTENDS BlockMeaning

(* A step and the blocks around it; the part of a suffix that a step there *)
(* has.                                                                    *)
Chain(n) == ({n} \cup Above[n]) \ {Root}
Upto(s, n) == SubSeq(s, 1, Depth[n])

-----------------------------------------------------------------------------
(* The definitions those properties hold for, of any size and depth.       *)

(* keepGoing stands on steps whose failure the next walk finds again.      *)
FailuresStay == \A n \in KeepGoing \cap Steps : Leaf(n) \/ Kind[n] = "retry" \/ Concurrent(n)

(* An agent that may fail the branch around it is in no retry within it.   *)
AgentsUnretried ==
    \A g \in Steps \ KeepGoing : Kind[g] = "agent" /\ Around[g] # Root =>
        \A b \in Above[g] : Kind[b] = "retry" => b \in Above[Around[g]]

(* A condition reads a leaf at or inside a step before its block, or before*)
(* one around it; a loop may also read its own body.                       *)
ReadsBefore(n) ==
    \E x \in Chain(n) : \E k \in DOMAIN Body[Parent[x]] : \E i, j \in DOMAIN Body[Parent[x]][k] :
        i < j /\ Body[Parent[x]][k][j] = x /\ Body[Parent[x]][k][i] \in Chain(Test[n])
ConditionsSettled ==
    \A n \in Steps : Kind[n] \in {"if", "loop"} =>
        Test[n] \in Steps /\ (ReadsBefore(n) \/ (Kind[n] = "loop" /\ n \in Above[Test[n]]))

Plain == FailuresStay /\ AgentsUnretried /\ ConditionsSettled

(* No block around an agent would make its failure good.                   *)
AgentsFatal ==
    \A g \in Steps \ KeepGoing : Kind[g] = "agent" =>
        \A b \in Above[g] : Kind[b] # "retry" /\ b \notin KeepGoing

-----------------------------------------------------------------------------
RetryReplay(c, f, n, s) ==
    LET open == {a \in 0..Count[n] - 1 : ~Failed(c.attempt, Attempt(n, s, a))}
    IN  IF open = {} THEN "failed"
        ELSE IF Attempt(n, s, Min(open)) \in DOMAIN c.attempt THEN "done"
        ELSE IF BodyValue(f, Body[n][1], Append(s, Min(open))) = "broke" THEN "broke" ELSE "open"

(* The branches there are so far.                                          *)
Items(c, n, s) == IF Kind[n] = "parallel" THEN 0..Len(Body[n]) - 1 ELSE 0..Admitted(c, <<n, s>>) - 1

ConcurrentReplay(c, n, s) ==
    LET items == Items(c, n, s)
    IN  IF Kind[n] = "repeat" /\ Count[n] > MaxItems THEN "failed"
        ELSE IF \E i \in items : Branch(n, Append(s, i)) \notin DOMAIN c.branch THEN "open"
        ELSE IF \E i \in items : Failed(c.branch, Branch(n, Append(s, i))) THEN "failed"
        ELSE IF Kind[n] = "parallel" \/ Admitted(c, <<n, s>>) = Count[n] THEN "done"
        ELSE "open"

ReplayValue(c, f, n, s) ==
    CASE Kind[n] = "retry" -> RetryReplay(c, f, n, s)
      [] Concurrent(n)     -> ConcurrentReplay(c, n, s)
      [] OTHER             -> StepValue(c, f, n, s)

Replay(c) ==
    LET f[p \in Steps \X Seq(Nat)] == ReplayValue(c, f, p[1], p[2])
    IN  f

-----------------------------------------------------------------------------
(* The body of b that the walk takes in the frame with suffix s.           *)
PassIn(b, s) == s[Depth[b] + 1]
Taken(c, b, s) == CASE Kind[b] = "if"       -> IF Holds(c, b, s) THEN 1 ELSE 2
                    [] Kind[b] = "parallel" -> PassIn(b, s) + 1
                    [] OTHER                -> 1
TakenBody(c, b, s) == Body[b][Taken(c, b, s)]
BlockValue(c, b, s) == BodyValue(Replay(c), TakenBody(c, b, s), s)

(* As far as b itself is concerned, the walk may be in that pass of it.    *)
PassOK(c, b, s) ==
    LET at == Upto(s, b)
        p  == PassIn(b, s)
    IN  /\ Kind[b] = "retry" => p < Count[b] /\ \A a \in 0..p - 1 : Failed(c.attempt, Attempt(b, at, a))
        /\ Concurrent(b) => p \in Items(c, b, at)
        /\ Kind[b] = "repeat" => Count[b] <= MaxItems
        /\ Kind[b] = "repeat" /\ ~Concurrent(b) =>
              p < Count[b] /\ \A i \in 0..p - 1 : BlockValue(c, b, Append(at, i)) = "done"
        /\ Kind[b] = "loop" =>
              /\ p < Count[b]
              /\ Visible(c, Test[b], at) = {} \/ Continues(c, b, at)
              /\ \A i \in 0..p - 1 : BlockValue(c, b, Append(at, i)) = "done" /\ Continues(c, b, Append(at, i))

(* The steps before the one at j are kept.                                 *)
Clear(c, b, s, j) == \A i \in 1..j - 1 : Kept(Replay(c), TakenBody(c, b, s)[i], s)

InOrder(c, x, s) ==
    LET b == Parent[x]
    IN  PassOK(c, b, s) /\ \E j \in DOMAIN TakenBody(c, b, s) : TakenBody(c, b, s)[j] = x /\ Clear(c, b, s, j)

Reached(c, n, s) == \A x \in Chain(n) : InOrder(c, x, Upto(s, x))
Ready(c, b, s) == (b = Root \/ Reached(c, b, Upto(s, b))) /\ PassOK(c, b, s)

(* A step inside an attempt or a branch that has ended.                    *)
Over(c, n, s) ==
    \E b \in Above[n] :
       \/ Kind[b] = "retry" /\ Attempt(b, Upto(s, b), PassIn(b, s)) \in DOMAIN c.attempt
       \/ Concurrent(b) /\ Branch(b, SubSeq(s, 1, Depth[b] + 1)) \in DOMAIN c.branch

-----------------------------------------------------------------------------
(* A checkpoint the walk may trust: its steps were reached, its markers    *)
(* say what their bodies are worth, and no step waits inside them.         *)
KeysShaped(c) ==
    /\ \A key \in DOMAIN c.attempt : key[1] \in Steps /\ key[3] \in Seq(Nat) /\ Len(key[3]) = Depth[key[1]]
    /\ \A key \in DOMAIN c.branch :
          key = <<key[1], key[2]>> /\ key[1] \in Steps /\ key[2] \in Seq(Nat) /\ Len(key[2]) = Depth[key[1]] + 1
    /\ \A key \in DOMAIN c.admitted : key[2] \in Seq(Nat) /\ Len(key[2]) = Depth[key[1]]

StepsReached(c) == \A ref \in DOMAIN c.step : Reached(c, ref[1], ref[2])

Verdict(marker) == IF marker = "succeeded" THEN "done" ELSE "failed"
True(c, b, s, marker) == Ready(c, b, s) /\ BlockValue(c, b, s) = Verdict(marker)
AttemptsTrue(c) == \A key \in DOMAIN c.attempt : True(c, key[1], Append(key[3], key[2]), c.attempt[key])
BranchesTrue(c) == \A key \in DOMAIN c.branch : True(c, key[1], key[2], c.branch[key])

NoWaitBehind(c) == \A ref \in DOMAIN c.step : c.step[ref].status = "waiting" => ~Over(c, ref[1], ref[2])

Sound(c) == KeysShaped(c) /\ StepsReached(c) /\ AttemptsTrue(c) /\ BranchesTrue(c) /\ NoWaitBehind(c)

(* What may have happened outside the walk since it looked.                *)
AgentKey(ref) == Branch(Around[ref[1]], SubSeq(ref[2], 1, Depth[Around[ref[1]]] + 1))
FailedSince(ref) ==
    /\ ref \in DOMAIN copy.step /\ copy.step[ref].status = "waiting"
    /\ cp.step[ref].status = "failed" /\ ref[1] \notin KeepGoing
Linked ==
    /\ DOMAIN cp.step = DOMAIN copy.step
    /\ \A ref \in DOMAIN copy.step : copy.step[ref].status # "waiting" => cp.step[ref] = copy.step[ref]
    /\ cp.attempt = copy.attempt /\ cp.admitted = copy.admitted
    /\ \A key \in DOMAIN copy.branch : key \in DOMAIN cp.branch /\ cp.branch[key] = copy.branch[key]
    /\ \A key \in DOMAIN cp.branch \ DOMAIN copy.branch :
          cp.branch[key] = "failed" /\ \E ref \in DOMAIN copy.step :
              FailedSince(ref) /\ Kind[ref[1]] = "agent" /\ Around[ref[1]] # Root /\ key = AgentKey(ref)
    /\ status = "live" => \A ref \in DOMAIN copy.step :
          FailedSince(ref) => Around[ref[1]] # Root /\ AgentKey(ref) \in DOMAIN cp.branch

(* A failure is behind a marker, or on its way to one.                     *)
Unwinding(ref) ==
    /\ stack # <<>> /\ ret = "failed"
    /\ Top.node \in Above[ref[1]]
    /\ SubSeq(ref[2], 1, Len(SuffixOf(Top))) = SuffixOf(Top)
FailuresMarked ==
    \A ref \in DOMAIN copy.step :
        copy.step[ref].status = "failed" /\ ref[1] \notin KeepGoing => Over(copy, ref[1], ref[2]) \/ Unwinding(ref)

(* The frames of the walk stand on the walk's own checkpoint.              *)
Unmarked(c, f) ==
    /\ Kind[f.node] = "retry" => Attempt(f.node, f.at, f.pass) \notin DOMAIN c.attempt
    /\ Concurrent(f.node) => Branch(f.node, SuffixOf(f)) \notin DOMAIN c.branch
InPass(c, f) ==
    LET s == SuffixOf(f)
    IN  Ready(c, f.node, s) /\ BodyOf(f) = TakenBody(c, f.node, s) /\ Unmarked(c, f) /\ Clear(c, f.node, s, f.pos)
Progress(c, f) ==
    /\ Kind[f.node] = "repeat" => Count[f.node] <= MaxItems
    /\ f.rest \subseteq Items(c, f.node, f.at)
    /\ \A i \in Items(c, f.node, f.at) :
        \/ f.parked \/ i \in f.rest \/ (f.pos > 0 /\ i = f.pass)
        \/ Branch(f.node, Append(f.at, i)) \in DOMAIN c.branch
Stands(c, f) ==
    /\ f.node = Root \/ Reached(c, f.node, f.at)
    /\ f.pos > 0 => InPass(c, f)
    /\ Concurrent(f.node) => Progress(c, f)
Returns(c, stk, r) ==
    /\ r # "none" => Last(stk).pos > 0
    /\ r \in {"done", "failed", "broke"} =>
          BodyValue(Replay(c), BodyOf(Last(stk)), SuffixOf(Last(stk))) = r
StackStands == (\A i \in DOMAIN stack : Stands(copy, stack[i])) /\ Returns(copy, stack, ret)

Stood ==
    /\ Sound(copy) /\ Linked
    /\ status = "live" => FailuresMarked
    /\ Walking => StackStands
    /\ status = "succeeded" => Meaning = "done"

Earned == lost \/ Stood

-----------------------------------------------------------------------------
(* Places of the walk: a step with a suffix as long as it is deep.         *)
PlaceOf(n, s) == n \in Steps /\ s \in Seq(Nat) /\ Len(s) = Depth[n]

(* The attempt or the branch that the frame with suffix s is in.           *)
NoMarker(c, b, s) ==
    /\ Kind[b] = "retry" => Attempt(b, Upto(s, b), PassIn(b, s)) \notin DOMAIN c.attempt
    /\ Concurrent(b) => Branch(b, s) \notin DOMAIN c.branch

(* The steps the walk may still move: reached, not behind a marker, open.  *)
Live(c, n, s) == PlaceOf(n, s) /\ Reached(c, n, s) /\ ~Over(c, n, s) /\ Replay(c)[<<n, s>>] = "open"

(* The suffixes that the steps in the bodies of a block have.              *)
Ats(n, s) == IF Consumes(n) THEN {Append(s, i) : i \in Nat} ELSE {s}
Agrees(f, g, n, s) == \A m \in Steps : Parent[m] = n => \A t \in Ats(n, s) : f[<<m, t>>] = g[<<m, t>>]
SameSteps(f, g, body, t) == \A j \in DOMAIN body : f[<<body[j], t>>] = g[<<body[j], t>>]

(* What a step is worth rests on the steps of its bodies and on what the   *)
(* checkpoint says of the step itself.                                     *)
SameHere(c, d, n, s) ==
    /\ Leaf(n) => StatusAt(c, <<n, s>>) = StatusAt(d, <<n, s>>)
    /\ Kind[n] = "if" => Holds(c, n, s) <=> Holds(d, n, s)
    /\ Kind[n] = "loop" =>
          /\ (Visible(c, Test[n], s) = {}) <=> (Visible(d, Test[n], s) = {})
          /\ Continues(c, n, s) <=> Continues(d, n, s)
          /\ \A i \in Nat : Continues(c, n, Append(s, i)) <=> Continues(d, n, Append(s, i))
    /\ Kind[n] = "retry" => \A a \in Nat :
          /\ (Attempt(n, s, a) \in DOMAIN c.attempt) <=> (Attempt(n, s, a) \in DOMAIN d.attempt)
          /\ Failed(c.attempt, Attempt(n, s, a)) <=> Failed(d.attempt, Attempt(n, s, a))
    /\ Concurrent(n) =>
          /\ Items(c, n, s) = Items(d, n, s)
          /\ Admitted(c, <<n, s>>) = Admitted(d, <<n, s>>)
          /\ \A i \in Items(c, n, s) :
                /\ (Branch(n, Append(s, i)) \in DOMAIN c.branch) <=> (Branch(n, Append(s, i)) \in DOMAIN d.branch)
                /\ Failed(c.branch, Branch(n, Append(s, i))) <=> Failed(d.branch, Branch(n, Append(s, i)))

-----------------------------------------------------------------------------
(* A later checkpoint: nothing changed but at live steps.                  *)
SameEntry(c, d, ref) ==
    (ref \in DOMAIN c.step <=> ref \in DOMAIN d.step) /\ (ref \in DOMAIN c.step => c.step[ref] = d.step[ref])

Later(c, d) ==
    /\ \A n, s : ~SameEntry(c, d, <<n, s>>) => Live(c, n, s)
    /\ \A key \in DOMAIN c.attempt : key \in DOMAIN d.attempt /\ d.attempt[key] = c.attempt[key]
    /\ \A n, s, a : Attempt(n, s, a) \in DOMAIN d.attempt \ DOMAIN c.attempt => Live(c, n, s)
    /\ \A key \in DOMAIN c.branch : key \in DOMAIN d.branch /\ d.branch[key] = c.branch[key]
    /\ \A n, s, i : Branch(n, Append(s, i)) \in DOMAIN d.branch \ DOMAIN c.branch => Live(c, n, s)
    /\ \A n, s : Admitted(c, <<n, s>>) \in Nat /\ Admitted(d, <<n, s>>) \in Nat
    /\ \A n, s : Admitted(c, <<n, s>>) <= Admitted(d, <<n, s>>)
    /\ \A n, s : Admitted(c, <<n, s>>) # Admitted(d, <<n, s>>) => Live(c, n, s)

SeesSame(c, d, n, t) == SameEntry(c, d, <<Test[n], t>>) /\ SameEntry(c, d, <<Test[n], <<>>>>)

(* The suffixes in which a block in suffix t may read a step.              *)
Sights(t) == {t, <<>>} \cup {Append(t, i) : i \in Nat}

(* A store d that has come of the walk's checkpoint c: waits were settled, *)
(* live steps got entries and markers that say what their bodies are worth,*)
(* and failed agents failed the branches around them.                      *)
AgentFailed(c, d, ref) ==
    /\ ref \in DOMAIN c.step /\ c.step[ref].status = "waiting"
    /\ d.step[ref].status = "failed" /\ ref[1] \notin KeepGoing
    /\ Kind[ref[1]] = "agent" /\ Around[ref[1]] # Root

Earns(c, b, at, s, marker) == PlaceOf(b, at) /\ Live(c, b, at) /\ True(c, b, s, marker)

Onward(c, d) ==
    /\ \A ref \in DOMAIN c.step : ref \in DOMAIN d.step /\ (c.step[ref].status # "waiting" => d.step[ref] = c.step[ref])
    /\ \A ref \in DOMAIN d.step \ DOMAIN c.step : Live(c, ref[1], ref[2])
    /\ \A key \in DOMAIN c.attempt : key \in DOMAIN d.attempt /\ d.attempt[key] = c.attempt[key]
    /\ \A key \in DOMAIN d.attempt \ DOMAIN c.attempt : Earns(c, key[1], key[3], Append(key[3], key[2]), d.attempt[key])
    /\ \A key \in DOMAIN c.branch : key \in DOMAIN d.branch /\ d.branch[key] = c.branch[key]
    /\ \A key \in DOMAIN d.branch \ DOMAIN c.branch :
          /\ key = <<key[1], key[2]>> /\ key[2] \in Seq(Nat) /\ Len(key[2]) = Depth[key[1]] + 1
          /\ \/ Earns(c, key[1], Upto(key[2], key[1]), key[2], d.branch[key])
             \/ d.branch[key] = "failed" /\ \E ref \in DOMAIN c.step : AgentFailed(c, d, ref) /\ key = AgentKey(ref)
    /\ \A key : Admitted(c, key) <= Admitted(d, key)
    /\ \A n, s : Admitted(c, <<n, s>>) # Admitted(d, <<n, s>>) => Live(c, n, s)
    /\ \A key \in DOMAIN d.admitted : key[2] \in Seq(Nat) /\ Len(key[2]) = Depth[key[1]]

(* An agent failed outside the walk, and nothing makes that good.          *)
AgentDown == \E ref \in DOMAIN cp.step : /\ Kind[ref[1]] = "agent" /\ ref[1] \notin KeepGoing
                                        /\ cp.step[ref].status = "failed"

-----------------------------------------------------------------------------
(* What a body is worth, once that is settled, was settled by steps that   *)
(* were reached.                                                           *)
Settled(c, b, s, f) ==
    \A j \in DOMAIN TakenBody(c, b, s) :
        Clear(c, b, s, j) /\ Replay(c)[<<TakenBody(c, b, s)[j], s>>] # "open"
          => f[<<TakenBody(c, b, s)[j], s>>] = Replay(c)[<<TakenBody(c, b, s)[j], s>>]

(* Taking the markers at their word is no mistake.                         *)
Faithful(c, n) ==
    \A s : PlaceOf(n, s) /\ Reached(c, n, s) /\ Replay(c)[<<n, s>>] # "open" => Means(c)[<<n, s>>] = Replay(c)[<<n, s>>]

(* The failure of a leaf fails the branch around it.                       *)
FailsTo(c, n) ==
    \A s : /\ PlaceOf(n, s) /\ Reached(c, n, s) /\ Replay(c)[<<n, s>>] = "failed" /\ n \notin KeepGoing
           /\ Around[n] # Root /\ \A a \in Above[n] : Kind[a] = "retry" => a \in Above[Around[n]]
           => BlockValue(c, Around[n], SubSeq(s, 1, Inner(Around[n]))) = "failed"

(* The failure of a step that no block makes good is the definition's.     *)
FatalTo(c, n) ==
    \A s : /\ PlaceOf(n, s) /\ Reached(c, n, s) /\ Means(c)[<<n, s>>] = "failed" /\ n \notin KeepGoing
           /\ \A a \in Above[n] : Kind[a] # "retry" /\ a \notin KeepGoing
           => BodyValue(Means(c), Body[Root][1], <<>>) = "failed"
=============================================================================
