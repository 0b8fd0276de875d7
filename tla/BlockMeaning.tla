---------------------------- MODULE BlockMeaning ----------------------------
(***************************************************************************)
(* What a definition means, read off the entries of its leaves alone: no   *)
(* markers, no order of events, no parks.  The walk of BlockWalk descends  *)
(* again and again, loses its place at every park and restart, and learns  *)
(* of settles late; the properties below compare it with this meaning.     *)
(***************************************************************************)
EXTENDS BlockWalk

(* "open" is a step, or a body, that has not come to its end.              *)
Kept(f, n, s) == f[<<n, s>>] = "done" \/ (f[<<n, s>>] = "failed" /\ n \in KeepGoing)

(* A body is worth its first step that does not let it go on.              *)
BodyValue(f, body, s) ==
    LET stops == {i \in DOMAIN body : ~Kept(f, body[i], s)}
    IN  IF stops = {} THEN "done" ELSE f[<<body[Min(stops)], s>>]

PassValues(f, n, s) == [i \in 0..Count[n] - 1 |-> BodyValue(f, Body[n][1], Append(s, i))]

(* What ends the passes of a repeat or a loop: v is the pass that did.     *)
Outcome(v) == IF v = "broke" THEN "done" ELSE v

RepeatValue(f, n, s) ==
    LET v    == PassValues(f, n, s)
        ends == {i \in DOMAIN v : v[i] # "done"}
    IN  IF Count[n] > MaxItems THEN "failed"
        ELSE IF ends = {} THEN "done"
        ELSE Outcome(v[Min(ends)])

(* The condition is read before each pass but the first; passes that run   *)
(* out have failed, whatever it says after the last one.                   *)
LoopValue(c, f, n, s) ==
    LET v    == PassValues(f, n, s)
        ends == {i \in DOMAIN v : v[i] # "done" \/ (i + 1 < Count[n] /\ ~Continues(c, n, Append(s, i)))}
    IN  IF Visible(c, Test[n], s) # {} /\ ~Continues(c, n, s) THEN "done"
        ELSE IF ends = {} THEN "failed"
        ELSE Outcome(v[Min(ends)])

RetryValue(f, n, s) ==
    LET v     == PassValues(f, n, s)
        tried == {a \in DOMAIN v : v[a] # "failed"}
    IN  IF tried = {} THEN "failed" ELSE v[Min(tried)]

BranchValues(f, n, s) ==
    IF Kind[n] = "parallel"
    THEN [i \in 0..Len(Body[n]) - 1 |-> BodyValue(f, Body[n][i + 1], Append(s, i))]
    ELSE PassValues(f, n, s)

ConcurrentValue(f, n, s) ==
    LET values == Range(BranchValues(f, n, s))
    IN  IF (Kind[n] = "repeat" /\ Count[n] > MaxItems) \/ "failed" \in values THEN "failed"
        ELSE IF values \subseteq {"done"} THEN "done"
        ELSE "open"

LeafValue(c, n, s) ==
    CASE StatusAt(c, <<n, s>>) = "succeeded" -> "done"
      [] StatusAt(c, <<n, s>>) = "failed"    -> "failed"
      [] OTHER                               -> "open"

StepValue(c, f, n, s) ==
    CASE Leaf(n)            -> LeafValue(c, n, s)
      [] Kind[n] = "break"  -> "broke"
      [] Kind[n] = "if"     -> BodyValue(f, Body[n][IF Holds(c, n, s) THEN 1 ELSE 2], s)
      [] Kind[n] = "retry"  -> RetryValue(f, n, s)
      [] Kind[n] = "loop"   -> LoopValue(c, f, n, s)
      [] Concurrent(n)      -> ConcurrentValue(f, n, s)
      [] OTHER              -> RepeatValue(f, n, s)

(* The value of every step in every frame.                                 *)
Means(c) ==
    LET f[p \in Steps \X Seq(Nat)] == StepValue(c, f, p[1], p[2])
    IN  f

Meaning == BodyValue(Means(cp), Body[Root][1], <<>>)

-----------------------------------------------------------------------------
(* A run that succeeded has earned it: whatever parked, settled late or    *)
(* was walked again after a restart, the leaves on record make the whole   *)
(* definition succeed (engine/walk.rs:42-81).  A restart that hits the     *)
(* instant between a failed entry and the marker or verdict over it is the *)
(* one exception (see SuccessSurvivesRestart).                             *)
SuccessIsEarned == status = "succeeded" => lost \/ Meaning = "done"

(* The same without the exception: engine/blocks.rs:107-110 says of the    *)
(* attempt marker that it "lets a restart mid-retry resume on the right    *)
(* attempt".                                                               *)
SuccessSurvivesRestart == status = "succeeded" => Meaning = "done"

(* So has a run that failed, at the end of a walk or beside it, when an    *)
(* agent fails and nothing else waits (engine/agent_settle.rs:205-216): no *)
(* attempt is left and no keepGoing makes the failure good.                *)
FailureIsEarned == status = "failed" => lost \/ Meaning = "failed"

(* Whichever verdict a run ends with, the leaves on record give the same   *)
(* (engine/walk.rs:42-81, engine/agent_settle.rs:205-216).                 *)
VerdictIsEarned == SuccessIsEarned /\ FailureIsEarned

(* engine/blocks.rs:258-259 says of a loop that runs out of passes: "Bound *)
(* exhausted with the condition still unmet".                              *)
ExhaustedIsUnmet ==
    \A n \in Range(Body[Root][1]) :
       /\ status = "failed" /\ Kind[n] = "loop" /\ Means(cp)[<<n, <<>>>>] = "failed"
       /\ Range(PassValues(Means(cp), n, <<>>)) = {"done"}
       => Continues(cp, n, <<Count[n] - 1>>)

(* How much of a suffix the body of a block shares.                        *)
Inner(b) == IF Consumes(b) THEN Depth[b] + 1 ELSE Depth[b]

(* Every leaf with each body around it: where the body is, the position of *)
(* the leaf in it and the depth of its suffix.                             *)
Bodies == UNION {{<<b, k>> : k \in DOMAIN Body[b]} : b \in DOMAIN Body}
Places ==
    UNION {UNION {{[block |-> q[1], body |-> q[2], at |-> j, leaf |-> n, depth |-> Inner(q[1])]
                     : n \in Below(Body[q[1]][q[2]][j])} : j \in DOMAIN Body[q[1]][q[2]]} : q \in Bodies}

(* No step of an attempt that failed still waits, to be settled while a    *)
(* later attempt runs.                                                     *)
FailedAttemptIsOver ==
    \A key \in DOMAIN cp.attempt, ref \in DOMAIN cp.step :
        cp.attempt[key] = "failed" /\ cp.step[ref].status = "waiting"
          /\ [leaf |-> ref[1], block |-> key[1]] \in Enclosures
        => SubSeq(ref[2], 1, Depths[key[1]] + 1) # Append(key[3], key[2])

(* A step starts only when what comes before it is over: each step before  *)
(* it in its body means done, or failed under its own keepGoing, and of the*)
(* failed attempts before its own nothing waits.  A parked sibling deep in *)
(* a parallel, a failure found on replay or a restart must not let the walk*)
(* slip past (engine/walk.rs:63-72, engine/blocks_concurrent.rs:126-131).  *)
StartsInOrder ==
    /\ FailedAttemptIsOver
    /\ lost \/
       \A p \in Places, ref \in DOMAIN cp.step :
           p.leaf = ref[1] =>
             \A i \in 1..p.at - 1 :
               Kept(Means(cp), Body[p.block][p.body][i], SubSeq(ref[2], 1, p.depth))

(* Once every wait is settled sooner or later, the run ends: no rescan,    *)
(* retry or parked branch keeps it live for ever.                          *)
EventuallyEnds == <>(status # "live")
=============================================================================
