----------------------------- MODULE BlockWalk -----------------------------
(***************************************************************************)
(* The nested step walk of the automations engine: engine/walk.rs and the  *)
(* block handlers of engine/blocks*.rs over a tree of steps.  The walk is  *)
(* a recursive descent that writes only leaf entries and markers; after a  *)
(* park, a settle or a restart it descends again from the top, and what it *)
(* skips, repeats or gives up is decided by those entries alone.           *)
(* AdvanceLoop has the run lock, the stale-running policy and the commits  *)
(* around one leaf; here a leaf runs in one step and the blocks are whole. *)
(***************************************************************************)
EXTENDS Integers, SequencesExt, FiniteSetsExt

CONSTANTS
    Kind,          \* step -> "act", "ask", "agent", "break" or a block kind
    Body,          \* block -> its bodies (then/otherwise, branches, or one)
    Root,          \* the block that stands for the definition itself
    Parent,        \* step -> the block whose body holds it
    KeepGoing,     \* the steps with keepGoing set
    Count,         \* block -> items, maxAttempts or maxIterations
    Concurrency,   \* repeat -> its concurrency (1: sequential)
    MaxItems,      \* MAX_REPEAT_ITEMS
    Test,          \* if or loop -> the step whose output its condition reads
    Until,         \* the loops in mode until
    MaxCrashes     \* bound: restarts of the daemon

Steps == DOMAIN Kind \ {Root}
LeafKinds == {"act", "ask", "agent"}
Leaf(n) == Kind[n] \in LeafKinds
Concurrent(n) == Kind[n] = "parallel" \/ (Kind[n] = "repeat" /\ Concurrency[n] > 1)

(* A validated definition: a tree of steps under Root, each in one place   *)
(* of one body; an if has two bodies, a parallel one for each branch.      *)
ASSUME TreeAssumption ==
    /\ IsFiniteSet(Steps)
    /\ Root \in DOMAIN Kind /\ Kind[Root] = "root"
    /\ \A n \in Steps : Kind[n] \in LeafKinds \cup {"break", "if", "repeat", "loop", "retry", "parallel"}
    /\ DOMAIN Body = {n \in DOMAIN Kind : ~Leaf(n) /\ Kind[n] # "break"}
    /\ \A b \in DOMAIN Body :
          /\ Body[b] \in Seq(Seq(Steps))
          /\ IF Kind[b] = "parallel" THEN Len(Body[b]) >= 2
             ELSE Len(Body[b]) = IF Kind[b] = "if" THEN 2 ELSE 1
          /\ \A k \in DOMAIN Body[b] : \A j \in DOMAIN Body[b][k] : Parent[Body[b][k][j]] = b
    /\ \A b \in DOMAIN Body : \A k, l \in DOMAIN Body[b] :
          \A i \in DOMAIN Body[b][k], j \in DOMAIN Body[b][l] :
             Body[b][k][i] = Body[b][l][j] => k = l /\ i = j
    /\ \A n \in Steps : \E k \in DOMAIN Body[Parent[n]] : n \in Range(Body[Parent[n]][k])
    /\ Parent \in [Steps -> DOMAIN Body]
    /\ \A S \in SUBSET Steps : S # {} => \E n \in S : Parent[n] \notin S

ASSUME CountAssumption ==
    /\ \A n \in Steps : Kind[n] \in {"repeat", "loop", "retry"} => Count[n] \in Nat
    /\ \A n \in Steps : Kind[n] \in {"loop", "retry"} => Count[n] > 0
    /\ \A n \in Steps : Kind[n] = "repeat" => Concurrency[n] \in Nat
    /\ {MaxItems, MaxCrashes} \subseteq Nat

(* A frame suffix is the chain of pass numbers above a step; an if adds    *)
(* none.                                                                   *)
Consumes(b) == b # Root /\ Kind[b] # "if"

VARIABLES
    cp,        \* the stored checkpoint: [step, attempt, branch, admitted]
    copy,      \* the walk's own checkpoint, replaced by each of its patches
    stack,     \* the active blocks of the walk, outermost first
    ret,       \* result the innermost body just returned, or "none"
    wanted,    \* an advance is queued on the run lock
    status,    \* "live", "succeeded" or "failed"
    crashes,
    lost       \* history: a crash dropped a failure no marker recorded yet

blockVars == <<cp, copy, stack, ret, wanted, status, crashes, lost>>

Results == {"done", "failed", "parked", "broke"}

EmptyCp == [step |-> <<>>, attempt |-> <<>>, branch |-> <<>>, admitted |-> <<>>]

With(f, key, value) == [k \in DOMAIN f \cup {key} |-> IF k = key THEN value ELSE f[k]]
StatusAt(c, ref) == IF ref \in DOMAIN c.step THEN c.step[ref].status ELSE "none"
Admitted(c, key) == IF key \in DOMAIN c.admitted THEN c.admitted[key] ELSE 0
Failed(markers, key) == key \in DOMAIN markers /\ markers[key] = "failed"
Waits(c) == \E ref \in DOMAIN c.step : c.step[ref].status = "waiting"

-----------------------------------------------------------------------------
(* The frame the walk stands in.                                           *)

Frame(n, suffix, pass) ==
    [node |-> n, at |-> suffix, pass |-> pass, pos |-> 1, rest |-> {}, parked |-> FALSE]

Walking == stack # <<>> /\ status = "live"
Top == Last(stack)
BodyOf(f) == Body[f.node][CASE Kind[f.node] = "if" -> f.pass
                            [] Kind[f.node] = "parallel" -> f.pass + 1
                            [] OTHER -> 1]
SuffixOf(f) == IF Consumes(f.node) THEN Append(f.at, f.pass) ELSE f.at

InBody == Walking /\ ret = "none" /\ Top.pos \in DOMAIN BodyOf(Top)
Here == BodyOf(Top)[Top.pos]
Ref == <<Here, SuffixOf(Top)>>

OnTop(f) == [stack EXCEPT ![Len(stack)] = f]
Write(c) == cp' = c /\ copy' = c

(* walk_frame after a step: a park, a break or a fatal failure ends the    *)
(* body, anything else moves on to the next step.                          *)
After(stk, r) ==
    LET f == Last(stk)
        ends == r \in {"parked", "broke"} \/ (r = "failed" /\ BodyOf(f)[f.pos] \notin KeepGoing)
    IN  /\ ret' = IF ends THEN r ELSE "none"
        /\ stack' = IF ends THEN stk ELSE [stk EXCEPT ![Len(stk)].pos = @ + 1]

-----------------------------------------------------------------------------
(* Leaves.                                                                 *)

(* What a leaf may leave behind; an output matters where a condition reads *)
(* it.                                                                     *)
Successes(n) == {[status |-> "succeeded", out |-> out] :
                   out \in IF n \in Range(Test) THEN BOOLEAN ELSE {FALSE}}
Failure == [status |-> "failed", out |-> FALSE]
Outcomes(n) == Successes(n) \cup {Failure}

SkipSettled ==
    /\ InBody /\ Leaf(Here)
    /\ StatusAt(copy, Ref) \in {"succeeded", "failed"}
    /\ After(stack, "done")
    /\ UNCHANGED <<cp, copy, wanted, status, crashes, lost>>

MeetWaiting ==
    /\ InBody /\ Leaf(Here)
    /\ StatusAt(copy, Ref) = "waiting"
    /\ After(stack, "parked")
    /\ UNCHANGED <<cp, copy, wanted, status, crashes, lost>>

RunAction ==
    /\ InBody /\ Kind[Here] = "act"
    /\ StatusAt(copy, Ref) = "none"
    /\ \E entry \in Outcomes(Here) :
          /\ Write([cp EXCEPT !.step = With(@, Ref, entry)])
          /\ After(stack, IF entry.status = "failed" THEN "failed" ELSE "done")
    /\ UNCHANGED <<wanted, status, crashes, lost>>

Suspend ==
    /\ InBody /\ Kind[Here] \in {"ask", "agent"}
    /\ StatusAt(copy, Ref) = "none"
    /\ Write([cp EXCEPT !.step = With(@, Ref, [status |-> "waiting", out |-> FALSE])])
    /\ After(stack, "parked")
    /\ UNCHANGED <<wanted, status, crashes, lost>>

Break ==
    /\ InBody /\ Kind[Here] = "break"
    /\ After(stack, "broke")
    /\ UNCHANGED <<cp, copy, wanted, status, crashes, lost>>

-----------------------------------------------------------------------------
(* Entering a block.  A condition reads the outputs visible in a frame:    *)
(* those of its exact suffix and the plain ones.                           *)

Visible(c, n, suffix) == {ref \in {<<n, suffix>>, <<n, <<>>>>} : StatusAt(c, ref) = "succeeded"}
Holds(c, n, suffix) == \E ref \in Visible(c, Test[n], suffix) : c.step[ref].out
Continues(c, n, suffix) == Holds(c, n, suffix) # (n \in Until)

Enter(pass) == ret' = "none" /\ stack' = Append(stack, Frame(Here, SuffixOf(Top), pass))

EnterIf ==
    /\ InBody /\ Kind[Here] = "if"
    /\ Enter(IF Holds(copy, Here, SuffixOf(Top)) THEN 1 ELSE 2)
    /\ UNCHANGED <<cp, copy, wanted, status, crashes, lost>>

EnterRepeat ==
    /\ InBody /\ Kind[Here] = "repeat" /\ ~Concurrent(Here)
    /\ CASE Count[Here] > MaxItems -> After(stack, "failed")
         [] Count[Here] = 0        -> After(stack, "done")
         [] OTHER                  -> Enter(0)
    /\ UNCHANGED <<cp, copy, wanted, status, crashes, lost>>

EnterLoop ==
    /\ InBody /\ Kind[Here] = "loop"
    /\ IF Visible(copy, Test[Here], SuffixOf(Top)) = {} \/ Continues(copy, Here, SuffixOf(Top))
       THEN Enter(0)
       ELSE After(stack, "done")
    /\ UNCHANGED <<cp, copy, wanted, status, crashes, lost>>

(* An attempt with a marker is not walked again: the first success ends    *)
(* the retry, a failure hands over to the next attempt.                    *)
Attempt(n, suffix, pass) == <<n, pass, suffix>>

EnterRetry ==
    LET at   == SuffixOf(Top)
        key(a) == Attempt(Here, at, a)
        open == {a \in 0..Count[Here] - 1 : ~Failed(copy.attempt, key(a))}
    IN  /\ InBody /\ Kind[Here] = "retry"
        /\ IF open = {} THEN After(stack, "failed")
           ELSE IF key(Min(open)) \in DOMAIN copy.attempt THEN After(stack, "done")
           ELSE Enter(Min(open))
        /\ UNCHANGED <<cp, copy, wanted, status, crashes, lost>>

Branch(n, suffix) == <<n, suffix>>

EnterParallel ==
    LET f == Frame(Here, SuffixOf(Top), 0)
    IN  /\ InBody /\ Kind[Here] = "parallel"
        /\ ret' = "none"
        /\ stack' = Append(stack, [f EXCEPT !.pos = 0, !.rest = 0..Len(Body[Here]) - 1])
        /\ UNCHANGED <<cp, copy, wanted, status, crashes, lost>>

(* Mutant: outstanding items free the budget. *)
WindowUncounted(c, n, at) ==
    LET mark == Min({Admitted(c, <<n, at>>), Count[n]})
    IN  {i \in 0..mark - 1 : Branch(n, Append(at, i)) \notin DOMAIN c.branch}
          \cup mark..Min({Count[n], mark + Concurrency[n]}) - 1

(* The window of a concurrent repeat: admitted items without a succeeded   *)
(* marker, and new ones up to the concurrency while none has failed.       *)
Window(c, n, at) ==
    LET mark     == Min({Admitted(c, <<n, at>>), Count[n]})
        marker(i) == Branch(n, Append(at, i))
        failing  == {i \in 0..mark - 1 : Failed(c.branch, marker(i))}
        open     == {i \in 0..mark - 1 : marker(i) \notin DOMAIN c.branch}
        room     == Max({0, Concurrency[n] - Cardinality(open)})
        fresh    == IF failing # {} THEN {} ELSE mark..Min({Count[n], mark + room}) - 1
    IN  failing \cup open \cup fresh

(* One round: nothing left to run ends the repeat, otherwise the watermark *)
(* is raised over the window and its branches are walked in index order.   *)
Round(stk, f, c) ==
    LET window == Window(c, f.node, f.at)
        key    == <<f.node, f.at>>
        top    == Max({0} \cup {i + 1 : i \in window})
        next   == [f EXCEPT !.pos = 0, !.rest = window, !.parked = FALSE]
    IN  IF window = {}
        THEN After(stk, "done") /\ UNCHANGED <<cp, copy>>
        ELSE /\ stack' = Append(stk, next)
             /\ ret' = "none"
             /\ IF top > Admitted(c, key)
                THEN Write([cp EXCEPT !.admitted = With(@, key, top)])
                ELSE UNCHANGED <<cp, copy>>

EnterConcurrentRepeat ==
    /\ InBody /\ Kind[Here] = "repeat" /\ Concurrent(Here)
    /\ IF Count[Here] > MaxItems
       THEN After(stack, "failed") /\ UNCHANGED <<cp, copy>>
       ELSE Round(stack, Frame(Here, SuffixOf(Top), 0), copy)
    /\ UNCHANGED <<wanted, status, crashes, lost>>

-----------------------------------------------------------------------------
(* Leaving a body.                                                         *)

BodyEnds ==
    /\ Walking /\ ret = "none" /\ Top.pos > Len(BodyOf(Top))
    /\ ret' = "done"
    /\ UNCHANGED <<cp, copy, stack, wanted, status, crashes, lost>>

Returned(kind) == Walking /\ ret # "none" /\ Kind[Top.node] = kind
Return(r) == After(Front(stack), r)
Again(pass) == ret' = "none" /\ stack' = OnTop([Top EXCEPT !.pass = pass, !.pos = 1])

IfReturns ==
    /\ Returned("if")
    /\ Return(ret)
    /\ UNCHANGED <<cp, copy, wanted, status, crashes, lost>>

RepeatReturns ==
    /\ Returned("repeat") /\ ~Concurrent(Top.node)
    /\ IF ret = "done" /\ Top.pass + 1 < Count[Top.node]
       THEN Again(Top.pass + 1)
       ELSE Return(IF ret = "broke" THEN "done" ELSE ret)
    /\ UNCHANGED <<cp, copy, wanted, status, crashes, lost>>

(* The test runs before each pass; after the last one the loop has failed. *)
LoopReturns ==
    /\ Returned("loop")
    /\ IF ret # "done" THEN Return(IF ret = "broke" THEN "done" ELSE ret)
       ELSE IF Top.pass + 1 = Count[Top.node] THEN Return("failed")
       ELSE IF Continues(copy, Top.node, SuffixOf(Top)) THEN Again(Top.pass + 1)
       ELSE Return("done")
    /\ UNCHANGED <<cp, copy, wanted, status, crashes, lost>>

(* Mutant: a parked attempt hands over to the next one.                    *)
RetryReturnsParked ==
    LET mark(s) == Write([cp EXCEPT !.attempt = With(@, Attempt(Top.node, Top.at, Top.pass), s)])
    IN  /\ Returned("retry")
        /\ CASE ret = "done" -> mark("succeeded") /\ Return("done")
             [] Top.pass + 1 < Count[Top.node] -> Again(Top.pass + 1) /\ UNCHANGED <<cp, copy>>
             [] OTHER -> Return(ret) /\ UNCHANGED <<cp, copy>>
        /\ UNCHANGED <<wanted, status, crashes, lost>>

RetryReturns ==
    LET mark(s) == Write([cp EXCEPT !.attempt = With(@, Attempt(Top.node, Top.at, Top.pass), s)])
    IN  /\ Returned("retry")
        /\ CASE ret = "done" -> mark("succeeded") /\ Return("done")
             [] ret = "failed" ->
                  /\ mark("failed")
                  /\ IF Top.pass + 1 < Count[Top.node] THEN Again(Top.pass + 1) ELSE Return("failed")
             [] OTHER -> Return(ret) /\ UNCHANGED <<cp, copy>>
        /\ UNCHANGED <<wanted, status, crashes, lost>>

(* Mutant: the last branch alone says whether the block parks.             *)
BranchReturnsForgetful ==
    LET key == Branch(Top.node, SuffixOf(Top))
        f   == [Top EXCEPT !.parked = (ret = "parked")]
    IN  /\ Walking /\ ret \in {"done", "failed", "parked"} /\ Concurrent(Top.node)
        /\ IF ret = "parked" THEN UNCHANGED <<cp, copy>>
           ELSE Write([cp EXCEPT !.branch = With(@, key, IF ret = "done" THEN "succeeded" ELSE "failed")])
        /\ stack' = OnTop([f EXCEPT !.pos = 0])
        /\ ret' = "none"
        /\ UNCHANGED <<wanted, status, crashes, lost>>

(* A branch of a parallel or a concurrent repeat has been walked: its      *)
(* outcome is marked and the next branch without a marker is taken.        *)
BranchReturns ==
    LET key == Branch(Top.node, SuffixOf(Top))
        f   == [Top EXCEPT !.parked = @ \/ ret = "parked"]
    IN  /\ Walking /\ ret \in {"done", "failed", "parked"} /\ Concurrent(Top.node)
        /\ IF ret = "parked" THEN UNCHANGED <<cp, copy>>
           ELSE Write([cp EXCEPT !.branch = With(@, key, IF ret = "done" THEN "succeeded" ELSE "failed")])
        /\ stack' = OnTop([f EXCEPT !.pos = 0])
        /\ ret' = "none"
        /\ UNCHANGED <<wanted, status, crashes, lost>>

(* run_branches between two branches: position 0 stands for it.            *)
BetweenBranches == Walking /\ ret = "none" /\ Concurrent(Top.node) /\ Top.pos = 0

NextBranch ==
    LET key == Branch(Top.node, Append(Top.at, Min(Top.rest)))
    IN  /\ BetweenBranches /\ Top.rest # {}
        /\ stack' = OnTop([Top EXCEPT !.pass = Min(Top.rest), !.rest = @ \ {Min(@)},
                                      !.pos = IF key \in DOMAIN copy.branch THEN 0 ELSE 1])
        /\ UNCHANGED <<cp, copy, ret, wanted, status, crashes, lost>>

(* After the last branch: parked before failed, and a concurrent repeat    *)
(* looks for its next window when the whole one succeeded.                 *)
BranchesOf(f) ==
    {Branch(f.node, Append(f.at, i)) : i \in 0..(IF Kind[f.node] = "parallel"
                                                 THEN Len(Body[f.node]) ELSE Count[f.node]) - 1}

BranchesEnd ==
    /\ BetweenBranches /\ Top.rest = {}
    /\ IF Top.parked THEN Return("parked") /\ UNCHANGED <<cp, copy>>
       ELSE IF \E key \in BranchesOf(Top) : Failed(copy.branch, key)
       THEN Return("failed") /\ UNCHANGED <<cp, copy>>
       ELSE IF Kind[Top.node] = "parallel" THEN Return("done") /\ UNCHANGED <<cp, copy>>
       ELSE Round(Front(stack), Top, copy)
    /\ UNCHANGED <<wanted, status, crashes, lost>>

-----------------------------------------------------------------------------
(* The run around the walk.                                                *)

BeginWalk ==
    /\ wanted /\ stack = <<>> /\ status = "live"
    /\ wanted' = FALSE
    /\ copy' = cp
    /\ stack' = <<Frame(Root, <<>>, 0)>>
    /\ ret' = "none"
    /\ UNCHANGED <<cp, status, crashes, lost>>

EndWalk ==
    /\ Walking /\ ret # "none" /\ Len(stack) = 1
    /\ stack' = <<>>
    /\ ret' = "none"
    /\ status' = CASE ret = "done" -> "succeeded" [] ret = "failed" -> "failed" [] OTHER -> "live"
    /\ UNCHANGED <<cp, copy, wanted, crashes, lost>>

(* A verdict written outside the walk refuses its next patch.              *)
DropWalk ==
    /\ stack # <<>> /\ status # "live"
    /\ stack' = <<>>
    /\ ret' = "none"
    /\ UNCHANGED <<cp, copy, wanted, status, crashes, lost>>

(* Mutant: a settle that does not ask for an advance.                      *)
SettleSilently ==
    \E ref \in DOMAIN cp.step :
        /\ status = "live" /\ cp.step[ref].status = "waiting"
        /\ \E entry \in Successes(ref[1]) : cp' = [cp EXCEPT !.step[ref] = entry]
        /\ UNCHANGED <<copy, stack, ret, wanted, status, crashes, lost>>

(* An answer to a form, or an agent that ends well.                        *)
Settle ==
    \E ref \in DOMAIN cp.step :
        /\ status = "live" /\ cp.step[ref].status = "waiting"
        /\ \E entry \in Successes(ref[1]) : cp' = [cp EXCEPT !.step[ref] = entry]
        /\ wanted' = TRUE
        /\ UNCHANGED <<copy, stack, ret, status, crashes, lost>>

(* The innermost concurrent block around a step, and the length of the     *)
(* suffix its branch markers carry.                                        *)
Depth[n \in DOMAIN Kind] ==
    IF n = Root THEN 0 ELSE Depth[Parent[n]] + IF Consumes(Parent[n]) THEN 1 ELSE 0

Around[n \in DOMAIN Kind] ==
    IF n = Root \/ Parent[n] = Root THEN Root
    ELSE IF Concurrent(Parent[n]) THEN Parent[n] ELSE Around[Parent[n]]

(* Mutant: the entry fails and the branch around it does not.              *)
FailEnclosingNothing(c, ref) == c

FailEnclosingBranch(c, ref) ==
    LET b == Around[ref[1]]
    IN  IF b = Root \/ ref[1] \in KeepGoing THEN c
        ELSE [c EXCEPT !.branch = With(@, Branch(b, SubSeq(ref[2], 1, Depth[b] + 1)), "failed")]

(* A failing agent fails its entry and the branch around it; the run goes  *)
(* on while the step keeps going or a sibling waits, and fails otherwise.  *)
FailOutOfBand ==
    \E ref \in DOMAIN cp.step :
        LET c     == FailEnclosingBranch([cp EXCEPT !.step[ref] = Failure], ref)
            moves == ref[1] \in KeepGoing \/ Waits(c)
        IN  /\ status = "live" /\ cp.step[ref].status = "waiting" /\ Kind[ref[1]] = "agent"
            /\ cp' = c
            /\ wanted' = (wanted \/ moves)
            /\ status' = IF moves THEN "live" ELSE "failed"
            /\ UNCHANGED <<copy, stack, ret, crashes, lost>>

Crash ==
    /\ crashes < MaxCrashes
    /\ crashes' = crashes + 1
    /\ lost' = (lost \/ (status = "live" /\ ret = "failed"))
    /\ stack' = <<>>
    /\ ret' = "none"
    /\ wanted' = (status = "live")
    /\ UNCHANGED <<cp, copy, status>>

Init ==
    /\ cp = EmptyCp /\ copy = EmptyCp
    /\ stack = <<>> /\ ret = "none"
    /\ wanted = TRUE /\ status = "live" /\ crashes = 0 /\ lost = FALSE

Leaves == SkipSettled \/ MeetWaiting \/ RunAction \/ Suspend \/ Break
Enters == EnterIf \/ EnterRepeat \/ EnterLoop \/ EnterRetry \/ EnterParallel \/ EnterConcurrentRepeat
Leaving == BodyEnds \/ IfReturns \/ RepeatReturns \/ LoopReturns \/ RetryReturns
             \/ BranchReturns \/ NextBranch \/ BranchesEnd
Walk == Leaves \/ Enters \/ Leaving \/ BeginWalk \/ EndWalk \/ DropWalk

Next == Walk \/ Settle \/ FailOutOfBand \/ Crash

Spec == Init /\ [][Next]_blockVars

(* The engine goes on walking, and every wait is settled in the end.       *)
FairSpec == Spec /\ WF_blockVars(Walk) /\ WF_blockVars(Settle \/ FailOutOfBand)

-----------------------------------------------------------------------------
(* The blocks around a step, the leaves below one, and every leaf with     *)
(* each block around it.                                                   *)
Above[n \in DOMAIN Kind] == IF n = Root THEN {} ELSE {Parent[n]} \cup Above[Parent[n]]
Below(m) == {n \in Steps : Leaf(n) /\ (n = m \/ m \in Above[n])}
Enclosures == UNION {{[leaf |-> n, block |-> b] : n \in Below(b)} : b \in DOMAIN Body \ {Root}}
Depths == [b \in DOMAIN Body |-> Depth[b]]

(* Every structure variable keeps its type.                                *)
TypeOK ==
    /\ \A c \in {cp, copy} :
         /\ \A ref \in DOMAIN c.step : Leaf(ref[1]) /\ c.step[ref].out \in BOOLEAN
                                       /\ c.step[ref].status \in {"waiting", "succeeded", "failed"}
         /\ \A key \in DOMAIN c.attempt : Kind[key[1]] = "retry" /\ c.attempt[key] \in {"succeeded", "failed"}
         /\ \A key \in DOMAIN c.branch : Concurrent(key[1]) /\ c.branch[key] \in {"succeeded", "failed"}
         /\ \A key \in DOMAIN c.admitted : Concurrent(key[1]) /\ c.admitted[key] \in 1..Count[key[1]]
    /\ \A i \in DOMAIN stack : stack[i].node \in DOMAIN Body /\ stack[i].pos \in Nat
    /\ ret \in Results \cup {"none"}
    /\ status \in {"live", "succeeded", "failed"}
    /\ wanted \in BOOLEAN /\ lost \in BOOLEAN /\ crashes \in 0..MaxCrashes

(* Items of a concurrent repeat start under its watermark, and no more of  *)
(* them than the concurrency are without an outcome at any time, however   *)
(* often the window is rescanned (engine/blocks_concurrent_repeat.rs:      *)
(* 86-140).                                                                *)
WindowKept ==
    /\ \A key \in DOMAIN cp.admitted :
          Cardinality({i \in 0..cp.admitted[key] - 1 : Branch(key[1], Append(key[2], i)) \notin DOMAIN cp.branch})
            <= Concurrency[key[1]]
    /\ \A e \in Enclosures, ref \in DOMAIN cp.step :
          e.leaf = ref[1] /\ Kind[e.block] = "repeat" /\ Concurrent(e.block)
            => ref[2][Depths[e.block] + 1] < Admitted(cp, <<e.block, SubSeq(ref[2], 1, Depths[e.block])>>)

(* An attempt starts only after every earlier one has failed (engine/      *)
(* blocks.rs:104-110).                                                     *)
AttemptsInOrder ==
    \A e \in Enclosures, ref \in DOMAIN cp.step :
        e.leaf = ref[1] /\ Kind[e.block] = "retry" =>
          \A a \in 0..ref[2][Depths[e.block] + 1] - 1 :
             Failed(cp.attempt, Attempt(e.block, SubSeq(ref[2], 1, Depths[e.block]), a))
=============================================================================
