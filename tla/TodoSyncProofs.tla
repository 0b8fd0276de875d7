--------------------------- MODULE TodoSyncProofs ---------------------------
(***************************************************************************)
(* For any number of tasks, texts, labels, edits, runs and faults: what a  *)
(* run settled and nobody edited is in sync, what a run replaced is on its *)
(* report, and what was edited on both sides becomes the later of the two. *)
(***************************************************************************)
EXTENDS TodoSync, FiniteSetTheorems, TLAPS

(* The run has read a task and not written it back.                        *)
Holding == req.pc \in {"issue", "times", "touch", "patch", "board"}

Shapes ==
    /\ todo = [t \in Todos |-> todo[t]] /\ issue = [t \in Todos |-> issue[t]]
    /\ req = [pc |-> req.pc, left |-> req.left, cur |-> req.cur, base |-> req.base, local |-> req.local,
              seen |-> req.seen, at |-> req.at, plan |-> req.plan, rows |-> req.rows]
    /\ edits \in Nat

(* What the run would write leaves the workflow labels to the board.       *)
PlanIsPlain == req.plan.labels \cap Workflow = {}

Inv == Shapes /\ PlanIsPlain

-----------------------------------------------------------------------------
LEMMA ReconcileIsPlain == ASSUME NEW t PROVE Reconcile(t).labels \cap Workflow = {}
BY DEF Reconcile, MergedLabels

LEMMA InvInit == Init => Inv
BY SyncAssumption DEF Init, Inv, Shapes, PlanIsPlain, NoRun, NoPlan

LEMMA ActionsKeep ==
    ASSUME Inv, NEW t \in Todos, Act(t), issue' = [x \in Todos |-> issue'[x]],
           todo' = [x \in Todos |-> todo'[x]], \A x \in Todos \ {t} : todo'[x] = todo[x]
    PROVE  Inv'
BY DEF Inv, Shapes, PlanIsPlain, Act, Touched

LEMMA UserKeeps == ASSUME Inv, User PROVE Inv'
<1>1. ASSUME NEW t \in Todos, NEW f \in Scalars, NEW v \in Texts, EditText(t, f, v) \/ EditIssue(t, f, v)
      PROVE Inv'
  <2>1. Act(t)
    BY <1>1 DEF EditText, EditIssue, Act, Inv, Shapes
  <2>2. /\ issue' = [x \in Todos |-> issue'[x]] /\ todo' = [x \in Todos |-> todo'[x]]
        /\ \A x \in Todos \ {t} : todo'[x] = todo[x]
    BY <1>1 DEF EditText, EditIssue, Inv, Shapes
  <2> QED BY <2>1, <2>2, ActionsKeep
<1>2. ASSUME NEW t \in Todos, NEW s, MoveTodo(t, s) \/ SetState(t, s)
      PROVE Inv'
  <2>1. Act(t)
    BY <1>2 DEF MoveTodo, SetState, Act, Inv, Shapes
  <2>2. /\ issue' = [x \in Todos |-> issue'[x]] /\ todo' = [x \in Todos |-> todo'[x]]
        /\ \A x \in Todos \ {t} : todo'[x] = todo[x]
    BY <1>2 DEF MoveTodo, SetState, Inv, Shapes
  <2> QED BY <2>1, <2>2, ActionsKeep
<1>3. ASSUME NEW t \in Todos, NEW ls, EditLabels(t, ls) \/ Relabel(t, ls)
      PROVE Inv'
  <2>1. Act(t)
    BY <1>3 DEF EditLabels, Relabel, Act, Inv, Shapes
  <2>2. /\ issue' = [x \in Todos |-> issue'[x]] /\ todo' = [x \in Todos |-> todo'[x]]
        /\ \A x \in Todos \ {t} : todo'[x] = todo[x]
    BY <1>3 DEF EditLabels, Relabel, Inv, Shapes
  <2> QED BY <2>1, <2>2, ActionsKeep
<1>4. ASSUME NEW t \in Todos, DeleteTodo(t) \/ Unpair(t) \/ Vanish(t)
      PROVE Inv'
  <2>1. Act(t)
    BY <1>4 DEF DeleteTodo, Unpair, Vanish, Act, Inv, Shapes
  <2>2. /\ issue' = [x \in Todos |-> issue'[x]] /\ todo' = [x \in Todos |-> todo'[x]]
        /\ \A x \in Todos \ {t} : todo'[x] = todo[x]
    BY <1>4 DEF DeleteTodo, Unpair, Vanish, Inv, Shapes
  <2> QED BY <2>1, <2>2, ActionsKeep
<1>5. Unlink => Inv'
  BY DEF Unlink, Inv, Shapes, PlanIsPlain
<1>6. ASSUME NEW s, Stamp(s) PROVE Inv'
  BY <1>6 DEF Stamp, history, Inv, Shapes, PlanIsPlain
<1> QED BY <1>1, <1>2, <1>3, <1>4, <1>5, <1>6 DEF User

(* A step that keeps task and issue and what the run holds of them.        *)
LEMMA HoldingOn ==
    ASSUME Inv, UNCHANGED <<todo, issue, edits, dirty>>,
           \/ /\ req'.pc \notin {"issue", "times", "touch", "patch", "board"}
              /\ req'.plan = req.plan \/ req'.plan.labels = {}
           \/ Holding /\ req'.cur = req.cur /\ req'.local = req.local /\ req'.plan = req.plan,
           req' = [pc |-> req'.pc, left |-> req'.left, cur |-> req'.cur, base |-> req'.base, local |-> req'.local,
                   seen |-> req'.seen, at |-> req'.at, plan |-> req'.plan, rows |-> req'.rows]
    PROVE  Inv'
BY DEF Inv, Shapes, PlanIsPlain

(* The last three steps of a run, which write its report.                  *)
LEMMA RecordShape ==
    ASSUME Shapes, Record
    PROVE  /\ req'.pc \in {"rows", "prune", "idle"} /\ req'.left \subseteq req.left
           /\ req'.left # {} => req'.base = req.base
           /\ req'.plan = req.plan \/ req'.plan.labels = {}
           /\ req'.pc = "idle" => req'.at = NoRun.at
           /\ req' = [pc |-> req'.pc, left |-> req'.left, cur |-> req'.cur, base |-> req'.base, local |-> req'.local,
                      seen |-> req'.seen, at |-> req'.at, plan |-> req'.plan, rows |-> req'.rows]
           /\ UNCHANGED <<todo, issue, touch, pair, dirty, done, agreed, owed, link, runs, faults>> /\ Board
<1>1. CASE RecordRun
  BY <1>1 DEF RecordRun, At, Shapes, Quiet
<1>2. CASE RecordRows
  BY <1>2 DEF RecordRows, Shapes, Quiet
<1>3. CASE Prune
  BY <1>3 DEF Prune, NoRun, NoPlan, Quiet
<1> QED BY <1>1, <1>2, <1>3 DEF Record

LEMMA RunKeeps == ASSUME Inv, Run \/ StatementFails \/ HangUp \/ Restart PROVE Inv'
<1> USE DEF Board, Quiet, At, Skip, NoRun, NoPlan
<1>1. CASE Start
  BY <1>1, HoldingOn DEF Start, Inv, Shapes
<1>8. CASE ReadLink
  BY <1>8, HoldingOn DEF ReadLink, Inv, Shapes
<1>9. CASE ReadPairs
  BY <1>9, HoldingOn DEF ReadPairs, Inv, Shapes
<1>10. CASE WriteBaseline
  BY <1>10, HoldingOn DEF WriteBaseline, Inv, Shapes
<1>11. CASE SetMark
  BY <1>11, HoldingOn DEF SetMark, Inv, Shapes
<1>12. CASE WriteLink
  BY <1>12, HoldingOn DEF WriteLink, Inv, Shapes
<1>16. CASE Record
  <2>1. Shapes
    BY DEF Inv
  <2> QED BY <1>16, <2>1, RecordShape, HoldingOn
<1>2. ASSUME NEW t \in Todos, ReadLocal(t) PROVE Inv'
  BY <1>2 DEF ReadLocal, Inv, Shapes, PlanIsPlain
<1>3. ASSUME PortFails, UNCHANGED <<todo, issue, edits, dirty>> PROVE Inv'
  <2>1. CASE req' = Skip
    BY <1>3, <2>1, HoldingOn DEF Inv, Shapes
  <2>2. CASE req' = [Skip EXCEPT !.pc = "finish", !.left = {}]
    BY <1>3, <2>2, HoldingOn DEF Inv, Shapes
  <2> QED BY <1>3, <2>1, <2>2 DEF PortFails
<1>13. CASE GetIssue
  <2>1. CASE req' = [req EXCEPT !.seen = issue[req.cur],
                                !.pc = IF NeedsFieldTimes(req.local, req.base[req.cur], issue[req.cur])
                                       THEN "times" ELSE "touch"]
    BY <1>13, <2>1, HoldingOn DEF GetIssue, Holding, Inv, Shapes
  <2> QED BY <1>3, <1>13, <2>1 DEF GetIssue
<1>14. CASE FieldTimes
  <2>1. CASE req' = [req EXCEPT !.at = issue[req.cur].at, !.pc = "touch"]
    BY <1>14, <2>1, HoldingOn DEF FieldTimes, Holding, Inv, Shapes
  <2> QED BY <1>3, <1>14, <2>1 DEF FieldTimes
<1>4. CASE Plan
  <2>1. Reconcile(req.cur).labels \cap Workflow = {}
    BY ReconcileIsPlain
  <2> QED BY <1>4, <2>1 DEF Plan, Inv, Shapes, PlanIsPlain
<1>5. CASE Patch
  <2>1. CASE PortFails /\ UNCHANGED issue
    BY <1>3, <1>5, <2>1 DEF Patch
  <2>2. ASSUME issue' = Patched, req' = At("board") \/ req' = [Skip EXCEPT !.pc = "finish", !.left = {}]
        PROVE Inv'
    <3>1. issue' = [x \in Todos |-> issue'[x]]
      BY <2>2 DEF Patched, Inv, Shapes
    <3>2. req.pc = "patch" /\ UNCHANGED <<todo, dirty, edits>>
      BY <1>5 DEF Patch
    <3>3. /\ req'.pc \in {"board", "finish"} /\ (req'.pc = "board" => req'.cur = req.cur /\ req'.local = req.local)
          /\ req'.plan = req.plan \/ req'.plan.labels = {}
          /\ req' = [pc |-> req'.pc, left |-> req'.left, cur |-> req'.cur, base |-> req'.base, local |-> req'.local,
                     seen |-> req'.seen, at |-> req'.at, plan |-> req'.plan, rows |-> req'.rows]
      <4>1. CASE req' = At("board")
        BY <4>1 DEF Inv, Shapes
      <4>2. CASE req' = [Skip EXCEPT !.pc = "finish", !.left = {}]
        BY <4>2 DEF Inv, Shapes
      <4> QED BY <2>2, <4>1, <4>2
    <3> QED BY <3>1, <3>2, <3>3 DEF Inv, Shapes, PlanIsPlain
  <2> QED BY <1>5, <2>1, <2>2 DEF Patch
<1>6. CASE WriteBoard
  BY <1>6 DEF WriteBoard, Inv, Shapes, PlanIsPlain
<1>7. CASE StatementFails
  <2>1. CASE req' = [Skip EXCEPT !.pc = "finish", !.left = {}]
    BY <1>7, <2>1, HoldingOn DEF StatementFails, Inv, Shapes
  <2>2. CASE req' = NoRun
    BY <1>7, <2>2, HoldingOn DEF StatementFails, Inv, Shapes
  <2> QED BY <1>7, <2>1, <2>2 DEF StatementFails
<1>15. CASE HangUp \/ Restart
  BY <1>15, HoldingOn DEF HangUp, Restart, history, Inv, Shapes
<1> QED BY <1>1, <1>2, <1>3, <1>4, <1>5, <1>6, <1>7, <1>8, <1>9, <1>10, <1>11, <1>12,
      <1>13, <1>14, <1>15, <1>16 DEF Run

LEMMA InvStep == Inv /\ [Next]_vars => Inv'
<1>1. Inv /\ UNCHANGED vars => Inv'
  BY DEF vars, store, history, Inv, Shapes, PlanIsPlain
<1> QED BY <1>1, UserKeeps, RunKeeps DEF Next

-----------------------------------------------------------------------------
(* One run is enough.                                                      *)

There(t) == todo[t] # Gone /\ issue[t] # Gone /\ pair[t] # Gone
States == {"open", "closed"}

IssueRecord(t) ==
    issue[t] # Gone =>
        /\ issue[t] = [text |-> issue[t].text, state |-> issue[t].state, labels |-> issue[t].labels,
                       updated |-> issue[t].updated, at |-> issue[t].at]
        /\ issue[t].state \in States
Records ==
    /\ pair = [t \in Todos |-> pair[t]]
    /\ \A t \in Todos : pair[t] # Gone => pair[t] = [mark |-> pair[t].mark, base |-> pair[t].base]
    /\ \A t \in Todos : IssueRecord(t)

Deciding == req.pc \in {"patch", "board", "base", "mark"}
Asking == req.pc \in {"issue", "times", "touch"}

(* What the run has decided on and carried out by now.                     *)
Carried(c) ==
    /\ \A f \in Fields :
          /\ req.plan.write[f] # "board" \/ req.pc \in {"base", "mark"} => OnBoard(c, f) = req.plan.next[f]
          /\ req.plan.write[f] # "github" \/ req.pc # "patch" => OnGitHub(c, f) = req.plan.next[f]
    /\ ~req.plan.toBoard \/ req.pc \in {"base", "mark"} => todo[c].labels \ Workflow = req.plan.labels
    /\ ~req.plan.toGitHub \/ req.pc # "patch" => issue[c].labels \ Workflow = req.plan.labels

Based(c) ==
    /\ \A f \in Scalars : pair[c].base.text[f] = req.plan.next[f]
    /\ pair[c].base.state = req.plan.next["state"] /\ pair[c].base.labels = req.plan.labels

(* The run has in hand what both sides are, and what it has carried out is *)
(* so, unless somebody edits the pair.                                     *)
HandTrue ==
    LET c == req.cur
    IN  (Asking \/ Deciding) /\ c \notin dirty /\ todo[c] # Gone /\ issue[c] # Gone =>
            /\ Holding => req.local = todo[c]
            /\ req.pc \in {"times", "touch"} => req.seen = issue[c]
            /\ Deciding => Carried(c)
            /\ req.pc = "mark" /\ pair[c] # Gone => Based(c)

(* A pair settled before is settled again to what it was.                  *)
DoneAgain ==
    LET c == req.cur
    IN  /\ \A t \in done \cap req.left : There(t) => req.base[t].labels = pair[t].base.labels
        /\ Asking /\ c \in done /\ There(c) => req.base[c].labels = pair[c].base.labels
        /\ Deciding /\ c \in done /\ There(c) => req.plan.labels = pair[c].base.labels

InHand ==
    /\ req.left \subseteq Todos
    /\ Asking \/ Deciding => req.cur \in Todos \ req.left
    /\ req.pc = "patch" /\ req.plan.write["state"] = "github" => req.plan.next["state"] \in States

SyncInv ==
    /\ Records /\ InHand /\ HandTrue /\ DoneAgain
    /\ done \subseteq Todos \ dirty /\ OneRunIsEnough

LEMMA NoState == "state" \notin Scalars /\ Fields = Scalars \cup {"state"}
BY SyncAssumption DEF Fields

LEMMA IssueRecords ==
    ASSUME Records, NEW t \in Todos, pair' = pair, \A x \in Todos \ {t} : issue'[x] = issue[x], IssueRecord(t)'
    PROVE  Records'
<1>1. ASSUME NEW x \in Todos \ {t} PROVE IssueRecord(x)'
  BY DEF Records, IssueRecord
<1> QED BY <1>1 DEF Records

(* Whoever edits a pair takes it from the run and from the settled.        *)
LEMMA EditSync ==
    ASSUME SyncInv, NEW t \in Todos, Act(t), Records',
           \A x \in Todos \ {t} : todo'[x] = todo[x] /\ issue'[x] = issue[x] /\ pair'[x] = pair[x]
    PROVE  SyncInv'
<1>1. dirty' = dirty \cup {t} /\ done' = done \ {t} /\ req' = req
  BY DEF Act, Touched
<1>2. InHand'
  BY <1>1 DEF SyncInv, InHand, Asking, Deciding
<1>3. HandTrue'
  BY <1>1 DEF SyncInv, HandTrue, Carried, Based, InHand, Asking, Deciding, Holding, OnBoard, OnGitHub
<1>4. DoneAgain' /\ OneRunIsEnough' /\ (done \subseteq Todos \ dirty)'
  BY <1>1 DEF SyncInv, DoneAgain, OneRunIsEnough, There, InSync, Asking, Deciding
<1> QED BY <1>2, <1>3, <1>4 DEF SyncInv

(* The rest of the state is nothing to the invariant.                      *)
LEMMA StillSync ==
    ASSUME SyncInv, UNCHANGED <<todo, issue, pair, req, dirty, done>>
    PROVE  SyncInv'
<1>1. Records' /\ InHand' /\ done' \subseteq Todos \ dirty'
  BY DEF SyncInv, Records, IssueRecord, InHand, Asking, Deciding
<1>2. HandTrue'
  BY DEF SyncInv, HandTrue, Carried, Based, Asking, Deciding, Holding, OnBoard, OnGitHub
<1>3. DoneAgain' /\ OneRunIsEnough'
  BY DEF SyncInv, DoneAgain, OneRunIsEnough, There, InSync, Asking, Deciding
<1> QED BY <1>1, <1>2, <1>3 DEF SyncInv

LEMMA UserSync == ASSUME SyncInv, Shapes, User PROVE SyncInv'
<1>1. ASSUME NEW t \in Todos, NEW f \in Scalars, NEW v \in Texts, EditText(t, f, v) PROVE SyncInv'
  <2>1. Act(t) /\ UNCHANGED <<issue, pair>> /\ \A x \in Todos \ {t} : todo'[x] = todo[x]
    BY <1>1 DEF EditText, Shapes
  <2> QED BY <2>1, EditSync DEF SyncInv, Records, IssueRecord
<1>2. ASSUME NEW t \in Todos, NEW s, MoveTodo(t, s) PROVE SyncInv'
  <2>1. Act(t) /\ UNCHANGED <<issue, pair>> /\ \A x \in Todos \ {t} : todo'[x] = todo[x]
    BY <1>2 DEF MoveTodo, Shapes
  <2> QED BY <2>1, EditSync DEF SyncInv, Records, IssueRecord
<1>3. ASSUME NEW t \in Todos, NEW ls, EditLabels(t, ls) PROVE SyncInv'
  <2>1. Act(t) /\ UNCHANGED <<issue, pair>> /\ \A x \in Todos \ {t} : todo'[x] = todo[x]
    BY <1>3 DEF EditLabels, Shapes
  <2> QED BY <2>1, EditSync DEF SyncInv, Records, IssueRecord
<1>4. ASSUME NEW t \in Todos, DeleteTodo(t) \/ Unpair(t) PROVE SyncInv'
  <2>1. /\ Act(t) /\ issue' = issue /\ pair' = [pair EXCEPT ![t] = Gone]
        /\ \A x \in Todos \ {t} : todo'[x] = todo[x]
    BY <1>4 DEF DeleteTodo, Unpair, Shapes
  <2>2. Records' /\ \A x \in Todos \ {t} : pair'[x] = pair[x]
    BY <2>1 DEF SyncInv, Records, IssueRecord
  <2> QED BY <2>1, <2>2, EditSync
<1>5. ASSUME NEW t \in Todos, NEW f \in Scalars, NEW v \in Texts, EditIssue(t, f, v) PROVE SyncInv'
  <2>1. Act(t) /\ UNCHANGED <<todo, pair>> /\ issue[t] # Gone
    BY <1>5 DEF EditIssue
  <2>2. /\ \A x \in Todos \ {t} : issue'[x] = issue[x]
        /\ issue'[t] = [issue[t] EXCEPT !.text[f] = v, !.updated = clock',
                                        !.at.title = IF f = "title" THEN clock' ELSE @]
    BY <1>5 DEF EditIssue, Shapes
  <2>3. /\ issue'[t] = [text |-> issue'[t].text, state |-> issue'[t].state, labels |-> issue'[t].labels,
                        updated |-> issue'[t].updated, at |-> issue'[t].at]
        /\ issue'[t].state \in States
    BY <2>1, <2>2 DEF SyncInv, Records, IssueRecord
  <2>4. Records'
    BY <2>1, <2>2, <2>3 DEF SyncInv, Records, IssueRecord
  <2> QED BY <2>1, <2>2, <2>4, EditSync
<1>6. ASSUME NEW t \in Todos, NEW s \in {"open", "closed"}, SetState(t, s) PROVE SyncInv'
  <2>1. Act(t) /\ UNCHANGED <<todo, pair>> /\ issue[t] # Gone
    BY <1>6 DEF SetState
  <2>2. /\ \A x \in Todos \ {t} : issue'[x] = issue[x]
        /\ issue'[t] = [issue[t] EXCEPT !.state = s, !.updated = clock', !.at.state = clock']
    BY <1>6 DEF SetState, Shapes
  <2>3. s \in States
    BY <1>6 DEF States
  <2>4. IssueRecord(t)
    BY DEF SyncInv, Records
  <2>5. IssueRecord(t)'
    BY <2>1, <2>2, <2>3, <2>4 DEF IssueRecord
  <2>6. Records'
    BY <2>1, <2>2, <2>5, IssueRecords DEF SyncInv
  <2> QED BY <2>1, <2>2, <2>6, EditSync
<1>7. ASSUME NEW t \in Todos, NEW ls, Relabel(t, ls) PROVE SyncInv'
  <2>1. Act(t) /\ UNCHANGED <<todo, pair>> /\ issue[t] # Gone
    BY <1>7 DEF Relabel
  <2>2. /\ \A x \in Todos \ {t} : issue'[x] = issue[x]
        /\ issue'[t] = [issue[t] EXCEPT !.labels = ls, !.updated = clock']
    BY <1>7 DEF Relabel, Shapes
  <2>3. IssueRecord(t)
    BY DEF SyncInv, Records
  <2>4. IssueRecord(t)'
    BY <2>1, <2>2, <2>3 DEF IssueRecord
  <2>5. Records'
    BY <2>1, <2>2, <2>4, IssueRecords DEF SyncInv
  <2> QED BY <2>1, <2>2, <2>5, EditSync
<1>8. ASSUME NEW t \in Todos, Vanish(t) PROVE SyncInv'
  <2>1. Act(t) /\ UNCHANGED <<todo, pair>> /\ issue' = [issue EXCEPT ![t] = Gone]
    BY <1>8 DEF Vanish
  <2>2. Records' /\ \A x \in Todos \ {t} : issue'[x] = issue[x]
    BY <2>1 DEF SyncInv, Records, IssueRecord, Shapes
  <2> QED BY <2>1, <2>2, EditSync
<1>9. Unlink => SyncInv'
  <2> SUFFICES ASSUME Unlink PROVE SyncInv'
    OBVIOUS
  <2>1. pair' = [t \in Todos |-> Gone] /\ done' = {} /\ UNCHANGED <<todo, issue, req, dirty>>
    BY DEF Unlink
  <2>2. Records' /\ InHand' /\ DoneAgain' /\ OneRunIsEnough'
    BY <2>1 DEF SyncInv, Records, IssueRecord, InHand, DoneAgain, OneRunIsEnough, Asking, Deciding
  <2>3. HandTrue'
    BY <2>1 DEF SyncInv, InHand, HandTrue, Carried, Asking, Deciding, Holding, OnBoard, OnGitHub
  <2> QED BY <2>1, <2>2, <2>3 DEF SyncInv
<1>10. ASSUME NEW s, Stamp(s) PROVE SyncInv'
  BY <1>10, StillSync DEF Stamp, history
<1>11. CASE \E t \in Todos, s \in {"open", "in_progress", "done"} : MoveTodo(t, s)
  BY <1>2, <1>11
<1>12. CASE \E t \in Todos, s \in {"open", "closed"} : SetState(t, s)
  BY <1>6, <1>12
<1>13. CASE \E s \in stamping : Stamp(s)
  BY <1>10, <1>13
<1>14. CASE \E t \in Todos, f \in Scalars, v \in Texts : EditText(t, f, v) \/ EditIssue(t, f, v)
  BY <1>1, <1>5, <1>14
<1>15. CASE \E t \in Todos, ls \in SUBSET Labels : EditLabels(t, ls) \/ Relabel(t, ls)
  BY <1>3, <1>7, <1>15
<1>16. CASE \E t \in Todos : DeleteTodo(t) \/ Unpair(t) \/ Vanish(t)
  BY <1>4, <1>8, <1>16
<1> QED BY <1>9, <1>11, <1>12, <1>13, <1>14, <1>15, <1>16 DEF User

-----------------------------------------------------------------------------
(* The run has no pair in hand after a step that leaves baselines alone.   *)
LEMMA EmptyHand ==
    ASSUME SyncInv, UNCHANGED <<todo, issue, dirty, done>>, Records', req'.left \subseteq Todos,
           req'.pc \notin {"issue", "times", "touch", "patch", "board", "base", "mark"},
           \A t \in Todos : pair'[t] # Gone => pair[t] # Gone /\ pair'[t].base = pair[t].base,
           \A t \in done \cap req'.left : There(t) => req'.base[t].labels = pair[t].base.labels
    PROVE  SyncInv'
BY DEF SyncInv, InHand, HandTrue, DoneAgain, OneRunIsEnough, There, InSync, Asking, Deciding, Holding

(* What concerns one pair is marked on it.                                 *)
LEMMA MarkKeeps ==
    ASSUME SyncInv, NEW m, pair' = Marked(m), UNCHANGED issue
    PROVE  /\ Records'
           /\ \A t \in Todos : pair'[t] # Gone => pair[t] # Gone /\ pair'[t].base = pair[t].base
<1>1. pair' = [t \in Todos |-> IF t = req.cur /\ pair[t] # Gone THEN [pair[t] EXCEPT !.mark = m] ELSE pair[t]]
  BY DEF SyncInv, Records, IssueRecord, Marked
<1>2. ASSUME NEW t \in Todos, pair'[t] # Gone
      PROVE  /\ pair[t] # Gone /\ pair'[t].base = pair[t].base
             /\ pair'[t] = [mark |-> pair'[t].mark, base |-> pair'[t].base]
  <2>1. pair[t] # Gone /\ pair[t] = [mark |-> pair[t].mark, base |-> pair[t].base]
    BY <1>1, <1>2 DEF SyncInv, Records
  <2>2. CASE t = req.cur
    BY <1>1, <2>1, <2>2
  <2>3. CASE t # req.cur
    BY <1>1, <2>1, <2>3
  <2> QED BY <2>2, <2>3
<1>3. Records'
  <2>1. pair' = [t \in Todos |-> pair'[t]]
    BY <1>1
  <2>2. \A t \in Todos : IssueRecord(t)'
    BY DEF SyncInv, Records, IssueRecord
  <2> QED BY <1>2, <2>1, <2>2 DEF Records
<1> QED BY <1>2, <1>3

LEMMA SkipHand ==
    ASSUME Shapes
    PROVE  /\ Skip.left = req.left /\ Skip.base = req.base /\ Skip.pc = "next"
           /\ [Skip EXCEPT !.pc = "finish", !.left = {}].left = {}
           /\ [Skip EXCEPT !.pc = "finish", !.left = {}].pc = "finish"
BY DEF Shapes, Skip

LEMMA PortSync ==
    ASSUME SyncInv, Shapes, PortFails, UNCHANGED <<todo, issue, dirty, done>>
    PROVE  SyncInv'
<1>1. req' = Skip \/ req' = [Skip EXCEPT !.pc = "finish", !.left = {}]
  BY DEF PortFails
<1>2. pair' = pair \/ \E m \in {"remotely-unlinked", "errored"} : pair' = Marked(m)
  BY DEF PortFails
<1>3. /\ Records'
      /\ \A t \in Todos : pair'[t] # Gone => pair[t] # Gone /\ pair'[t].base = pair[t].base
  <2>1. CASE pair' = pair
    BY <2>1 DEF SyncInv, Records, IssueRecord
  <2> QED BY <1>2, <2>1, MarkKeeps
<1>4. /\ req'.pc \in {"next", "finish"} /\ req'.left \subseteq req.left
      /\ req'.left # {} => req'.base = req.base
  BY <1>1, SkipHand
<1> QED BY <1>3, <1>4, EmptyHand DEF SyncInv, InHand, DoneAgain

LEMMA LoopSync ==
    ASSUME SyncInv, Shapes,
    Start \/ ReadLink \/ ReadPairs \/ WriteLink \/ Record \/ StatementFails \/ HangUp \/ Restart
    PROVE  SyncInv'
<1> USE DEF Board, Quiet
<1>1. UNCHANGED <<todo, issue, pair, dirty, done>>
  BY DEF Start, ReadLink, ReadPairs, WriteLink, Record, RecordRun, RecordRows, Prune, StatementFails, HangUp,
     Restart, history
<1>2. Records'
  BY <1>1 DEF SyncInv, Records, IssueRecord
<1>3. CASE ReadPairs
  <2>1. /\ req'.pc = "next" /\ req'.left \subseteq Todos
        /\ \A t \in req'.left : req'.base[t] = pair[t].base
    BY <1>3 DEF ReadPairs, Shapes
  <2> QED BY <1>1, <1>2, <2>1, EmptyHand
<1>4. CASE ~ReadPairs
  <2>1. /\ req'.pc \in {"link", "pairs", "finish", "idle", "record", "rows", "prune"} /\ req'.left \subseteq req.left
        /\ req'.left # {} => req'.base = req.base
    <3>1. CASE Start
      BY <3>1 DEF Start, NoRun
    <3>5. CASE ReadLink
      BY <3>5 DEF ReadLink, NoRun, Shapes
    <3>2. CASE WriteLink
      BY <3>2 DEF WriteLink, At, Shapes
    <3>6. CASE Record
      BY <3>6, RecordShape
    <3>3. CASE StatementFails
      <4>1. CASE req' = [Skip EXCEPT !.pc = "finish", !.left = {}]
        BY <4>1, SkipHand
      <4>2. CASE req' = NoRun
        BY <4>2 DEF NoRun
      <4> QED BY <3>3, <4>1, <4>2 DEF StatementFails
    <3>4. CASE HangUp \/ Restart
      BY <3>4 DEF HangUp, Restart, NoRun
    <3> QED BY <1>4, <3>1, <3>2, <3>3, <3>4, <3>5, <3>6
  <2> QED BY <1>1, <1>2, <2>1, EmptyHand DEF SyncInv, InHand, DoneAgain
<1> QED BY <1>3, <1>4

(* The run takes up a task, of which it reads all there is by then.        *)
LEMMA ReadSync ==
    ASSUME SyncInv, Shapes, NEW t \in Todos, ReadLocal(t)
    PROVE  SyncInv'
<1>1. /\ req.pc = "next" /\ t \in req.left /\ req.left \subseteq Todos
      /\ UNCHANGED <<todo, issue, pair, done>> /\ dirty' \subseteq dirty
      /\ req' = IF todo[t] = Gone
              THEN [req EXCEPT !.left = @ \ {t}]
              ELSE [req EXCEPT !.left = @ \ {t}, !.cur = t, !.pc = "issue", !.local = todo[t]]
  BY DEF ReadLocal, SyncInv, InHand
<1>2. /\ req'.left = req.left \ {t} /\ req'.base = req.base /\ req'.pc \in {"next", "issue"}
      /\ req'.pc = "issue" => req'.cur = t /\ req'.local = todo[t]
  BY <1>1 DEF Shapes
<1>3. Records' /\ OneRunIsEnough' /\ (done \subseteq Todos \ dirty)'
  BY <1>1 DEF SyncInv, Records, IssueRecord, OneRunIsEnough, There, InSync
<1>4. InHand' /\ HandTrue' /\ DoneAgain'
  BY <1>1, <1>2 DEF SyncInv, InHand, HandTrue, DoneAgain, There, Asking, Deciding, Holding
<1> QED BY <1>3, <1>4 DEF SyncInv

LEMMA AskSync ==
    ASSUME SyncInv, Shapes, GetIssue \/ FieldTimes
    PROVE  SyncInv'
<1> USE DEF Board, Quiet
<1>1. UNCHANGED <<todo, issue, dirty, done>>
  BY DEF GetIssue, FieldTimes
<1>2. CASE PortFails
  BY <1>1, <1>2, PortSync
<1>3. CASE ~PortFails
  <2>1. /\ req.pc \in {"issue", "times"} /\ req'.pc \in {"times", "touch"} /\ pair' = pair
        /\ req'.left = req.left /\ req'.base = req.base /\ req'.cur = req.cur /\ req'.local = req.local
        /\ req'.seen = IF req.pc = "issue" THEN issue[req.cur] ELSE req.seen
    BY <1>3 DEF GetIssue, FieldTimes, Shapes
  <2>2. Records' /\ OneRunIsEnough' /\ (done \subseteq Todos \ dirty)'
    BY <1>1, <2>1 DEF SyncInv, Records, IssueRecord, OneRunIsEnough, There, InSync
  <2>3. InHand' /\ HandTrue' /\ DoneAgain'
    BY <1>1, <2>1 DEF SyncInv, InHand, HandTrue, DoneAgain, There, Asking, Deciding, Holding
  <2> QED BY <2>2, <2>3 DEF SyncInv
<1> QED BY <1>2, <1>3

-----------------------------------------------------------------------------
(* What one side is to get is what the other has; what none gets, both.    *)
LEMMA Decision ==
    ASSUME NEW c, NEW f \in Fields, req.local = todo[c], req.seen = issue[c]
    PROVE  LET plan == Reconcile(c)
           IN  /\ plan.write[f] \in {"none", "github", "board"}
               /\ plan.write[f] # "board" => OnBoard(c, f) = plan.next[f]
               /\ plan.write[f] # "github" => OnGitHub(c, f) = plan.next[f]
BY NoState DEF Reconcile, Diff, OnBoard, OnGitHub

LEMMA LabelDecision ==
    ASSUME NEW c
    PROVE  LET plan == Reconcile(c)
           IN  /\ plan.labels \cap Workflow = {}
               /\ ~plan.toBoard => req.local.labels \ Workflow = plan.labels
               /\ ~plan.toGitHub => req.seen.labels \ Workflow = plan.labels
               /\ req.local.labels \ Workflow = req.base[c].labels /\ req.seen.labels \ Workflow = req.base[c].labels
                  => plan.labels = req.base[c].labels
<1> DEFINE merged == MergedLabels(req.local.labels, req.seen.labels, req.base[c].labels)
<1>1. Reconcile(c).labels = merged
      /\ Reconcile(c).toBoard = (BoardLabels(req.local.labels, merged) # req.local.labels)
      /\ Reconcile(c).toGitHub = (merged # req.seen.labels \ Workflow)
  BY DEF Reconcile
<1>2. merged \cap Workflow = {}
  BY DEF MergedLabels
<1>3. BoardLabels(req.local.labels, merged) = req.local.labels => req.local.labels \ Workflow = merged
  BY <1>2 DEF BoardLabels
<1>4. req.local.labels \ Workflow = req.base[c].labels /\ req.seen.labels \ Workflow = req.base[c].labels
      => merged = req.base[c].labels
  BY DEF MergedLabels
<1> HIDE DEF merged
<1> QED BY <1>1, <1>2, <1>3, <1>4

LEMMA StateDecision ==
    ASSUME NEW c, Reconcile(c).write["state"] = "github"
    PROVE  Reconcile(c).next["state"] \in States
BY NoState DEF Reconcile, Diff, Project, States

LEMMA PlanSync ==
    ASSUME SyncInv, Shapes, Plan
    PROVE  SyncInv'
<1>0. PICK c : c = req.cur
  OBVIOUS
<1>1. /\ UNCHANGED <<todo, issue, pair, dirty, done>> /\ req.pc = "touch"
      /\ req' = [req EXCEPT !.plan = Reconcile(c), !.pc = IF Outbound(Reconcile(c)) THEN "patch" ELSE "board"]
  BY <1>0 DEF Plan
<1>2. /\ req'.left = req.left /\ req'.base = req.base /\ req'.cur = c /\ req'.local = req.local
      /\ req'.plan = Reconcile(c) /\ req'.pc \in {"patch", "board"}
      /\ req'.pc = "board" => ~Outbound(Reconcile(c))
  BY <1>0, <1>1 DEF Shapes
<1>3. Records' /\ OneRunIsEnough' /\ (done \subseteq Todos \ dirty)'
  BY <1>1 DEF SyncInv, Records, IssueRecord, OneRunIsEnough, There, InSync
<1>4. InHand'
  BY <1>0, <1>1, <1>2, StateDecision DEF SyncInv, InHand, Asking, Deciding
<1>5. c \notin dirty /\ todo[c] # Gone /\ issue[c] # Gone => req.local = todo[c] /\ req.seen = issue[c]
  BY <1>0, <1>1 DEF SyncInv, HandTrue, Asking, Holding
<1>6. HandTrue'
  <2> SUFFICES ASSUME c \notin dirty, todo[c] # Gone, issue[c] # Gone PROVE HandTrue'
    BY <1>0, <1>1, <1>2 DEF HandTrue
  <2>1. \A f \in Fields : /\ Reconcile(c).write[f] # "board" => OnBoard(c, f) = Reconcile(c).next[f]
                          /\ Reconcile(c).write[f] # "github" => OnGitHub(c, f) = Reconcile(c).next[f]
    BY <1>5, Decision
  <2>2. /\ ~Reconcile(c).toBoard => todo[c].labels \ Workflow = Reconcile(c).labels
        /\ ~Reconcile(c).toGitHub => issue[c].labels \ Workflow = Reconcile(c).labels
    BY <1>5, LabelDecision
  <2>3. req'.pc = "board" => ~Reconcile(c).toGitHub /\ \A f \in Fields : Reconcile(c).write[f] # "github"
    BY <1>2 DEF Outbound
  <2>4. \A f \in Fields : OnBoard(c, f)' = OnBoard(c, f) /\ OnGitHub(c, f)' = OnGitHub(c, f)
    BY <1>1 DEF OnBoard, OnGitHub
  <2>5. req'.cur = c /\ req'.plan = Reconcile(c) /\ req'.local = todo'[c] /\ UNCHANGED <<todo, issue>>
        /\ req'.pc \in {"patch", "board"}
    BY <1>1, <1>2, <1>5
  <2>6. Carried(c)'
    <3> DEFINE plan == Reconcile(c)
    <3>1. /\ ~plan.toBoard => todo[c].labels \ Workflow = plan.labels
          /\ ~plan.toGitHub \/ req'.pc # "patch" => issue[c].labels \ Workflow = plan.labels
      BY <2>2, <2>3, <2>5
    <3>2. \A f \in Fields : /\ plan.write[f] # "board" => OnBoard(c, f) = plan.next[f]
                            /\ plan.write[f] # "github" \/ req'.pc # "patch" => OnGitHub(c, f) = plan.next[f]
      BY <2>1, <2>3, <2>5
    <3> HIDE DEF plan
    <3>3. req'.plan = plan
      BY <2>5 DEF plan
    <3> QED BY <2>4, <2>5, <3>1, <3>2, <3>3 DEF Carried
  <2> QED BY <2>5, <2>6 DEF HandTrue, Asking, Deciding, Holding
<1>7. DoneAgain'
  <2>1. ASSUME c \in done, There(c) PROVE Reconcile(c).labels = pair[c].base.labels
    <3>1. req.local = todo[c] /\ req.seen = issue[c] /\ InSync(c)
      BY <1>5, <2>1 DEF SyncInv, OneRunIsEnough, There
    <3>2. req.base[c].labels = pair[c].base.labels
      BY <1>0, <1>1, <2>1 DEF SyncInv, DoneAgain, Asking
    <3> QED BY <3>1, <3>2, LabelDecision DEF InSync
  <2> QED BY <1>0, <1>1, <1>2, <2>1 DEF SyncInv, DoneAgain, There, Asking, Deciding
<1> QED BY <1>3, <1>4, <1>6, <1>7 DEF SyncInv

-----------------------------------------------------------------------------
(* The plan is carried out: first GitHub, then the board, then the         *)
(* baseline.                                                               *)
LEMMA PatchSync ==
    ASSUME SyncInv, Shapes, PlanIsPlain, Patch
    PROVE  SyncInv'
<1>0. PICK c : c = req.cur
  OBVIOUS
<1>1. UNCHANGED <<todo, dirty, done>> /\ req.pc = "patch"
  BY DEF Patch
<1>2. CASE PortFails /\ issue' = issue
  BY <1>1, <1>2, PortSync
<1>3. CASE issue' = Patched /\ pair' = pair /\ issue[c] # Gone
  <2>1. /\ c \in Todos /\ \A x \in Todos \ {c} : issue'[x] = issue[x]
        /\ issue'[c] = [text |-> issue'[c].text, state |-> issue'[c].state, labels |-> issue'[c].labels,
                        updated |-> issue'[c].updated, at |-> issue'[c].at]
        /\ \A f \in Scalars : issue'[c].text[f] =
              IF req.plan.write[f] = "github" THEN req.plan.next[f] ELSE issue[c].text[f]
        /\ issue'[c].state = IF req.plan.write["state"] = "github" THEN req.plan.next["state"] ELSE issue[c].state
        /\ issue'[c].labels = IF req.plan.toGitHub THEN req.plan.labels ELSE issue[c].labels
    BY <1>0, <1>1, <1>3 DEF Patched, Shapes, SyncInv, InHand, Deciding
  <2>2. \A f \in Fields :
           /\ OnGitHub(c, f)' = IF req.plan.write[f] = "github" THEN req.plan.next[f] ELSE OnGitHub(c, f)
           /\ OnBoard(c, f)' = OnBoard(c, f)
    BY <1>1, <2>1, NoState DEF OnGitHub, OnBoard
  <2>3. Records'
    <3>1. issue[c].state \in States
      BY <1>3, <2>1 DEF SyncInv, Records, IssueRecord
    <3>2. IssueRecord(c)'
      BY <1>0, <1>1, <2>1, <3>1 DEF SyncInv, InHand, IssueRecord
    <3> QED BY <1>3, <2>1, <3>2, IssueRecords DEF SyncInv
  <2>4. c \in done => c \notin dirty
    BY DEF SyncInv
  <2>5. c \notin dirty /\ todo[c] # Gone => Carried(c)
    BY <1>0, <1>1, <1>3 DEF SyncInv, HandTrue, Deciding
  <2>6. OneRunIsEnough'
    <3>1. ASSUME c \in done, There(c) PROVE InSync(c)'
      <4>1. InSync(c) /\ Carried(c) /\ req.plan.labels = pair[c].base.labels
        BY <1>0, <1>1, <2>4, <2>5, <3>1 DEF SyncInv, OneRunIsEnough, DoneAgain, Deciding, There
      <4>2. \A f \in Fields : req.plan.write[f] = "github" => req.plan.next[f] = OnBoard(c, f)
        BY <4>1 DEF Carried
      <4>3. \A f \in Fields : OnBoard(c, f) = OnGitHub(c, f)
        BY <4>1, NoState DEF InSync, OnBoard, OnGitHub
      <4>4. \A f \in Fields : OnGitHub(c, f)' = OnGitHub(c, f)
        BY <2>2, <4>2, <4>3
      <4>5. issue'[c].labels \ Workflow = issue[c].labels \ Workflow
        BY <2>1, <4>1 DEF PlanIsPlain, InSync
      <4> QED BY <1>1, <1>3, <4>1, <4>4, <4>5, NoState DEF InSync, OnGitHub
    <3> QED BY <1>1, <1>3, <2>1, <3>1 DEF SyncInv, OneRunIsEnough, There, InSync
  <2>7. CASE req' = At("board")
    <3>1. /\ req'.left = req.left /\ req'.base = req.base /\ req'.cur = c /\ req'.local = req.local
          /\ req'.plan = req.plan /\ req'.pc = "board"
      BY <1>0, <2>7 DEF At, Shapes
    <3>2. InHand' /\ DoneAgain'
      BY <1>0, <1>1, <1>3, <2>1, <3>1 DEF SyncInv, InHand, DoneAgain, There, Asking, Deciding
    <3>3. c \notin dirty /\ todo[c] # Gone => Carried(c)'
      BY <1>1, <2>1, <2>2, <2>5, <3>1 DEF Carried, PlanIsPlain
    <3>4. HandTrue'
      BY <1>0, <1>1, <1>3, <3>1, <3>3 DEF SyncInv, HandTrue, Asking, Deciding, Holding
    <3> QED BY <1>1, <2>3, <2>6, <3>2, <3>4 DEF SyncInv
  <2>8. CASE req' = [Skip EXCEPT !.pc = "finish", !.left = {}]
    <3>1. req'.left = {} /\ req'.pc = "finish"
      BY <2>8, SkipHand
    <3> QED BY <1>1, <2>3, <2>6, <3>1 DEF SyncInv, InHand, HandTrue, DoneAgain, Asking, Deciding
  <2> QED BY <1>1, <1>2, <1>3, <2>7, <2>8 DEF Patch
<1> QED BY <1>0, <1>2, <1>3 DEF Patch

LEMMA Translation == \A x \in States : Project(MappedFromRemote(x)) = x
BY DEF States, Project, MappedFromRemote

LEMMA BoardSync ==
    ASSUME SyncInv, Shapes, PlanIsPlain, WriteBoard
    PROVE  SyncInv'
<1>0. PICK c : c = req.cur
  OBVIOUS
<1> DEFINE plan == req.plan
<1>1. /\ UNCHANGED <<issue, pair, dirty, done>> /\ req.pc = "board"
      /\ req'.left = req.left /\ req'.base = req.base /\ req'.cur = c /\ req'.plan = req.plan /\ req'.pc = "base"
  BY <1>0 DEF WriteBoard, At, Shapes
<1>2. c \in Todos /\ \A x \in Todos \ {c} : todo'[x] = todo[x]
  BY <1>0, <1>1 DEF WriteBoard, Shapes, SyncInv, InHand, Deciding
<1>3. todo[c] = Gone => todo' = todo
  BY <1>0 DEF WriteBoard
<1>4. Records' /\ InHand' /\ (done \subseteq Todos \ dirty)'
  BY <1>0, <1>1 DEF SyncInv, Records, IssueRecord, InHand, Asking, Deciding
<1>5. ASSUME c \notin dirty, todo[c] # Gone, issue[c] # Gone
      PROVE  Carried(c)' /\ (InSync(c) /\ c \in done /\ There(c) => InSync(c)')
  <2>1. Carried(c) /\ req.local = todo[c] /\ issue[c].state \in States
    BY <1>0, <1>1, <1>2, <1>5 DEF SyncInv, HandTrue, Records, IssueRecord, Deciding, Holding
  <2>2. /\ \A f \in Scalars : todo'[c].text[f] = IF plan.write[f] = "board" THEN plan.next[f] ELSE todo[c].text[f]
        /\ todo'[c].status = IF plan.write["state"] = "board" THEN MappedFromRemote(plan.next["state"]) ELSE todo[c].status
        /\ todo'[c].labels = IF plan.toBoard THEN BoardLabels(todo[c].labels, plan.labels) ELSE todo[c].labels
    BY <1>0, <1>2, <1>5, <2>1 DEF WriteBoard, Shapes
  <2>3. \A f \in Fields : OnGitHub(c, f) = plan.next[f] /\ OnGitHub(c, f)' = OnGitHub(c, f)
    BY <1>1, <2>1 DEF Carried, OnGitHub
  <2>4. plan.next["state"] \in States
    BY <2>1, <2>3, NoState DEF OnGitHub
  <2>5. ASSUME NEW f \in Fields PROVE OnBoard(c, f)' = plan.next[f]
    <3>1. plan.write[f] # "board" => OnBoard(c, f) = plan.next[f]
      BY <1>1, <2>1 DEF Carried
    <3>2. CASE f = "state"
      BY <2>2, <2>4, <3>1, <3>2, Translation DEF OnBoard
    <3>3. CASE f # "state"
      BY <2>2, <3>1, <3>3, NoState DEF OnBoard
    <3> QED BY <3>2, <3>3
  <2>6. todo'[c].labels \ Workflow = plan.labels /\ issue[c].labels \ Workflow = plan.labels
    BY <1>1, <2>1, <2>2 DEF Carried, BoardLabels, PlanIsPlain
  <2>7. Carried(c)'
    BY <1>1, <2>3, <2>5, <2>6 DEF Carried
  <2>8. ASSUME InSync(c), c \in done, There(c) PROVE InSync(c)'
    <3>1. plan.labels = pair[c].base.labels
      BY <1>0, <1>1, <2>8 DEF SyncInv, DoneAgain, Deciding
    <3>2. \A f \in Fields : OnBoard(c, f)' = OnGitHub(c, f)
      BY <2>3, <2>5
    <3> QED BY <1>1, <2>6, <2>8, <3>1, <3>2, NoState DEF InSync, OnBoard, OnGitHub
  <2> QED BY <2>7, <2>8
<1>6. OneRunIsEnough'
  BY <1>1, <1>2, <1>3, <1>5 DEF SyncInv, OneRunIsEnough, There, InSync
<1>7. HandTrue'
  BY <1>1, <1>3, <1>5 DEF HandTrue, Asking, Deciding, Holding
<1>8. DoneAgain'
  BY <1>0, <1>1, <1>2, <1>3 DEF SyncInv, DoneAgain, InHand, There, Asking, Deciding
<1> QED BY <1>4, <1>6, <1>7, <1>8 DEF SyncInv

LEMMA BaseSync ==
    ASSUME SyncInv, Shapes, WriteBaseline
    PROVE  SyncInv'
<1>0. PICK c : c = req.cur
  OBVIOUS
<1>1. /\ UNCHANGED <<todo, issue, dirty, done>> /\ req.pc = "base"
      /\ req'.left = req.left /\ req'.base = req.base /\ req'.cur = c /\ req'.plan = req.plan /\ req'.pc = "mark"
      /\ pair' = [pair EXCEPT ![c] = IF @ = Gone THEN Gone ELSE [@ EXCEPT !.base = NextBaseline]]
  BY <1>0 DEF WriteBaseline, At, Shapes, Board, Quiet
<1>2. c \in Todos \ req.left
  BY <1>0, <1>1 DEF SyncInv, InHand, Deciding
<1>3. /\ \A x \in Todos \ {c} : pair'[x] = pair[x]
      /\ pair'[c] # Gone =>
            /\ pair[c] # Gone /\ pair'[c].base = NextBaseline
            /\ pair'[c] = [mark |-> pair'[c].mark, base |-> pair'[c].base]
  <2>1. pair' = [t \in Todos |-> IF t = c /\ pair[t] # Gone THEN [pair[t] EXCEPT !.base = NextBaseline] ELSE pair[t]]
    BY <1>1 DEF SyncInv, Records, IssueRecord
  <2>2. pair'[c] # Gone => pair[c] # Gone /\ pair'[c] = [pair[c] EXCEPT !.base = NextBaseline]
    BY <1>2, <2>1
  <2>3. pair[c] # Gone => pair[c] = [mark |-> pair[c].mark, base |-> pair[c].base]
    BY <1>2 DEF SyncInv, Records, IssueRecord
  <2> QED BY <2>1, <2>2, <2>3
<1>4. Records'
  BY <1>1, <1>2, <1>3 DEF SyncInv, Records, IssueRecord
<1>5. InHand' /\ (done \subseteq Todos \ dirty)'
  BY <1>0, <1>1 DEF SyncInv, InHand, Asking, Deciding
<1>6. pair'[c] # Gone => Based(c)'
  BY <1>1, <1>3 DEF Based, NextBaseline
<1>7. c \notin dirty /\ todo[c] # Gone /\ issue[c] # Gone => Carried(c) /\ Carried(c)'
  BY <1>0, <1>1 DEF SyncInv, HandTrue, Carried, Deciding, OnBoard, OnGitHub
<1>8. HandTrue'
  BY <1>1, <1>6, <1>7 DEF HandTrue, Holding
<1>9. ASSUME c \in done, There(c)' PROVE InSync(c)'
  <2>1. Carried(c)' /\ Based(c)'
    BY <1>1, <1>6, <1>7, <1>9 DEF SyncInv, There
  <2> QED BY <1>1, <2>1, NoState DEF Carried, Based, InSync, OnBoard, OnGitHub
<1>10. OneRunIsEnough'
  BY <1>1, <1>2, <1>3, <1>9 DEF SyncInv, OneRunIsEnough, There, InSync
<1>11. DoneAgain'
  BY <1>1, <1>2, <1>3, <1>6 DEF SyncInv, DoneAgain, There, Asking, Deciding, Based
<1> QED BY <1>4, <1>5, <1>8, <1>10, <1>11 DEF SyncInv

(* A pair that is marked, and that nobody edited while the run held it, is *)
(* settled.                                                                *)
LEMMA MarkSync ==
    ASSUME SyncInv, Shapes, SetMark
    PROVE  SyncInv'
<1>0. PICK c : c = req.cur
  OBVIOUS
<1>1. /\ UNCHANGED <<todo, issue, dirty>> /\ req.pc = "mark" /\ c \in Todos \ req.left
      /\ done' = IF pair[c] = Gone THEN done ELSE done \cup ({c} \ dirty)
      /\ req'.left = req.left /\ req'.base = req.base /\ req'.pc = "next"
  BY <1>0 DEF SetMark, Skip, Shapes, Board, SyncInv, InHand, Deciding
<1>2. \E m \in {"clean", "overwritten"} : pair' = Marked(m)
  BY DEF SetMark
<1>3. /\ Records'
      /\ \A t \in Todos : pair'[t] # Gone => pair[t] # Gone /\ pair'[t].base = pair[t].base
  BY <1>1, <1>2, MarkKeeps
<1>4. ASSUME c \notin dirty, There(c)' PROVE InSync(c)'
  <2>1. Carried(c) /\ Based(c)
    BY <1>0, <1>1, <1>3, <1>4 DEF SyncInv, HandTrue, There, Deciding
  <2>2. InSync(c)
    BY <1>1, <2>1, NoState DEF Carried, Based, InSync, OnBoard, OnGitHub
  <2> QED BY <1>1, <1>3, <1>4, <2>2 DEF InSync, There
<1>5. OneRunIsEnough' /\ (done \subseteq Todos \ dirty)'
  BY <1>1, <1>3, <1>4 DEF SyncInv, OneRunIsEnough, There, InSync
<1>6. InHand' /\ HandTrue' /\ DoneAgain'
  BY <1>1, <1>3 DEF SyncInv, InHand, HandTrue, DoneAgain, There, Asking, Deciding
<1> QED BY <1>3, <1>5, <1>6 DEF SyncInv

LEMMA SyncInit == Init => SyncInv
<1> SUFFICES ASSUME Init PROVE SyncInv
  OBVIOUS
<1> DEFINE text == [f \in Scalars |-> FirstText]
<1>1. /\ todo = [t \in Todos |-> [text |-> text, status |-> "open", labels |-> {}]]
      /\ issue = [t \in Todos |-> [text |-> text, state |-> "open", labels |-> {}, updated |-> 1,
                                   at |-> [title |-> Never, state |-> Never]]]
      /\ pair = [t \in Todos |-> [mark |-> "clean", base |-> [text |-> text, state |-> "open", labels |-> {}]]]
      /\ dirty = {} /\ done = Todos
  BY DEF Init, FreshPair
<1>2. req.pc = "idle" /\ req.left = {}
  BY DEF Init, NoRun
<1>3. Records
  BY <1>1 DEF Records, IssueRecord, States
<1>4. OneRunIsEnough
  BY <1>1 DEF OneRunIsEnough, InSync, Project
<1>5. InHand /\ HandTrue /\ DoneAgain
  BY <1>2 DEF InHand, HandTrue, DoneAgain, Asking, Deciding
<1> QED BY <1>1, <1>3, <1>4, <1>5 DEF SyncInv

LEMMA SyncNext == ASSUME Inv, SyncInv, [Next]_vars PROVE SyncInv'
<1>1. Shapes /\ PlanIsPlain
  BY DEF Inv
<1>2. CASE Run
  BY <1>1, <1>2, LoopSync, ReadSync, AskSync, PlanSync, PatchSync, BoardSync, BaseSync, MarkSync DEF Run
<1>3. CASE User \/ StatementFails \/ HangUp \/ Restart
  BY <1>1, <1>3, UserSync, LoopSync
<1>4. CASE UNCHANGED vars
  BY <1>4, StillSync DEF vars, store, history
<1> QED BY <1>2, <1>3, <1>4 DEF Next

(* For any tasks, texts, labels and faults: a pair that a run has settled  *)
(* and that nobody edited since the run read it agrees on both sides in    *)
(* all its fields and in its labels, whatever runs come, fail or stop.     *)
THEOREM OneRunSettles == Spec => []OneRunIsEnough
<1>1. Inv /\ SyncInv /\ [Next]_vars => SyncInv'
  BY SyncNext
<1>2. SyncInv => OneRunIsEnough
  BY DEF SyncInv
<1> QED BY <1>1, <1>2, InvInit, InvStep, SyncInit, PTL DEF Spec

-----------------------------------------------------------------------------
(* What a run replaces is on its report.                                   *)

OfBase(b, f) == IF f = "state" THEN b.state ELSE b.text[f]

(* Rows of the pair in hand, which reach the run with its mark.            *)
Pending == IF req.pc \in {"board", "base", "mark"} THEN {<<req.cur, f, runs>> : f \in req.plan.rows} ELSE {}

BooksOK ==
    /\ req.pc \in {"idle", "link", "pairs", "prune"} => req.rows = {}
    /\ runs \in Nat /\ report.runs \subseteq 1..runs /\ (req.pc # "idle" => runs > 0)
    /\ \A o \in owed : o[3] \in Nat /\ (o[3] > runs - KeepRuns => o \in report.rows \cup req.rows \cup Pending)

(* As no run has broken off, the baseline is what both sides agreed on.    *)
BaseAgreed ==
    /\ \A t \in Todos : \A f \in Fields :
          pair[t] # Gone /\ pair[t].mark # "remotely-unlinked" =>
              (Deciding /\ t = req.cur) \/ agreed[t][f] = OfBase(pair[t].base, f)
    /\ \A t \in req.left, f \in Fields : agreed[t][f] = OfBase(req.base[t], f)
    /\ Asking => \A f \in Fields : agreed[req.cur][f] = OfBase(req.base[req.cur], f)

(* So a side that has not moved still says what was agreed on.             *)
PlanAgreed(c) ==
    LET plan == req.plan
    IN  /\ \A f \in Fields :
              /\ plan.write[f] \in {"none", "github", "board"}
              /\ plan.write[f] = "none" \/ (plan.write[f] = "github" /\ req.pc # "patch") \/ req.pc \in {"base", "mark"} =>
                     agreed[c][f] = plan.next[f]
        /\ req.pc = "mark" /\ pair[c] # Gone => Based(c)
        /\ c \notin dirty => \A f \in Fields \ plan.rows :
              /\ plan.write[f] = "github" /\ req.pc = "patch" => OnGitHub(c, f) = agreed[c][f]
              /\ plan.write[f] = "board" /\ req.pc \in {"patch", "board"} =>
                     OnBoard(c, f) = agreed[c][f] /\ (f = "state" => todo[c].status # "in_progress")

Present(c) ==
    c \notin dirty => /\ Holding => todo[c] # Gone
                      /\ req.pc \in {"times", "touch", "patch"} => issue[c] # Gone

ReportInv ==
    /\ agreed = [t \in Todos |-> agreed[t]] /\ faults \in Nat
    /\ Asking \/ Deciding => Present(req.cur)
    /\ faults = 0 => BooksOK /\ BaseAgreed /\ (Deciding => PlanAgreed(req.cur))

LEMMA EditReport ==
    ASSUME SyncInv, ReportInv, NEW t \in Todos, Act(t),
           \A x \in Todos \ {t} : todo'[x] = todo[x] /\ issue'[x] = issue[x] /\ pair'[x] = pair[x],
           pair'[t] \in {pair[t], Gone}
    PROVE  ReportInv'
<1>1. /\ dirty' = dirty \cup {t} /\ UNCHANGED <<req, report, runs, faults, agreed, owed>>
  BY DEF Act, Touched
<1>2. Asking \/ Deciding => req.cur \in Todos /\ Present(req.cur)'
  BY <1>1 DEF SyncInv, InHand, ReportInv, Present, Asking, Deciding, Holding
<1>3. faults = 0 => BooksOK' /\ BaseAgreed'
  <2>1. BooksOK => BooksOK'
    BY <1>1 DEF BooksOK, Pending
  <2>2. Asking' = Asking /\ Deciding' = Deciding
    BY <1>1 DEF Asking, Deciding
  <2>3. \A x \in Todos : pair'[x] # Gone => pair'[x] = pair[x]
    OBVIOUS
  <2>4. BaseAgreed => BaseAgreed'
    BY <1>1, <2>2, <2>3 DEF BaseAgreed
  <2> QED BY <2>1, <2>4 DEF ReportInv
<1>4. faults = 0 /\ Deciding => PlanAgreed(req.cur)'
  BY <1>1, <1>2 DEF ReportInv, PlanAgreed, Based, OnBoard, OnGitHub
<1> QED BY <1>1, <1>2, <1>3, <1>4 DEF ReportInv, Asking, Deciding

LEMMA UserReport == ASSUME SyncInv, ReportInv, Shapes, User PROVE ReportInv'
<1> USE DEF Shapes, SyncInv, Records, IssueRecord
<1>1. ASSUME NEW t \in Todos, NEW f \in Scalars, NEW v \in Texts, EditText(t, f, v) \/ EditIssue(t, f, v)
      PROVE ReportInv'
  <2>1. /\ Act(t) /\ pair' = pair /\ \A x \in Todos \ {t} : todo'[x] = todo[x] /\ issue'[x] = issue[x]
    BY <1>1 DEF EditText, EditIssue
  <2> QED BY <2>1, EditReport
<1>2. ASSUME NEW t \in Todos, NEW s, MoveTodo(t, s) \/ SetState(t, s) PROVE ReportInv'
  <2>1. /\ Act(t) /\ pair' = pair /\ \A x \in Todos \ {t} : todo'[x] = todo[x] /\ issue'[x] = issue[x]
    BY <1>2 DEF MoveTodo, SetState
  <2> QED BY <2>1, EditReport
<1>3. ASSUME NEW t \in Todos, NEW ls, EditLabels(t, ls) \/ Relabel(t, ls) PROVE ReportInv'
  <2>1. /\ Act(t) /\ pair' = pair /\ \A x \in Todos \ {t} : todo'[x] = todo[x] /\ issue'[x] = issue[x]
    BY <1>3 DEF EditLabels, Relabel
  <2> QED BY <2>1, EditReport
<1>4. ASSUME NEW t \in Todos, DeleteTodo(t) \/ Unpair(t) \/ Vanish(t) PROVE ReportInv'
  <2>1. /\ pair' \in {pair, [pair EXCEPT ![t] = Gone]}
        /\ \A x \in Todos \ {t} : todo'[x] = todo[x] /\ issue'[x] = issue[x]
    BY <1>4 DEF DeleteTodo, Unpair, Vanish
  <2>2. pair'[t] \in {pair[t], Gone} /\ \A x \in Todos \ {t} : pair'[x] = pair[x]
    BY <2>1
  <2>3. Act(t)
    BY <1>4 DEF DeleteTodo, Unpair, Vanish
  <2> QED BY <2>1, <2>2, <2>3, EditReport
<1>5. CASE Unlink
  <2>1. /\ pair' = [t \in Todos |-> Gone] /\ owed' = {}
        /\ UNCHANGED <<todo, issue, req, runs, faults, dirty, agreed>>
    BY <1>5 DEF Unlink
  <2>2. (Asking \/ Deciding)' = (Asking \/ Deciding) /\ Deciding' = Deciding /\ Present(req.cur)' = Present(req.cur)
    BY <2>1 DEF Asking, Deciding, Present, Holding
  <2>6. report'.runs \subseteq report.runs
    BY <1>5 DEF Unlink, Pruned, Newest
  <2>3. BooksOK => BooksOK'
    BY <2>1, <2>6 DEF BooksOK
  <2>4. BaseAgreed => BaseAgreed'
    BY <2>1 DEF BaseAgreed, Asking, Deciding
  <2>5. Deciding /\ PlanAgreed(req.cur) => PlanAgreed(req.cur)'
    BY <2>1 DEF InHand, Deciding, PlanAgreed, OnBoard, OnGitHub
  <2> QED BY <2>1, <2>2, <2>3, <2>4, <2>5 DEF ReportInv
<1>6. ASSUME NEW s, Stamp(s) PROVE ReportInv'
  <2>1. UNCHANGED <<todo, issue, pair, req, report, runs, faults, dirty, agreed, owed>>
    BY <1>6 DEF Stamp, history
  <2>2. (Asking \/ Deciding)' = (Asking \/ Deciding) /\ Deciding' = Deciding /\ Present(req.cur)' = Present(req.cur)
    BY <2>1 DEF Asking, Deciding, Present, Holding
  <2>3. BooksOK' = BooksOK /\ BaseAgreed' = BaseAgreed
    BY <2>1 DEF BooksOK, Pending, BaseAgreed, Asking, Deciding
  <2>4. PlanAgreed(req.cur)' = PlanAgreed(req.cur)
    BY <2>1 DEF PlanAgreed, Based, OnBoard, OnGitHub
  <2> QED BY <2>1, <2>2, <2>3, <2>4 DEF ReportInv
<1>11. CASE \E t \in Todos, s \in {"open", "in_progress", "done"} : MoveTodo(t, s)
  BY <1>2, <1>11
<1>12. CASE \E t \in Todos, s \in {"open", "closed"} : SetState(t, s)
  BY <1>2, <1>12
<1>13. CASE \E s \in stamping : Stamp(s)
  BY <1>6, <1>13
<1>14. CASE \E t \in Todos, f \in Scalars, v \in Texts : EditText(t, f, v) \/ EditIssue(t, f, v)
  BY <1>1, <1>14
<1>15. CASE \E t \in Todos, ls \in SUBSET Labels : EditLabels(t, ls) \/ Relabel(t, ls)
  BY <1>3, <1>15
<1>16. CASE \E t \in Todos : DeleteTodo(t) \/ Unpair(t) \/ Vanish(t)
  BY <1>4, <1>16
<1> QED BY <1>5, <1>11, <1>12, <1>13, <1>14, <1>15, <1>16 DEF User

(* After a fault nothing is promised, but that the run is over or empty.   *)
LEMMA FaultReport ==
    ASSUME ReportInv, faults' = faults + 1, agreed' = [t \in Todos |-> agreed'[t]],
           ~(Asking \/ Deciding)' \/ Present(req.cur)'
    PROVE  ReportInv'
BY DEF ReportInv

(* The runs that are kept are the last ones.                               *)
LEMMA NewestKept ==
    ASSUME runs \in Nat, report.runs \subseteq 1..runs, NEW n \in report.runs, n > runs - KeepRuns
    PROVE  n \in Newest(KeepRuns)
<1>1. KeepRuns \in Nat /\ n \in 1..runs
  BY SyncAssumption
<1>2. {q \in report.runs : q > n} \subseteq (n + 1)..runs
  BY <1>1
<1>6. n + 1 \in Int /\ runs \in Int /\ ~(n + 1 > runs + 1) /\ (n + 1 > runs => runs - n = 0)
      /\ runs - (n + 1) + 1 = runs - n
  BY <1>1
<1>3. IsFiniteSet((n + 1)..runs) /\ Cardinality((n + 1)..runs) = runs - n
  BY <1>6, FS_Interval
<1>4. IsFiniteSet({q \in report.runs : q > n}) /\ Cardinality({q \in report.runs : q > n}) <= runs - n
  BY <1>2, <1>3, FS_Subset
<1>5. Cardinality({q \in report.runs : q > n}) \in Nat
  BY <1>4, FS_CardinalityType
<1> QED BY <1>1, <1>4, <1>5 DEF Newest

LEMMA LoopReport ==
    ASSUME SyncInv, ReportInv, Shapes,
           Start \/ ReadLink \/ ReadPairs \/ WriteLink \/ Record \/ StatementFails \/ HangUp \/ Restart
    PROVE  ReportInv'
<1> USE DEF Board, Quiet
<1>1. UNCHANGED <<todo, issue, pair, dirty, agreed, owed>>
  BY DEF Start, ReadLink, ReadPairs, WriteLink, Record, RecordRun, RecordRows, Prune, StatementFails, HangUp,
     Restart, history
<1>2. CASE StatementFails \/ HangUp \/ Restart
  <2>1. faults' = faults + 1 /\ req'.pc \in {"finish", "idle"}
    <3>1. CASE StatementFails
      <4>1. CASE req' = [Skip EXCEPT !.pc = "finish", !.left = {}]
        BY <3>1, <4>1, SkipHand DEF StatementFails, Fault
      <4>2. CASE req' = NoRun
        BY <3>1, <4>2 DEF StatementFails, Fault, NoRun
      <4> QED BY <3>1, <4>1, <4>2 DEF StatementFails
    <3>2. CASE HangUp \/ Restart
      BY <3>2 DEF HangUp, Restart, Fault, NoRun
    <3> QED BY <1>2, <3>1, <3>2
  <2> QED BY <1>1, <2>1, FaultReport DEF ReportInv, Asking, Deciding
<1>3. CASE Start \/ ReadLink
  <2>1. /\ req'.left \subseteq req.left /\ (req'.left # {} => req'.base = req.base) /\ req'.rows \in {{}, req.rows}
        /\ req'.pc \in {"idle", "link", "pairs"} /\ req.pc \in {"idle", "link"} /\ UNCHANGED <<report, faults>>
    <3>1. CASE Start
      BY <3>1 DEF Start, NoRun
    <3>2. CASE ReadLink
      BY <3>2 DEF ReadLink, NoRun, Shapes
    <3> QED BY <1>3, <3>1, <3>2
  <2>2. (req.pc = "idle" /\ runs' = runs + 1) \/ (req.pc = "link" /\ runs' = runs)
    BY <1>3 DEF Start, ReadLink
  <2>3. BooksOK => BooksOK'
    <3>1. KeepRuns \in Nat
      BY SyncAssumption
    <3>2. ASSUME BooksOK PROVE /\ runs' \in Nat /\ report'.runs \subseteq 1..runs' /\ (req'.pc # "idle" => runs' > 0)
                               /\ \A o \in owed : o[3] \in Nat /\ (o[3] > runs' - KeepRuns => o[3] > runs - KeepRuns)
      BY <2>1, <2>2, <3>1, <3>2 DEF BooksOK
    <3>3. Pending = {} /\ Pending' = {}
      BY <2>1 DEF Pending
    <3> QED BY <1>1, <2>1, <3>2, <3>3 DEF BooksOK
  <2> QED BY <1>1, <2>1, <2>3 DEF ReportInv, BaseAgreed, Asking, Deciding
<1>4. CASE ReadPairs
  <2>1. /\ req'.pc = "next" /\ req'.left \subseteq Todos /\ req.pc = "pairs" /\ UNCHANGED <<report, faults>>
        /\ req'.rows = req.rows
        /\ \A t \in req'.left : req'.base[t] = pair[t].base /\ pair[t] # Gone /\ pair[t].mark # "remotely-unlinked"
    BY <1>4 DEF ReadPairs, Shapes
  <2>2. runs' = runs
    BY <1>4 DEF ReadPairs
  <2>3. BooksOK => BooksOK'
    BY <1>1, <2>1, <2>2 DEF BooksOK, Pending
  <2> QED BY <1>1, <2>1, <2>3 DEF ReportInv, BaseAgreed, Asking, Deciding
<1>5. CASE WriteLink
  <2>1. /\ req'.pc = "record" /\ req'.left = req.left /\ req'.base = req.base /\ req'.rows = req.rows
        /\ req.pc \in {"finish", "next"} /\ UNCHANGED <<report, faults>>
    BY <1>5 DEF WriteLink, At, Shapes
  <2>2. runs' = runs
    BY <1>5 DEF WriteLink
  <2>3. BooksOK => BooksOK'
    BY <1>1, <2>1, <2>2 DEF BooksOK, Pending
  <2> QED BY <1>1, <2>1, <2>3 DEF ReportInv, BaseAgreed, Asking, Deciding
<1>6. CASE RecordRun \/ RecordRows
  <2>1. /\ req'.left = req.left /\ req'.base = req.base /\ UNCHANGED <<runs, faults>>
        /\ \/ req.pc = "record" /\ req'.pc = "rows" /\ req'.rows = req.rows
           \/ req.pc = "rows" /\ req'.pc = "prune" /\ req'.rows = {}
    BY <1>6 DEF RecordRun, RecordRows, At, Shapes
  <2>2. BooksOK => BooksOK'
    <3>1. CASE RecordRun
      BY <1>1, <2>1, <3>1 DEF RecordRun, BooksOK, Pending
    <3>2. CASE RecordRows
      BY <1>1, <2>1, <3>2 DEF RecordRows, BooksOK, Pending
    <3> QED BY <1>6, <3>1, <3>2
  <2> QED BY <1>1, <2>1, <2>2 DEF ReportInv, BaseAgreed, Asking, Deciding
<1>7. CASE Prune
  <2>1. /\ req'.pc = "idle" /\ req'.left = {} /\ req'.rows = {} /\ req.pc = "prune"
        /\ report' = Pruned(KeepRuns) /\ UNCHANGED <<runs, faults>>
    BY <1>7 DEF Prune, NoRun
  <2>2. BooksOK => BooksOK'
    <3>1. ASSUME BooksOK, NEW o \in owed, o[3] > runs - KeepRuns PROVE o \in report'.rows
      <4>1. o \in report.rows
        BY <2>1, <3>1 DEF BooksOK, Pending
      <4>2. o[3] \in report.runs => o[3] \in Newest(KeepRuns)
        BY <3>1, NewestKept DEF BooksOK
      <4> QED BY <2>1, <4>1, <4>2 DEF Pruned
    <3>2. report'.runs \subseteq report.runs
      BY <2>1 DEF Pruned, Newest
    <3> QED BY <1>1, <2>1, <3>1, <3>2 DEF BooksOK
  <2> QED BY <1>1, <2>1, <2>2 DEF ReportInv, BaseAgreed, Asking, Deciding
<1> QED BY <1>2, <1>3, <1>4, <1>5, <1>6, <1>7 DEF Record

LEMMA PortReport ==
    ASSUME SyncInv, ReportInv, Shapes, PortFails, Asking \/ req.pc = "patch",
           UNCHANGED <<todo, issue, dirty, agreed, owed, report, runs>>
    PROVE  ReportInv'
<1>1. CASE Fault
  <2>1. faults' = faults + 1
    BY <1>1 DEF Fault
  <2>2. req'.pc \in {"next", "finish"}
    BY SkipHand DEF PortFails
  <2> QED BY <2>1, <2>2, FaultReport DEF ReportInv, Asking, Deciding
<1>2. CASE ~Fault
  <2>1. pair' = Marked("remotely-unlinked") /\ req' = Skip /\ faults' = faults
    BY <1>2 DEF PortFails
  <2>2. /\ req'.pc = "next" /\ req'.left = req.left /\ req'.base = req.base /\ req'.rows = req.rows
    BY <2>1 DEF Skip, Shapes
  <2>3. pair' = [t \in Todos |-> IF t = req.cur /\ pair[t] # Gone
                                 THEN [pair[t] EXCEPT !.mark = "remotely-unlinked"] ELSE pair[t]]
    BY <2>1 DEF SyncInv, Records, IssueRecord, Marked
  <2>4. ASSUME NEW t \in Todos, pair'[t] # Gone, pair'[t].mark # "remotely-unlinked"
        PROVE  t # req.cur /\ pair'[t] = pair[t]
    <3>1. pair[t] # Gone /\ pair[t] = [mark |-> pair[t].mark, base |-> pair[t].base]
      BY <2>3, <2>4 DEF SyncInv, Records
    <3>2. t = req.cur => pair'[t].mark = "remotely-unlinked"
      BY <2>3, <3>1
    <3> QED BY <2>3, <2>4, <3>2
  <2> QED BY <2>2, <2>1, <2>4 DEF ReportInv, BooksOK, Pending, BaseAgreed, Asking, Deciding
<1> QED BY <1>1, <1>2

LEMMA AskReport ==
    ASSUME SyncInv, ReportInv, Shapes, GetIssue \/ FieldTimes
    PROVE  ReportInv'
<1> USE DEF Board, Quiet
<1>1. UNCHANGED <<todo, issue, dirty, agreed, owed, report, runs>> /\ Asking
  BY DEF GetIssue, FieldTimes, Asking
<1>2. CASE PortFails
  BY <1>1, <1>2, PortReport
<1>3. CASE ~PortFails
  <2>1. /\ req.pc \in {"issue", "times"} /\ req'.pc \in {"times", "touch"} /\ UNCHANGED <<pair, faults>>
        /\ req'.left = req.left /\ req'.base = req.base /\ req'.cur = req.cur /\ req'.rows = req.rows
        /\ issue[req.cur] # Gone
    BY <1>3 DEF GetIssue, FieldTimes, Shapes
  <2> QED BY <1>1, <2>1 DEF ReportInv, Present, BooksOK, Pending, BaseAgreed, Asking, Deciding, Holding
<1> QED BY <1>2, <1>3

LEMMA ReadReport ==
    ASSUME SyncInv, ReportInv, Shapes, NEW t \in Todos, ReadLocal(t)
    PROVE  ReportInv'
<1>1. /\ req.pc = "next" /\ t \in req.left
      /\ UNCHANGED <<todo, issue, pair, agreed, owed, report, runs, faults>>
      /\ req' = IF todo[t] = Gone
              THEN [req EXCEPT !.left = @ \ {t}]
              ELSE [req EXCEPT !.left = @ \ {t}, !.cur = t, !.pc = "issue", !.local = todo[t]]
  BY DEF ReadLocal
<1>2. /\ req'.left = req.left \ {t} /\ req'.base = req.base /\ req'.pc \in {"next", "issue"} /\ req'.rows = req.rows
      /\ req'.pc = "issue" => req'.cur = t /\ todo[t] # Gone
  BY <1>1 DEF Shapes
<1> QED BY <1>1, <1>2 DEF ReportInv, Present, BooksOK, Pending, BaseAgreed, Asking, Deciding, Holding

-----------------------------------------------------------------------------
LEMMA RowDecision ==
    ASSUME NEW c, NEW f \in Fields \ Reconcile(c).rows, req.local = todo[c], req.seen = issue[c],
           issue[c].state \in States
    PROVE  LET plan == Reconcile(c)
           IN  /\ plan.write[f] = "github" => OnGitHub(c, f) = OfBase(req.base[c], f)
               /\ plan.write[f] = "board" =>
                      /\ OnBoard(c, f) = OfBase(req.base[c], f)
                      /\ f = "state" => todo[c].status # "in_progress"
BY NoState DEF Reconcile, Diff, InProgressClose, Project, States, OnBoard, OnGitHub, OfBase

(* What is carried over is agreed on.                                      *)
LEMMA CarryAgrees ==
    ASSUME ReportInv, NEW plan, NEW how, req.cur \in Todos, Carry(plan, how)
    PROVE  /\ agreed' = [t \in Todos |-> agreed'[t]]
           /\ \A t \in Todos \ {req.cur} : agreed'[t] = agreed[t]
           /\ \A f \in Fields : agreed'[req.cur][f] = IF plan.write[f] = how THEN plan.next[f] ELSE agreed[req.cur][f]
BY DEF ReportInv, Carry

LEMMA PlanReport ==
    ASSUME SyncInv, ReportInv, Shapes, Plan
    PROVE  ReportInv'
<1>0. PICK c : c = req.cur
  OBVIOUS
<1>1. /\ UNCHANGED <<todo, issue, pair, dirty, owed, report, runs, faults>> /\ req.pc = "touch"
      /\ c \in Todos \ req.left /\ Carry(Reconcile(c), "none")
  BY <1>0 DEF Plan, SyncInv, InHand, Asking
<1>2. /\ req'.left = req.left /\ req'.base = req.base /\ req'.cur = c /\ req'.rows = req.rows
      /\ req'.plan = Reconcile(c) /\ req'.pc \in {"patch", "board"}
      /\ req'.pc = "board" => ~Outbound(Reconcile(c))
  BY <1>0 DEF Plan, Shapes
<1>3. PICK plan : plan = Reconcile(c)
  OBVIOUS
<1>4. /\ agreed' = [t \in Todos |-> agreed'[t]]
      /\ \A t \in Todos \ {c} : agreed'[t] = agreed[t]
      /\ \A f \in Fields : agreed'[c][f] = IF plan.write[f] = "none" THEN plan.next[f] ELSE agreed[c][f]
  BY <1>0, <1>1, <1>3, CarryAgrees
<1>5. c \notin dirty => todo[c] # Gone /\ issue[c] # Gone /\ req.local = todo[c] /\ req.seen = issue[c]
                        /\ issue[c].state \in States
  BY <1>0, <1>1 DEF SyncInv, Records, IssueRecord, HandTrue, ReportInv, Present, Asking, Holding
<1>6. Present(c)'
  BY <1>1, <1>2, <1>5 DEF Present
<1>7. ASSUME faults = 0 PROVE BooksOK' /\ BaseAgreed' /\ PlanAgreed(c)'
  <2>1. BooksOK'
    BY <1>1, <1>2, <1>7 DEF ReportInv, BooksOK, Pending
  <2>2. BaseAgreed'
    BY <1>0, <1>1, <1>2, <1>4, <1>7 DEF ReportInv, BaseAgreed, SyncInv, InHand, Asking, Deciding
  <2>3. \A f \in Fields : plan.write[f] \in {"none", "github", "board"}
    BY <1>3, NoState DEF Reconcile, Diff
  <2>4. req'.pc = "board" => \A f \in Fields : plan.write[f] # "github"
    BY <1>2, <1>3 DEF Outbound
  <2>5. ASSUME c \notin dirty, NEW f \in Fields \ plan.rows
        PROVE  /\ plan.write[f] = "github" => OnGitHub(c, f) = agreed[c][f]
               /\ plan.write[f] = "board" => OnBoard(c, f) = agreed[c][f] /\ (f = "state" => todo[c].status # "in_progress")
    <3>1. agreed[c][f] = OfBase(req.base[c], f)
      BY <1>0, <1>1, <1>7 DEF ReportInv, BaseAgreed, Asking
    <3> QED BY <1>3, <1>5, <2>5, <3>1, RowDecision
  <2>6. \A f \in Fields : OnBoard(c, f)' = OnBoard(c, f) /\ OnGitHub(c, f)' = OnGitHub(c, f)
    BY <1>1 DEF OnBoard, OnGitHub
  <2>7. PlanAgreed(c)'
    <3>1. req'.plan = plan
      BY <1>2, <1>3
    <3> QED BY <1>1, <1>2, <1>4, <2>3, <2>4, <2>5, <2>6, <3>1 DEF PlanAgreed
  <2> QED BY <2>1, <2>2, <2>7
<1> QED BY <1>1, <1>2, <1>4, <1>6, <1>7 DEF ReportInv

(* What a write replaces on its side is what was agreed on, or has a row.  *)
LEMMA OwedHasRow ==
    ASSUME ReportInv, faults = 0, req.pc \in {"patch", "board"}
    PROVE  /\ req.pc = "patch" => ReplacedOnGitHub \subseteq req.plan.rows
           /\ req.pc = "board" => ReplacedOnBoard \subseteq req.plan.rows
           /\ req.pc = "board" /\ req.cur \notin dirty /\ req.plan.write["state"] = "board"
              /\ todo[req.cur].status = "in_progress" => "state" \in req.plan.rows
<1>1. PlanAgreed(req.cur)
  BY DEF ReportInv, Deciding
<1>2. "state" \in Fields
  BY NoState
<1> QED BY <1>1, <1>2 DEF PlanAgreed, ReplacedOnGitHub, ReplacedOnBoard, Replaced

(* Carrying over what the run has in hand touches no other pair.           *)
LEMMA BaseCarried ==
    ASSUME BaseAgreed, Deciding, pair' = pair, req'.left = req.left, req'.base = req.base, req'.cur = req.cur,
           req'.pc \in {"board", "base"}, req.left \subseteq Todos, req.cur \notin req.left,
           \A t \in Todos \ {req.cur} : agreed'[t] = agreed[t]
    PROVE  BaseAgreed'
<1>1. Deciding' /\ ~Asking'
  BY DEF Deciding, Asking
<1>2. ASSUME NEW t \in Todos, NEW f \in Fields, pair[t] # Gone, pair[t].mark # "remotely-unlinked"
      PROVE  t = req.cur \/ agreed'[t][f] = OfBase(pair[t].base, f)
  BY <1>2 DEF BaseAgreed
<1>3. ASSUME NEW t \in req.left, NEW f \in Fields PROVE agreed'[t][f] = OfBase(req.base[t], f)
  <2>1. agreed'[t] = agreed[t]
    OBVIOUS
  <2> QED BY <2>1 DEF BaseAgreed
<1> QED BY <1>1, <1>2, <1>3 DEF BaseAgreed, OfBase

LEMMA PatchReport ==
    ASSUME SyncInv, ReportInv, Shapes, Patch
    PROVE  ReportInv'
<1>0. PICK c : c = req.cur
  OBVIOUS
<1>1. UNCHANGED <<todo, dirty, report, runs>> /\ req.pc = "patch" /\ c \in Todos \ req.left
  BY <1>0 DEF Patch, SyncInv, InHand, Deciding
<1>2. CASE PortFails /\ UNCHANGED <<issue, owed, agreed>>
  BY <1>1, <1>2, PortReport
<1>3. CASE /\ Owing(ReplacedOnGitHub) /\ Carry(req.plan, "github") /\ pair' = pair
           /\ \/ req' = At("board") /\ faults' = faults
              \/ Fault /\ req' = [Skip EXCEPT !.pc = "finish", !.left = {}]
  <2>1. /\ agreed' = [t \in Todos |-> agreed'[t]]
        /\ \A t \in Todos \ {c} : agreed'[t] = agreed[t]
        /\ \A f \in Fields : agreed'[c][f] = IF req.plan.write[f] = "github" THEN req.plan.next[f] ELSE agreed[c][f]
    BY <1>0, <1>1, <1>3, CarryAgrees
  <2>2. CASE req' = At("board") /\ faults' = faults
    <3>1. /\ req'.left = req.left /\ req'.base = req.base /\ req'.cur = c /\ req'.plan = req.plan
          /\ req'.pc = "board" /\ req'.rows = req.rows
      BY <1>0, <2>2 DEF At, Shapes
    <3>2. Present(c)'
      BY <1>0, <1>1, <3>1 DEF ReportInv, Present, Deciding, Holding
    <3>3. ASSUME faults = 0 PROVE BooksOK' /\ BaseAgreed' /\ PlanAgreed(c)'
      <4>1. owed' = owed \cup {<<c, f, runs>> : f \in ReplacedOnGitHub} /\ ReplacedOnGitHub \subseteq req.plan.rows
        BY <1>0, <1>1, <1>3, <3>3, OwedHasRow DEF Owing
      <4>2. BooksOK'
        BY <1>0, <1>1, <3>1, <3>3, <4>1 DEF ReportInv, BooksOK, Pending
      <4>3. BaseAgreed'
        BY <1>0, <1>1, <1>3, <2>1, <3>1, <3>3, BaseCarried DEF ReportInv, Deciding, SyncInv, InHand
      <4>4. PlanAgreed(c)
        BY <1>0, <1>1, <3>3 DEF ReportInv, Deciding
      <4>5. \A f \in Fields : OnBoard(c, f)' = OnBoard(c, f)
        BY <1>1 DEF OnBoard
      <4>6. PlanAgreed(c)'
        BY <1>1, <2>1, <3>1, <4>4, <4>5 DEF PlanAgreed
      <4> QED BY <4>2, <4>3, <4>6
    <3> QED BY <2>1, <2>2, <3>1, <3>2, <3>3 DEF ReportInv
  <2>3. CASE Fault /\ req' = [Skip EXCEPT !.pc = "finish", !.left = {}]
    BY <2>1, <2>3, SkipHand, FaultReport DEF Fault, Asking, Deciding
  <2> QED BY <1>3, <2>2, <2>3
<1> QED BY <1>2, <1>3 DEF Patch

LEMMA BoardReport ==
    ASSUME SyncInv, ReportInv, Shapes, WriteBoard
    PROVE  ReportInv'
<1>0. PICK c : c = req.cur
  OBVIOUS
<1>1. /\ UNCHANGED <<issue, pair, dirty, report, runs, faults>> /\ req.pc = "board" /\ c \in Todos \ req.left
      /\ req'.left = req.left /\ req'.base = req.base /\ req'.cur = c /\ req'.plan = req.plan /\ req'.pc = "base"
      /\ req'.rows = req.rows /\ Carry(req.plan, "board")
  BY <1>0 DEF WriteBoard, At, Shapes, SyncInv, InHand, Deciding
<1>2. /\ agreed' = [t \in Todos |-> agreed'[t]]
      /\ \A t \in Todos \ {c} : agreed'[t] = agreed[t]
      /\ \A f \in Fields : agreed'[c][f] = IF req.plan.write[f] = "board" THEN req.plan.next[f] ELSE agreed[c][f]
  BY <1>0, <1>1, CarryAgrees
<1>3. Present(c)'
  BY <1>1 DEF Present, Holding
<1>4. ASSUME faults = 0 PROVE BooksOK' /\ BaseAgreed' /\ PlanAgreed(c)'
  <2>1. owed' \subseteq owed \cup {<<c, f, runs>> : f \in req.plan.rows}
    <3>1. CASE owed' = owed
      BY <3>1
    <3>2. CASE Owing(ReplacedOnBoard \cup {f \in {"state"} : req.plan.write[f] = "board"
                                                              /\ todo[c].status = "in_progress" /\ c \notin dirty})
      BY <1>0, <1>1, <1>4, <3>2, OwedHasRow DEF Owing
    <3> QED BY <1>0, <3>1, <3>2 DEF WriteBoard
  <2>2. BooksOK'
    BY <1>0, <1>1, <1>4, <2>1 DEF ReportInv, BooksOK, Pending
  <2>3. BaseAgreed'
    BY <1>0, <1>1, <1>2, <1>4, BaseCarried DEF ReportInv, Deciding, SyncInv, InHand
  <2>4. PlanAgreed(c)
    BY <1>0, <1>1, <1>4 DEF ReportInv, Deciding
  <2>5. PlanAgreed(c)'
    BY <1>1, <1>2, <2>4 DEF PlanAgreed
  <2> QED BY <2>2, <2>3, <2>5
<1> QED BY <1>1, <1>2, <1>3, <1>4 DEF ReportInv

LEMMA BaseReport ==
    ASSUME SyncInv, ReportInv, Shapes, WriteBaseline
    PROVE  ReportInv'
<1>0. PICK c : c = req.cur
  OBVIOUS
<1>1. /\ UNCHANGED <<todo, issue, dirty, agreed, owed, report, runs, faults>>
      /\ req.pc = "base" /\ c \in Todos \ req.left
      /\ req'.left = req.left /\ req'.base = req.base /\ req'.cur = c /\ req'.plan = req.plan /\ req'.pc = "mark"
      /\ req'.rows = req.rows
  BY <1>0 DEF WriteBaseline, At, Shapes, Board, Quiet, SyncInv, InHand, Deciding
<1>2. pair' = [t \in Todos |-> IF t = c /\ pair[t] # Gone THEN [pair[t] EXCEPT !.base = NextBaseline] ELSE pair[t]]
  BY <1>0 DEF WriteBaseline, SyncInv, Records, IssueRecord
<1>3. pair'[c] # Gone => pair'[c].base = NextBaseline
  BY <1>1, <1>2 DEF SyncInv, Records, IssueRecord
<1>4. pair'[c] # Gone => Based(c)'
  BY <1>0, <1>1, <1>3 DEF Based, NextBaseline
<1>5. ASSUME faults = 0 PROVE BooksOK' /\ BaseAgreed' /\ PlanAgreed(c)'
  <2>1. BooksOK'
    BY <1>0, <1>1, <1>5 DEF ReportInv, BooksOK, Pending
  <2>2. BaseAgreed'
    BY <1>0, <1>1, <1>2, <1>5 DEF ReportInv, BaseAgreed, Asking, Deciding
  <2>3. PlanAgreed(c)'
    BY <1>0, <1>1, <1>4, <1>5 DEF ReportInv, PlanAgreed, Deciding
  <2> QED BY <2>1, <2>2, <2>3
<1> QED BY <1>1, <1>5 DEF ReportInv, Present, Holding

LEMMA MarkReport ==
    ASSUME SyncInv, ReportInv, Shapes, SetMark
    PROVE  ReportInv'
<1>0. PICK c : c = req.cur
  OBVIOUS
<1>1. /\ UNCHANGED <<todo, issue, dirty, agreed, owed, report, runs, faults>>
      /\ req.pc = "mark" /\ c \in Todos \ req.left
      /\ req'.left = req.left /\ req'.base = req.base /\ req'.pc = "next"
      /\ req'.rows = req.rows \cup {<<c, f, runs>> : f \in req.plan.rows}
  BY <1>0 DEF SetMark, Skip, Shapes, Board, SyncInv, InHand, Deciding
<1>2. \E m \in {"clean", "overwritten"} : pair' = Marked(m)
  BY DEF SetMark
<1>3. \A t \in Todos : /\ pair'[t] # Gone => pair[t] # Gone /\ pair'[t].base = pair[t].base
                       /\ t # c => pair'[t] = pair[t]
  BY <1>0, <1>1, <1>2, MarkKeeps DEF Marked, SyncInv, Records, IssueRecord
<1>4. ASSUME faults = 0 PROVE BooksOK' /\ BaseAgreed'
  <2>1. BooksOK'
    BY <1>0, <1>1, <1>4 DEF ReportInv, BooksOK, Pending
  <2>2. PlanAgreed(c) /\ BaseAgreed
    BY <1>0, <1>1, <1>4 DEF ReportInv, Deciding
  <2>3. pair[c] # Gone => \A f \in Fields : agreed[c][f] = OfBase(pair[c].base, f)
    BY <1>1, <2>2, NoState DEF PlanAgreed, Based, OfBase
  <2>4. BaseAgreed'
    BY <1>0, <1>1, <1>3, <2>2, <2>3 DEF BaseAgreed, Asking, Deciding
  <2> QED BY <2>1, <2>4
<1> QED BY <1>1, <1>4 DEF ReportInv, Asking, Deciding

LEMMA ReportInit == Init => ReportInv
<1> SUFFICES ASSUME Init PROVE ReportInv
  OBVIOUS
<1>1. /\ pair = [t \in Todos |-> FreshPair([f \in Scalars |-> FirstText])]
      /\ agreed = [t \in Todos |-> [f \in Fields |-> IF f = "state" THEN "open" ELSE [g \in Scalars |-> FirstText][f]]]
      /\ owed = {} /\ faults = 0 /\ req.pc = "idle" /\ req.left = {} /\ req.rows = {}
      /\ runs = 0 /\ report = [runs |-> {}, rows |-> {}]
  BY DEF Init, NoRun
<1>2. BaseAgreed
  BY <1>1, NoState DEF BaseAgreed, FreshPair, OfBase, Asking
<1> QED BY <1>1, <1>2 DEF ReportInv, BooksOK, Asking, Deciding

LEMMA ReportNext == ASSUME Inv, SyncInv, ReportInv, [Next]_vars PROVE ReportInv'
<1>1. Shapes
  BY DEF Inv
<1>2. CASE Run
  BY <1>1, <1>2, LoopReport, ReadReport, AskReport, PlanReport, PatchReport, BoardReport, BaseReport,
     MarkReport DEF Run
<1>3. CASE User \/ StatementFails \/ HangUp \/ Restart
  BY <1>1, <1>3, UserReport, LoopReport
<1>4. CASE UNCHANGED vars
  <2>1. UNCHANGED <<todo, issue, pair, req, report, runs, faults, dirty, agreed, owed>>
    BY <1>4 DEF vars, store, history
  <2>2. (Asking \/ Deciding)' = (Asking \/ Deciding) /\ Deciding' = Deciding /\ Present(req.cur)' = Present(req.cur)
    BY <2>1 DEF Asking, Deciding, Present, Holding
  <2>3. BooksOK' = BooksOK /\ BaseAgreed' = BaseAgreed
    BY <2>1 DEF BooksOK, Pending, BaseAgreed, Asking, Deciding
  <2>4. PlanAgreed(req.cur)' = PlanAgreed(req.cur)
    BY <2>1 DEF PlanAgreed, Based, OnBoard, OnGitHub
  <2> QED BY <2>1, <2>2, <2>3, <2>4 DEF ReportInv
<1> QED BY <1>2, <1>3, <1>4 DEF Next

(* For any tasks, texts and labels, as long as nothing fails: each edit    *)
(* that a run replaced by the other side's, and each in_progress it took,  *)
(* is on a report when the run is over, and stays there as long as the     *)
(* report of that run is kept.                                             *)
THEOREM ReplacedIsReported == Spec => []OverwritesReported
<1>1. Inv /\ SyncInv /\ [Next]_vars => SyncInv'
  BY SyncNext
<1>2. Inv /\ SyncInv /\ ReportInv /\ [Next]_vars => ReportInv'
  BY ReportNext
<1>3. ReportInv => OverwritesReported
  BY DEF ReportInv, BooksOK, Pending, OverwritesReported
<1> QED BY <1>1, <1>2, <1>3, InvInit, InvStep, SyncInit, ReportInit, PTL DEF Spec
-----------------------------------------------------------------------------
(* The later edit wins.                                                    *)

Times ==
    /\ touch \in [Todos -> [Fields -> Nat]]
    /\ edited \in [Todos -> [Sides -> [Fields -> Nat]]]
    /\ clock \in Nat \ {0}
    /\ \A t \in Todos, side \in Sides, f \in Fields : edited[t][side][f] <= clock

(* GitHub's times of an issue are never before its edits, and what it says *)
(* of the title is the time of the last edit, unless a run wrote it last.  *)
Timed(t, wrote) ==
    LET at == issue[t].at.title
        last == edited[t]["github"]["title"]
    IN  wrote # issue[t].text["title"] => at = last /\ last # Never
IssueTimes(t) ==
    issue[t] # Gone =>
        /\ issue[t].updated \in Nat
        /\ issue[t].at = [title |-> issue[t].at.title, state |-> issue[t].at.state]
        /\ issue[t].at.title \in Nat
        /\ issue[t].text = [f \in Scalars |-> issue[t].text[f]]
        /\ \A f \in Fields : edited[t]["github"][f] <= issue[t].updated
        /\ "title" \in Fields => edited[t]["github"]["title"] <= issue[t].at.title

(* A touch is the time of the last edit or on its way to be; a task whose  *)
(* touch is on its way counts as edited since the run read it.             *)
Stamps ==
    /\ \A s \in stamping :
          /\ s.todo \in dirty \cap Todos /\ s.field \in Fields
          /\ s.at = edited[s.todo]["board"][s.field]
    /\ faults = 0 => \A t \in Todos, f \in Fields :
          \/ todo[t] = Gone \/ touch[t][f] = edited[t]["board"][f]
          \/ \E s \in stamping : s.todo = t /\ s.field = f

(* The times the run has asked for are those of the issue it has in hand.  *)
AtRead ==
    LET c == req.cur
    IN  /\ req.pc \in {"idle", "link", "pairs", "next", "issue"} => req.at = NoRun.at
        /\ req.pc = "times" => NeedsFieldTimes(req.local, req.base[c], req.seen) /\ req.at = NoRun.at
        /\ req.pc = "touch" /\ c \notin dirty /\ issue[c] # Gone =>
              \/ req.at = issue[c].at
              \/ req.at = NoRun.at /\ ~NeedsFieldTimes(req.local, req.base[c], req.seen)

(* With two values, a state is never in conflict.                          *)
TwoStates ==
    /\ \A t \in Todos : agreed[t]["state"] \in States
    /\ req.pc \in {"times", "touch"} => req.seen.state \in States
    /\ req.pc \in {"patch", "board"} => req.plan.next["state"] \in States

(* What is replaced is the earlier edit.                                   *)
Later(c) ==
    LET when == edited[c]
    IN  \A f \in Fields :
          /\ req.pc = "patch" /\ req.plan.write[f] = "github" /\ OnGitHub(c, f) # agreed[c][f] =>
                when["board"][f] > when["github"][f]
          /\ f # "body" /\ req.pc \in {"patch", "board"} /\ req.plan.write[f] = "board" /\ OnBoard(c, f) # agreed[c][f] =>
                when["board"][f] <= when["github"][f]

(* The title on GitHub is what the run has read there, or edited since.    *)
TitleTimed ==
    LET c == req.cur
    IN  "title" \in Fields =>
          /\ \A t \in Todos : issue[t] # Gone => Timed(t, agreed[t]["title"])
          /\ req.pc \in {"times", "touch"} /\ issue[c] # Gone => Timed(c, req.seen.text["title"])
          /\ req.pc \in {"patch", "board"} /\ req.plan.write["title"] = "board" /\ issue[c] # Gone =>
                Timed(c, req.plan.next["title"])

TimesInv ==
    /\ Times /\ Stamps /\ AtRead /\ TwoStates
    /\ \A t \in Todos : IssueTimes(t)
    /\ faults = 0 => TitleTimed /\ (req.pc \in {"patch", "board"} /\ req.cur \notin dirty => Later(req.cur))

LEMMA EditedAt ==
    ASSUME Times, NEW t \in Todos, NEW side \in Sides, NEW f \in Fields, clock' \in Nat, Edited(t, side, f)
    PROVE  /\ edited' \in [Todos -> [Sides -> [Fields -> Nat]]]
           /\ \A x \in Todos, s \in Sides, g \in Fields :
                 edited'[x][s][g] = IF x = t /\ s = side /\ g = f THEN clock' ELSE edited[x][s][g]
BY DEF Times, Edited

LEMMA ActTimes ==
    ASSUME Times, NEW t \in Todos, Act(t), touch' \in [Todos -> [Fields -> Nat]],
           edited' = edited \/ \E side \in Sides, f \in Fields : Edited(t, side, f)
    PROVE  Times' /\ clock' \in Nat \ {0} /\ clock <= clock'
<1>1. clock' \in Nat \ {0} /\ clock <= clock'
  BY DEF Act, Times
<1>2. CASE edited' = edited
  BY <1>1, <1>2 DEF Times
<1>3. ASSUME NEW side \in Sides, NEW f \in Fields, Edited(t, side, f) PROVE Times'
  <2>1. /\ edited' \in [Todos -> [Sides -> [Fields -> Nat]]]
        /\ \A x \in Todos, s \in Sides, g \in Fields :
              edited'[x][s][g] = IF x = t /\ s = side /\ g = f THEN clock' ELSE edited[x][s][g]
    BY <1>1, <1>3, EditedAt
  <2>2. ASSUME NEW x \in Todos, NEW s \in Sides, NEW g \in Fields PROVE edited'[x][s][g] <= clock'
    <3>1. edited[x][s][g] <= clock /\ edited[x][s][g] \in Nat /\ clock \in Nat
      BY DEF Times
    <3> QED BY <1>1, <2>1, <3>1
  <2> QED BY <1>1, <2>1, <2>2 DEF Times
<1> QED BY <1>1, <1>2, <1>3

(* What keeps the edits of the board and their touches.                    *)
LEMMA StampsStay ==
    ASSUME Stamps, dirty \subseteq dirty', UNCHANGED <<stamping, touch>>, faults' = 0 => faults = 0,
           \A t \in Todos : todo[t] = Gone => todo'[t] = Gone,
           \A t \in Todos, f \in Fields : edited'[t]["board"][f] = edited[t]["board"][f]
    PROVE  Stamps'
<1>1. ASSUME NEW s \in stamping'
      PROVE  s.todo \in dirty' \cap Todos /\ s.field \in Fields /\ s.at = edited'[s.todo]["board"][s.field]
  <2>1. s.todo \in dirty \cap Todos /\ s.field \in Fields /\ s.at = edited[s.todo]["board"][s.field]
    BY DEF Stamps
  <2> QED BY <2>1
<1>2. ASSUME faults' = 0, NEW t \in Todos, NEW f \in Fields
      PROVE  \/ todo'[t] = Gone \/ touch'[t][f] = edited'[t]["board"][f]
             \/ \E s \in stamping' : s.todo = t /\ s.field = f
  BY <1>2 DEF Stamps
<1> QED BY <1>1, <1>2 DEF Stamps

(* Whoever edits a pair takes it from the run.                             *)
LEMMA EditTimesInv ==
    ASSUME TimesInv, NEW t \in Todos, Act(t), Times', Stamps', IssueTimes(t)',
           \A x \in Todos \ {t} : todo'[x] = todo[x] /\ issue'[x] = issue[x] /\ edited'[x] = edited[x],
           issue'[t] # Gone => issue[t] # Gone,
           issue'[t] # Gone /\ "title" \in Fields => \A w : Timed(t, w) => Timed(t, w)',
           Holding => req.cur \in Todos
    PROVE  TimesInv'
<1>1. dirty' = dirty \cup {t} /\ UNCHANGED <<req, faults, agreed>>
  BY DEF Act, Touched
<1>2. \A x \in Todos : IssueTimes(x)'
  BY DEF TimesInv, IssueTimes
<1>3. AtRead'
  BY <1>1 DEF TimesInv, AtRead, Holding
<1>4. TwoStates'
  BY <1>1 DEF TimesInv, TwoStates
<1>5. ASSUME "title" \in Fields, NEW x \in Todos, issue'[x] # Gone, NEW w, Timed(x, w) PROVE Timed(x, w)'
  <2>1. CASE x = t
    BY <1>5, <2>1
  <2>2. CASE x # t
    BY <1>5, <2>2 DEF Timed
  <2> QED BY <2>1, <2>2
<1>6. ASSUME TitleTimed PROVE TitleTimed'
  <2> SUFFICES ASSUME "title" \in Fields PROVE TitleTimed'
    BY DEF TitleTimed
  <2>1. \A x \in Todos : issue'[x] # Gone => issue[x] # Gone
    OBVIOUS
  <2>2. \A x \in Todos : issue'[x] # Gone => Timed(x, agreed[x]["title"])'
    BY <1>1, <1>5, <1>6, <2>1 DEF TitleTimed
  <2>3. req.pc \in {"times", "touch"} /\ issue'[req.cur] # Gone => Timed(req.cur, req.seen.text["title"])'
    BY <1>1, <1>5, <1>6, <2>1 DEF TitleTimed, Holding
  <2>4. req.pc \in {"patch", "board"} /\ req.plan.write["title"] = "board" /\ issue'[req.cur] # Gone =>
           Timed(req.cur, req.plan.next["title"])'
    BY <1>1, <1>5, <1>6, <2>1 DEF TitleTimed, Holding
  <2> QED BY <1>1, <2>2, <2>3, <2>4 DEF TitleTimed, Timed
<1>7. ASSUME faults = 0, req.pc \in {"patch", "board"}, req.cur \notin dirty' PROVE Later(req.cur)'
  <2>1. req.cur # t /\ req.cur \in Todos /\ Later(req.cur)
    BY <1>1, <1>7 DEF TimesInv, Holding
  <2> QED BY <1>1, <2>1 DEF Later, OnBoard, OnGitHub
<1> QED BY <1>1, <1>2, <1>3, <1>4, <1>6, <1>7 DEF TimesInv

(* A step that has none of its own times, and no pair in hand after it.    *)
LEMMA RestTimes ==
    ASSUME TimesInv, UNCHANGED <<todo, issue, touch, stamping, clock, agreed, edited>>, faults' = 0 => faults = 0,
           dirty' = dirty, req'.pc \notin {"times", "touch", "patch", "board"},
           req'.pc \in {"idle", "link", "pairs", "next", "issue"} => req'.at = NoRun.at
    PROVE  TimesInv'
<1>1. Times' /\ Stamps' /\ AtRead' /\ TwoStates'
  <2>1. Stamps'
    BY StampsStay DEF TimesInv
  <2> QED BY <2>1 DEF TimesInv, Times, AtRead, TwoStates
<1>2. \A t \in Todos : IssueTimes(t)'
  BY DEF TimesInv, IssueTimes
<1>3. TitleTimed => TitleTimed'
  BY DEF TitleTimed, Timed
<1> QED BY <1>1, <1>2, <1>3 DEF TimesInv

LEMMA SameTimes ==
    ASSUME TimesInv, UNCHANGED <<todo, issue, touch, stamping, req, clock, faults, dirty, agreed, edited>>
    PROVE  TimesInv'
<1>1. Times' /\ Stamps' /\ AtRead' /\ TwoStates' /\ (\A t \in Todos : IssueTimes(t)')
  BY DEF TimesInv, Times, Stamps, AtRead, TwoStates, IssueTimes
<1>2. TitleTimed' = TitleTimed /\ Later(req.cur)' = Later(req.cur)
  BY DEF TitleTimed, Timed, Later, OnBoard, OnGitHub
<1> QED BY <1>1, <1>2 DEF TimesInv

(* An edit on the board and the touch that follows it.                     *)
LEMMA BoardEditTimes ==
    ASSUME TimesInv, NEW t \in Todos, NEW f \in Fields, Act(t), Editable(t), Stamping(t, f), Edited(t, "board", f),
           UNCHANGED <<issue, touch>>, \A x \in Todos \ {t} : todo'[x] = todo[x], Holding => req.cur \in Todos
    PROVE  TimesInv'
<1>1. Times' /\ clock' \in Nat
  BY ActTimes DEF TimesInv, Times, Sides
<1>2. \A x \in Todos, s \in Sides, g \in Fields :
         edited'[x][s][g] = IF x = t /\ s = "board" /\ g = f THEN clock' ELSE edited[x][s][g]
  BY <1>1, EditedAt DEF TimesInv, Sides
<1>3. \A x \in Todos \ {t} : edited'[x] = edited[x]
  BY DEF Edited, TimesInv, Times
<1>4. \A g \in Fields : edited'[t]["github"][g] = edited[t]["github"][g]
  BY <1>2 DEF Sides
<1>5. stamping' = stamping \cup {[todo |-> t, field |-> f, at |-> clock']} /\ \A s \in stamping : s.todo # t
  BY DEF Stamping, Editable
<1>6. dirty' = dirty \cup {t} /\ faults' = faults /\ todo[t] # Gone
  BY DEF Act, Touched, Editable
<1>7. Stamps'
  <2>1. ASSUME NEW s \in stamping'
        PROVE  s.todo \in dirty' \cap Todos /\ s.field \in Fields /\ s.at = edited'[s.todo]["board"][s.field]
    <3>1. CASE s \in stamping
      BY <1>3, <1>5, <1>6, <3>1 DEF TimesInv, Stamps
    <3>2. CASE s = [todo |-> t, field |-> f, at |-> clock']
      BY <1>2, <1>6, <3>2 DEF Sides
    <3> QED BY <1>5, <3>1, <3>2
  <2>2. ASSUME faults = 0, NEW x \in Todos, NEW g \in Fields
        PROVE  \/ todo'[x] = Gone \/ touch'[x][g] = edited'[x]["board"][g]
               \/ \E s \in stamping' : s.todo = x /\ s.field = g
    <3>1. \/ todo[x] = Gone \/ touch[x][g] = edited[x]["board"][g] \/ \E s \in stamping : s.todo = x /\ s.field = g
      BY <2>2 DEF TimesInv, Stamps
    <3>2. CASE x # t
      BY <1>3, <1>5, <3>1, <3>2
    <3>3. CASE x = t /\ g = f
      <4>1. [todo |-> t, field |-> f, at |-> clock'] \in stamping'
        BY <1>5
      <4> QED BY <3>3, <4>1
    <3>4. CASE x = t /\ g # f
      <4>1. edited'[x]["board"][g] = edited[x]["board"][g]
        BY <1>2, <3>4 DEF Sides
      <4> QED BY <1>5, <1>6, <3>1, <3>4, <4>1
    <3> QED BY <3>2, <3>3, <3>4
  <2> QED BY <1>6, <2>1, <2>2 DEF Stamps
<1>8. IssueTimes(t)'
  BY <1>4 DEF TimesInv, IssueTimes
<1>9. "title" \in Fields => \A w : Timed(t, w) => Timed(t, w)'
  BY <1>4 DEF Timed
<1> QED BY <1>1, <1>3, <1>7, <1>8, <1>9, EditTimesInv

(* An edit that moves no time but the clock.                               *)
LEMMA PlainEditTimes ==
    ASSUME TimesInv, NEW t \in Todos, Act(t), UNCHANGED <<issue, touch, stamping, edited>>,
           todo[t] = Gone => todo'[t] = Gone,
           \A x \in Todos \ {t} : todo'[x] = todo[x], Holding => req.cur \in Todos
    PROVE  TimesInv'
<1>1. Times'
  BY ActTimes DEF TimesInv, Times
<1>2. dirty' = dirty \cup {t} /\ faults' = faults /\ \A x \in Todos : todo[x] = Gone => todo'[x] = Gone
  BY DEF Act, Touched
<1>3. Stamps'
  BY <1>2, StampsStay DEF TimesInv
<1>4. IssueTimes(t)' /\ \A w : Timed(t, w) => Timed(t, w)'
  BY DEF TimesInv, IssueTimes, Timed
<1> QED BY <1>1, <1>3, <1>4, EditTimesInv

(* An edit of the issue.                                                   *)
LEMMA IssueEditTimes ==
    ASSUME TimesInv, NEW t \in Todos, Act(t), UNCHANGED <<todo, touch, stamping>>, Times', clock <= clock',
           \A x \in Todos \ {t} : issue'[x] = issue[x] /\ edited'[x] = edited[x], issue'[t] # Gone => issue[t] # Gone,
           \A g \in Fields : edited'[t]["board"][g] = edited[t]["board"][g],
           IssueTimes(t)', issue'[t] # Gone /\ "title" \in Fields => \A w : Timed(t, w) => Timed(t, w)',
           Holding => req.cur \in Todos
    PROVE  TimesInv'
<1>1. dirty' = dirty \cup {t} /\ faults' = faults
  BY DEF Act, Touched
<1>2. \A x \in Todos, g \in Fields : edited'[x]["board"][g] = edited[x]["board"][g]
  OBVIOUS
<1>3. Stamps'
  BY <1>1, <1>2, StampsStay DEF TimesInv
<1> QED BY <1>3, EditTimesInv

LEMMA EditTextTimes ==
    ASSUME TimesInv, SyncInv, Shapes, NEW t \in Todos, NEW f \in Scalars, NEW v, EditText(t, f, v)
    PROVE  TimesInv'
<1>1. /\ Act(t) /\ Edited(t, "board", f) /\ Stamping(t, f) /\ Editable(t) /\ f \in Fields
      /\ UNCHANGED <<issue, touch>>
      /\ \A x \in Todos \ {t} : todo'[x] = todo[x]
  BY DEF EditText, Fields, Shapes
<1>2. Holding => req.cur \in Todos
  BY DEF SyncInv, InHand, Holding, Asking, Deciding
<1> QED BY <1>1, <1>2, BoardEditTimes

LEMMA MoveTimes ==
    ASSUME TimesInv, SyncInv, Shapes, NEW t \in Todos, NEW s, MoveTodo(t, s)
    PROVE  TimesInv'
<1>1. /\ Act(t) /\ Editable(t) /\ "state" \in Fields /\ UNCHANGED <<issue, touch>>
      /\ \A x \in Todos \ {t} : todo'[x] = todo[x]
  BY NoState DEF MoveTodo, Shapes
<1>2. Holding => req.cur \in Todos
  BY DEF SyncInv, InHand, Holding, Asking, Deciding
<1>3. CASE Stamping(t, "state") /\ Edited(t, "board", "state")
  BY <1>1, <1>2, <1>3, BoardEditTimes
<1>4. CASE UNCHANGED <<stamping, edited>>
  BY <1>1, <1>2, <1>4, PlainEditTimes DEF Editable
<1> QED BY <1>3, <1>4 DEF MoveTodo

LEMMA DeleteTimes ==
    ASSUME TimesInv, SyncInv, Shapes, NEW t \in Todos, DeleteTodo(t)
    PROVE  TimesInv'
<1>1. /\ Act(t) /\ Editable(t) /\ UNCHANGED <<issue, edited, stamping>>
      /\ todo' = [todo EXCEPT ![t] = Gone] /\ touch' = [touch EXCEPT ![t] = NoTouch]
      /\ dirty' = dirty \cup {t} /\ faults' = faults
  BY DEF DeleteTodo, Act, Touched
<1>2. Holding => req.cur \in Todos
  BY DEF SyncInv, InHand, Holding, Asking, Deciding
<1>3. todo'[t] = Gone /\ \A x \in Todos \ {t} : todo'[x] = todo[x] /\ touch'[x] = touch[x]
  BY <1>1 DEF Shapes, TimesInv, Times
<1>4. touch' \in [Todos -> [Fields -> Nat]]
  BY <1>1 DEF TimesInv, Times, NoTouch, Never
<1>5. Times'
  BY <1>1, <1>4, ActTimes DEF TimesInv
<1>6. Stamps'
  BY <1>1, <1>3 DEF TimesInv, Stamps
<1>7. IssueTimes(t)' /\ \A w : Timed(t, w) => Timed(t, w)'
  BY <1>1 DEF TimesInv, IssueTimes, Timed
<1> QED BY <1>1, <1>2, <1>3, <1>5, <1>6, <1>7, EditTimesInv

(* What GitHub notes of an edit.                                           *)
IsIssue(i) ==
    /\ i = [text |-> i.text, state |-> i.state, labels |-> i.labels, updated |-> i.updated, at |-> i.at]
    /\ i.at = [title |-> i.at.title, state |-> i.at.state]
    /\ i.text = [g \in Scalars |-> i.text[g]]

LEMMA StateNoted ==
    ASSUME NEW t \in Todos, NEW s, IsIssue(issue[t]),
           issue'[t] = [issue[t] EXCEPT !.state = s, !.updated = clock', !.at.state = clock']
    PROVE  /\ issue'[t].updated = clock' /\ issue'[t].text = issue[t].text
           /\ issue'[t].at = [title |-> issue[t].at.title, state |-> clock']
<1>1. /\ issue'[t].updated = clock' /\ issue'[t].text = issue[t].text
      /\ issue'[t].at = [issue[t].at EXCEPT !.state = clock']
  BY DEF IsIssue
<1> QED BY <1>1 DEF IsIssue

LEMMA Noted ==
    ASSUME TimesInv, SyncInv, NEW t \in Todos, issue[t] # Gone
    PROVE  IsIssue(issue[t])
BY DEF TimesInv, IssueTimes, SyncInv, Records, IssueRecord, IsIssue

(* The time of the edit is the time that GitHub gives.                     *)
LEMMA NotedTimes ==
    ASSUME Times, NEW t \in Todos, NEW f \in Fields, IssueTimes(t), issue[t] # Gone, clock' \in Nat \ {0},
    clock <= clock',
           Edited(t, "github", f), issue'[t].updated = clock',
           issue'[t].at = [title |-> issue'[t].at.title, state |-> issue'[t].at.state],
           issue'[t].text = [g \in Scalars |-> issue'[t].text[g]],
           issue'[t].at.title = IF f = "title" THEN clock' ELSE issue[t].at.title,
           f # "title" /\ "title" \in Scalars => issue'[t].text["title"] = issue[t].text["title"]
    PROVE  /\ IssueTimes(t)'
           /\ "title" \in Fields => \A w : Timed(t, w) => Timed(t, w)'
           /\ \A x \in Todos \ {t} : edited'[x] = edited[x]
           /\ \A g \in Fields : edited'[t]["board"][g] = edited[t]["board"][g]
<1>1. \A x \in Todos, s \in Sides, g \in Fields :
         edited'[x][s][g] = IF x = t /\ s = "github" /\ g = f THEN clock' ELSE edited[x][s][g]
  BY EditedAt DEF Sides
<1>2. \A g \in Fields : edited'[t]["github"][g] = IF g = f THEN clock' ELSE edited[t]["github"][g]
  BY <1>1 DEF Sides
<1>3. \A g \in Fields : edited'[t]["github"][g] <= clock'
  <2>1. ASSUME NEW g \in Fields PROVE edited[t]["github"][g] <= clock /\ edited[t]["github"][g] \in Nat /\ clock \in Nat
    BY DEF Times, Sides
  <2> QED BY <1>2, <2>1
<1>4. "title" \in Fields => edited'[t]["github"]["title"] <= issue'[t].at.title
  BY <1>2, <1>3 DEF IssueTimes
<1>5. issue'[t].updated \in Nat /\ issue'[t].at.title \in Nat
  BY DEF IssueTimes
<1>6. IssueTimes(t)'
  BY <1>3, <1>4, <1>5 DEF IssueTimes
<1>7. "title" \in Fields => \A w : Timed(t, w) => Timed(t, w)'
  <2>1. CASE f = "title"
    BY <1>2, <2>1 DEF Timed, Never
  <2>2. CASE f # "title"
    BY <1>2, <2>2 DEF Timed, Fields
  <2> QED BY <2>1, <2>2
<1>8. \A x \in Todos \ {t} : edited'[x] = edited[x]
  BY DEF Edited, Times
<1>9. \A g \in Fields : edited'[t]["board"][g] = edited[t]["board"][g]
  BY <1>1 DEF Sides
<1> QED BY <1>6, <1>7, <1>8, <1>9

LEMMA EditIssueTimes ==
    ASSUME TimesInv, SyncInv, Shapes, NEW t \in Todos, NEW f \in Scalars, NEW v, EditIssue(t, f, v)
    PROVE  TimesInv'
<1>1. /\ Act(t) /\ Edited(t, "github", f) /\ f \in Fields /\ UNCHANGED <<todo, touch, stamping>> /\ issue[t] # Gone
      /\ \A x \in Todos \ {t} : issue'[x] = issue[x]
      /\ issue'[t] = [issue[t] EXCEPT !.text[f] = v, !.updated = clock', !.at.title = IF f = "title" THEN clock' ELSE @]
  BY DEF EditIssue, Fields, Shapes
<1>2. Times' /\ clock' \in Nat \ {0} /\ clock <= clock'
  BY <1>1, ActTimes DEF TimesInv, Times, Sides
<1>3. Holding => req.cur \in Todos
  BY DEF SyncInv, InHand, Holding, Asking, Deciding
<1>4. /\ issue'[t].updated = clock'
      /\ issue'[t].at = [title |-> IF f = "title" THEN clock' ELSE issue[t].at.title, state |-> issue[t].at.state]
      /\ issue'[t].text = [g \in Scalars |-> IF g = f THEN v ELSE issue[t].text[g]]
  <2>1. IsIssue(issue[t])
    BY <1>1, Noted
  <2>2. issue'[t] = [issue[t] EXCEPT !.text[f] = v, !.updated = clock',
  !.at.title = IF f = "title" THEN clock' ELSE @]
    BY <1>1
  <2>3. issue'[t].updated = clock' /\ issue'[t].text = [issue[t].text EXCEPT ![f] = v]
    BY <2>1, <2>2 DEF IsIssue
  <2>4. issue'[t].at = [issue[t].at EXCEPT !.title = IF f = "title" THEN clock' ELSE @]
    BY <2>1, <2>2 DEF IsIssue
  <2>5. issue'[t].text = [g \in Scalars |-> IF g = f THEN v ELSE issue[t].text[g]]
    BY <2>1, <2>3 DEF IsIssue
  <2>6. issue'[t].at = [title |-> IF f = "title" THEN clock' ELSE issue[t].at.title, state |-> issue[t].at.state]
    BY <2>1, <2>4 DEF IsIssue
  <2> QED BY <2>3, <2>5, <2>6
<1>5. /\ IssueTimes(t)' /\ ("title" \in Fields => \A w : Timed(t, w) => Timed(t, w)')
      /\ \A x \in Todos \ {t} : edited'[x] = edited[x]
      /\ \A g \in Fields : edited'[t]["board"][g] = edited[t]["board"][g]
  <2>1. Times /\ IssueTimes(t)
    BY DEF TimesInv
  <2>2. /\ issue'[t].at = [title |-> issue'[t].at.title, state |-> issue'[t].at.state]
        /\ issue'[t].at.title = IF f = "title" THEN clock' ELSE issue[t].at.title
    BY <1>4
  <2>3. /\ issue'[t].text = [g \in Scalars |-> issue'[t].text[g]]
        /\ f # "title" /\ "title" \in Scalars => issue'[t].text["title"] = issue[t].text["title"]
    BY <1>4
  <2>4. f \in Fields /\ Edited(t, "github", f) /\ issue[t] # Gone /\ issue'[t].updated = clock'
    BY <1>1, <1>4
  <2> QED BY <1>2, <2>1, <2>2, <2>3, <2>4, NotedTimes
<1> QED BY <1>1, <1>2, <1>3, <1>5, IssueEditTimes

LEMMA SetStateTimes ==
    ASSUME TimesInv, SyncInv, Shapes, NEW t \in Todos, NEW s, SetState(t, s)
    PROVE  TimesInv'
<1>1. /\ Act(t) /\ Edited(t, "github", "state") /\ UNCHANGED <<todo, touch, stamping>> /\ issue[t] # Gone
      /\ \A x \in Todos \ {t} : issue'[x] = issue[x] /\ "state" \in Fields
      /\ issue'[t] = [issue[t] EXCEPT !.state = s, !.updated = clock', !.at.state = clock']
  BY NoState DEF SetState, Shapes
<1>0. "state" \in Fields
  BY NoState
<1>2. Times' /\ clock' \in Nat \ {0} /\ clock <= clock'
  BY <1>0, <1>1, ActTimes DEF TimesInv, Times, Sides
<1>3. Holding => req.cur \in Todos
  BY DEF SyncInv, InHand, Holding, Asking, Deciding
<1>4. /\ issue'[t].updated = clock' /\ issue'[t].at = [title |-> issue[t].at.title, state |-> clock']
      /\ issue'[t].text = issue[t].text
  BY <1>1, Noted, StateNoted
<1>5. /\ IssueTimes(t)' /\ ("title" \in Fields => \A w : Timed(t, w) => Timed(t, w)')
      /\ \A x \in Todos \ {t} : edited'[x] = edited[x]
      /\ \A g \in Fields : edited'[t]["board"][g] = edited[t]["board"][g]
  <2>1. issue'[t].text = [g \in Scalars |-> issue'[t].text[g]]
    BY <1>1, <1>4 DEF TimesInv, IssueTimes
  <2>2. Times /\ IssueTimes(t)
    BY DEF TimesInv
  <2>3. /\ issue'[t].at = [title |-> issue'[t].at.title, state |-> issue'[t].at.state]
        /\ issue'[t].at.title = issue[t].at.title /\ issue'[t].updated = clock'
        /\ issue'[t].text["title"] = issue[t].text["title"]
    BY <1>4
  <2>4. Edited(t, "github", "state") /\ issue[t] # Gone
    BY <1>1
  <2> QED BY <1>0, <1>2, <2>1, <2>2, <2>3, <2>4, NotedTimes
<1> QED BY <1>1, <1>2, <1>3, <1>5, IssueEditTimes

LEMMA RelabelTimes ==
    ASSUME TimesInv, SyncInv, Shapes, NEW t \in Todos, NEW ls, Relabel(t, ls) \/ Vanish(t)
    PROVE  TimesInv'
<1>1. /\ Act(t) /\ UNCHANGED <<todo, touch, stamping, edited>> /\ issue[t] # Gone
      /\ \A x \in Todos \ {t} : issue'[x] = issue[x]
      /\ issue'[t] = Gone \/ issue'[t] = [issue[t] EXCEPT !.labels = ls, !.updated = clock']
  BY DEF Relabel, Vanish, Shapes
<1>2. Times' /\ clock' \in Nat \ {0} /\ clock <= clock'
  BY <1>1, ActTimes DEF TimesInv, Times
<1>3. Holding => req.cur \in Todos
  BY DEF SyncInv, InHand, Holding, Asking, Deciding
<1>4. IsIssue(issue[t])
  BY <1>1, Noted
<1>5. issue'[t] # Gone => issue'[t].updated = clock' /\ issue'[t].at = issue[t].at /\ issue'[t].text = issue[t].text
  BY <1>1, <1>4 DEF IsIssue
<1>6. IssueTimes(t)'
  <2>1. \A g \in Fields : edited'[t]["github"][g] <= clock'
    BY <1>2 DEF Times, Sides
  <2> QED BY <1>1, <1>2, <1>5, <2>1 DEF TimesInv, IssueTimes
<1>7. issue'[t] # Gone => \A w : Timed(t, w) => Timed(t, w)'
  BY <1>1, <1>5 DEF Timed
<1> QED BY <1>1, <1>2, <1>3, <1>6, <1>7, IssueEditTimes

LEMMA StampTimes ==
    ASSUME TimesInv, SyncInv, NEW s \in stamping, Stamp(s)
    PROVE  TimesInv'
<1>1. /\ touch' = [touch EXCEPT ![s.todo][s.field] = s.at] /\ stamping' = stamping \ {s}
      /\ UNCHANGED <<todo, issue, req, clock, faults, dirty, agreed, edited>>
  BY DEF Stamp, history
<1>2. s.todo \in Todos /\ s.field \in Fields /\ s.at = edited[s.todo]["board"][s.field] /\ s.at \in Nat
  BY DEF TimesInv, Stamps, Times, Sides
<1>3. /\ touch' \in [Todos -> [Fields -> Nat]]
      /\ \A t \in Todos, f \in Fields : touch'[t][f] = IF t = s.todo /\ f = s.field THEN s.at ELSE touch[t][f]
  BY <1>1, <1>2 DEF TimesInv, Times
<1>4. Times'
  BY <1>1, <1>3 DEF TimesInv, Times
<1>5. Stamps'
  <2>1. ASSUME faults = 0, NEW t \in Todos, NEW f \in Fields
        PROVE  \/ todo[t] = Gone \/ touch'[t][f] = edited[t]["board"][f]
               \/ \E r \in stamping' : r.todo = t /\ r.field = f
    <3>1. \/ todo[t] = Gone \/ touch[t][f] = edited[t]["board"][f] \/ \E r \in stamping : r.todo = t /\ r.field = f
      BY <2>1 DEF TimesInv, Stamps
    <3>2. CASE t = s.todo /\ f = s.field
      BY <1>2, <1>3, <3>2
    <3>3. CASE ~(t = s.todo /\ f = s.field)
      BY <1>1, <1>3, <3>1, <3>3
    <3> QED BY <3>2, <3>3
  <2> QED BY <1>1, <2>1 DEF TimesInv, Stamps
<1>6. AtRead' /\ TwoStates' /\ (\A t \in Todos : IssueTimes(t)') /\ TitleTimed' = TitleTimed
      /\ Later(req.cur)' = Later(req.cur)
  BY <1>1 DEF TimesInv, AtRead, TwoStates, IssueTimes, TitleTimed, Timed, Later, OnBoard, OnGitHub
<1> QED BY <1>1, <1>4, <1>5, <1>6 DEF TimesInv

LEMMA UserTimes == ASSUME TimesInv, SyncInv, Shapes, User PROVE TimesInv'
<1>1. ASSUME NEW t \in Todos, NEW ls, EditLabels(t, ls) \/ Unpair(t) PROVE TimesInv'
  <2>1. /\ Act(t) /\ UNCHANGED <<issue, touch, stamping, edited>> /\ (todo[t] = Gone => todo'[t] = Gone)
        /\ \A x \in Todos \ {t} : todo'[x] = todo[x]
    BY <1>1 DEF EditLabels, Unpair, Editable, Shapes
  <2>2. Holding => req.cur \in Todos
    BY DEF SyncInv, InHand, Holding, Asking, Deciding
  <2> QED BY <2>1, <2>2, PlainEditTimes
<1>2. CASE Unlink
  <2>1. UNCHANGED <<todo, issue, touch, stamping, req, clock, faults, dirty, agreed, edited>>
    BY <1>2 DEF Unlink
  <2> QED BY <2>1, SameTimes
<1>11. CASE \E t \in Todos, f \in Scalars, v \in Texts : EditText(t, f, v) \/ EditIssue(t, f, v)
  BY <1>11, EditTextTimes, EditIssueTimes
<1>12. CASE \E t \in Todos, s \in {"open", "in_progress", "done"} : MoveTodo(t, s)
  BY <1>12, MoveTimes
<1>13. CASE \E t \in Todos, s \in {"open", "closed"} : SetState(t, s)
  BY <1>13, SetStateTimes
<1>14. CASE \E t \in Todos, ls \in SUBSET Labels : EditLabels(t, ls) \/ Relabel(t, ls)
  BY <1>1, <1>14, RelabelTimes
<1>15. CASE \E t \in Todos : DeleteTodo(t) \/ Unpair(t) \/ Vanish(t)
  BY <1>1, <1>15, DeleteTimes, RelabelTimes
<1>16. CASE \E s \in stamping : Stamp(s)
  BY <1>16, StampTimes
<1> QED BY <1>2, <1>11, <1>12, <1>13, <1>14, <1>15, <1>16 DEF User

(* What comes with the run, but for the steps that decide and write.       *)
LEMMA SkipTimes ==
    ASSUME Shapes
    PROVE  /\ Skip.at = NoRun.at /\ Skip.pc = "next"
           /\ [Skip EXCEPT !.pc = "finish", !.left = {}].pc = "finish"
           /\ NoRun.pc = "idle" /\ [NoRun EXCEPT !.pc = "link"].at = NoRun.at /\ [NoRun EXCEPT !.pc = "link"].pc = "link"
BY DEF Shapes, Skip, NoRun

LEMMA LoopTimes ==
    ASSUME TimesInv, ReportInv, Shapes,
           \/ Start \/ ReadLink \/ ReadPairs \/ WriteLink \/ Record \/ WriteBaseline \/ SetMark
           \/ StatementFails \/ HangUp
    PROVE  TimesInv'
<1>1. UNCHANGED <<todo, issue, touch, stamping, clock, dirty, agreed, edited>>
  BY DEF Start, ReadLink, ReadPairs, WriteLink, Record, RecordRun, RecordRows, Prune, WriteBaseline, SetMark,
     StatementFails, HangUp, Board, Quiet
<1>2. faults' = 0 => faults = 0
  BY DEF Start, ReadLink, ReadPairs, WriteLink, Record, RecordRun, RecordRows, Prune, WriteBaseline, SetMark,
     StatementFails, HangUp, Fault, ReportInv
<1> SUFFICES /\ req'.pc \notin {"times", "touch", "patch", "board"}
             /\ req'.pc \in {"idle", "link", "pairs", "next", "issue"} => req'.at = NoRun.at
  BY <1>1, <1>2, RestTimes
<1>3. CASE Start \/ ReadLink \/ HangUp
  BY <1>3, SkipTimes DEF Start, ReadLink, HangUp, TimesInv, AtRead, Shapes
<1>7. CASE Record
  BY <1>7, RecordShape
<1>4. CASE StatementFails
  BY <1>4, SkipTimes DEF StatementFails
<1>5. CASE ReadPairs \/ WriteLink \/ WriteBaseline
  BY <1>5 DEF ReadPairs, WriteLink, WriteBaseline, At, TimesInv, AtRead, Shapes
<1>6. CASE SetMark
  BY <1>6 DEF SetMark, Skip, Shapes
<1> QED BY <1>3, <1>4, <1>5, <1>6, <1>7

LEMMA RestartTimes == ASSUME TimesInv, ReportInv, Restart PROVE TimesInv'
<1>1. /\ UNCHANGED <<todo, issue, touch, clock, dirty, agreed, edited>> /\ stamping' = {}
      /\ faults' = faults + 1 /\ faults' # 0 /\ req' = NoRun
  BY DEF Restart, Fault, history, ReportInv
<1>2. req'.pc = "idle" /\ req'.at = NoRun.at
  BY <1>1 DEF NoRun
<1>3. Times' /\ Stamps' /\ AtRead' /\ TwoStates' /\ \A t \in Todos : IssueTimes(t)'
  BY <1>1, <1>2 DEF TimesInv, Times, Stamps, AtRead, TwoStates, IssueTimes
<1> QED BY <1>1, <1>3 DEF TimesInv

LEMMA PortTimes ==
    ASSUME TimesInv, ReportInv, Shapes, PortFails,
           UNCHANGED <<todo, issue, touch, stamping, clock, dirty, agreed, edited>>
    PROVE  TimesInv'
<1>1. req' = Skip \/ req' = [Skip EXCEPT !.pc = "finish", !.left = {}]
  BY DEF PortFails
<1>2. req'.pc \in {"next", "finish"} /\ (req'.pc = "next" => req'.at = NoRun.at)
  BY <1>1, SkipTimes
<1>3. faults' = 0 => faults = 0
  BY DEF PortFails, Fault, ReportInv
<1> QED BY <1>2, <1>3, RestTimes

LEMMA ReadTimes ==
    ASSUME TimesInv, Shapes, NEW t \in Todos, ReadLocal(t)
    PROVE  TimesInv'
<1>1. /\ req.pc = "next" /\ UNCHANGED <<todo, issue, touch, stamping, clock, faults, agreed, edited>>
      /\ dirty' = IF \E s \in stamping : s.todo = t THEN dirty ELSE dirty \ {t}
  BY DEF ReadLocal, Board
<1>2. req'.pc \in {"next", "issue"} /\ req'.at = req.at
  BY DEF ReadLocal, Shapes
<1>3. Stamps'
  <2>1. \A s \in stamping : s.todo \in dirty' \cap Todos
    BY <1>1 DEF TimesInv, Stamps
  <2> QED BY <1>1, <2>1 DEF TimesInv, Stamps
<1>4. Times' /\ AtRead' /\ TwoStates' /\ \A x \in Todos : IssueTimes(x)'
  BY <1>1, <1>2 DEF TimesInv, Times, AtRead, TwoStates, IssueTimes
<1>5. TitleTimed => TitleTimed'
  BY <1>1, <1>2 DEF TitleTimed, Timed
<1> QED BY <1>1, <1>2, <1>3, <1>4, <1>5 DEF TimesInv

LEMMA AskTimes ==
    ASSUME TimesInv, SyncInv, ReportInv, Shapes, GetIssue \/ FieldTimes
    PROVE  TimesInv'
<1>0. PICK c : c = req.cur
  OBVIOUS
<1>1. /\ UNCHANGED <<todo, issue, touch, stamping, clock, dirty, agreed, edited>> /\ c \in Todos
      /\ req.pc \in {"issue", "times"} /\ req.at = NoRun.at
  BY <1>0 DEF GetIssue, FieldTimes, Board, Quiet, SyncInv, InHand, Asking, TimesInv, AtRead
<1>2. CASE PortFails
  BY <1>1, <1>2, PortTimes
<1>3. CASE /\ req.pc = "issue" /\ issue[c] # Gone /\ faults' = faults
           /\ req' = [req EXCEPT !.seen = issue[c],
                                 !.pc = IF NeedsFieldTimes(req.local, req.base[c],
                                 issue[c]) THEN "times" ELSE "touch"]
  <2>1. /\ req'.seen = issue[c] /\ req'.at = NoRun.at /\ req'.cur = c /\ req'.local = req.local /\ req'.base = req.base
        /\ req'.pc = IF NeedsFieldTimes(req.local, req.base[c], issue[c]) THEN "times" ELSE "touch"
    BY <1>0, <1>1, <1>3 DEF Shapes
  <2>2. AtRead'
    BY <1>1, <2>1 DEF AtRead, NeedsFieldTimes
  <2>3. TwoStates'
    <3>1. issue[c].state \in States
      BY <1>1, <1>3 DEF SyncInv, Records, IssueRecord
    <3>2. req'.pc \in {"times", "touch"} /\ req'.seen.state \in States /\ agreed' = agreed
      BY <1>1, <2>1, <3>1
    <3> QED BY <3>2 DEF TimesInv, TwoStates
  <2>4. Stamps' /\ Times' /\ \A x \in Todos : IssueTimes(x)'
    BY <1>1, <1>3 DEF TimesInv, Stamps, Times, IssueTimes
  <2>5. TitleTimed => TitleTimed'
    BY <1>1, <2>1 DEF TitleTimed, Timed
  <2> QED BY <1>1, <1>3, <2>1, <2>2, <2>3, <2>4, <2>5 DEF TimesInv
<1>4. CASE /\ req.pc = "times" /\ issue[c] # Gone /\ faults' = faults
           /\ req' = [req EXCEPT !.at = issue[c].at, !.pc = "touch"]
  <2>1. /\ req'.seen = req.seen /\ req'.at = issue[c].at /\ req'.cur = c /\ req'.local = req.local /\ req'.base = req.base
        /\ req'.pc = "touch"
    BY <1>0, <1>1, <1>4 DEF Shapes
  <2>2. AtRead' /\ TwoStates'
    BY <1>0, <1>1, <1>4, <2>1 DEF TimesInv, AtRead, TwoStates
  <2>3. Stamps' /\ Times' /\ \A x \in Todos : IssueTimes(x)'
    BY <1>1, <1>4 DEF TimesInv, Stamps, Times, IssueTimes
  <2>4. TitleTimed => TitleTimed'
    BY <1>0, <1>1, <1>4, <2>1 DEF TitleTimed, Timed
  <2> QED BY <1>1, <1>4, <2>1, <2>2, <2>3, <2>4 DEF TimesInv
<1> QED BY <1>0, <1>2, <1>3, <1>4 DEF GetIssue, FieldTimes

-----------------------------------------------------------------------------
(* What both sides edited goes where the later edit is.                    *)
LEMMA TimesDecide ==
    ASSUME NEW c, NEW f \in Fields, req.local = todo[c], req.seen = issue[c],
           issue[c].state \in States, req.base[c].state \in States
    PROVE  LET plan == Reconcile(c)
           IN  /\ plan.write[f] = "github" /\ OnGitHub(c, f) # OfBase(req.base[c], f) =>
                     /\ f # "state"
                     /\ LocalWins(touch[c][f], IF f = "body" THEN issue[c].updated ELSE req.at.title)
               /\ f # "body" /\ plan.write[f] = "board" /\ OnBoard(c, f) # OfBase(req.base[c], f) =>
                     /\ f = "title" /\ ~LocalWins(touch[c][f], req.at.title)
                     /\ OnGitHub(c, f) # OfBase(req.base[c], f)
                     /\ NeedsFieldTimes(req.local, req.base[c], req.seen)
<1>1. CASE f = "state"
  BY <1>1, NoState DEF Reconcile, Diff, Project, States, OnBoard, OnGitHub, OfBase
<1>2. CASE f # "state"
  <2>1. f \in Scalars /\ f \in {"title", "body"}
    BY <1>2, SyncAssumption DEF Fields
  <2>2. Reconcile(c).write[f] = Diff(todo[c].text[f], issue[c].text[f], req.base[c].text[f], touch[c][f],
                                     IF f = "body" THEN issue[c].updated ELSE req.at.title).write
    BY <1>2, <2>1 DEF Reconcile
  <2> QED BY <1>2, <2>1, <2>2 DEF Diff, OnBoard, OnGitHub, OfBase, NeedsFieldTimes
<1> QED BY <1>1, <1>2

LEMMA NextTitle ==
    ASSUME NEW c, "title" \in Fields, Reconcile(c).write["title"] # "github"
    PROVE  Reconcile(c).next["title"] = req.seen.text["title"]
BY DEF Reconcile, Diff

LEMMA NextState ==
    ASSUME NEW c, req.seen.state \in States
    PROVE  Reconcile(c).next["state"] \in States
<1>1. Project(req.local.status) \in States
  BY DEF Project, States
<1> QED BY <1>1, NoState DEF Reconcile, Diff

LEMMA PlanTimes ==
    ASSUME TimesInv, SyncInv, ReportInv, Shapes, Plan
    PROVE  TimesInv'
<1>0. PICK c : c = req.cur
  OBVIOUS
<1>1. /\ UNCHANGED <<todo, issue, touch, stamping, clock, dirty, faults, edited>> /\ req.pc = "touch"
      /\ c \in Todos /\ Carry(Reconcile(c), "none")
  BY <1>0 DEF Plan, Board, SyncInv, InHand, Asking
<1>2. PICK plan : plan = Reconcile(c)
  OBVIOUS
<1>3. req'.plan = plan /\ req'.cur = c /\ req'.pc \in {"patch", "board"}
  BY <1>0, <1>2 DEF Plan, Shapes
<1>4. /\ \A t \in Todos \ {c} : agreed'[t] = agreed[t]
      /\ \A f \in Fields : agreed'[c][f] = IF plan.write[f] = "none" THEN plan.next[f] ELSE agreed[c][f]
  BY <1>0, <1>1, <1>2, CarryAgrees
<1>5. Times' /\ Stamps' /\ AtRead' /\ \A t \in Todos : IssueTimes(t)'
  BY <1>1, <1>3 DEF TimesInv, Times, Stamps, AtRead, IssueTimes
<1>6. TwoStates'
  <2>1. plan.next["state"] \in States
    BY <1>1, <1>2, NextState DEF TimesInv, TwoStates
  <2> QED BY <1>3, <1>4, <2>1, NoState DEF TimesInv, TwoStates
<1>7. ASSUME TitleTimed PROVE TitleTimed'
  <2> SUFFICES ASSUME "title" \in Fields PROVE TitleTimed'
    BY DEF TitleTimed
  <2>1. plan.write["title"] # "github" => plan.next["title"] = req.seen.text["title"]
    BY <1>2, NextTitle
  <2>2. issue[c] # Gone => Timed(c, req.seen.text["title"])
    BY <1>0, <1>1, <1>7 DEF TitleTimed
  <2>3. ASSUME NEW t \in Todos, issue[t] # Gone PROVE Timed(t, agreed'[t]["title"])
    <3>1. Timed(t, agreed[t]["title"])
      BY <1>7, <2>3 DEF TitleTimed
    <3> QED BY <1>4, <2>1, <2>2, <2>3, <3>1
  <2> QED BY <1>1, <1>3, <2>1, <2>2, <2>3 DEF TitleTimed, Timed
<1>8. ASSUME faults = 0, c \notin dirty PROVE Later(c)'
  <2>1. /\ todo[c] # Gone /\ issue[c] # Gone /\ req.local = todo[c] /\ req.seen = issue[c] /\ issue[c].state \in States
    BY <1>0, <1>1, <1>8 DEF SyncInv, Records, IssueRecord, HandTrue, ReportInv, Present, Asking, Holding
  <2>2. \A f \in Fields : agreed[c][f] = OfBase(req.base[c], f)
    BY <1>0, <1>1, <1>8 DEF ReportInv, BaseAgreed, Asking
  <2>3. req.base[c].state \in States
    BY <1>1, <2>2, NoState DEF TimesInv, TwoStates, OfBase
  <2>4. \A f \in Fields : touch[c][f] = edited[c]["board"][f]
    BY <1>1, <1>8, <2>1 DEF TimesInv, Stamps
  <2>5. \/ req.at = issue[c].at
        \/ req.at.title = Never /\ ~NeedsFieldTimes(req.local, req.base[c], req.seen)
    BY <1>0, <1>1, <1>8, <2>1 DEF TimesInv, AtRead, NoRun
  <2>6. ASSUME NEW f \in Fields PROVE OnBoard(c, f)' = OnBoard(c, f) /\ OnGitHub(c, f)' = OnGitHub(c, f)
    BY <1>1 DEF OnBoard, OnGitHub
  <2>7. /\ issue[c].updated \in Nat /\ issue[c].at.title \in Nat
        /\ \A f \in Fields : edited[c]["github"][f] <= issue[c].updated
        /\ "title" \in Fields => edited[c]["github"]["title"] <= issue[c].at.title
    BY <1>1, <2>1 DEF TimesInv, IssueTimes
  <2>8. \A f \in Fields : edited[c]["board"][f] \in Nat /\ edited[c]["github"][f] \in Nat
    BY <1>1 DEF TimesInv, Times, Sides
  <2>9. ASSUME NEW f \in Fields, plan.write[f] = "github", OnGitHub(c, f) # agreed[c][f]
        PROVE  edited[c]["board"][f] > edited[c]["github"][f]
    <3>1. f # "state" /\ LocalWins(touch[c][f], IF f = "body" THEN issue[c].updated ELSE req.at.title)
      BY <1>2, <2>1, <2>2, <2>3, <2>9, TimesDecide
    <3>2. f = "body" \/ f = "title"
      BY <3>1, SyncAssumption DEF Fields
    <3>3. CASE f = "body"
      BY <2>4, <2>7, <2>8, <3>1, <3>3 DEF LocalWins
    <3>4. CASE f = "title"
      <4>1. req.at.title = issue[c].at.title
        BY <2>5, <3>1, <3>4 DEF LocalWins
      <4> QED BY <2>4, <2>7, <2>8, <3>1, <3>4, <4>1 DEF LocalWins
    <3> QED BY <3>2, <3>3, <3>4
  <2>10. ASSUME NEW f \in Fields, f # "body", plan.write[f] = "board", OnBoard(c, f) # agreed[c][f]
         PROVE  edited[c]["board"][f] <= edited[c]["github"][f]
    <3>1. /\ f = "title" /\ ~LocalWins(touch[c][f], req.at.title)
          /\ OnGitHub(c, f) # OfBase(req.base[c], f) /\ NeedsFieldTimes(req.local, req.base[c], req.seen)
      BY <1>2, <2>1, <2>2, <2>3, <2>10, TimesDecide
    <3>2. req.at = issue[c].at
      BY <2>5, <3>1
    <3>3. issue[c].at.title = edited[c]["github"]["title"] /\ issue[c].at.title # Never
      <4>1. Timed(c, agreed[c]["title"])
        BY <1>1, <1>8, <2>1, <3>1 DEF TimesInv, TitleTimed
      <4>2. issue[c].text["title"] # agreed[c]["title"]
        BY <2>2, <3>1 DEF OnGitHub
      <4> QED BY <4>1, <4>2 DEF Timed
    <3> QED BY <2>4, <2>8, <3>1, <3>2, <3>3 DEF LocalWins, Never
  <2> QED BY <1>1, <1>3, <1>4, <2>6, <2>9, <2>10 DEF Later
<1> QED BY <1>1, <1>3, <1>5, <1>6, <1>7, <1>8 DEF TimesInv

LEMMA PatchTimes ==
    ASSUME TimesInv, SyncInv, ReportInv, Shapes, Patch
    PROVE  TimesInv'
<1>0. PICK c : c = req.cur
  OBVIOUS
<1>1. /\ UNCHANGED <<todo, touch, stamping, clock, dirty, edited>> /\ req.pc = "patch" /\ c \in Todos
  BY <1>0 DEF Patch, Board, SyncInv, InHand, Deciding
<1>2. CASE PortFails /\ UNCHANGED <<issue, owed, agreed>>
  BY <1>1, <1>2, PortTimes
<1>3. CASE /\ issue[c] # Gone /\ issue' = Patched /\ Carry(req.plan, "github")
           /\ \/ req' = At("board") /\ faults' = faults
              \/ Fault /\ req' = [Skip EXCEPT !.pc = "finish", !.left = {}]
  <2>1. /\ agreed' = [t \in Todos |-> agreed'[t]]
        /\ \A t \in Todos \ {c} : agreed'[t] = agreed[t]
        /\ \A f \in Fields : agreed'[c][f] = IF req.plan.write[f] = "github" THEN req.plan.next[f] ELSE agreed[c][f]
    BY <1>0, <1>1, <1>3, CarryAgrees
  <2>2. /\ \A x \in Todos \ {c} : issue'[x] = issue[x]
        /\ issue'[c].updated = clock
        /\ issue'[c].text = [f \in Scalars |-> IF req.plan.write[f] = "github" THEN req.plan.next[f] ELSE issue[c].text[f]]
        /\ issue'[c].at = [title |-> IF "title" \in Scalars /\ req.plan.write["title"] = "github" THEN clock
                                     ELSE issue[c].at.title,
                           state |-> IF req.plan.write["state"] = "github" THEN clock ELSE issue[c].at.state]
    BY <1>0, <1>1, <1>3 DEF Patched, Shapes
  <2>3. ASSUME NEW x \in Todos PROVE IssueTimes(x)'
    <3>1. CASE x # c
      BY <1>1, <2>2, <3>1 DEF TimesInv, IssueTimes
    <3>2. CASE x = c
      <4>1. \A f \in Fields : edited[c]["github"][f] <= clock
        BY <1>1 DEF TimesInv, Times, Sides
      <4>2. clock \in Nat
        BY DEF TimesInv, Times
      <4>3. issue[c].at.title \in Nat /\ ("title" \in Fields => edited[c]["github"]["title"] <= issue[c].at.title)
        BY <1>1, <1>3 DEF TimesInv, IssueTimes
      <4>4. issue'[c].at.title \in {clock, issue[c].at.title}
        BY <2>2
      <4>5. /\ issue'[c].updated = clock /\ issue'[c].text = [f \in Scalars |-> issue'[c].text[f]]
            /\ issue'[c].at = [title |-> issue'[c].at.title, state |-> issue'[c].at.state]
        BY <2>2
      <4>6. "title" \in Fields => edited[c]["github"]["title"] <= issue'[c].at.title
        BY <4>1, <4>3, <4>4
      <4>7. issue'[c].at.title \in Nat
        BY <4>2, <4>3, <4>4
      <4> QED BY <1>1, <3>2, <4>1, <4>2, <4>5, <4>6, <4>7 DEF IssueTimes
    <3> QED BY <3>1, <3>2
  <2>4. TwoStates'
    <3>1. req'.pc \in {"board", "finish"} /\ (req'.pc = "board" => req'.plan = req.plan)
      BY <1>3, SkipTimes DEF At, Shapes
    <3> QED BY <1>1, <2>1, <3>1, NoState DEF TimesInv, TwoStates
  <2>5. Times' /\ Stamps'
    <3>1. faults' = 0 => faults = 0
      BY <1>3 DEF Fault, ReportInv
    <3> QED BY <1>1, <3>1, StampsStay DEF TimesInv, Times
  <2>6. CASE Fault /\ req' = [Skip EXCEPT !.pc = "finish", !.left = {}]
    <3>1. faults' # 0 /\ req'.pc = "finish"
      BY <2>6, SkipTimes DEF Fault, ReportInv
    <3> QED BY <2>3, <2>4, <2>5, <3>1 DEF TimesInv, AtRead
  <2>7. CASE req' = At("board") /\ faults' = faults
    <3>1. req'.pc = "board" /\ req'.cur = c /\ req'.plan = req.plan
      BY <1>0, <2>7 DEF At, Shapes
    <3>2. ASSUME TitleTimed PROVE TitleTimed'
      <4> SUFFICES ASSUME "title" \in Fields PROVE TitleTimed'
        BY DEF TitleTimed
      <4>0. "title" \in Scalars
        BY DEF Fields
      <4>1. CASE req.plan.write["title"] = "github"
        <5>1. issue'[c].text["title"] = agreed'[c]["title"]
          BY <2>1, <2>2, <4>0, <4>1
        <5> QED BY <1>1, <2>1, <2>2, <3>1, <3>2, <4>1, <5>1 DEF TitleTimed, Timed
      <4>2. CASE req.plan.write["title"] # "github"
        <5>1. issue'[c].text["title"] = issue[c].text["title"] /\ issue'[c].at.title = issue[c].at.title
              /\ agreed'[c]["title"] = agreed[c]["title"]
          BY <2>1, <2>2, <4>0, <4>2
        <5> QED BY <1>0, <1>1, <1>3, <2>1, <2>2, <3>1, <3>2, <5>1 DEF TitleTimed, Timed
      <4> QED BY <4>1, <4>2
    <3>3. ASSUME Later(c) PROVE Later(c)'
      <4>1. \A f \in Fields : OnBoard(c, f)' = OnBoard(c, f)
        BY <1>1 DEF OnBoard
      <4> QED BY <1>1, <2>1, <3>1, <3>3, <4>1 DEF Later
    <3> QED BY <1>0, <1>1, <2>3, <2>4, <2>5, <2>7, <3>1, <3>2, <3>3 DEF TimesInv, AtRead
  <2> QED BY <1>3, <2>6, <2>7
<1> QED BY <1>0, <1>2, <1>3 DEF Patch

LEMMA BoardTimes ==
    ASSUME TimesInv, SyncInv, ReportInv, Shapes, WriteBoard
    PROVE  TimesInv'
<1>0. PICK c : c = req.cur
  OBVIOUS
<1>1. /\ UNCHANGED <<issue, touch, stamping, clock, dirty, faults, edited>> /\ req.pc = "board" /\ c \in Todos
      /\ req'.pc = "base" /\ Carry(req.plan, "board")
      /\ \A x \in Todos : todo[x] = Gone => todo'[x] = Gone
  BY <1>0 DEF WriteBoard, Board, At, Shapes, SyncInv, InHand, Deciding
<1>2. /\ \A t \in Todos \ {c} : agreed'[t] = agreed[t]
      /\ \A f \in Fields : agreed'[c][f] = IF req.plan.write[f] = "board" THEN req.plan.next[f] ELSE agreed[c][f]
  BY <1>0, <1>1, CarryAgrees
<1>3. Stamps'
  BY <1>1, StampsStay DEF TimesInv
<1>4. Times' /\ AtRead' /\ \A t \in Todos : IssueTimes(t)'
  BY <1>1 DEF TimesInv, Times, AtRead, IssueTimes
<1>5. TwoStates'
  BY <1>1, <1>2, NoState DEF TimesInv, TwoStates
<1>6. ASSUME TitleTimed PROVE TitleTimed'
  BY <1>0, <1>1, <1>2, <1>6 DEF TitleTimed, Timed
<1> QED BY <1>1, <1>3, <1>4, <1>5, <1>6 DEF TimesInv

LEMMA TimesInit == Init => TimesInv
<1> SUFFICES ASSUME Init PROVE TimesInv
  OBVIOUS
<1>1. /\ touch = [t \in Todos |-> NoTouch]
      /\ edited = [t \in Todos |-> [side \in Sides |-> [f \in Fields |-> Never]]]
      /\ issue = [t \in Todos |-> [text |-> [f \in Scalars |-> FirstText], state |-> "open", labels |-> {}, updated |-> 1,
                                   at |-> [title |-> Never, state |-> Never]]]
      /\ agreed = [t \in Todos |-> [f \in Fields |-> IF f = "state" THEN "open" ELSE [g \in Scalars |-> FirstText][f]]]
      /\ stamping = {} /\ clock = 1 /\ req = NoRun
  BY DEF Init, Sides
<1>2. req.pc = "idle"
  BY <1>1 DEF NoRun
<1>3. Times
  BY <1>1 DEF Times, NoTouch, Never
<1>4. Stamps /\ AtRead
  BY <1>1, <1>2 DEF Stamps, AtRead, NoTouch, Sides
<1>5. TwoStates
  BY <1>1, <1>2, NoState DEF TwoStates, States
<1>6. \A t \in Todos : IssueTimes(t)
  BY <1>1 DEF IssueTimes, Sides, Never
<1>7. TitleTimed
  BY <1>1, <1>2, NoState DEF TitleTimed, Timed, Fields
<1> QED BY <1>2, <1>3, <1>4, <1>5, <1>6, <1>7 DEF TimesInv

LEMMA TimesNext == ASSUME Inv, SyncInv, ReportInv, TimesInv, [Next]_vars PROVE TimesInv'
<1>1. Shapes
  BY DEF Inv
<1>2. CASE Run
  BY <1>1, <1>2, LoopTimes, ReadTimes, AskTimes, PlanTimes, PatchTimes, BoardTimes DEF Run
<1>3. CASE User \/ StatementFails \/ HangUp \/ Restart
  BY <1>1, <1>3, UserTimes, LoopTimes, RestartTimes
<1>4. CASE UNCHANGED vars
  BY <1>4, SameTimes DEF vars, store, history
<1> QED BY <1>2, <1>3, <1>4 DEF Next

(* A run that writes replaces edits of the other side that were earlier.   *)
LEMMA EarlierReplaced ==
    ASSUME TimesInv, faults = 0, req.pc \in {"patch", "board"}
    PROVE  LET when == edited[req.cur]
           IN  /\ req.pc = "patch" => \A f \in ReplacedOnGitHub : when["board"][f] > when["github"][f]
               /\ req.pc = "board" => \A f \in ReplacedOnBoard \ {"body"} : when["board"][f] <= when["github"][f]
BY DEF TimesInv, Later, ReplacedOnGitHub, ReplacedOnBoard, Replaced

(* For any tasks, texts and labels, as long as nothing fails: a title that *)
(* both sides edited becomes the later of the two edits, a tie going to    *)
(* GitHub, and a body of GitHub's is replaced by a later edit only.        *)
THEOREM LaterWins == Spec => LaterEditWins
<1>1. Inv /\ SyncInv /\ [Next]_vars => SyncInv'
  BY SyncNext
<1>2. Inv /\ SyncInv /\ ReportInv /\ [Next]_vars => ReportInv'
  BY ReportNext
<1>3. Inv /\ SyncInv /\ ReportInv /\ TimesInv /\ [Next]_vars => TimesInv'
  BY TimesNext
<1>4. TimesInv /\ [Next]_vars =>
        [faults = 0 /\ req.pc \in {"patch", "board"} /\ req' # req =>
          LET when == edited[req.cur]
          IN  /\ req.pc = "patch" /\ issue' # issue =>
                 \A f \in ReplacedOnGitHub : when["board"][f] > when["github"][f]
              /\ req.pc = "board" /\ todo' # todo =>
                 \A f \in ReplacedOnBoard \ {"body"} : when["board"][f] <= when["github"][f]]_vars
  BY EarlierReplaced
<1> QED BY <1>1, <1>2, <1>3, <1>4, InvInit, InvStep, SyncInit, ReportInit, TimesInit, PTL DEF Spec, LaterEditWins
-----------------------------------------------------------------------------
(* The store keeps its shape.                                              *)

Stored ==
    /\ todo \in [Todos -> TodoType \cup {Gone}]
    /\ issue \in [Todos -> IssueType \cup {Gone}]
    /\ pair \in [Todos -> PairType \cup {Gone}]
    /\ link \in BOOLEAN /\ running \in BOOLEAN

PlanTyped(plan) ==
    /\ \A f \in Scalars : plan.next[f] \in Texts
    /\ plan.next["state"] \in States /\ plan.labels \subseteq Labels \ Workflow

(* What the run has read is of the types of what it has read it from.      *)
HandTyped ==
    /\ \A t \in req.left : req.base[t] \in BaseType
    /\ Asking => req.base[req.cur] \in BaseType
    /\ Holding => req.local \in TodoType
    /\ req.pc \in {"times", "touch"} => req.seen \in IssueType
    /\ Deciding => PlanTyped(req.plan)

LEMMA TodoParts ==
    ASSUME NEW r \in TodoType
    PROVE  /\ r.text \in TextType /\ r.labels \subseteq Labels
           /\ \A f \in Scalars, v \in Texts : [r EXCEPT !.text[f] = v] \in TodoType
           /\ \A x \in {"open", "in_progress", "done"} : [r EXCEPT !.status = x] \in TodoType
           /\ \A ls \in SUBSET Labels : [r EXCEPT !.labels = ls] \in TodoType
BY DEF TodoType, TextType

LEMMA IssueParts ==
    ASSUME NEW r \in IssueType, NEW n \in Nat
    PROVE  /\ r.text \in TextType /\ r.labels \subseteq Labels /\ r.state \in States
           /\ r.at.title \in Nat /\ r.at.state \in Nat
           /\ \A f \in Scalars, v \in Texts, m \in Nat :
                 [r EXCEPT !.text[f] = v, !.updated = n, !.at.title = m] \in IssueType
           /\ \A x \in States : [r EXCEPT !.state = x, !.updated = n, !.at.state = n] \in IssueType
           /\ \A ls \in SUBSET Labels : [r EXCEPT !.labels = ls, !.updated = n] \in IssueType
BY DEF IssueType, TextType, States

LEMMA UserStored == ASSUME Stored, User, clock \in Nat PROVE Stored'
<1>1. ASSUME NEW t \in Todos, Act(t) PROVE clock' \in Nat /\ running' = running
  BY <1>1 DEF Act
<1>2. ASSUME NEW t \in Todos, NEW f \in Scalars, NEW v \in Texts, EditText(t, f, v) PROVE Stored'
  <2>1. todo[t] \in TodoType /\ todo' = [todo EXCEPT ![t] = [todo[t] EXCEPT !.text[f] = v]]
    BY <1>2 DEF EditText, Editable, Stored
  <2>2. todo' \in [Todos -> TodoType \cup {Gone}]
    BY <2>1, TodoParts DEF Stored
  <2> QED BY <1>1, <1>2, <2>2 DEF EditText, Stored
<1>3. ASSUME NEW t \in Todos, NEW x \in {"open", "in_progress", "done"}, MoveTodo(t, x) PROVE Stored'
  <2>1. todo[t] \in TodoType /\ todo' = [todo EXCEPT ![t] = [todo[t] EXCEPT !.status = x]]
    BY <1>3 DEF MoveTodo, Editable, Stored
  <2>2. todo' \in [Todos -> TodoType \cup {Gone}]
    BY <2>1, TodoParts DEF Stored
  <2> QED BY <1>1, <1>3, <2>2 DEF MoveTodo, Stored
<1>4. ASSUME NEW t \in Todos, NEW ls \in SUBSET Labels, EditLabels(t, ls) PROVE Stored'
  <2>1. todo[t] \in TodoType /\ todo' = [todo EXCEPT ![t] = [todo[t] EXCEPT !.labels = ls]]
    BY <1>4 DEF EditLabels, Editable, Stored
  <2>2. todo' \in [Todos -> TodoType \cup {Gone}]
    BY <2>1, TodoParts DEF Stored
  <2> QED BY <1>1, <1>4, <2>2 DEF EditLabels, Stored
<1>5. ASSUME NEW t \in Todos, NEW f \in Scalars, NEW v \in Texts, EditIssue(t, f, v) PROVE Stored'
  <2> DEFINE m == IF f = "title" THEN clock' ELSE issue[t].at.title
  <2>0. issue[t] # Gone /\ Act(t) /\ UNCHANGED <<todo, pair, link>>
        /\ issue' = [issue EXCEPT ![t] = [issue[t] EXCEPT !.text[f] = v, !.updated = clock', !.at.title = m]]
    BY <1>5 DEF EditIssue
  <2>1. issue[t] \in IssueType /\ clock' \in Nat /\ UNCHANGED <<todo, pair, link, running>>
    BY <1>1, <2>0 DEF Stored
  <2>2. m \in Nat
    BY <2>1, IssueParts
  <2> HIDE DEF m
  <2>3. issue' \in [Todos -> IssueType \cup {Gone}]
    BY <2>0, <2>1, <2>2, IssueParts DEF Stored
  <2> QED BY <2>1, <2>3 DEF Stored
<1>6. ASSUME NEW t \in Todos, NEW x \in {"open", "closed"}, SetState(t, x) PROVE Stored'
  <2>1. issue[t] \in IssueType /\ clock' \in Nat /\ UNCHANGED <<todo, pair, link, running>>
        /\ issue' = [issue EXCEPT ![t] = [issue[t] EXCEPT !.state = x, !.updated = clock', !.at.state = clock']]
    BY <1>1, <1>6 DEF SetState, Stored
  <2>2. issue' \in [Todos -> IssueType \cup {Gone}]
    BY <2>1, IssueParts DEF Stored, States
  <2> QED BY <2>1, <2>2 DEF Stored
<1>7. ASSUME NEW t \in Todos, NEW ls \in SUBSET Labels, Relabel(t, ls) PROVE Stored'
  <2>1. issue[t] \in IssueType /\ clock' \in Nat /\ UNCHANGED <<todo, pair, link, running>>
        /\ issue' = [issue EXCEPT ![t] = [issue[t] EXCEPT !.labels = ls, !.updated = clock']]
    BY <1>1, <1>7 DEF Relabel, Stored
  <2>2. issue' \in [Todos -> IssueType \cup {Gone}]
    BY <2>1, IssueParts DEF Stored
  <2> QED BY <2>1, <2>2 DEF Stored
<1>8. ASSUME NEW t \in Todos, DeleteTodo(t) \/ Unpair(t) \/ Vanish(t) PROVE Stored'
  BY <1>1, <1>8 DEF DeleteTodo, Unpair, Vanish, Stored
<1>9. CASE Unlink \/ \E x \in stamping : Stamp(x)
  BY <1>9 DEF Unlink, Stamp, Stored
<1> QED BY <1>2, <1>3, <1>4, <1>5, <1>6, <1>7, <1>8, <1>9 DEF User

(* The run has nothing in hand but the pairs it has still to go through.   *)
LEMMA EmptyTyped ==
    ASSUME HandTyped, req'.pc \notin {"issue", "times", "touch", "patch", "board", "base", "mark"},
           req'.left \subseteq req.left, req'.left # {} => req'.base = req.base
    PROVE  HandTyped'
BY DEF HandTyped, Asking, Holding, Deciding

LEMMA UserHand == ASSUME HandTyped, User PROVE HandTyped'
<1>1. CASE Unlink \/ \E x \in stamping : Stamp(x)
  BY <1>1 DEF Unlink, Stamp, HandTyped, Asking, Holding, Deciding
<1>2. ASSUME NEW t, Act(t) PROVE HandTyped'
  BY <1>2 DEF Act, HandTyped, Asking, Holding, Deciding
<1>3. ASSUME NEW t \in Todos, NEW f \in Scalars, NEW v \in Texts, EditText(t, f, v) \/ EditIssue(t, f, v)
      PROVE HandTyped'
  BY <1>2, <1>3 DEF EditText, EditIssue
<1>4. ASSUME NEW t \in Todos, NEW x, MoveTodo(t, x) \/ SetState(t, x) \/ EditLabels(t, x) \/ Relabel(t, x)
      PROVE HandTyped'
  BY <1>2, <1>4 DEF MoveTodo, SetState, EditLabels, Relabel
<1>5. ASSUME NEW t \in Todos, DeleteTodo(t) \/ Unpair(t) \/ Vanish(t) PROVE HandTyped'
  BY <1>2, <1>5 DEF DeleteTodo, Unpair, Vanish
<1> QED BY <1>1, <1>3, <1>4, <1>5 DEF User

LEMMA MarkTyped ==
    ASSUME Stored, NEW m \in {"clean", "overwritten", "errored", "remotely-unlinked"}, pair' = Marked(m)
    PROVE  pair' \in [Todos -> PairType \cup {Gone}]
<1>1. pair' = [t \in Todos |-> IF t = req.cur /\ pair[t] # Gone THEN [pair[t] EXCEPT !.mark = m] ELSE pair[t]]
  BY DEF Stored, Marked
<1>2. \A r \in PairType : [r EXCEPT !.mark = m] \in PairType
  BY DEF PairType
<1>3. \A t \in Todos : pair[t] \in PairType \cup {Gone}
  BY DEF Stored
<1> QED BY <1>1, <1>2, <1>3

LEMMA PortTyped ==
    ASSUME Stored, HandTyped, Shapes, PortFails, UNCHANGED <<todo, issue, link, running>>
    PROVE  Stored' /\ HandTyped'
<1>1. req' = Skip \/ req' = [Skip EXCEPT !.pc = "finish", !.left = {}]
  BY DEF PortFails
<1>2. pair' = pair \/ \E m \in {"remotely-unlinked", "errored"} : pair' = Marked(m)
  BY DEF PortFails
<1>3. Stored'
  BY <1>2, MarkTyped DEF Stored
<1>4. HandTyped'
  <2>1. /\ req'.pc \in {"next", "finish"} /\ req'.left \subseteq req.left
        /\ req'.left # {} => req'.base = req.base
    BY <1>1, SkipHand
  <2> QED BY <2>1, EmptyTyped
<1> QED BY <1>3, <1>4

LEMMA LoopTyped ==
    ASSUME Stored, HandTyped, Shapes,
           Start \/ ReadLink \/ ReadPairs \/ WriteLink \/ Record \/ StatementFails \/ HangUp \/ Restart
    PROVE  Stored' /\ HandTyped'
<1>1. Stored'
  BY DEF Start, ReadLink, ReadPairs, WriteLink, Record, RecordRun, RecordRows, Prune, StatementFails, HangUp,
     Restart, Board, Quiet, Stored
<1>2. CASE ReadPairs
  <2> DEFINE ps == {t \in Todos : pair[t] # Gone /\ pair[t].mark # "remotely-unlinked"}
  <2>1. /\ req' = [req EXCEPT !.pc = "next", !.left = ps, !.base = [t \in ps |-> pair[t].base]]
        /\ \A t \in ps : pair[t].base \in BaseType
    BY <1>2 DEF ReadPairs, Stored, PairType
  <2> HIDE DEF ps
  <2>2. req'.pc = "next" /\ req'.left = ps /\ req'.base = [t \in ps |-> pair[t].base]
    BY <2>1 DEF Shapes
  <2>3. \A t \in req'.left : req'.base[t] \in BaseType
    BY <2>1, <2>2
  <2>4. ~(Asking \/ Holding \/ Deciding)'
    BY <2>2 DEF Asking, Holding, Deciding
  <2> QED BY <1>1, <2>2, <2>3, <2>4 DEF HandTyped
<1>3. CASE Start \/ ReadLink \/ WriteLink \/ Record \/ StatementFails \/ HangUp \/ Restart
  <2> DEFINE Loops == /\ req'.pc \in {"idle", "link", "pairs", "next", "finish", "record", "rows", "prune"}
                      /\ req'.left \subseteq req.left
                      /\ req'.left # {} => req'.base = req.base
  <2>1. ASSUME req' = NoRun \/ req' = [NoRun EXCEPT !.pc = "link"] PROVE Loops
    BY <2>1 DEF NoRun
  <2>2. ASSUME \E pc \in {"pairs", "record", "rows"} : req' = At(pc) \/ req' = [req EXCEPT !.pc = "prune",
  !.rows = {}]
        PROVE Loops
    BY <2>2 DEF At, Shapes
  <2>3. ASSUME req' = [Skip EXCEPT !.pc = "finish", !.left = {}] PROVE Loops
    BY <2>3, SkipHand
  <2> HIDE DEF Loops
  <2>4. ASSUME Start PROVE Loops
    BY <2>4, <2>1 DEF Start
  <2>5. ASSUME ReadLink PROVE Loops
    BY <2>5, <2>1, <2>2 DEF ReadLink, At
  <2>6. ASSUME WriteLink PROVE Loops
    BY <2>6, <2>2 DEF WriteLink
  <2>7. ASSUME Record \/ HangUp \/ Restart PROVE Loops
    BY <2>7, <2>1, <2>2 DEF Record, RecordRun, RecordRows, Prune, HangUp, Restart
  <2>8. ASSUME StatementFails PROVE Loops
    BY <2>8, <2>1, <2>3 DEF StatementFails
  <2>9. Loops
    BY <1>3, <2>4, <2>5, <2>6, <2>7, <2>8
  <2> QED BY <1>1, <2>9, EmptyTyped DEF Loops
<1> QED BY <1>1, <1>2, <1>3

LEMMA ReadTyped ==
    ASSUME Stored, HandTyped, Shapes, NEW t \in Todos, ReadLocal(t)
    PROVE  Stored' /\ HandTyped'
<1>1. Stored'
  BY DEF ReadLocal, Stored
<1>2. CASE todo[t] = Gone
  <2>1. req'.pc = "next" /\ req'.left = req.left \ {t} /\ req'.base = req.base
    BY <1>2 DEF ReadLocal, Shapes
  <2> QED BY <1>1, <2>1, EmptyTyped
<1>3. CASE todo[t] # Gone
  <2>1. /\ req'.pc = "issue" /\ req'.left = req.left \ {t} /\ req'.base = req.base /\ req'.cur = t
        /\ req'.local = todo[t] /\ t \in req.left
    BY <1>3 DEF ReadLocal, Shapes
  <2>2. todo[t] \in TodoType
    BY <1>3 DEF Stored
  <2> QED BY <1>1, <2>1, <2>2 DEF HandTyped, Asking, Holding, Deciding
<1> QED BY <1>2, <1>3

LEMMA AskTyped ==
    ASSUME Stored, HandTyped, Shapes, SyncInv, GetIssue \/ FieldTimes
    PROVE  Stored' /\ HandTyped'
<1>1. UNCHANGED <<todo, issue, link, running>> /\ req.pc \in {"issue", "times"} /\ req.cur \in Todos
  BY DEF GetIssue, FieldTimes, Quiet, SyncInv, InHand, Asking
<1>2. CASE PortFails
  BY <1>1, <1>2, PortTyped
<1>3. CASE ~PortFails
  <2>1. /\ UNCHANGED pair /\ req'.left = req.left /\ req'.base = req.base /\ req'.cur = req.cur /\ req'.local = req.local
        /\ req'.pc \in {"times", "touch"}
        /\ \/ req'.seen = issue[req.cur] /\ issue[req.cur] # Gone
           \/ req'.seen = req.seen /\ req.pc = "times"
    BY <1>3 DEF GetIssue, FieldTimes, Shapes
  <2>2. issue[req.cur] # Gone => issue[req.cur] \in IssueType
    BY <1>1 DEF Stored
  <2> QED BY <1>1, <2>1, <2>2 DEF Stored, HandTyped, Asking, Holding, Deciding
<1> QED BY <1>2, <1>3

(* What a run decides on are texts, states and labels that it has read,    *)
(* and no workflow label.                                                  *)
LEMMA PlanIsTyped ==
    ASSUME NEW c, req.local \in TodoType, req.seen \in IssueType, req.base[c] \in BaseType
    PROVE  PlanTyped(Reconcile(c))
<1>1. ASSUME NEW f \in Scalars PROVE Reconcile(c).next[f] \in Texts
  <2>1. req.local.text[f] \in Texts /\ req.seen.text[f] \in Texts
    BY DEF TodoType, IssueType, TextType
  <2>2. f # "state" /\ f \in Fields
    BY NoState DEF Fields
  <2>3. Reconcile(c).next[f] \in {req.local.text[f], req.seen.text[f]}
    BY <2>2 DEF Reconcile, Diff
  <2> QED BY <2>1, <2>3
<1>2. req.seen.state \in States
  BY DEF IssueType, States
<1>3. Reconcile(c).labels \subseteq Labels \ Workflow
  <2>1. req.local.labels \subseteq Labels /\ req.seen.labels \subseteq Labels /\ req.base[c].labels \subseteq Labels
    BY DEF TodoType, IssueType, BaseType
  <2>2. Reconcile(c).labels = MergedLabels(req.local.labels, req.seen.labels, req.base[c].labels)
    BY DEF Reconcile
  <2> QED BY <2>1, <2>2 DEF MergedLabels
<1> QED BY <1>1, <1>2, <1>3, NextState DEF PlanTyped

LEMMA PlanTypes ==
    ASSUME Stored, HandTyped, Shapes, Plan
    PROVE  Stored' /\ HandTyped'
<1>0. PICK c : c = req.cur
  OBVIOUS
<1>1. /\ UNCHANGED <<todo, issue, pair, link, running>> /\ req.pc = "touch"
      /\ req' = [req EXCEPT !.plan = Reconcile(c), !.pc = IF Outbound(Reconcile(c)) THEN "patch" ELSE "board"]
  BY <1>0 DEF Plan
<1>2. req'.left = req.left /\ req'.base = req.base /\ req'.local = req.local
      /\ req'.plan = Reconcile(c) /\ req'.pc \in {"patch", "board"}
  BY <1>1 DEF Shapes
<1>3. PlanTyped(Reconcile(c))
  BY <1>0, <1>1, PlanIsTyped DEF HandTyped, Asking, Holding
<1>4. PlanTyped(req'.plan)
  BY <1>2, <1>3
<1>5. HandTyped'
  <2>1. PlanTyped(req.plan)'
    BY <1>4 DEF PlanTyped
  <2> QED BY <1>1, <1>2, <2>1 DEF HandTyped, Asking, Holding, Deciding
<1> QED BY <1>1, <1>5 DEF Stored

(* The pair in hand keeps its plan on the way to the next step.            *)
LEMMA OnwardTyped ==
    ASSUME HandTyped, Shapes, Deciding, NEW pc, req' = At(pc),
           (pc = "board" /\ req.pc = "patch") \/ pc \in {"base", "mark"}
    PROVE  HandTyped'
<1>1. req'.pc = pc /\ req'.left = req.left /\ req'.base = req.base /\ req'.local = req.local /\ req'.plan = req.plan
  BY DEF Shapes, At
<1> QED BY <1>1 DEF HandTyped, PlanTyped, Asking, Holding, Deciding

LEMMA PatchTyped ==
    ASSUME Stored, HandTyped, Shapes, SyncInv, Patch, clock \in Nat
    PROVE  Stored' /\ HandTyped'
<1>1. UNCHANGED <<todo, link, running>> /\ req.pc = "patch" /\ req.cur \in Todos /\ PlanTyped(req.plan)
  BY DEF Patch, SyncInv, InHand, HandTyped, Deciding
<1>2. CASE PortFails /\ UNCHANGED issue
  BY <1>1, <1>2, PortTyped
<1>3. CASE issue[req.cur] # Gone /\ issue' = Patched /\ UNCHANGED pair
  <2> DEFINE old == issue[req.cur]
             next == req.plan.next
             Sent(f) == req.plan.write[f] = "github"
             new == [text |-> [f \in Scalars |-> IF Sent(f) THEN next[f] ELSE old.text[f]],
                     state |-> IF Sent("state") THEN next["state"] ELSE old.state,
                     labels |-> IF req.plan.toGitHub THEN req.plan.labels ELSE old.labels,
                     updated |-> clock,
                     at |-> [title |-> IF "title" \in Scalars /\ Sent("title") THEN clock ELSE old.at.title,
                             state |-> IF Sent("state") THEN clock ELSE old.at.state]]
  <2>1. old \in IssueType
    BY <1>1, <1>3 DEF Stored
  <2>2. issue' = [issue EXCEPT ![req.cur] = new]
    BY <1>1, <1>3 DEF Patched, Stored
  <2>3. new \in IssueType
    <3>1. old.text \in [Scalars -> Texts] /\ old.labels \subseteq Labels /\ old.state \in States
          /\ old.at.title \in Nat /\ old.at.state \in Nat
      BY <2>1 DEF IssueType, TextType, States
    <3>2. /\ \A f \in Scalars : next[f] \in Texts
          /\ next["state"] \in States /\ req.plan.labels \subseteq Labels
      BY <1>1 DEF PlanTyped
    <3> HIDE DEF old, next, Sent
    <3> QED BY <3>1, <3>2 DEF IssueType, TextType, States
  <2> HIDE DEF new
  <2>4. Stored'
    BY <1>1, <1>3, <2>2, <2>3 DEF Stored
  <2> HIDE DEF old, next, Sent
  <2>5. CASE req' = At("board")
    BY <1>1, <2>4, <2>5, OnwardTyped DEF Deciding
  <2>6. CASE req' = [Skip EXCEPT !.pc = "finish", !.left = {}]
    <3>1. req'.pc = "finish" /\ req'.left = {}
      BY <2>6, SkipHand
    <3> QED BY <2>4, <3>1, EmptyTyped
  <2>7. req' = At("board") \/ req' = [Skip EXCEPT !.pc = "finish", !.left = {}] \/ PortFails
    BY DEF Patch
  <2>8. CASE PortFails
    <3>1. req' = Skip \/ req' = [Skip EXCEPT !.pc = "finish", !.left = {}]
      BY <2>8 DEF PortFails
    <3>2. req'.pc \in {"next", "finish"} /\ req'.left \subseteq req.left /\ (req'.left # {} => req'.base = req.base)
      BY <3>1, SkipHand
    <3> QED BY <2>4, <3>2, EmptyTyped
  <2> QED BY <2>5, <2>6, <2>7, <2>8
<1> QED BY <1>2, <1>3 DEF Patch

LEMMA BoardTyped ==
    ASSUME Stored, HandTyped, Shapes, SyncInv, WriteBoard
    PROVE  Stored' /\ HandTyped'
<1>1. /\ UNCHANGED <<issue, pair, link, running>> /\ req.pc = "board" /\ req.cur \in Todos /\ PlanTyped(req.plan)
      /\ req.local \in TodoType /\ req' = At("base")
  BY DEF WriteBoard, SyncInv, InHand, HandTyped, Deciding, Holding
<1>2. HandTyped'
  BY <1>1, OnwardTyped DEF Deciding
<1>3. CASE todo[req.cur] = Gone
  BY <1>1, <1>2, <1>3 DEF WriteBoard, Stored
<1>4. CASE todo[req.cur] # Gone
  <2> DEFINE old == todo[req.cur]
             next == req.plan.next
             Brought(f) == req.plan.write[f] = "board"
             new == [text |-> [f \in Scalars |-> IF Brought(f) THEN next[f] ELSE old.text[f]],
                     status |-> IF Brought("state") THEN MappedFromRemote(next["state"]) ELSE old.status,
                     labels |-> IF req.plan.toBoard THEN BoardLabels(req.local.labels, req.plan.labels)
                                ELSE old.labels]
  <2>1. old \in TodoType
    BY <1>1, <1>4 DEF Stored
  <2>2. todo' = [todo EXCEPT ![req.cur] = new]
    BY <1>4 DEF WriteBoard
  <2>3. new \in TodoType
    <3>1. old.text \in [Scalars -> Texts] /\ old.labels \subseteq Labels /\ old.status \in {"open", "in_progress",
    "done"}
      BY <2>1 DEF TodoType, TextType
    <3>2. \A f \in Scalars : next[f] \in Texts
      BY <1>1 DEF PlanTyped
    <3>3. BoardLabels(req.local.labels, req.plan.labels) \subseteq Labels
      BY <1>1, TodoParts DEF PlanTyped, BoardLabels
    <3>4. MappedFromRemote(next["state"]) \in {"open", "in_progress", "done"}
      BY DEF MappedFromRemote
    <3> HIDE DEF old, next, Brought
    <3> QED BY <3>1, <3>2, <3>3, <3>4 DEF TodoType, TextType
  <2> HIDE DEF new
  <2>4. todo' \in [Todos -> TodoType \cup {Gone}]
    BY <2>2, <2>3 DEF Stored
  <2> QED BY <1>1, <1>2, <2>4 DEF Stored
<1> QED BY <1>3, <1>4

LEMMA BaseTyped ==
    ASSUME Stored, HandTyped, Shapes, SyncInv, WriteBaseline \/ SetMark
    PROVE  Stored' /\ HandTyped'
<1>1. UNCHANGED <<todo, issue, link, running>>
  BY DEF WriteBaseline, SetMark, Quiet
<1>2. CASE WriteBaseline
  <2>1. req.pc = "base" /\ req' = At("mark") /\ PlanTyped(req.plan)
    BY <1>2 DEF WriteBaseline, HandTyped, Deciding
  <2>2. NextBaseline \in BaseType
    BY <2>1 DEF NextBaseline, PlanTyped, BaseType, TextType, States
  <2>3. \A r \in PairType : [r EXCEPT !.base = NextBaseline] \in PairType
    BY <2>2 DEF PairType
  <2>4. pair' = [t \in Todos |-> IF t = req.cur /\ pair[t] # Gone THEN [pair[t] EXCEPT !.base = NextBaseline] ELSE pair[t]]
    BY <1>2 DEF WriteBaseline, Stored
  <2>5. \A t \in Todos : pair[t] \in PairType \cup {Gone}
    BY DEF Stored
  <2>6. pair' \in [Todos -> PairType \cup {Gone}]
    BY <2>3, <2>4, <2>5
  <2>7. HandTyped'
    BY <2>1, OnwardTyped DEF Deciding
  <2> QED BY <1>1, <2>6, <2>7 DEF Stored
<1>3. CASE SetMark
  <2>1. \E m \in {"clean", "overwritten"} : pair' = Marked(m)
    BY <1>3 DEF SetMark
  <2>2. pair' \in [Todos -> PairType \cup {Gone}]
    BY <2>1, MarkTyped
  <2>3. \E rows : req' = [Skip EXCEPT !.rows = rows]
    BY <1>3 DEF SetMark
  <2>4. req'.pc = "next" /\ req'.left = req.left /\ req'.base = req.base
    BY <2>3, SkipHand DEF Skip, Shapes
  <2> QED BY <1>1, <2>2, <2>4, EmptyTyped DEF Stored
<1> QED BY <1>2, <1>3

LEMMA TypedInit == Init => Stored /\ HandTyped
<1> SUFFICES ASSUME Init PROVE Stored /\ HandTyped
  OBVIOUS
<1>1. [f \in Scalars |-> FirstText] \in TextType
  BY SyncAssumption DEF TextType
<1>2. Stored
  BY <1>1 DEF Init, Stored, TodoType, IssueType, PairType, BaseType, FreshPair, Never
<1>3. HandTyped
  BY DEF Init, NoRun, HandTyped, Asking, Holding, Deciding
<1> QED BY <1>2, <1>3

LEMMA TypedNext ==
    ASSUME Inv, SyncInv, TimesInv, Stored, HandTyped, [Next]_vars
    PROVE  Stored' /\ HandTyped'
<1>1. Shapes /\ clock \in Nat
  BY DEF Inv, TimesInv, Times
<1>2. CASE User
  BY <1>1, <1>2, UserStored, UserHand
<1>3. CASE Run
  BY <1>1, <1>3, LoopTyped, ReadTyped, AskTyped, PlanTypes, PatchTyped, BoardTyped, BaseTyped DEF Run
<1>4. CASE StatementFails \/ HangUp \/ Restart
  BY <1>1, <1>4, LoopTyped
<1>5. CASE UNCHANGED vars
  BY <1>5 DEF vars, store, Stored, HandTyped, Asking, Holding, Deciding
<1> QED BY <1>2, <1>3, <1>4, <1>5 DEF Next

(* The board, GitHub and the baselines keep their shape, whatever a run    *)
(* makes of them and wherever it is dropped; a workflow label is never     *)
(* part of a baseline.                                                     *)
THEOREM TypeCorrect == Spec => []TypeOK
<1>1. Inv /\ SyncInv /\ [Next]_vars => SyncInv'
  BY SyncNext
<1>2. Inv /\ SyncInv /\ ReportInv /\ [Next]_vars => ReportInv'
  BY ReportNext
<1>3. Inv /\ SyncInv /\ ReportInv /\ TimesInv /\ [Next]_vars => TimesInv'
  BY TimesNext
<1>4. Inv /\ SyncInv /\ TimesInv /\ Stored /\ HandTyped /\ [Next]_vars => Stored' /\ HandTyped'
  BY TypedNext
<1>5. Stored /\ TimesInv => TypeOK
  BY DEF Stored, TimesInv, Times, TypeOK
<1> QED BY <1>1, <1>2, <1>3, <1>4, <1>5, InvInit, InvStep, SyncInit, ReportInit, TimesInit, TypedInit, PTL DEF Spec
=============================================================================
