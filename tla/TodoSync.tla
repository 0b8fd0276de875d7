------------------------------ MODULE TodoSync ------------------------------
(***************************************************************************)
(* The GitHub sync of the todos plugin (mainframe-plugins, todos_github):  *)
(* one project whose tasks are paired with issues.  A sync run compares    *)
(* task, issue and the baseline both agreed on last, and writes what one   *)
(* side has not got yet; users edit both sides meanwhile, every await of   *)
(* the run being a gap.                                                    *)
(*                                                                         *)
(* A task and its issue share a name.  Importing and publishing, which     *)
(* create pairs, are not modelled; the wording of the report is not        *)
(* either: a row is the field it is about, with its run.                   *)
(***************************************************************************)
EXTENDS Integers, FiniteSets

CONSTANTS
    Todos,
    Scalars,    \* the text fields that are synced
    Texts,
    FirstText,
    Labels,
    Workflow,   \* the labels that stay on the board
    Gone,
    KeepRuns,   \* runs whose reports are kept
    MaxEdits,   \* bound on the edits of the users
    MaxRuns,    \* bound on the sync runs
    MaxFaults   \* bound on failures, dropped requests and restarts

ASSUME SyncAssumption ==
    /\ Scalars \subseteq {"title", "body"} /\ Workflow \subseteq Labels
    /\ FirstText \in Texts /\ {KeepRuns, MaxEdits, MaxRuns, MaxFaults} \subseteq Nat

VARIABLES
    todo,      \* the board: status of three values
    issue,     \* GitHub: state, and the times of its last changes
    pair,      \* github_pairs: mark and baseline
    touch,     \* github_touch: when a field was last edited on the board
    stamping,  \* edits on the board whose touch is not written yet
    link,      \* github_links: is the project linked?
    running,   \* RUNNING: is the project in the set?
    req,       \* the run under way
    report,    \* github_runs and github_report_rows
    clock,     \* one clock for the board and GitHub
    edits, runs, faults,
    dirty,     \* history: pairs edited since a run last read them, touch and all
    done,      \* history: pairs a run has settled and nobody edited since
    agreed,    \* history: what a run last found or made equal on both sides
    owed,      \* history: edits a run replaced by the other side's
    edited     \* history: when a user last edited a field, on either side

history == <<dirty, done, agreed, owed, edited>>
store == <<todo, issue, pair, touch, stamping, link>>
vars == <<store, running, req, report, clock, edits, runs, faults, history>>

Fields == Scalars \cup {"state"}
Never == 0
Project(status) == IF status = "done" THEN "closed" ELSE "open"
MappedFromRemote(state) == IF state = "closed" THEN "done" ELSE "open"

(* What a side says of a field, as the other side would put it.            *)
OnBoard(t, f) == IF f = "state" THEN Project(todo[t].status) ELSE todo[t].text[f]
OnGitHub(t, f) == IF f = "state" THEN issue[t].state ELSE issue[t].text[f]

FreshPair(text) == [mark |-> "clean", base |-> [text |-> text, state |-> "open", labels |-> {}]]
NoPlan == [write |-> [f \in Fields |-> "none"], next |-> [f \in Fields |-> Gone],
           rows |-> {}, labels |-> {}, toBoard |-> FALSE, toGitHub |-> FALSE]
NoRun == [pc |-> "idle", left |-> {}, cur |-> Gone, base |-> Gone, local |-> Gone,
          seen |-> Gone, at |-> [title |-> Never, state |-> Never], plan |-> NoPlan, rows |-> {}]

-----------------------------------------------------------------------------
(* reconcile: what one run decides about one pair *)

(* Mutant: a tie goes to the board. *)
LocalWinsTies(localAt, remoteAt) == localAt # Never /\ remoteAt # Never /\ localAt >= remoteAt

(* Whole seconds; a tie and a time nobody knows go to GitHub.              *)
LocalWins(localAt, remoteAt) == localAt # Never /\ remoteAt # Never /\ localAt > remoteAt

(* Mutant: a value edited on both sides is a change of the board's. *)
DiffBoardFirst(local, remote, base, localAt, remoteAt) ==
    CASE local = remote -> [write |-> "none", next |-> local, row |-> FALSE]
      [] local # base -> [write |-> "github", next |-> local, row |-> FALSE]
      [] OTHER -> [write |-> "board", next |-> remote, row |-> FALSE]

(* reconcile_scalar and, on the projection, reconcile_state.               *)
Diff(local, remote, base, localAt, remoteAt) ==
    LET toGitHub == [write |-> "github", next |-> local]
        toBoard == [write |-> "board", next |-> remote]
        Row(out, b) == [write |-> out.write, next |-> out.next, row |-> b]
    IN  CASE local = remote -> [write |-> "none", next |-> local, row |-> FALSE]
          [] local # base /\ remote = base -> Row(toGitHub, FALSE)
          [] local = base /\ remote # base -> Row(toBoard, FALSE)
          [] OTHER -> Row(IF LocalWins(localAt, remoteAt) THEN toGitHub ELSE toBoard, TRUE)

(* A close that only GitHub made takes in_progress with it, and says so.   *)
InProgressClose(local, remote, base) ==
    local.status = "in_progress" /\ remote.state = "closed" /\ base.state = "open"

MergedLabels(local, remote, base) ==
    {l \in (base \cup local \cup remote) \ Workflow :
        IF l \in base THEN l \in local /\ l \in remote ELSE TRUE}

BoardLabels(local, merged) == merged \cup (local \cap Workflow)

Reconcile(t) ==
    LET local == req.local
        remote == req.seen
        base == req.base[t]
        Outcome(f) ==
            IF f = "state"
            THEN Diff(Project(local.status), remote.state, base.state, touch[t].state, req.at.state)
            ELSE Diff(local.text[f], remote.text[f], base.text[f], touch[t][f],
                      IF f = "body" THEN remote.updated ELSE req.at.title)
        merged == MergedLabels(local.labels, remote.labels, base.labels)
        close == InProgressClose(local, remote, base)
    IN  [write |-> [f \in Fields |-> Outcome(f).write],
         next |-> [f \in Fields |-> Outcome(f).next],
         rows |-> {f \in Fields : Outcome(f).row \/ (f = "state" /\ close)},
         labels |-> merged,
         toBoard |-> BoardLabels(local.labels, merged) # local.labels,
         toGitHub |-> merged # remote.labels \ Workflow]

(* issue_field_times is asked only when both sides moved.                  *)
NeedsFieldTimes(local, base, remote) ==
    \/ "title" \in Scalars /\ local.text["title"] # base.text["title"] /\ remote.text["title"] # base.text["title"]
    \/ /\ ~(local.status = "in_progress" /\ remote.state = "closed")
       /\ Project(local.status) # base.state /\ remote.state # base.state

(* build_issue_patch: is there anything to send at all?                    *)
Outbound(plan) == plan.toGitHub \/ \E f \in Fields : plan.write[f] = "github"

-----------------------------------------------------------------------------
(* What the histories note *)

(* The run saw the same on both sides, or carried it over.                 *)
Carry(plan, how) ==
    agreed' = [agreed EXCEPT ![req.cur] = [f \in Fields |->
        IF plan.write[f] = how THEN plan.next[f] ELSE @[f]]]

Touched(t) == dirty' = dirty \cup {t} /\ done' = done \ {t}

(* A user acts; the clock may have moved on since the last one.            *)
Act(t) ==
    /\ edits < MaxEdits /\ edits' = edits + 1
    /\ clock' \in {clock, clock + 1}
    /\ Touched(t)
    /\ UNCHANGED <<running, req, report, runs, faults, agreed, owed>>

Edited(t, side, f) == edited' = [edited EXCEPT ![t][side][f] = clock']

-----------------------------------------------------------------------------
(* The board *)

Stamping(t, f) == stamping' = stamping \cup {[todo |-> t, field |-> f, at |-> clock']}

(* One client at a time edits a task: an assumption, patch_todo has no     *)
(* guard against a second one.                                             *)
Editable(t) == todo[t] # Gone /\ \A s \in stamping : s.todo # t

(* patch_todo: the row first, the touch in a statement of its own.         *)
EditText(t, f, v) ==
    /\ Editable(t) /\ todo[t].text[f] # v
    /\ todo' = [todo EXCEPT ![t].text[f] = v]
    /\ Act(t) /\ Stamping(t, f) /\ Edited(t, "board", f)
    /\ UNCHANGED <<issue, pair, touch, link>>

(* move_todo: only crossing the boundary of done is an edit.               *)
MoveTodo(t, s) ==
    /\ Editable(t) /\ todo[t].status # s
    /\ todo' = [todo EXCEPT ![t].status = s]
    /\ Act(t)
    /\ IF Project(s) # Project(todo[t].status)
       THEN Stamping(t, "state") /\ Edited(t, "board", "state")
       ELSE UNCHANGED <<stamping, edited>>
    /\ UNCHANGED <<issue, pair, touch, link>>

EditLabels(t, ls) ==
    /\ Editable(t) /\ todo[t].labels # ls
    /\ todo' = [todo EXCEPT ![t].labels = ls]
    /\ Act(t)
    /\ UNCHANGED <<issue, pair, touch, stamping, link, edited>>

Stamp(s) ==
    /\ touch' = [touch EXCEPT ![s.todo][s.field] = s.at]
    /\ stamping' = stamping \ {s}
    /\ UNCHANGED <<todo, issue, pair, link, running, req, report, clock, edits, runs, faults, history>>

NoTouch == [f \in Fields |-> Never]

(* delete_todo, whose three statements are taken as one.                   *)
DeleteTodo(t) ==
    /\ Editable(t)
    /\ todo' = [todo EXCEPT ![t] = Gone]
    /\ pair' = [pair EXCEPT ![t] = Gone]
    /\ touch' = [touch EXCEPT ![t] = NoTouch]
    /\ Act(t)
    /\ UNCHANGED <<issue, stamping, link, edited>>

Unpair(t) ==
    /\ pair[t] # Gone
    /\ pair' = [pair EXCEPT ![t] = Gone]
    /\ Act(t)
    /\ UNCHANGED <<todo, issue, touch, stamping, link, edited>>

(* prune_runs, its two statements taken as one: the rows of the runs it    *)
(* drops go with them.                                                     *)
Newest(keep) == {r \in report.runs : Cardinality({q \in report.runs : q > r}) < keep}
Pruned(keep) ==
    [runs |-> Newest(keep), rows |-> {o \in report.rows : o[3] \in report.runs => o[3] \in Newest(keep)}]

(* delete_link: the pairs and the reports go with it.                      *)
Unlink ==
    /\ link /\ edits < MaxEdits
    /\ link' = FALSE /\ report' = Pruned(0) /\ owed' = {}
    /\ pair' = [t \in Todos |-> Gone]
    /\ edits' = edits + 1 /\ done' = {}
    /\ UNCHANGED <<todo, issue, touch, stamping, running, req, clock, runs, faults, dirty, agreed, edited>>

-----------------------------------------------------------------------------
(* GitHub *)

EditIssue(t, f, v) ==
    /\ issue[t] # Gone /\ issue[t].text[f] # v
    /\ Act(t)
    /\ issue' = [issue EXCEPT ![t].text[f] = v, ![t].updated = clock',
                              ![t].at.title = IF f = "title" THEN clock' ELSE @]
    /\ Edited(t, "github", f)
    /\ UNCHANGED <<todo, pair, touch, stamping, link>>

SetState(t, s) ==
    /\ issue[t] # Gone /\ issue[t].state # s
    /\ Act(t)
    /\ issue' = [issue EXCEPT ![t].state = s, ![t].updated = clock', ![t].at.state = clock']
    /\ Edited(t, "github", "state")
    /\ UNCHANGED <<todo, pair, touch, stamping, link>>

Relabel(t, ls) ==
    /\ issue[t] # Gone /\ issue[t].labels # ls
    /\ Act(t)
    /\ issue' = [issue EXCEPT ![t].labels = ls, ![t].updated = clock']
    /\ UNCHANGED <<todo, pair, touch, stamping, link, edited>>

(* The issue is deleted or moved to another repository.                    *)
Vanish(t) ==
    /\ issue[t] # Gone
    /\ issue' = [issue EXCEPT ![t] = Gone]
    /\ Act(t)
    /\ UNCHANGED <<todo, pair, touch, stamping, link, edited>>

-----------------------------------------------------------------------------
(* The sync run, one action per await *)

Board == UNCHANGED <<stamping, clock, edits, edited>>
Fault == faults < MaxFaults /\ faults' = faults + 1
Quiet == UNCHANGED <<todo, issue, touch, dirty, done, agreed, owed>> /\ Board

(* A second request meanwhile is refused and changes nothing.              *)
Start ==
    /\ ~running /\ req.pc = "idle" /\ runs < MaxRuns
    /\ running' = TRUE /\ runs' = runs + 1
    /\ req' = [NoRun EXCEPT !.pc = "link"]
    /\ UNCHANGED <<pair, link, report, faults>> /\ Quiet

ReadLink ==
    /\ req.pc = "link"
    /\ IF link THEN req' = [req EXCEPT !.pc = "pairs"] /\ UNCHANGED running
               ELSE req' = NoRun /\ running' = FALSE
    /\ UNCHANGED <<pair, link, report, runs, faults>> /\ Quiet

(* pairs_for_project: the rows, baselines and all, are those of now.       *)
ReadPairs ==
    /\ req.pc = "pairs"
    /\ LET ps == {t \in Todos : pair[t] # Gone /\ pair[t].mark # "remotely-unlinked"}
       IN  req' = [req EXCEPT !.pc = "next", !.left = ps,
                              !.base = [t \in ps |-> pair[t].base]]
    /\ UNCHANGED <<pair, link, running, report, runs, faults>> /\ Quiet

ReadLocal(t) ==
    /\ req.pc = "next" /\ t \in req.left
    /\ req' = IF todo[t] = Gone
              THEN [req EXCEPT !.left = @ \ {t}]
              ELSE [req EXCEPT !.left = @ \ {t}, !.cur = t, !.pc = "issue", !.local = todo[t]]
    /\ dirty' = IF \E s \in stamping : s.todo = t THEN dirty ELSE dirty \ {t}
    /\ UNCHANGED <<todo, issue, touch, pair, link, running, report, runs, faults, done, agreed, owed>> /\ Board

At(pc) == [req EXCEPT !.pc = pc]
Skip == [req EXCEPT !.pc = "next", !.cur = Gone, !.local = Gone, !.seen = Gone,
                    !.at = NoRun.at, !.plan = NoPlan]

(* handle_port_error: what concerns one pair is marked on it, anything     *)
(* else ends the loop.                                                     *)
Marked(mark) == [pair EXCEPT ![req.cur] = IF @ = Gone THEN Gone ELSE [@ EXCEPT !.mark = mark]]
PortFails ==
    \/ /\ issue[req.cur] = Gone
       /\ pair' = Marked("remotely-unlinked") /\ req' = Skip /\ UNCHANGED faults
    \/ /\ Fault /\ pair' = Marked("errored") /\ req' = Skip
    \/ /\ Fault /\ req' = [Skip EXCEPT !.pc = "finish", !.left = {}] /\ UNCHANGED pair

GetIssue ==
    /\ req.pc = "issue"
    /\ \/ /\ issue[req.cur] # Gone
          /\ req' = [req EXCEPT !.seen = issue[req.cur],
                                !.pc = IF NeedsFieldTimes(req.local, req.base[req.cur], issue[req.cur])
                                       THEN "times" ELSE "touch"]
          /\ UNCHANGED <<pair, faults>>
       \/ PortFails
    /\ UNCHANGED <<link, running, report, runs>> /\ Quiet

FieldTimes ==
    /\ req.pc = "times"
    /\ \/ /\ issue[req.cur] # Gone
          /\ req' = [req EXCEPT !.at = issue[req.cur].at, !.pc = "touch"]
          /\ UNCHANGED <<pair, faults>>
       \/ PortFails
    /\ UNCHANGED <<link, running, report, runs>> /\ Quiet

(* The touch is read last; then the plan is made.                          *)
Plan ==
    /\ req.pc = "touch"
    /\ LET plan == Reconcile(req.cur)
       IN  /\ req' = [req EXCEPT !.plan = plan, !.pc = IF Outbound(plan) THEN "patch" ELSE "board"]
           /\ Carry(plan, "none")
    /\ UNCHANGED <<todo, issue, pair, touch, link, running, report, runs, faults, dirty, done, owed>> /\ Board

(* GitHub takes the patch: every field it names, and all the labels.       *)
Patched ==
    LET Sent(f) == req.plan.write[f] = "github"
        next == req.plan.next
    IN  [issue EXCEPT ![req.cur] =
            [text |-> [f \in Scalars |-> IF Sent(f) THEN next[f] ELSE @.text[f]],
             state |-> IF Sent("state") THEN next["state"] ELSE @.state,
             labels |-> IF req.plan.toGitHub THEN req.plan.labels ELSE @.labels,
             updated |-> clock,
             at |-> [title |-> IF "title" \in Scalars /\ Sent("title") THEN clock ELSE @.at.title,
                     state |-> IF Sent("state") THEN clock ELSE @.at.state]]]

(* Edits that the other side has not got and that a write replaces; what   *)
(* was edited after the run had read the pair is not among them.           *)
Replaced(side, Holds(_)) ==
    {f \in Fields :
        /\ req.cur \notin dirty /\ req.plan.write[f] = side
        /\ Holds(f) # agreed[req.cur][f] /\ Holds(f) # req.plan.next[f]}
ReplacedOnGitHub == Replaced("github", LAMBDA f : OnGitHub(req.cur, f))
ReplacedOnBoard == Replaced("board", LAMBDA f : OnBoard(req.cur, f))
Owing(fs) == owed' = owed \cup {<<req.cur, f, runs>> : f \in fs}

(* The answer may be lost when the patch is through.                       *)
Patch ==
    /\ req.pc = "patch"
    /\ \/ /\ issue[req.cur] # Gone
          /\ issue' = Patched
          /\ Owing(ReplacedOnGitHub)
          /\ Carry(req.plan, "github")
          /\ \/ req' = At("board") /\ UNCHANGED faults
             \/ Fault /\ req' = [Skip EXCEPT !.pc = "finish", !.left = {}]
          /\ UNCHANGED pair
       \/ PortFails /\ UNCHANGED <<issue, owed, agreed>>
    /\ UNCHANGED <<todo, touch, link, running, report, runs, dirty, done>> /\ Board

(* apply_local_writes: no touch, and the status only as GitHub knows it.   *)
WriteBoard ==
    LET Brought(f) == req.plan.write[f] = "board"
        next == req.plan.next
        old == todo[req.cur]
    IN  /\ req.pc = "board"
        /\ todo' = IF old = Gone THEN todo ELSE
                   [todo EXCEPT ![req.cur] =
                      [text |-> [f \in Scalars |-> IF Brought(f) THEN next[f] ELSE old.text[f]],
                       status |-> IF Brought("state") THEN MappedFromRemote(next["state"]) ELSE old.status,
                       labels |-> IF req.plan.toBoard THEN BoardLabels(req.local.labels, req.plan.labels)
                                  ELSE old.labels]]
        /\ IF old = Gone THEN UNCHANGED owed
           ELSE Owing(ReplacedOnBoard \cup
                      {f \in {"state"} : Brought(f) /\ old.status = "in_progress" /\ req.cur \notin dirty})
        /\ req' = At("base")
        /\ Carry(req.plan, "board")
        /\ UNCHANGED <<issue, pair, touch, link, running, report, runs, faults, dirty, done>> /\ Board

(* Mutant: the baseline is what the board held when the run read it. *)
NextBaselineLocal == [text |-> req.local.text, state |-> Project(req.local.status), labels |-> req.plan.labels]
NextBaseline ==
    [text |-> [f \in Scalars |-> req.plan.next[f]], state |-> req.plan.next["state"], labels |-> req.plan.labels]

WriteBaseline ==
    /\ req.pc = "base"
    /\ pair' = [pair EXCEPT ![req.cur] = IF @ = Gone THEN Gone ELSE [@ EXCEPT !.base = NextBaseline]]
    /\ req' = At("mark")
    /\ UNCHANGED <<link, running, report, runs, faults>> /\ Quiet

SetMark ==
    /\ req.pc = "mark"
    /\ pair' = Marked(IF req.plan.rows = {} THEN "clean" ELSE "overwritten")
    /\ req' = [Skip EXCEPT !.rows = @ \cup {<<req.cur, f, runs>> : f \in req.plan.rows}]
    /\ done' = IF pair[req.cur] = Gone THEN done ELSE done \cup ({req.cur} \ dirty)
    /\ UNCHANGED <<todo, issue, touch, link, running, report, runs, faults, dirty, agreed, owed>> /\ Board

(* The link is written back as it was read, with the time of the run.      *)
WriteLink ==
    /\ req.pc = "finish" \/ (req.pc = "next" /\ req.left = {})
    /\ link' = TRUE
    /\ req' = At("record")
    /\ UNCHANGED <<pair, running, report, runs, faults>> /\ Quiet

(* insert_run                                                              *)
RecordRun ==
    /\ req.pc = "record"
    /\ report' = [report EXCEPT !.runs = @ \cup {runs}]
    /\ req' = At("rows")
    /\ UNCHANGED <<pair, link, running, runs, faults>> /\ Quiet

(* insert_report_rows, taken as one.                                       *)
RecordRows ==
    /\ req.pc = "rows"
    /\ report' = [report EXCEPT !.rows = @ \cup req.rows]
    /\ req' = [req EXCEPT !.pc = "prune", !.rows = {}]
    /\ UNCHANGED <<pair, link, running, runs, faults>> /\ Quiet

(* prune_runs, and RUNNING is free again.                                  *)
Prune ==
    /\ req.pc = "prune"
    /\ report' = Pruned(KeepRuns)
    /\ req' = NoRun /\ running' = FALSE
    /\ UNCHANGED <<pair, link, runs, faults>> /\ Quiet

Record == RecordRun \/ RecordRows \/ Prune

(* A statement of the database fails: a pair ends the loop, the rest the   *)
(* run.                                                                    *)
StatementFails ==
    /\ Fault
    /\ \/ /\ req.pc \in {"touch", "board", "base", "mark"} \/ (req.pc = "next" /\ req.left # {})
          /\ req' = [Skip EXCEPT !.pc = "finish", !.left = {}] /\ UNCHANGED running
       \/ /\ req.pc \in {"link", "pairs", "finish", "record", "rows", "prune"} \/ (req.pc = "next" /\ req.left = {})
          /\ req' = NoRun /\ running' = FALSE
    /\ UNCHANGED <<pair, link, report, runs>> /\ Quiet

(* The client hangs up: the run is dropped where it stands.                *)
HangUp ==
    /\ req.pc # "idle" /\ Fault
    /\ req' = NoRun
    /\ UNCHANGED <<pair, link, running, report, runs>> /\ Quiet

(* The daemon restarts.                                                    *)
Restart ==
    /\ Fault
    /\ running' = FALSE /\ req' = NoRun /\ stamping' = {}
    /\ UNCHANGED <<todo, issue, pair, touch, link, report, clock, edits, runs, history>>

-----------------------------------------------------------------------------
Init ==
    LET text == [f \in Scalars |-> FirstText]
    IN  /\ todo = [t \in Todos |-> [text |-> text, status |-> "open", labels |-> {}]]
        /\ issue = [t \in Todos |-> [text |-> text, state |-> "open", labels |-> {}, updated |-> 1,
                                     at |-> [title |-> Never, state |-> Never]]]
        /\ pair = [t \in Todos |-> FreshPair(text)]
        /\ touch = [t \in Todos |-> NoTouch]
        /\ agreed = [t \in Todos |-> [f \in Fields |-> IF f = "state" THEN "open" ELSE text[f]]]
        /\ stamping = {} /\ link = TRUE /\ running = FALSE /\ req = NoRun
        /\ report = [runs |-> {}, rows |-> {}]
        /\ clock = 1 /\ edits = 0 /\ runs = 0 /\ faults = 0
        /\ dirty = {} /\ done = Todos /\ owed = {}
        /\ edited = [t \in Todos |-> [side \in {"board", "github"} |-> [f \in Fields |-> Never]]]

User ==
    \/ \E t \in Todos, f \in Scalars, v \in Texts : EditText(t, f, v) \/ EditIssue(t, f, v)
    \/ \E t \in Todos, s \in {"open", "in_progress", "done"} : MoveTodo(t, s)
    \/ \E t \in Todos, s \in {"open", "closed"} : SetState(t, s)
    \/ \E t \in Todos, ls \in SUBSET Labels : EditLabels(t, ls) \/ Relabel(t, ls)
    \/ \E t \in Todos : DeleteTodo(t) \/ Unpair(t) \/ Vanish(t)
    \/ Unlink
    \/ \E s \in stamping : Stamp(s)

Run ==
    \/ Start \/ ReadLink \/ ReadPairs \/ GetIssue \/ FieldTimes \/ Plan \/ Patch
    \/ WriteBoard \/ WriteBaseline \/ SetMark \/ WriteLink \/ Record
    \/ \E t \in Todos : ReadLocal(t)

Next == User \/ Run \/ StatementFails \/ HangUp \/ Restart

Spec == Init /\ [][Next]_vars

-----------------------------------------------------------------------------
(* Types *)

Sides == {"board", "github"}
TextType == [Scalars -> Texts]
BaseType == [text : TextType, state : {"open", "closed"}, labels : SUBSET (Labels \ Workflow)]
TodoType == [text : TextType, status : {"open", "in_progress", "done"}, labels : SUBSET Labels]
IssueType == [text : TextType, state : {"open", "closed"}, labels : SUBSET Labels, updated : Nat,
              at : [title : Nat, state : Nat]]
PairType == [mark : {"clean", "overwritten", "errored", "remotely-unlinked"}, base : BaseType]

(* The store keeps its shape, whatever a run makes of it: a workflow label *)
(* is never part of a baseline.                                            *)
TypeOK ==
    /\ todo \in [Todos -> TodoType \cup {Gone}]
    /\ issue \in [Todos -> IssueType \cup {Gone}]
    /\ pair \in [Todos -> PairType \cup {Gone}]
    /\ touch \in [Todos -> [Fields -> Nat]]
    /\ link \in BOOLEAN /\ running \in BOOLEAN

-----------------------------------------------------------------------------
(* Properties *)

(* Task, issue and baseline say the same of every field.                   *)
InSync(t) ==
    /\ \A f \in Scalars : todo[t].text[f] = pair[t].base.text[f] /\ issue[t].text[f] = pair[t].base.text[f]
    /\ Project(todo[t].status) = pair[t].base.state /\ issue[t].state = pair[t].base.state
    /\ todo[t].labels \ Workflow = pair[t].base.labels /\ issue[t].labels \ Workflow = pair[t].base.labels

(* One run is enough: a pair it has settled and nobody has edited since it *)
(* was read agrees in all its fields, and no later run, failing or dropped *)
(* as it may be, takes that away.                                          *)
OneRunIsEnough == \A t \in done : todo[t] # Gone /\ issue[t] # Gone /\ pair[t] # Gone => InSync(t)

(* As long as nothing fails, every edit that a run replaced by the edit of *)
(* the other side, and every in_progress it took, is on a report when the  *)
(* run is over, and stays there for the runs whose reports are kept.       *)
OverwritesReported ==
    req.pc = "idle" /\ faults = 0 => \A o \in owed : o[3] > runs - KeepRuns => o \in report.rows

(* As long as nothing fails, the later edit of a title wins, a tie going   *)
(* to GitHub; of a body GitHub knows the time of any change of the issue   *)
(* only, so it may win with an earlier one.  A state has two values: two   *)
(* edits of it never contradict each other.                                *)
LaterEditWins ==
    [][faults = 0 /\ req.pc \in {"patch", "board"} /\ req' # req =>
          LET when == edited[req.cur]
          IN  /\ req.pc = "patch" /\ issue' # issue =>
                 \A f \in ReplacedOnGitHub : when["board"][f] > when["github"][f]
              /\ req.pc = "board" /\ todo' # todo =>
                 \A f \in ReplacedOnBoard \ {"body"} : when["board"][f] <= when["github"][f]]_vars

-----------------------------------------------------------------------------
(* What does not hold: see the README for the traces *)

(* mod.rs:44: a run that is dropped leaves its project in RUNNING.         *)
RefusedOnlyWhileRunning == running => req.pc # "idle"

(* mod.rs:95: a run that was under way brings the link of its start back.  *)
UnlinkedStaysUnlinked == [][link' => link]_vars
=============================================================================
