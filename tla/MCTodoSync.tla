----------------------------- MODULE MCTodoSync -----------------------------
(* An instance of TodoSync for TLC.                                        *)
EXTENDS TodoSync
CONSTANTS t1, t2, bug, wip
MCTodos == {t1}
MCTwoTodos == {t1, t2}
MCTitle == {"title"}
MCScalars == {"title", "body"}
MCTexts == {"old", "new", "other"}
MCLabels == {bug, wip}
MCWorkflow == {wip}
=============================================================================
