SPECIFICATION Spec
CONSTANTS
    t1 = t1
    t2 = t2
    bug = bug
    wip = wip
    Todos <- MCTodos
    Scalars <- MCScalars
    Texts <- MCTexts
    FirstText = "old"
    Labels <- MCLabels
    Workflow <- MCWorkflow
    Gone = Gone
    KeepRuns = 1
    MaxEdits = 2
    MaxRuns = 2
    MaxFaults = 2
INVARIANTS
    OneRunIsEnough
    OverwritesReported
PROPERTIES
    LaterEditWins
CHECK_DEADLOCK FALSE
