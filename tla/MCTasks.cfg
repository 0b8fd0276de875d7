SPECIFICATION FairSpec
CONSTANTS
    b1 = b1
    g1 = g1
    Tasks <- MCTasks
    Bash <- MCBash
    Pids <- MCPids
    Trials <- MCTrials
    None = None
INVARIANTS
    OnlyGoneAreStopped
    NothingPinned
PROPERTIES
    GoneIsNoticed
CHECK_DEADLOCK FALSE
