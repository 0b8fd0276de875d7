SPECIFICATION FairSpec
CONSTANTS
    b1 = b1
    g1 = g1
    Tasks <- MCTasks
    Bash <- MCBash
    Pids <- MCPids
    Trials <- AgentOnly
    None = None
INVARIANTS
    ExitEndsAgents
CHECK_DEADLOCK FALSE
