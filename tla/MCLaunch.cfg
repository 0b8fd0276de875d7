SPECIFICATION FairSpec
CONSTANTS
    n1 = n1
    c1 = c1
    c2 = c2
    Names <- OneName
    Pids <- MCPids
    Callers <- MCCallers
    MaxProcs = 2
    MaxCrashes = 2
    MaxStrangers = 1
    None = None
INVARIANTS
    OnlyOursSignalled
    OrphansReaped
    RunningIsRecorded
    EndIsShown
PROPERTIES
    AskedIsRun
    StopComesBack
CHECK_DEADLOCK FALSE
