SPECIFICATION FairSpec
CONSTANTS
    r1 = r1
    r2 = r2
    c1 = c1
    c2 = c2
    Placeholder = Placeholder
    Requests <- MCRequests
    Clients <- MCClients
    Plans <- MCPlans
    CancelledMemory = 1
    MaxTurns = 2
    MaxFaults = 1
INVARIANTS
    FrontIsShown
    NothingLost
PROPERTIES
    WithdrawnStaysUnanswered
    EveryPromptShown
CHECK_DEADLOCK FALSE
