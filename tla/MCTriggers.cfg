SPECIFICATION FairSpec
CONSTANTS
    a1 = a1
    a2 = a2
    a3 = a3
    a4 = a4
    a5 = a5
    a6 = a6
    a7 = a7
    skip1 = skip1
    once2 = once2
    hook3 = hook3
    sess4 = sess4
    daily5 = daily5
    after6 = after6
    broken7 = broken7
    k1 = k1
    k2 = k2
    d1 = d1
    Autos <- MCAutos
    Scenes <- MCScenes
    Trigs <- MCTrigs
    AutoOf <- MCAuto
    Kind <- MCKind
    Slots <- MCSlots
    OnMissed <- MCOnMissed
    Source <- MCSource
    FreshWindow = 1
    StaleWindow = 1
    RunsPage = 1
    None = None
    MaxCrashes = 1
    MaxFaults = 1
    MaxEdits = 1
    Chats <- MCChats
    OwnedChats <- MCOwned
    Deliveries <- MCDeliveries
    MaxTime = 3
    MaxTurns = 2
    MaxRuns = 3
INVARIANTS
    FiredOnce
    SweptIsFired
    AcceptedHasRun
    ChainFollowsEnd
PROPERTIES
    ChainFires
CHECK_DEADLOCK FALSE
