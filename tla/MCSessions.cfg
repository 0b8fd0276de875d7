SPECIFICATION FairSpec
CONSTANTS
    s1 = s1
    s2 = s2
    Senders <- MCSenders
    MaxSessions = 2
    MaxCells = 2
    MaxEnds = 1
    MaxCancels = 1
INVARIANTS
    OneStart
    NoOrphan
    BadgeHonest
    BusyIsWorking
PROPERTIES
    WorkSettles
CHECK_DEADLOCK FALSE
