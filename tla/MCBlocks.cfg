SPECIFICATION FairSpec
CONSTANTS
    Kind <- NestKind
    Body <- NestBody
    Root = "root"
    Parent <- NestParent
    KeepGoing <- NestKeepGoing
    Count <- NestCount
    Concurrency <- NestConcurrency
    MaxItems = 3
    Test <- NestTest
    Until <- Loops
    MaxCrashes = 1
INVARIANTS
    VerdictIsEarned
    StartsInOrder
    WindowKept
    AttemptsInOrder
PROPERTIES
    EventuallyEnds
CHECK_DEADLOCK FALSE
