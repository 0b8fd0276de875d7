SPECIFICATION FairSpec
CONSTANTS
    Step <- MixStep
    Kind <- MixKind
    Program <- Mix
    KeepGoing <- X1
    Timed <- A1
    Expects <- None
    Idempotent <- None
    NoOne = NoOne
    Lossy = TRUE
    MaxCrashes = 1
    MaxCancels = 1
    MayDrop = TRUE
INVARIANTS
    PrefilterExact
    NotStranded
    EffectAtMostOnce
PROPERTIES
    KeepsContract
    Terminates
CHECK_DEADLOCK FALSE
