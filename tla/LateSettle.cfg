SPECIFICATION Spec
CONSTANTS
    Step <- SoloStep
    Kind <- SoloKind
    Program <- Solo
    KeepGoing <- A1
    Timed <- A1
    Expects <- None
    Idempotent <- None
    NoOne = NoOne
    Lossy = FALSE
    MaxCrashes = 0
    MaxCancels = 0
    MayDrop = FALSE
PROPERTIES
    SettledStays
CHECK_DEADLOCK FALSE
