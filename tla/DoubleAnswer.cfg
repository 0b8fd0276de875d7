SPECIFICATION Spec
CONSTANTS
    r1 = r1
    r2 = r2
    c1 = c1
    c2 = c2
    Placeholder = Placeholder
    Requests <- MCRequests
    Clients <- MCClients
    Plans <- None
    CancelledMemory = 1
    MaxTurns = 1
    MaxFaults = 0
PROPERTIES
    AnsweredOnce
CHECK_DEADLOCK FALSE
