SPECIFICATION FairTunnels
CONSTANTS
    t1 = t1
    r1 = r1
    r2 = r2
    r3 = r3
    Ports <- MCPorts
    Requests <- MCRequests
    MaxChildren = 3
    Nil = Nil
INVARIANTS
    OneStartPerPort
    StopStops
    NoTunnelLost
PROPERTIES
    WaitersHear
CHECK_DEADLOCK FALSE
