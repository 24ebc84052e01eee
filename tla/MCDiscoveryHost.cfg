SPECIFICATION DiscoverySpec
CONSTANTS
    Procs = {p1, p2}
    Zones = {10}
    serviceZone = 1
    None = none
    LeaseTTL = 1
    DebugMode = FALSE
    MaxTime = 2
    MaxRev = 4
    p1 = p1
    p2 = p2
    none = none
INVARIANT SameHost
CHECK_DEADLOCK FALSE
