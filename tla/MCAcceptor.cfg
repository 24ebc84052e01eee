SPECIFICATION FairSpec
CONSTANTS
    Conns = {c1, c2}
    Stoppers = {t1}
    MaxLaunches = 2
    MaxStops = 2
    c1 = c1
    c2 = c2
    t1 = t1
INVARIANT FlagBelongsToStop
INVARIANT StopWgCounts
INVARIANT ListenerServed
PROPERTY StopReturns
CHECK_DEADLOCK FALSE
