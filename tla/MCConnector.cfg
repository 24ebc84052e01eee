SPECIFICATION LeavingSpec
CONSTANTS
    Senders = {h1}
    HeartBeats = {h1}
    Closers = {c1, t1}
    Stoppers = {t1}
    Nil = nil
    SendQueueMaxLen = 1
    OwnMaxLen = 1
    IsConnector = TRUE
    MaxStarts = 3
    MaxSends = 2
    Panics = TRUE
    Reconnect = TRUE
    MaxLaunches = 2
    h1 = h1
    c1 = c1
    t1 = t1
    nil = nil
INVARIANT OwnerReady
INVARIANT EventsPaired
INVARIANT WaitedStopIsOver
INVARIANT NeverBlocks
PROPERTY StopReturns
CHECK_DEADLOCK FALSE
