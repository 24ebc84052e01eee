SPECIFICATION FairSpec
CONSTANTS
    Senders = {s1, h1}
    HeartBeats = {h1}
    Closers = {c1}
    Nil = nil
    SendQueueMaxLen = 2
    OwnMaxLen = 1
    IsConnector = TRUE
    MaxStarts = 2
    MaxSends = 2
    Panics = TRUE
    s1 = s1
    h1 = h1
    c1 = c1
    nil = nil
INVARIANT TypeOK
INVARIANT ClosedWhenUnused
INVARIANT RemovedIsOver
INVARIANT ConnWhileRunning
PROPERTY ClosedConnEnds
PROPERTY ReadErrorEnds
CHECK_DEADLOCK FALSE
