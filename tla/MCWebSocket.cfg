SPECIFICATION WsSpec
CONSTANTS
    Senders = {s1}
    HeartBeats = {}
    Closers = {c1, t1}
    Stoppers = {t1}
    Nil = nil
    SendQueueMaxLen = 3
    OwnMaxLen = 1
    IsConnector = TRUE
    MaxStarts = 2
    MaxSends = 4
    Panics = TRUE
    Reconnect = TRUE
    IsClient = TRUE
    FailLimit = 3
    s1 = s1
    c1 = c1
    t1 = t1
    nil = nil
INVARIANT WsOwnerReady
INVARIANT NeverNoticed
PROPERTY SpinEnds
CHECK_DEADLOCK FALSE
