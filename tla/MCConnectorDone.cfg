SPECIFICATION ConnectorSpec
CONSTANTS
    Senders = {h1}
    HeartBeats = {h1}
    Closers = {c1, t1}
    Stoppers = {t1}
    Nil = nil
    SendQueueMaxLen = 1
    OwnMaxLen = 1
    IsConnector = TRUE
    MaxStarts = 2
    MaxSends = 1
    Panics = FALSE
    Reconnect = TRUE
    MaxLaunches = 1
    h1 = h1
    c1 = c1
    t1 = t1
    nil = nil
INVARIANT DoneAnswersStop
CHECK_DEADLOCK FALSE
