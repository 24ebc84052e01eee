SPECIFICATION Spec
CONSTANTS
    Senders = {s1}
    HeartBeats = {}
    Closers = {c1}
    Nil = nil
    SendQueueMaxLen = 2
    OwnMaxLen = 2
    IsConnector = FALSE
    MaxStarts = 1
    MaxSends = 2
    Panics = FALSE
    s1 = s1
    h1 = h1
    c1 = c1
    nil = nil
INVARIANT NoSendAfterClose
CHECK_DEADLOCK FALSE
