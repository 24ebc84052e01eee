SPECIFICATION FramingSpec
CONSTANTS
    Messages <- MCMessages
    Known = {1, 2, 6}
    HandShakeNtf = 6
    PingAck = 2
    Keys = {k1, k2}
    BadKeys = {k2}
    NoKey = none
    RSA = rsa
    W = 8
    Block = 2
    RSAText = 1
    RSALen = 3
    DefaultMax = 4
    Sizes = {9}
    Garbage <- MCGarbage
    MaxMsgs = 3
    k1 = k1
    k2 = k2
    none = none
    rsa = rsa
INVARIANT InOrder
INVARIANT Intact
PROPERTY AllRead
CHECK_DEADLOCK FALSE
