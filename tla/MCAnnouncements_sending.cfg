SPECIFICATION FairSpec
CONSTANTS
    Users = {u1}
    Requests = {r1, r2}
    Keys = {k1}
    NoKey = NoKey
    Workers = {w1, w2}
    NoWorker = NoWorker
    MaxAttempts = 2
    MarksMayFail = FALSE
    MaxSends = 2
    MaxFaults = 2
PROPERTIES
    ImplementsLifecycle
    SendingSettles
CHECK_DEADLOCK FALSE
