CONSTANTS
    RetryMaxCount = 2
    CustomPolicy = TRUE
    HasHook = TRUE
    Statuses = {200, 404}
    TransportErrKinds = {"network"}
    PayloadLen = 1
    SlowLog = TRUE
    SlowLatency = 0
    IgnoreNotFound = TRUE
    AccessLog = TRUE
    MaxTime = 2
SPECIFICATION LogSpec
INVARIANTS
    LogTypeOK
    EveryAttemptObserved
    LatencyOfAttempt
    AttemptsWithinLimit
PROPERTY Transparent
