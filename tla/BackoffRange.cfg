CONSTANTS
    W = 6
    Precision = 3
    Second = 3
    Waits <- SmallWaits
    RetryAfters <- SomeSeconds
    InfiniteAt = 8
    MaxAttempts = 9
SPECIFICATION Spec
INVARIANTS
    ExponentialInRange
    ExponentialReachesMaximum
    LinearInRange
    TypeOK
PROPERTY ExponentialNeverShrinks
