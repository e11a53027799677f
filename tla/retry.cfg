SPECIFICATION RetryFairSpec
CONSTANTS
    MaxAttempts = 3
    BaseDelay = 2
    MaxDelay = 3
    Half = 5
INVARIANT TransientRetried
INVARIANT DelayBounded
PROPERTY KeepsPromise
PROPERTY Returns
CHECK_DEADLOCK FALSE
