SPECIFICATION FairSpec
CONSTANTS
    Requests = {r1, r2}
    Addrs = {a1}
    GlobalRate = 1
    AuthRate = 1
    UnauthRate = 2
    GlobalBurst = 2
    AuthBurst = 1
    UnauthBurst = 0
    Expiry = 2
    MaxTime = 3
    MaxRequests = 3
INVARIANT RatesHold
INVARIANT BucketsBounded
PROPERTY GlobalIsLimiter
PROPERTY ForgetsOnlyFull
PROPERTY IdleForgotten
CHECK_DEADLOCK FALSE
