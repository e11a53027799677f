SPECIFICATION FairSpec
CONSTANTS
    MaxRows = 4
    DefaultLimit = 2
    MaxLimit = 3
    MaxInt = 4
    MaxInitial = 3
    MaxFaults = 1
    MaxTime = 3
INVARIANT TypeOK
INVARIANT Complete
INVARIANT NoRepeats
PROPERTY WalkEnds
CHECK_DEADLOCK FALSE
