SPECIFICATION FairSpec
CONSTANTS
    Keys = {k1}
    Threads = {t1, t2}
    TTL = 1
    Absent = Absent
    MaxTime = 3
    MaxStarts = 2
INVARIANT TypeOK
PROPERTY FreshKept
PROPERTY ExpiredGo
PROPERTY StopEnds
CHECK_DEADLOCK FALSE
