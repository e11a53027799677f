SPECIFICATION FairSpec
CONSTANTS
    Keys = {k1}
    Threads = {t1, t2}
    TTL = 1
    Absent = Absent
    MaxTime = 3
    MaxStarts = 1
CHECK_DEADLOCK FALSE
PROPERTY CleanupStarts
