SPECIFICATION FairSpec
CONSTANTS
    None = None
    Users = {u1, u2}
    Lobbies = {p1}
    Temps = {t1}
    Handlers = {h1, h2}
    MaxQueue = 1
    MaxFaults = 0
    MaxCrashes = 0
    MaxAdmin = 0
    MaxNoise = 0
PROPERTY JoinServed
PROPERTY EmptiedIsRemoved
CHECK_DEADLOCK FALSE
