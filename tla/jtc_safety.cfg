SPECIFICATION Spec
CONSTANTS
    None = None
    Users = {u1}
    Lobbies = {p1}
    Temps = {t1}
    Handlers = {h1, h2}
    MaxQueue = 1
    MaxFaults = 1
    MaxCrashes = 1
    MaxAdmin = 1
    MaxNoise = 1
SYMMETRY Symmetry
INVARIANT TypeOK
INVARIANT ActiveHasParent
INVARIANT TrackedOrLost
CHECK_DEADLOCK FALSE
