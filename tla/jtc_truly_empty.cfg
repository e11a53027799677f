SPECIFICATION Spec
CONSTANTS
    None = None
    Users = {u1, u2}
    Lobbies = {p1}
    Temps = {t1}
    Handlers = {h1, h2}
    MaxQueue = 2
    MaxFaults = 0
    MaxCrashes = 0
    MaxAdmin = 0
    MaxNoise = 0
PROPERTY TrulyEmpty
CHECK_DEADLOCK FALSE
