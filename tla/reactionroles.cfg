SPECIFICATION Spec
CONSTANTS
    None = None
    Bot = Bot
    Users = {u1}
    Emojis = {e1, e2}
    Roles = {r1}
    Handlers = {h1, h2}
    MaxRequests = 3
    MaxFaults = 1
SYMMETRY Symmetry
INVARIANT TypeOK
INVARIANT InSync
INVARIANT ShownOrSpoiled
PROPERTY FixRestores
CHECK_DEADLOCK FALSE
