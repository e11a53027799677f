SPECIFICATION Spec
CONSTANTS
    None = None
    Users = {u1, u2}
    Roles = {r1}
    Triggers = {"first_reaction"}
    Reaction = "first_reaction"
    Handlers = {h1, h2}
    Requests = {q1, q2}
    MaxFaults = 1
INVARIANT TypeOK
INVARIANT RoundsBounded
INVARIANT FiredWasServed
INVARIANT LeftoverBounded
SYMMETRY Symmetry
CHECK_DEADLOCK FALSE
