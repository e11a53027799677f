SPECIFICATION Spec
CONSTANTS
    Half = 8
    Numbers = {0, 1, 2, 3, 5, 7}
    Kilo = 4
    MaxBody = 5
INVARIANT TypeOK
INVARIANT RoutesGuarded
INVARIANT BodyWhole
INVARIANT LimitEnforced
INVARIANT LogTellsAnswer

