SPECIFICATION Spec
CONSTANTS
    Callers = {c1, c2, c3}
    Rate = 3
    Burst = 2
    MaxTime = 14
    MaxCancels = 2
INVARIANT TypeOK
INVARIANT RateBound
INVARIANT ReservedApart
INVARIANT DebtBounded
PROPERTY PromptUncancelled
CHECK_DEADLOCK FALSE
