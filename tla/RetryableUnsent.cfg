SPECIFICATION Spec
CONSTANTS
    c1 = c1
    c2 = c2
    Calls = {c1, c2}
    Programs <- MCPrograms
    MaxAttempts = 2
    Wall = {2}
    Leaps = {2}
CHECK_DEADLOCK FALSE
INVARIANT RetryableMeansUnsent
