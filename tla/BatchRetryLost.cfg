SPECIFICATION Spec
CONSTANTS
    Batch = {1, 2}
    Id = {1, 2, 3}
    Content <- MCContent
    Worker = {w1, w2}
    MaxHops = 1
    Tries = 2
    MaxFaults = 0
    MaxRetries = 1
SYMMETRY Symmetry
CHECK_DEADLOCK FALSE
INVARIANTS
    PendingHasJob
