SPECIFICATION Spec
CONSTANTS
    Worker = {w1, w2}
    Key = {a, b, c}
    Roots = {a}
    Stored = {}
    MaxDepth = 1
    MaxConcepts = 3
    Count = 2
    Tries = 2
    MaxKills = 0
    MaxTimeouts = 1
    MaxDbErrors = 0
    MaxRetries = 0
    MaxKinds = 1
SYMMETRY Symmetry
CHECK_DEADLOCK FALSE
INVARIANTS
    BudgetIsReleased
