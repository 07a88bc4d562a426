SPECIFICATION Spec
CONSTANTS
    Worker = {w1, w2}
    Targets = 1
    AtMaxDepth = FALSE
    HasConcept = FALSE
    Tries = 2
    MaxKills = 0
    MaxRetries = 1
    MaxLost = 0
SYMMETRY Symmetry
CHECK_DEADLOCK FALSE
INVARIANTS
    CutHasCause
