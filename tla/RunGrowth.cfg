SPECIFICATION FairSpec
CONSTANTS
    Worker = {w1, w2}
    Key = {a, b, c, d}
    Roots = {a}
    Stored = {}
    MaxDepth = 2
    MaxConcepts = 3
    Count = 2
    Tries = 2
    MaxKills = 1
    MaxTimeouts = 1
    MaxDbErrors = 1
    MaxRetries = 1
    MaxKinds = 1
CHECK_DEADLOCK FALSE
INVARIANTS
    TypeOK
    BudgetIsSound
    TreeGrowsDownwards
    EveryNodeHasJobIfUndisturbed
PROPERTIES
    EveryNodeIsExpanded
