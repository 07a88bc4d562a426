SPECIFICATION FairSpec
CONSTANTS
    Worker = {w1, w2}
    Targets = 2
    AtMaxDepth = FALSE
    HasConcept = FALSE
    Tries = 2
    MaxKills = 1
    MaxRetries = 1
    MaxLost = 1
CHECK_DEADLOCK FALSE
INVARIANTS
    TypeOK
    ChainIsSound
    OneLiveJob
PROPERTIES
    StagesAreKept
    ChainsEnd
