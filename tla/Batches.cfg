SPECIFICATION PartsSpec
CONSTANTS
    Batch = {1}
    Id = {1, 2}
    Content <- MCContent
    Worker = {w1, w2}
    MaxHops = 1
    Tries = 2
    MaxFaults = 1
    MaxRetries = 1
    Norm = {"a", "b"}
    Writer = {s1, s2}
    Localizer = {l1}
    Graphs <- MCGraphs
    MaxGraphs = 1
    MaxWords = 1
    Nobody = Nobody
    Given = Given
    Grade = 3
CHECK_DEADLOCK FALSE
INVARIANTS
    TypeOK
    SucceededMeansDone
    NothingIsLost
    OneJobPerKeyUnlessRaced
    StoreIsSound
PROPERTIES
    RunRests
