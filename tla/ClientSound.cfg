SPECIFICATION SoundSpec
CONSTANTS
    None = None
    MaxPlayers = 3
    Grades <- MCGrades
    Interruptions = TRUE
    Effect = {step, flip, sheet}
    Meaning = {step}
    Big = {sheet}
    Twice = {flip}
    PoolSize = 3
    MaxSeeks = 1
    Levels <- MCLevels
    Fragile = {"arp"}
    Unset = Unset
    Uri = {x, y}
    MusicName = {bed, arrival}
    MaxTries = 2
INVARIANTS
    MusicIsSound
    EffectsAreHeard
    WebSoundIsSound
PROPERTIES
    LayersSettle
CHECK_DEADLOCK FALSE
