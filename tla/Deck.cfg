SPECIFICATION Spec
CONSTANTS
    Card = {a, b, c}
    Complexity = {2, 3}
    DefaultComplexity = 2
    Laterality = {near, far}
    BatchSize = 2
    PrefetchAhead = 0
    MaxEmpty = 1
    None = None
SYMMETRY Symmetry
INVARIANTS
    WalkIsSound
    GradesAgree
    WaitingIsSound
PROPERTIES
    AnswersMeetTheirDeck
    WalksLikeCards
CHECK_DEADLOCK FALSE
