SPECIFICATION ClientSpec
CONSTANTS
    None = None
    MaxCards = 2
    MaxComplexity = 2
    LastCard = 2
    NoTip = NoTip
    Picture <- MCPicture
    NoPicture = NoPicture
    FaceHeight = {50, 200, 500}
    TextHeight = {27, 150, 600}
    FaceWidth = 320
    facePad = 20
    Unknown = Unknown
    Message = {loading, failed}
    NoMessage = NoMessage
    MaxRetries = 2
    MaxCloses = 2
    RailWidth = 7
    TouchAt <- MCTouchAt
    MaxCalls = 2
    Titles <- MCTitles
    ColumnWidths = {0, 246, 318}
    ContentHeight = 400
    Measured = 560
    Hashes = {1, 6}
    Faces <- MCFaces
    TitleBoxes <- MCTitleBoxes
    NoTitle = NoTitle
    Choice <- MCChoice
    Stored <- MCStored
    Junk = Junk
    MaxWrites = 2
    MaxGrade = 3
    MaxCues = 2
    Cards = {c1, c2}
    Turn = 4
    Suppress = 4
    TapMax = 5
    MaxStay = 2
    CardWidth = 200
    CardHeight = 240
    Frames = 5
    DragX <- MCDragX
    DragY <- MCDragY
    Reach = 120
    ScrollRanges = {0, 40}
    gatherMs = 3
    minCueMs = 9
    statusDelayMs = 3
    dealMs = 4
    reverseDealMs = 3
    crossfadeMs = 2
    riffleEveryMs = 12
    riffleMoveMs = 3
    timeoutMs = 20
    silhouettes = 3
    Full = 6
    Screens <- MCScreens
    Texts = {"normal", "large"}
    Height <- MCHeight
INVARIANTS
    MessagesAreSound
    SheetsAreSound
    PreferencesAreKept
    CardFitsItsScreen
PROPERTIES
    StackIsSound
    PoseIsSound
    FlipIsSound
    CueIsSound
    BackStaysReadable
    FrontIsSound
    RailsAreSound
CHECK_DEADLOCK FALSE
