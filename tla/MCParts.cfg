SPECIFICATION MCSpec
CONSTANTS
    NoModel = NoModel
    Positions <- SomePositions
    Neutral <- AtRest
    Map <- ThreeCodes
    Utf8Texts <- ShortTexts
    Sizes = {1, 2, 4}
    x52 = x52
    pro = pro
    Slots = {0, 1, 2, 3, 20, 21, 22, 24, 25, 26, 27, 28, 29, 30}
    Products = {x52, pro}
    ProProduct = pro
    None = None
    Unknown = Unknown
    Chunks = {"AB", "CD"}
    MaxText = 2
    Texts <- ShownTexts
    Brightness = {0, 64, 128}
    Dates <- SomeDates
    ZeroDate <- NoDay
    Times <- SomeTimes
    ZeroTime <- Midnight
    Offsets = {60, 1441}
    LocalZones = {0, 600}
    LostAcks = TRUE
    Argvs <- CommandLines
    HasMouse = TRUE
INVARIANTS
    MainTypeOK
    ReportRight
    DriversAgree
    AxisInRange
    X65Decoded
    InBounds
    TextConverted
    NothingInvented
    ZeroMeansAccepted
    AcceptedIsShown
    NeverKilled
PROPERTIES
    ModeKept
    RefusedShowsNothing
    FlagsAnswered
CHECK_DEADLOCK FALSE
