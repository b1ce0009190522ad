SPECIFICATION MCSpec
CONSTANTS
    Slots <- PanelSlots
    Products = {x52, pro}
    ProProduct = pro
    None = None
    Unknown = Unknown
    Chunks = {"AB", "CD"}
    MaxText = 2
    Texts <- ThreeTexts
    Brightness = {0, 128}
    Dates <- NoDate
    Times = {0}
    Offsets = {}
    LocalZones = {0}
    ZeroTime = 0
    ZeroDate <- Zero
    LostAcks = FALSE
    MaxRequests = 2
    MaxUnplugs = 2
INVARIANTS
    TypeOK
PROPERTIES
    RequestsSurvive
    UpdateAdvances
    CacheSpec
