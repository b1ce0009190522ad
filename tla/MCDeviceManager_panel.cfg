SPECIFICATION MCSpec
CONSTANTS
    Slots <- PanelSlots
    Products = {x52, pro}
    ProProduct = pro
    None = None
    Unknown = Unknown
    Chunks = {"AB"}
    MaxText = 1
    Texts <- NoTexts
    Brightness = {0, 64, 128}
    Dates <- NoDate
    Times = {0}
    Offsets = {}
    LocalZones = {0}
    ZeroTime = 0
    ZeroDate <- Zero
    LostAcks = FALSE
    ApplyOrder <- PanelSettings
    Values <- PanelValues
    Defaults <- PanelDefaults
    FileConfig <- PanelFile
    MaxSets = 1
    MaxLoads = 1
    MaxTicks = 0
    MaxUnplugs = 1
    MaxFailures = 0
INVARIANTS
    DTypeOK
    EverySettingRequested
PROPERTIES
    RequestsHeard
