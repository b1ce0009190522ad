SPECIFICATION MCFairSpec
CONSTANTS
    Slots = {25}
    Products = {pro}
    ProProduct = pro
    None = None
    Unknown = Unknown
    Chunks = {"AB"}
    MaxText = 1
    Texts <- NoTexts
    Brightness = {0, 64, 128}
    Dates <- NoDate
    Times = {0}
    Offsets = {}
    LocalZones = {0}
    ZeroTime = 0
    ZeroDate <- Zero
    LostAcks = FALSE
    ApplyOrder <- DialSettings
    Values <- DialValues
    Defaults <- DialDefaults
    FileConfig <- DialDefaults
    MaxSets = 1
    MaxLoads = 0
    MaxTicks = 0
    MaxUnplugs = 0
    MaxFailures = 0
PROPERTIES
    DirtyIsWritten
