SPECIFICATION MCFairSpec
CONSTANTS
    Slots <- ClockSlots
    Products = {pro}
    ProProduct = pro
    None = None
    Unknown = Unknown
    Chunks = {"AB"}
    MaxText = 1
    Texts <- NoTexts
    Brightness = {0, 64, 128}
    Dates <- OneDate
    Times = {0}
    Offsets = {}
    LocalZones = {0}
    ZeroTime = 0
    ZeroDate <- Zero
    LostAcks = FALSE
    ApplyOrder <- ClockedSettings
    Values <- ClockedValues
    Defaults <- ClockedDefaults
    FileConfig <- ClockedDefaults
    MaxSets = 0
    MaxLoads = 0
    MaxTicks = 1
    MaxUnplugs = 1
    MaxFailures = 3
PROPERTIES
    Spec
    DeadHandleNoticed
    JoystickServed
    RequestServed
