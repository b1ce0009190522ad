SPECIFICATION MCSpec
CONSTANTS
    Slots <- ClockSlots
    Products = {pro}
    ProProduct = pro
    None = None
    Unknown = Unknown
    Chunks = {"AB", "CD"}
    MaxText = 8
    Texts <- NoTexts
    Brightness = {0}
    Dates <- TwoDates
    Times = {0, 754}
    Offsets <- Zones
    LocalZones <- HomeZones
    ZeroTime = 0
    ZeroDate <- Zero
    LostAcks = TRUE
    MaxRequests = 2
    MaxUnplugs = 1
INVARIANTS
    CleanSlotsShown
    SecondaryClocksRight
    DeadHandleIsReported
