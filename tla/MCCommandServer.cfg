CONSTANTS
    c1 = c1
    c2 = c2
    c3 = c3
    Clients = {c1, c2, c3}
    MaxClients = 2
    INVALID_CLIENT = INVALID_CLIENT
    Listener = Listener
    Modules = {"clock", "io"}
    SystemFile = "x52d.conf"
    LongWord = "long"
    InitialFiles <- MCFiles
    Options <- MCOptions
    Repertoires <- MCRepertoires

SPECIFICATION Spec
INVARIANTS TypeOK TableMatches 
PROPERTIES RefusedOnlyWhenFull ErrChangesNothing ServiceSpec WaitingEnds SlotsFreed
CHECK_DEADLOCK FALSE
