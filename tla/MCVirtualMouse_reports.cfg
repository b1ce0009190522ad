SPECIFICATION FairSpec
CONSTANTS
    Reports <- SmallReports
    Appliers = {main}
    Movers = {1, 2}
INVARIANTS TypeOK OneMoverIffEnabled
PROPERTIES ClicksGetThrough PointerMoves
