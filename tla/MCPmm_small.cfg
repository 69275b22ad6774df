SPECIFICATION Spec
CONSTANTS
    Regions <- SmallBlocks
    PageSize = 12
    Hdr = 1
    StackSize = 3
    Requests = {1, 2, 3}
    Scans = {1, 2}
INVARIANTS
    TypeOK
    LiveMatchesChain
    LiveDisjoint
    PagesPartition
PROPERTIES
    SizesConserved
CHECK_DEADLOCK FALSE
