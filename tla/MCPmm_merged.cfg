SPECIFICATION Spec
CONSTANTS
    Regions <- LargeBlocks
    PageSize = 8
    Hdr = 1
    StackSize = 4
    Requests = {1, 5}
    Scans = {1}
INVARIANTS
    LiveDisjoint
CHECK_DEADLOCK FALSE
