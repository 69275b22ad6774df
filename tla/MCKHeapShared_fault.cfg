SPECIFICATION Spec
CONSTANTS
    Procs = {1, 2}
    Exiting = {2}
    Resumed = FALSE
INVARIANTS
    LoadsAreBlocks
CHECK_DEADLOCK FALSE
