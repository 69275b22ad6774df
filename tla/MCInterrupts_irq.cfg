SPECIFICATION Spec
CONSTANTS
    Procs = {0, 1}
    Lines = {0, 1, 14, 15}
    Exceptions = {6, 14}
    SerialReady = FALSE
    TickMod = 8
    Sleepers = {1}
    Durations = {2, 5}
    MaxNest = 2
INVARIANTS
    TypeOK
    NothingHeldBack
PROPERTIES
    SleepLosesOnlyExits
    SleepEnds
CHECK_DEADLOCK FALSE
