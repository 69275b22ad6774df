SPECIFICATION Spec
CONSTANTS
    Procs = {1, 2, 3, 4}
    Exiting = {2, 3, 4}
    Resumed = FALSE
INVARIANTS
    SpoiltLinkOnlyOnFault
    InUseCovered
CHECK_DEADLOCK FALSE
