SPECIFICATION Spec
CONSTANTS
    NumProcs = 3
    Mortal <- MCAllMortal
    TickMod = 2
INVARIANT
    NoResume
CHECK_DEADLOCK FALSE
