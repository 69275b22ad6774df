SPECIFICATION FairSpec
CONSTANTS
    NumProcs = 4
    Mortal <- MCAllMortal
    TickMod = 2
INVARIANTS
    TypeOK
    ContextMatches
    FaultNeverPanics
    IInv
    LiveInRing
    LiveHoldsMemory
PROPERTY
    SearchTerminates
CHECK_DEADLOCK FALSE
