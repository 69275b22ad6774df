SPECIFICATION FairSpec
CONSTANTS
    NumProcs = 4
    Mortal <- MCOddMortal
    TickMod = 2
INVARIANTS
    RingIsLive
PROPERTIES
    SwitchesToLive
    ImplementsRoundRobin
    NeverStarved
    FaultFreesMemory
