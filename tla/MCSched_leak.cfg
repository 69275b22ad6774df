SPECIFICATION FairSpec
CONSTANTS
    NumProcs = 2
    Mortal <- MCAllMortal
    TickMod = 2
PROPERTY
    ReturnFreesMemory
