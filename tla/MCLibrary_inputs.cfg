SPECIFICATION Spec
CONSTANTS
    MaxBus = 2
    MaxSlot = 1
    MaxFunc = 1
    ConfigSpaces <- MCConfigSpaces
    Vendors = {0, 1, 2}
    Ids = {1, 2, 3}
    Texts <- MCTexts
    Followers <- MCFollowers
    Screens <- MCScreens
    Outputs <- MCOutputs
    Words1 <- MCWords1
    Words2 <- MCWords2
    Options <- MCOptions
    PointerSize = 2
    MemorySize = 8
INVARIANTS
    ScanFindsReachable
    ExistsNeverMisses
    TokensAreWords
    GlyphsApart
    StringsAsSpecified
CHECK_DEADLOCK FALSE
