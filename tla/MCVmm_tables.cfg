SPECIFICATION Spec
CONSTANTS
    Idx = {0, 1, 2}
    FirstKernel = 1
    Pool <- MCPool
    Frames <- MCFrames
    VAddrs <- MCVAddrs
    BootMaps <- MCBootMaps
    Flags <- MCFlags
    MaxSpaces = 2
    MaxFailures = 1
    MaxStrays = 0
INVARIANTS
    TypeOK
    TablesNotShared
    KernelHalfShared
    NoDanglingTranslation
PROPERTIES
    ImplementsAddressSpaces
    
CHECK_DEADLOCK FALSE
