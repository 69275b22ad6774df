SPECIFICATION Spec
CONSTANTS
    BlockHead = 5
    Zero = 0
    Supply <- FourPages
    Hdr = 2
    Requests = {1, 3}
INVARIANTS
    TypeOK
    RingClosed
    HeldMatchesState
    FreeCoalesced
PROPERTIES
    BytesConserved
CHECK_DEADLOCK FALSE
