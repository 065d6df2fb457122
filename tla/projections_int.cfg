SPECIFICATION UndeferredSpec
CONSTANTS
    Branching = 4
    BaseCase = 1
    IntBits = 4
    MaskBits = 6
    Addr = {1, 2, 3}
    MaxRequests = 6
INVARIANTS
    BoundaryIsFound
CHECK_DEADLOCK FALSE
