SPECIFICATION UndeferredSpec
CONSTANTS
    Branching = 3
    BaseCase = 1
    IntBits = 16
    MaskBits = 16
    Addr = {1, 2, 3}
    MaxRequests = 8
INVARIANTS
    AssertionsHold
    BoundaryIsFound
    ProjectionsPreserveDistances
    ProjectionsAreSmall
CHECK_DEADLOCK FALSE
