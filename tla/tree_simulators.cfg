SPECIFICATION Spec
CONSTANTS
    Addr = {a1, a2, a3, a4, a5}
    MaxSize = 6
    MaxAccesses = 8
SYMMETRY Symmetry
INVARIANTS
    TreeMatchesPageTable
    SetMatchesPageTable
    SimulatorsAgree
PROPERTIES
    TreeImplementsQueue
    SetImplementsQueue
    ImplementsLRU
    MissesAreForced
CHECK_DEADLOCK FALSE
