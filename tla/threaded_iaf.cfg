SPECIFICATION FairThreadedSpec
CONSTANTS
    Addr = {0, 1, 2}
    MaxSize = 3
    MaxAccesses = 4
    MaskBits = 2
    Threads = {t1, t2}
INVARIANTS
    NumbersArePositions
    OperationsBuilt
    UniqueIdsAddUp
    SurvivorsComplete
PROPERTIES
    SlotsWrittenOnce
    ImplementsAtomicCalls
    ImplementsLRU
    EveryCallReturns
