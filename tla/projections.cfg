SPECIFICATION FairSpec
CONSTANTS
    Branching = 4
    BaseCase = 1
    IntBits = 16
    MaskBits = 16
    Addr = {1, 2, 3}
    MaxRequests = 5
INVARIANTS
    TypeOK
    ScratchFitsFreedSlots
    RegionsDisjoint
    EveryRepeatIsSomewhere
    HitsAreStackDistances
PROPERTIES
    TasksDoNotInterfere
    Termination
CHECK_DEADLOCK FALSE
