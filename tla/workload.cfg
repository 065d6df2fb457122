SPECIFICATION Spec
CONSTANTS
    RandBits = 4
    DivisorBits = 2
    LocalityPercent = 95
    WorkingSet = 2
    IdUniverseSize = 5
INVARIANTS
    MajorityIsCommon
CHECK_DEADLOCK FALSE
