SPECIFICATION Spec
CONSTANTS
    Addr = {0, 1, 2}
    MinChunkSize = 3
    MaxLivingReq = 2
    MaxSize = 2
    MaxAccesses = 8
INVARIANTS
    TypeOK
    ChunkHasRoom
    ChunkIsBounded
    ChunkBeginsWithLiving
PROPERTIES
    ChunkNeverShrinks
    ImplementsLRU
CHECK_DEADLOCK FALSE
