SPECIFICATION Spec
CONSTANTS
    KeyType = {1, 2, 3, 4, 5, 6, 7}
    AssignedKeys = {4}
INVARIANTS
    TreeHoldsElements
    QueriesAgree
    AlwaysBalanced
    IteratorsHaveRanks
PROPERTIES
    EraseReturnsSuccessor
