SPECIFICATION Spec
CONSTANTS
    KeyType = {1, 2, 3, 4}
    AssignedKeys = {2}
PROPERTIES
    InsertedAtRank
