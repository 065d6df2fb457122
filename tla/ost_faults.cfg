SPECIFICATION Spec
CONSTANTS
    Addr = {1, 2, 3}
    MaxSize = 4
    MaxAccesses = 5
PROPERTIES
    SuccessCountsFaults
CHECK_DEADLOCK FALSE
