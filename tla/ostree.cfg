SPECIFICATION Spec
CONSTANTS
    Timestamps = {1, 2, 3, 4, 5, 6, 7, 8}
    Stored = {1, 2}
    Marked = 2
CONSTRAINT OneMarked
INVARIANTS
    TreeHoldsEntries
PROPERTIES
    RemoveNeverDeepens
    InsertOffByOneElement
