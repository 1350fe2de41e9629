SPECIFICATION Spec
CONSTANTS
    Ascii = {"a", "b"}
    StopSets <- NestedStops
    MaxBytes = 4
    MaxPiece = 3
INVARIANTS
    SplitIndependent
CHECK_DEADLOCK FALSE
