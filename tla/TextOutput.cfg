SPECIFICATION Spec
CONSTANTS
    Ascii = {"a", "b"}
    StopSets <- SeparateStops
    MaxBytes = 5
    MaxPiece = 3
INVARIANTS
    SplitIndependent
    NothingTakenBack
    HeldForAReason
CHECK_DEADLOCK FALSE
