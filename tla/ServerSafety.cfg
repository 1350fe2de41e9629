SPECIFICATION Spec
CONSTANTS
    Requests = {c1, c2, c3, c4}
    MaxConcurrent = 2
    QueueCapacity = 1
    Threads = 2
    ChannelCapacity = 2
SYMMETRY Symmetry
INVARIANTS
    TypeOK
    PermitsConserved
    ResourceBounds
    CancelledIffAbandoned
PROPERTIES
    TurnedAwayOnlyWhenFull
