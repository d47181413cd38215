CONSTANTS
    Requests <- FirstEight
    NumHandlers = 2
    CounterSpan = 3
    MaxStreams = 8
    Burst = 2
    Panics = {"unwind"}
    None = None

SPECIFICATION Spec
CHECK_DEADLOCK FALSE

INVARIANTS
    TypeOK
    KeptBound
PROPERTY
    KeptUntilNextRequest
