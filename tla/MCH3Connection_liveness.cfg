CONSTANTS
    Requests <- FirstFour
    NumHandlers = 2
    CounterSpan = 3
    MaxStreams = 4
    Burst = 4
    Panics = {"unwind"}
    None = None

SPECIFICATION FairSpec
CHECK_DEADLOCK FALSE

PROPERTIES
    RequestsEnd
    TasksEnd
