CONSTANTS
    Workers = {w1, w2}
    Conns = {c1, c2, c3}
    MaxConnections = 1
    HandlersPerWorker = 2
    CounterSpan = 4
    Panics = {"unwind", "abort"}
    None = None

SPECIFICATION FairSpec
CHECK_DEADLOCK FALSE

PROPERTIES
    LoopsStop
    EveryConnectionEnds
    DrainCompletes
