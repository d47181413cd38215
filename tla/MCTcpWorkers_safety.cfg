CONSTANTS
    Workers = {w1, w2}
    Conns = {c1, c2, c3, c4, c5}
    MaxConnections = 2
    HandlersPerWorker = 2
    CounterSpan = 4
    Panics = {"unwind", "abort"}
    None = None

SPECIFICATION Spec
SYMMETRY Symmetry
CHECK_DEADLOCK FALSE

INVARIANTS
    TypeOK
    PermitConservation
    NoLostWakeup
    OneOwner
    AcceptedBound
    CleanMeansDrained
PROPERTIES
    DispatchedIsServed
    RefinesLimiter
