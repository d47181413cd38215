SPECIFICATION FairSpec
CONSTANTS
    Responses = {r1, r2}
    H3Responses = {r2}
    QuicWorkers = {w1}
    WorkerOf <- MCWorkerOf
    Modes = {"disabled", "summary", "detailed"}
    Panics = {"unwind", "abort"}
INVARIANTS
    TypeOK
    LogComplete
PROPERTIES
    RefinesAccessLog
    EntriesPrinted
    ShutdownEnds
    ImpatientUserLeaves
CHECK_DEADLOCK FALSE
