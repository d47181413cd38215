CONSTANTS
    Length = 7
    FirstSegment = 2
    Buffers <- BuffersUpTo4

SPECIFICATION FairSpec
CHECK_DEADLOCK FALSE

INVARIANTS
    TypeOK
    OnlyFirstByteLost

PROPERTIES
    RefinesByteStream
    EverythingRead
