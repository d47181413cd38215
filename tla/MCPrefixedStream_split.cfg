CONSTANTS
    Length = 7
    FirstSegment = 1
    Buffers <- BuffersUpTo4

SPECIFICATION Spec
CHECK_DEADLOCK FALSE

INVARIANTS
    PrefixYieldedFirst
