CONSTANTS
    Qualities <- Ranks
    Baseline = 1
    Zero = 0
    NaN = NaN
    MaxTokens = 3

SPECIFICATION Spec
CHECK_DEADLOCK FALSE

INVARIANTS
    TypeOK
    BestOfSeen
