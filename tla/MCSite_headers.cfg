CONSTANTS
    Sorted <- SortedNames
    Links <- LinksBetween
    Upper <- Uppercase
    Numeric <- WithDigit
    Mentions <- MentionsIn
    NotFoundName <- NotFoundPage
    EmbedChoices <- AllEmbedded

SPECIFICATION Spec
CHECK_DEADLOCK FALSE

INVARIANTS
    HeadersDescribeBody
