CONSTANTS
    Sorted <- SortedNames
    Links <- LinksBetween
    Upper <- Uppercase
    Numeric <- WithDigit
    Mentions <- MentionsIn
    NotFoundName <- NotFoundPage
    EmbedChoices <- Embeds

SPECIFICATION Spec
CHECK_DEADLOCK FALSE

INVARIANTS
    TypeOK
    ResponsesFit
    PagesMatchSubresources
    OwnNameWins
    VersionServed
    PoliciesAllow
