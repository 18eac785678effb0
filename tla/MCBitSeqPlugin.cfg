SPECIFICATION FairSpec
CONSTANTS
    Texts <- LongTexts
    Files <- MCFiles
    LLBytes = 2
    SizeMod = 16
    MaxCalls = 3
INVARIANTS
    ReadsInBounds
    MatchExact
    StableCriterion
    ReleasedUnlessUnparsed
    ErrorsHaveErrno
PROPERTIES
    CallReturns
CHECK_DEADLOCK FALSE
