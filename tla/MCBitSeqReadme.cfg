SPECIFICATION FairSpec
CONSTANTS
    Texts <- MCTexts
    Files <- MCFiles
    LLBytes = 2
    SizeMod = 16
    MaxCalls = 3
INVARIANTS
    ReadmeHolds
CHECK_DEADLOCK FALSE
