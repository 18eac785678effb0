SPECIFICATION FairSpec
CONSTANTS
    Argvs <- MCArgvs
    Shorts <- MCShorts
    OptionP = "-P"
    DotWords = {".", "./"}
    Folders <- MCFolders
    MayChange = TRUE
INVARIANTS
    AllReleased
    OptionsFit
    SearchReady
    UndefinedCauses
PROPERTIES
    ProgramEnds
CHECK_DEADLOCK FALSE
