SPECIFICATION FairSpec
CONSTANTS
    Argvs <- MCArgvs
    Shorts <- MCShorts
    OptionP = "-P"
    DotWords = {".", "./"}
    Folders <- GoodFolders
    MayChange = FALSE
INVARIANTS
    TooFewLibrariesReported
CHECK_DEADLOCK FALSE
