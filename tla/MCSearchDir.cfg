SPECIFICATION FairSpec
CONSTANTS
    Nodes = {"top", "d1", "d2", "f1", "f2", "lnk"}
    Root = "top"
    Kind <- MCKind
    Parent <- MCParent
    count_lib = 2
    Answers <- AllAnswers
    FlagSets <- AllFlags
    NoNode = "none"
INVARIANTS
    EachFileOnce
    HandlesAccounted
    MissedOnlyByErrors
    
PROPERTIES
    WalkEnds
CHECK_DEADLOCK FALSE
