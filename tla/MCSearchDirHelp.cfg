SPECIFICATION FairSpec
CONSTANTS
    Nodes = {"top", "f1", "f4"}
    Root = "top"
    Kind <- MCKind
    Parent <- MCParent
    count_lib = 2
    Answers <- AllAnswers
    FlagSets <- AllFlags
    NoNode = "none"
INVARIANTS
    HelpTextHolds
CHECK_DEADLOCK FALSE
