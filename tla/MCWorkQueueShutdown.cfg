SPECIFICATION FairSpec
CONSTANTS
    N = 2
    M = 1
    MaxAdd = 1
PROPERTIES
    MainFinishes
CHECK_DEADLOCK FALSE
