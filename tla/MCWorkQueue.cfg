SPECIFICATION FairSpec
CONSTANTS
    N = 3
    M = 3
    MaxAdd = 2
INVARIANTS
    WorkConserved
    FinishedMeansDrained
    NoStrandedWork
PROPERTIES
    WorkGetsDone
    AwakeConsumersFinish
CHECK_DEADLOCK FALSE
