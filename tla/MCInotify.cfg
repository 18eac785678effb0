SPECIFICATION Spec
CONSTANTS
    r = r
    s = s
    a = a
    Roots = {r, s}
    Names = {a}
    Args <- MCArgs
    Trees <- MCTrees
    MaxOps = 2
    MaxCmds = 1
    MaxQueue = 3
    TOP = TOP
    OUT = OUT
    GONE = GONE
    NONE = NONE
    UNREAD = UNREAD
INVARIANTS
    WatchesCached
    StaleEntriesEnd
    

    
CHECK_DEADLOCK FALSE
