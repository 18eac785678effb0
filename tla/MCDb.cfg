SPECIFICATION Spec
CONSTANTS
    a = a
    b = b
    c = c
    v1 = v1
    v2 = v2
    w = w
    c1 = c1
    c2 = c2
    Procs = {p1, p2}
    Keys = {a, b, c}
    Values = {v1, v2, w}
    Chains = {c1, c2}
    Hash <- MCHash
    KeyLen <- MCKeyLen
    DatLen <- MCDatLen
    Saved <- MCSaved
    Ops <- MCOps
    MaxCalls = 2
    FREE = FREE
    IDXEND = IDXEND
    DATEND = DATEND
    BLANK = BLANK
    NONE = NONE
    NoOp = NoOp
    EOF = EOF
INVARIANTS
    TypeOK
    Exclusion
    LockOrder
    NoRecordLost
    UnlockedChainsStable
PROPERTIES
    IsKeyValue
    ScanComplete
    CallsReturn
CHECK_DEADLOCK FALSE
