SPECIFICATION Spec
CONSTANTS
    Clients = {c1, c2, c3}
    MAX_FDS = 4
    MaxSends = 1
    LISTEN = LISTEN
    FREED = FREED
    ZERO = ZERO
INVARIANTS
    SlotsExact
    AllClosed
PROPERTY
    Served
CHECK_DEADLOCK FALSE
