SPECIFICATION Spec
CONSTANTS
    Clients = {c1, c2}
    MaxJob = 2
    MaxExits = 2
    MaxFaults = 1
    NONE = NONE
INVARIANTS
    AckedSafe
    FirstComeFirstServed
    RequestMatches
PROPERTY
    AckedPrinted
CHECK_DEADLOCK FALSE
