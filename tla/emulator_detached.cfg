SPECIFICATION Spec
CONSTANTS
    NULL = NULL
    Invalid = Invalid
    a1 = a1
    a2 = a2
    MaxSessions = 2
    Addresses <- MCAddresses
    Values <- MCValues
    Asked <- MCAsked
    Concurrent = FALSE
    MayFail = FALSE
SYMMETRY Symmetry
INVARIANTS
    CallsReachSensors
CHECK_DEADLOCK FALSE
