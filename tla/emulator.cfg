SPECIFICATION Spec
CONSTANTS
    NULL = NULL
    Invalid = Invalid
    a1 = a1
    a2 = a2
    MaxSessions = 2
    Addresses <- MCAddresses
    Asked <- MCAsked
    Values <- MCValues
    Concurrent = TRUE
    MayFail = TRUE
SYMMETRY Symmetry
INVARIANTS
    TypeOK
    HandleOpensOwnSensor
PROPERTIES
    WritesStayOnSensor
    GetReadsOwnSensor
    SetTakesEffect
CHECK_DEADLOCK FALSE
