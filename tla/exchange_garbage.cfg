SPECIFICATION Spec
CONSTANTS
    s1 = s1
    s2 = s2
    Sessions <- OneSession
    IdMod = 2
    Concurrent = FALSE
    MaxRequests = 3
INVARIANTS
    ValueFromDevice
