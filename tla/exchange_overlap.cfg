SPECIFICATION FairSpec
CONSTANTS
    s1 = s1
    s2 = s2
    Sessions <- TwoSessions
    IdMod = 2
    Concurrent = TRUE
    MaxRequests = 2
INVARIANTS
    ExpectsIdSent
PROPERTIES
    LossIsReported
    CallReturns
