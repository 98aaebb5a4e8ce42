SPECIFICATION Spec
CONSTANTS
    s1 = s1
    s2 = s2
    Sessions <- TwoSessions
    IdMod = 2
    Concurrent = FALSE
    MaxRequests = 3
SYMMETRY SessionSymmetry
INVARIANTS
    TypeOK
    StaleOnlyAfterWrap
    OkMeansExecuted
    CleanAfterOk
