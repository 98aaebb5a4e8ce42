SPECIFICATION Spec
CONSTANTS
    t1 = t1
    t2 = t2
    NULL = NULL
    Threads <- MCThreads
    MaxSessions = 2
    Backends <- MCBackends
    Emulator = "emulator"
    Reconnecting <- MCReconnecting
    FailingDisconnect <- MCFailingDisconnect
    DeviceTables <- MCDeviceTables
    Shared = FALSE
INVARIANTS
    TypeOK
    HandlesExclusive
    SessionBackend
    LinksAccounted
    ClosesOpenLinks
PROPERTIES
    RefusedOnlyWhenDown
    ImplementsPool
