SPECIFICATION FairSpec
CONSTANTS
    t1 = t1
    t2 = t2
    NULL = NULL
    Threads <- MCThreads
    MaxSessions = 1
    Backends <- MCBackends
    Emulator = "emulator"
    Reconnecting <- MCReconnecting
    FailingDisconnect <- MCFailingDisconnect
    DeviceTables <- MCDeviceTables
    Shared = TRUE
PROPERTIES
    MutexReleased
    TransferReturns
