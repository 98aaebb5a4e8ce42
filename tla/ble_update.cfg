SPECIFICATION FairSpec
CONSTANTS
    f1 = f1
    f2 = f2
    NoSocket = NoSocket
    Sockets <- MCSockets
    RetryCount = 3
    MaxPending = 2
INVARIANTS
    TypeOK
    SocketsAccounted
    DroppedAfterRetries
    EnabledOverThisLink
PROPERTIES
    DeadLinkGivenUp
    Recovers
