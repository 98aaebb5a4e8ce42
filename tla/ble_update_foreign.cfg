SPECIFICATION Spec
CONSTANTS
    f1 = f1
    f2 = f2
    NoSocket = NoSocket
    Sockets <- MCSockets
    RetryCount = 3
    MaxPending = 2
INVARIANTS
    PublishedIsReading
