CONSTANTS
    LastHandle <- MCLastHandle
    UUIDs <- MCUUIDs
    Devices <- MCDevices
    PerAnswer <- MCPerAnswer
    MaxAttr <- MCMaxAttr
    Rates <- MCRates
    Gaps <- MCGaps
    Garbage <- MCGarbage
    Asked <- MCAsked
    FullTurn = 4
    MaxReads = 2
    MaxConnections = 2
    MaxPending = 1
SPECIFICATION FairSpec
INVARIANTS TypeOK TableFaithful OwnValue LagBounded
PROPERTIES AngleSettles Terminates
CHECK_DEADLOCK FALSE
