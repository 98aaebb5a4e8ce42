SPECIFICATION Spec
CONSTANTS
    NULL = NULL
    Nodes = {n1, n2, n3}
    Threads = {t1, t2}
    Plugins <- MCPlugins
    Backends <- MCBackends
    Emulator = "emulator"
    BackendOf <- MCBackendOf
    Broken <- MCBroken
    low = low
    high = high
    fixed = fixed
    Places = {low, high, fixed}
    PlacesOf <- MCPlacesOf
    MaxOpens = 2
    MaxOverlaps = 1
SYMMETRY MCSymmetry
INVARIANTS TypeOK ListImplementsSequence LoadedAgree RegistryUnique LookupsSafe
CHECK_DEADLOCK FALSE
