SPECIFICATION Spec

CONSTANTS
    Conns = {c1, c2}
    Ids = {i1}
    Nodes = {n1}
    None = None
    Backend = "dbi"
    BackendMayFail = TRUE
    InternalCacheTTL = 2
    MemTTL = 2
    CacheSize = 1
    Timeout = 4
    TimeoutActivity = 3
    SeenInterval = 1
    Latency = 1
    MaxTime = 7

SYMMETRY Symmetry

INVARIANTS
    SessionLifetime

PROPERTIES
    LastSeenLoss
    UnlogIsFinal
