SPECIFICATION FairSpec

CONSTANTS
    Conns = {c1, c2}
    Ids = {i1, i2}
    Nodes = {n1}
    None = None
    Backend = "file"
    BackendMayFail = TRUE
    InternalCacheTTL = 2
    MemTTL = 1
    CacheSize = 1
    Timeout = 9
    TimeoutActivity = 0
    SeenInterval = 1
    Latency = 1
    MaxTime = 5

INVARIANTS
    TypeOK
    NoCrossSession
    BoundedStaleness

PROPERTIES
    GateSpec
    EveryRequestAnswered
