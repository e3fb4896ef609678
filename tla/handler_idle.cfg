SPECIFICATION Spec

CONSTANTS
    Conns = {c1, c2}
    Ids = {i1}
    Nodes = {n1, n2}
    None = None
    Backend = "dbi"
    BackendMayFail = FALSE
    InternalCacheTTL = 2
    MemTTL = 1
    CacheSize = 1
    Timeout = 9
    TimeoutActivity = 4
    SeenInterval = 1
    Latency = 0
    MaxTime = 7

SYMMETRY Symmetry

INVARIANTS
    NoFalseInactivity
