SPECIFICATION Spec

CONSTANTS
    Nodes = {n1, n2}
    Calls = {k1, k2}
    Contents = {v1, v2}
    Nothing = Nothing
    Null = Null
    Backends = {"redis", "dbi", "rest"}
    LocalCache = TRUE
    MemTTL = 1
    DiskTTL = 2
    Latency = 1
    Cap = 5

SYMMETRY Symmetry

INVARIANTS
    TypeOK
    Recent

PROPERTIES
    StandsFirm
