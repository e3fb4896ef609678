SPECIFICATION Spec

CONSTANTS
    Locs = {admin}
    Queues = {events}
    DefaultQueue = events
    None = None
    MayFail = FALSE
    MaxConf = 2
    MaxMsg = 1

CHECK_DEADLOCK FALSE

INVARIANTS
    RulesReloaded
