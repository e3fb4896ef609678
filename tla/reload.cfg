SPECIFICATION FairSpec

CONSTANTS
    Locs = {}
    Queues = {events, other}
    DefaultQueue = events
    None = None
    MayFail = TRUE
    MaxConf = 2
    MaxMsg = 2

CHECK_DEADLOCK FALSE

INVARIANTS
    TypeOK
    OneLoop
    PolledIsSubscribed
    NotTakenTwice

PROPERTIES
    LoadsEnd
    SessionsBack
    MessagesHandled
