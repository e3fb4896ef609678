SPECIFICATION EntrySpec

CONSTANTS
    Conns = {c1, c2, c3}
    Ids = {good, bad, cookie}
    Basic = {good, bad}
    Valid = {good}
    None = None
    MayFail = TRUE
    Types <- AllTypes
    Sids = {s1, s2}
    Vhosts = {h1}
    Nothing = Nothing
    Garbage = Garbage
    Ages <- SomeAges
    Makings <- SomeMakings
    Skews <- SomeSkews
    MaxMinted = 1
    Block = 2
    Texts <- AllTexts

INVARIANTS
    TypeOK
    PendingIsWaiting
    ServiceWindow
    CDAWindow
    RoundTrip

PROPERTIES
    Answered
