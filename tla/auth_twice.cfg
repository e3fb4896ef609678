SPECIFICATION Spec

CONSTANTS
    Conns = {c1, c2}
    Ids = {good}
    Basic = {good}
    Valid = {good}
    None = None
    MayFail = FALSE

INVARIANTS
    AskedBeforeRefused
