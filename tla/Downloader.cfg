SPECIFICATION Spec
CONSTANTS
    None = None
    open = open
    closed = closed
    Periods = {open, closed}
    Open = {open}
    Retries = 2
    MaxRuns = 3
CHECK_DEADLOCK FALSE
INVARIANTS
    TrustIsEarned
    StrictLeavesNoPartial
    CacheIsWhole
PROPERTIES
    RunsEnd
