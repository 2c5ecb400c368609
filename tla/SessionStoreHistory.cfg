SPECIFICATION Spec
CONSTANTS
    None = None
    r1 = r1
    r2 = r2
    p1 = p1
    p2 = p2
    Requests = {r1}
    Beginnings <- FirstStage
    Processes = {p1}
    Window = 1
    FillWindow = 2
    MaxTrades = 2
    MaxRevision = 6
INVARIANTS
    HistoryIsReachable
