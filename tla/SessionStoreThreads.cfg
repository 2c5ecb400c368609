SPECIFICATION Spec
CONSTANTS
    None = None
    r1 = r1
    r2 = r2
    p1 = p1
    p2 = p2
    Requests = {r1, r2}
    Processes = {p1, p2}
    Beginnings <- Stages
    Window = 1
    FillWindow = 1
    MaxTrades = 3
    MaxRevision = 7
SYMMETRY Alike
INVARIANTS
    CurrentCopiesAreExact
    TrackerIsHonest
PROPERTIES
    ImplementsAtomicSession
