SPECIFICATION Spec
CONSTANTS
    None = None
    s1 = s1
    s2 = s2
    Sessions = {s1, s2}
    Batches = {2}
    Window = 1
    Page = 1
    MaxRevision = 3
    MaxCalls = 2
    MaxActions = 4
    MaxLoads = 3
SYMMETRY Alike
CHECK_DEADLOCK FALSE
INVARIANTS
    InstalledStateIsTrue
    HistoryIsContiguous
    SpinnersEnd
PROPERTIES
    UpdatesNeverGoBack
