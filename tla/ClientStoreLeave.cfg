SPECIFICATION Spec
CONSTANTS
    None = None
    s1 = s1
    s2 = s2
    Sessions = {s1}
    Batches = {1}
    Window = 1
    Page = 1
    MaxRevision = 3
    MaxCalls = 2
    MaxActions = 3
    MaxLoads = 6
CHECK_DEADLOCK FALSE
PROPERTIES
    SetupStaysPut
