SPECIFICATION RestoreSpec
CONSTANTS
    None = None
    p1 = p1
    p2 = p2
    Starters = {p1, p2}
    Databases <- Damaged
    Sources <- Backups
    MaxStops = 0
    MaxCommits = 1
    MaxRestores = 0
CHECK_DEADLOCK FALSE
INVARIANTS
    IncompleteIsCompleted
