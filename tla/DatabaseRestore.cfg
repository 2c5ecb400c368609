SPECIFICATION RestoreSpec
CONSTANTS
    None = None
    p1 = p1
    p2 = p2
    Starters = {p1, p2}
    Databases <- Aged
    Sources <- Backups
    MaxStops = 2
    MaxCommits = 2
    MaxRestores = 1
CHECK_DEADLOCK FALSE
INVARIANTS
    VersionIsHonest
    ServesMigrated
    LiveKeepsItsData
    ReplacedDataIsSafe
    InstalledIsMigrated
PROPERTIES
    StartupSucceeds
