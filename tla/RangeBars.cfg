SPECIFICATION RangeSpec
CONSTANTS
    Workers = 2
    Rows <- TwoYears
    Before = 1
    After = 1
    PageSize = 2
    MaxCachedBars = 2
    Requests <- Reads
    MaxReads = 3
CHECK_DEADLOCK FALSE
INVARIANTS
    ReadsAreExact
    CacheIsBounded
PROPERTIES
    ReadsEnd
