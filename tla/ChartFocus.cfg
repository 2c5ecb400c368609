SPECIFICATION Spec
CONSTANTS
    Candles <- CandleData
    First = 9
    Last1m = 13
    Day = 10
    Anchor = 1
    PutBackAt = 8
    PutBackBy = 2
    Context = 2
    Period = 2
    Warmup = 2
    Trades = {1, 2}
    Timeframes = {1, 3}
    profile = "new_york_close"
    ContextBars = 2
    MaxBars = 4
    RecentFills = 1
    MaxFills = 4
    Starts <- ResumedSessions
    MaxSettings = 1
    MaxUnseen = 1
    MaxFocus = 2
    None = None
CHECK_DEADLOCK FALSE
INVARIANTS
    WindowsAreCausal
    WindowsAreBounded
    FocusIsCurrent
    LiveFocusIsShown
    LoadingIsServed
    DisplayIsFaithful
