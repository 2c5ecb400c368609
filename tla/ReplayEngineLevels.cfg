SPECIFICATION Spec
CONSTANTS
    None = None
    Bars <- AllCandles
    Levels = {2, 4}
    Quantities = {2}
    Steps = {1, 2}
    NBars = 3
    MaxTrades = 1
    Scale = 1
    UnitCost = 1
    InitialBalance = 10
    RUnit = 4
INVARIANTS
    LevelsNotCrossed
    ExitsAreHonest
    LedgerIsCausal
    ExcursionsMatchCloses
