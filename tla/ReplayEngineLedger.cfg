SPECIFICATION FairSpec
CONSTANTS
    None = None
    Bars <- TwoCandles
    Levels = {2}
    Quantities = {1, 2}
    Steps = {2}
    NBars = 3
    MaxTrades = 2
    Scale = 1
    UnitCost = 1
    InitialBalance = 10
    RUnit = 4
INVARIANTS
    LedgerExplainsTrades
    StatsMatchHistory
    AccumulatorRebuilds
PROPERTIES
    PlaybackCompletes
    HistoryIsFinal
