SPECIFICATION ReportSpec
CONSTANTS
    Tickers = {t1, t2}
    Percents <- SmallPercents
    Costs = {2}
    Capitals = {4}
    DayLength = 2
    Ahead = 1
    Limit = 2
    Grain = 3
    MaxTrades = 3
    MaxTime = 5
SYMMETRY TickerSymmetry
INVARIANTS
    PastDaysAreSettled
    PartsDifferByBooked
CHECK_DEADLOCK FALSE
