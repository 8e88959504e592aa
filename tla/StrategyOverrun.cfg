SPECIFICATION Spec
CONSTANTS
    Tickers = {t1, t2}
    FirstKnown = {t1, t2}
    Prices = {1}
    Cash = 4
    SizeDivisor = 2
    MaxPositions = 1
    TakeProfit = 15
    StopLoss = 8
    LossLimit = 2
    LossesToPause = 1
    LossesToBlock = 1
    MaxSignals = 2
    Events = {}
    MaxEvents = 0
    MaxTogether = 9
INVARIANTS
    PositionsAreLimited
CHECK_DEADLOCK FALSE
