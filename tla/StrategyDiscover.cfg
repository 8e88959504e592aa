SPECIFICATION Spec
CONSTANTS
    Tickers = {t1, t2}
    FirstKnown = {t1}
    Prices = {1}
    Cash = 4
    SizeDivisor = 2
    MaxPositions = 1
    TakeProfit = 15
    StopLoss = 8
    LossLimit = 2
    LossesToPause = 1
    LossesToBlock = 2
    MaxSignals = 1
    Events = {"discover"}
    MaxEvents = 1
    MaxTogether = 9
INVARIANTS
    NeverEnds
CHECK_DEADLOCK FALSE
