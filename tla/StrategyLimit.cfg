SPECIFICATION Spec
CONSTANTS
    Tickers = {t1}
    FirstKnown = {t1}
    Prices = {1, 2}
    Cash = 4
    SizeDivisor = 2
    MaxPositions = 2
    TakeProfit = 15
    StopLoss = 8
    LossLimit = 2
    LossesToPause = 2
    LossesToBlock = 2
    MaxSignals = 2
    Events = {}
    MaxEvents = 0
    MaxTogether = 9
PROPERTIES
    LimitHalts
CHECK_DEADLOCK FALSE
