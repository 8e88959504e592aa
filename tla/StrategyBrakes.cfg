SPECIFICATION Spec
CONSTANTS
    Tickers = {t1}
    FirstKnown = {t1}
    Prices = {1, 2}
    Cash = 4
    SizeDivisor = 2
    MaxPositions = 2
    TakeProfit = 15
    StopLoss = 8
    LossLimit = 2
    LossesToPause = 1
    LossesToBlock = 2
    MaxSignals = 2
    Events = {"crash"}
    MaxEvents = 1
    MaxTogether = 9
PROPERTIES
    BrakesSurvive
CHECK_DEADLOCK FALSE
