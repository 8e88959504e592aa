SPECIFICATION FairSpec
CONSTANTS
    Tickers = {t1, t2}
    FirstKnown = {t1}
    Prices = {1, 3}
    Cash = 4
    SizeDivisor = 1
    MaxPositions = 2
    TakeProfit = 15
    StopLoss = 8
    LossLimit = 2
    LossesToPause = 1
    LossesToBlock = 1
    MaxSignals = 3
    Events = {"halt", "crash", "newday", "discover"}
    MaxEvents = 1
    MaxTogether = 3
PROPERTIES
    ScansAgain
    HaltTakesEffect
    StopLossFires
CHECK_DEADLOCK FALSE
