SPECIFICATION Spec
CONSTANTS
    Tickers = {t1}
    FirstKnown = {t1}
    Prices = {1, 2}
    Cash = 4
    SizeDivisor = 2
    MaxPositions = 1
    TakeProfit = 15
    StopLoss = 8
    LossLimit = 2
    LossesToPause = 1
    LossesToBlock = 1
    MaxSignals = 2
    Events = {"shutdown", "forcebuy", "reset", "engine"}
    MaxEvents = 1
    MaxTogether = 4
INVARIANTS
    WalletIsBacked
    EngineIsCovered
PROPERTIES
    PauseTakesHold
CHECK_DEADLOCK FALSE
