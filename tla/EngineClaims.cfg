SPECIFICATION Spec
CONSTANTS
    Tickers = {t1}
    Qtys = {1}
    Prices = {1}
    Directions = {"BUY", "SELL"}
    MaxNotional = 4
    Burst = 2
    MockMode = FALSE
    MaxSignals = 2
    FaultKinds = {"crash", "redis"}
    MaxFaults = 1
INVARIANTS
    TwoFASeen
    OrphanSellStopped
    SurvivesRestart
CHECK_DEADLOCK FALSE
