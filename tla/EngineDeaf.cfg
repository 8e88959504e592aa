SPECIFICATION FairSpec
CONSTANTS
    Tickers = {t1}
    Qtys = {1}
    Prices = {1}
    Directions = {"BUY", "SELL"}
    MaxNotional = 4
    Burst = 2
    MockMode = TRUE
    MaxSignals = 2
    FaultKinds = {"redis"}
    MaxFaults = 1
PROPERTIES
    AwaitsSignals
CHECK_DEADLOCK FALSE
