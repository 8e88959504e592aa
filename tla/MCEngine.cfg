SPECIFICATION FairSpec
CONSTANTS
    Tickers = {t1}
    Qtys = {0, 1}
    Prices = {0, 2}
    Directions = {"BUY", "SELL", "HOLD"}
    MaxNotional = 4
    Burst = 2
    MockMode = FALSE
    MaxSignals = 3
    FaultKinds = {"crash", "redis", "reply"}
    MaxFaults = 2
INVARIANTS
    RecordsAgree
    EntryWasPaid
    OneAfterExpiry
PROPERTIES
    ListensAgain
    ImplementsExecution
CHECK_DEADLOCK FALSE
