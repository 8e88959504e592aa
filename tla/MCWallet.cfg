SPECIFICATION FairSpec
CONSTANTS
    Tickers = {t1, t2}
    Capital = 3
    TableCapital = 4
    ResetCapitals = {2}
    Qtys = {1, 2}
    Prices = {1, 2}
    Connections = {c1, c2}
    MaxOps = 3
    FaultKinds = {"crash", "postgres"}
    MaxFaults = 1
INVARIANTS
    EquityAccounted
    CashNeverNegative
PROPERTIES
    RestartKeepsWallet
    SavedInTheEnd
CHECK_DEADLOCK FALSE
