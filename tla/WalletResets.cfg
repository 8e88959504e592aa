SPECIFICATION Spec
CONSTANTS
    Tickers = {t1, t2}
    Capital = 4
    TableCapital = 4
    ResetCapitals = {2}
    Qtys = {1}
    Prices = {1}
    Connections = {c1, c2}
    MaxOps = 2
    FaultKinds = {}
    MaxFaults = 1
INVARIANTS
    ResetSticks
CHECK_DEADLOCK FALSE
