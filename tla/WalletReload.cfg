SPECIFICATION Spec
CONSTANTS
    Tickers = {t1, t2}
    Capital = 4
    TableCapital = 4
    ResetCapitals = {}
    Qtys = {1}
    Prices = {1}
    Connections = {c1, c2}
    MaxOps = 2
    FaultKinds = {"crash"}
    MaxFaults = 1
PROPERTIES
    FullRoundTrip
CHECK_DEADLOCK FALSE
