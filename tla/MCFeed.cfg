SPECIFICATION FairSpec
CONSTANTS
    t1 = t1
    t2 = t2
    Tickers = {t1, t2}
    First <- FirstTickers
    Clients = {c1, c2}
    Prices = {p1, p2}
    None = None
    Failures = 3
    MaxFaults = 2
    MaxEvents = 4
INVARIANTS
    DroppedForCause
PROPERTIES
    FedInTheEnd
    ShownInTheEnd
CHECK_DEADLOCK FALSE
