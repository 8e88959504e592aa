SPECIFICATION BridgeFairSpec
CONSTANTS
    Clients = {c1, c2}
    States = {s1, s2}
    MaxEvents = 4
    None = None
PROPERTY AlwaysCatchesUp
CHECK_DEADLOCK FALSE
