SPECIFICATION BridgeFairSpec
CONSTANTS
    Clients = {c1, c2, c3}
    States = {s1, s2}
    MaxEvents = 5
    None = None
INVARIANTS
    ListIsOpen
PROPERTIES
    EventuallyShown
CHECK_DEADLOCK FALSE
