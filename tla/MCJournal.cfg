SPECIFICATION FairSpec
CONSTANTS
    MaxResults = 3
    ChanSize = 1
    Attempts = 2
    MaxFaults = 2
    None = None
INVARIANTS
    CountedOnce
    AuditedFirst
    BookedInOrder
    RuleIsRemembered
PROPERTIES
    ReceivedIsSettled
CHECK_DEADLOCK FALSE
