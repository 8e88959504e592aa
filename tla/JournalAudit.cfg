SPECIFICATION Spec
CONSTANTS
    MaxResults = 3
    ChanSize = 1
    Attempts = 2
    MaxFaults = 2
    None = None
INVARIANT AllAudited
CHECK_DEADLOCK FALSE
