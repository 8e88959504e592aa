SPECIFICATION LimiterSpec
CONSTANTS
    Burst = 3
    Unit = 3
    MaxTime = 9
INVARIANTS
    WindowBound
    PollingIsNotStarved
PROPERTIES
    ImplementsBucket
CHECK_DEADLOCK FALSE
