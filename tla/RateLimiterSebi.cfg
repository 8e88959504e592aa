SPECIFICATION LimiterSpec
CONSTANTS
    Burst = 10
    Unit = 2
    MaxTime = 2
INVARIANTS
    FewerThanBurstPerSecond
CHECK_DEADLOCK FALSE
