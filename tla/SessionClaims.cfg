SPECIFICATION Spec
CONSTANTS
    Requests = {r1}
    Tasks = {"prompt", "report"}
    MinuteOf <- Schedule
    Minutes = 5
    Ttl = 4
    Open = 5
    Close = 7
    MaxTime = 7
    MaxFaults = 1
INVARIANTS
    DailyTwoFA
    FiredThisMinute
    UnlockedUntilClose
CHECK_DEADLOCK FALSE
