SPECIFICATION Spec
CONSTANTS
    Requests = {r1, r2}
    Tasks = {"prompt", "report"}
    MinuteOf <- Schedule
    Minutes = 5
    Ttl = 4
    Open = 5
    Close = 7
    MaxTime = 22
    MaxFaults = 2
SYMMETRY Symmetry
INVARIANTS
    UnlockedSameDay
    KeyCoversToken
    FiredOnceADay
CHECK_DEADLOCK FALSE
