SPECIFICATION Spec
CONSTANTS
    Keys = {"max_positions", "signal_cooldown"}
    Bounded = {"max_positions"}
    Lo <- Low
    Hi <- High
    Default <- Defaults
    Fallback <- Fallbacks
    Inputs = {0, 20}
    Bad = Bad
    None = None
    Suggestions <- Lists
    Browsers = {b1, b2}
    MaxOps = 5
SYMMETRY Symmetry
INVARIANTS
    WithinGuardrails
    RunningIsStored
    ShownIsListed
CHECK_DEADLOCK FALSE
