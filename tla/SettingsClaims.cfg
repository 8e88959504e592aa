SPECIFICATION Spec
CONSTANTS
    Keys = {"max_positions", "signal_cooldown"}
    Bounded = {"max_positions"}
    Lo <- Low
    Hi <- High
    Default <- Defaults
    Fallback <- Fallbacks
    Inputs = {0, 20}
    Bad = Bad
    None = None
    Suggestions <- Lists
    Browsers = {b1}
    MaxOps = 3
INVARIANTS
    GuardrailsHold
    SuggestionsSurvive
CHECK_DEADLOCK FALSE
