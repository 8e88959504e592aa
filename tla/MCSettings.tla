------------------------------ MODULE MCSettings ------------------------------
\* Settings with a bounded key and a free one.  "short" is a parameter that
\* DEFAULTS does not have; the fallback of the free key differs from its
\* default, as signal_cooldown's does (300 in strategy.py:151, 120 in DEFAULTS),
\* and the environment has set the bounded one out of its bounds.
EXTENDS Settings, TLC

Low == [k \in Bounded |-> 1]
High == [k \in Bounded |-> 8]
Defaults == [k \in Keys |-> IF k = "max_positions" THEN 10 ELSE 120]
Fallbacks == [k \in Keys |-> IF k = "max_positions" THEN 3 ELSE 300]

Suggest(k, v) == [param |-> k, value |-> v]
Lists == {
    <<Suggest("max_positions", 20), Suggest("short", 1)>>,
    <<Suggest("signal_cooldown", 20)>>,
    <<Suggest("signal_cooldown", 5), Suggest("max_positions", Bad)>> }

Symmetry == Permutations(Browsers)
===============================================================================
