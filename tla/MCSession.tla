------------------------------ MODULE MCSession ------------------------------
\* Session with its requests made interchangeable, and two tasks at the
\* minutes they have in src/cmd/orchestrator/main.go relative to the market:
\* the prompt before the opening, the report at the close.
EXTENDS Session, TLC

Schedule == [t \in Tasks |-> IF t = "prompt" THEN 1 ELSE 3]
Symmetry == Permutations(Requests)
===============================================================================
