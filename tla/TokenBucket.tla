----------------------------- MODULE TokenBucket -----------------------------
(***************************************************************************)
(* What a token bucket promises, without clocks or fractions: it starts    *)
(* with Burst whole tokens, a request takes one, and tokens come back one  *)
(* at a time up to Burst.  RateLimiter (the arithmetic of                  *)
(* src/execution/src/main.rs) is shown to implement it, and Engine uses it *)
(* in place of that arithmetic.                                            *)
(***************************************************************************)
EXTENDS Naturals

CONSTANT Burst        \* max_tokens, RateLimiter::new(10, 1.0)

VARIABLE tokens       \* whole tokens a caller could take now

Init == tokens = Burst

\* One more token has accrued.
Refill == tokens < Burst /\ tokens' = tokens + 1

\* try_acquire returned true.
Take == tokens > 0 /\ tokens' = tokens - 1

Next == Refill \/ Take

Spec == Init /\ [][Next]_tokens

TypeOK == tokens \in 0 .. Burst

===============================================================================
