----------------------------- MODULE RateLimiter -----------------------------
(***************************************************************************)
(* The engine's order rate limiter, src/execution/src/main.rs:57-86.  The  *)
(* code keeps `tokens` as a float and refills it by the seconds elapsed    *)
(* since last_refill (refill_rate = 1.0).  Here time is counted in ticks,  *)
(* Unit ticks to the second, and tokens in 1/Unit of a token, so that the  *)
(* refill of one tick is exactly 1 and the arithmetic is exact.            *)
(***************************************************************************)
EXTENDS Integers, Sequences

CONSTANTS
    Burst,            \* max_tokens (10 in the code)
    Unit,             \* ticks in a second; also the cost of one order
    MaxTime           \* bound on the clock

ASSUME BurstAssumption == Burst \in Nat \ {0}
ASSUME UnitAssumption == Unit \in Nat \ {0}
ASSUME MaxTimeAssumption == MaxTime \in Nat

VARIABLES
    now,              \* Instant::now()
    tokens,           \* self.tokens, in 1/Unit of a token
    last,             \* self.last_refill
    grants,           \* history: the times at which try_acquire returned true
    refusedAt         \* history: {} after a grant, else {time of the first refusal since}

limiterVars == <<now, tokens, last, grants, refusedAt>>

Capacity == Burst * Unit

\* self.tokens after the refill that opens every try_acquire.
Refilled ==
    LET sum == tokens + (now - last)
    IN  IF sum > Capacity THEN Capacity ELSE sum

LimiterInit ==
    /\ now = 0
    /\ tokens = Capacity
    /\ last = 0
    /\ grants = <<>>
    /\ refusedAt = {}

Tick ==
    /\ now < MaxTime
    /\ now' = now + 1
    /\ UNCHANGED <<tokens, last, grants, refusedAt>>

\* Mutant of Acquire: the order is paid from the tokens before the refill.
AcquireForgetsRefill ==
    /\ Refilled >= Unit
    /\ tokens' = tokens - Unit
    /\ last' = now
    /\ grants' = Append(grants, now)
    /\ refusedAt' = {}
    /\ UNCHANGED now

\* Mutant of Acquire: the order costs nothing.
AcquireFree ==
    /\ Refilled >= Unit
    /\ tokens' = Refilled
    /\ last' = now
    /\ grants' = Append(grants, now)
    /\ refusedAt' = {}
    /\ UNCHANGED now

\* try_acquire() = true
Acquire ==
    /\ Refilled >= Unit
    /\ tokens' = Refilled - Unit
    /\ last' = now
    /\ grants' = Append(grants, now)
    /\ refusedAt' = {}
    /\ UNCHANGED now

\* Mutant of Refuse: the fraction of a token is dropped on a refusal.
RefuseWhole ==
    /\ Refilled < Unit
    /\ tokens' = 0
    /\ last' = now
    /\ refusedAt' = IF refusedAt = {} THEN {now} ELSE refusedAt
    /\ UNCHANGED <<now, grants>>

\* try_acquire() = false: the refill is kept, only the order is refused.
Refuse ==
    /\ Refilled < Unit
    /\ tokens' = Refilled
    /\ last' = now
    /\ refusedAt' = IF refusedAt = {} THEN {now} ELSE refusedAt
    /\ UNCHANGED <<now, grants>>

LimiterNext == Tick \/ Acquire \/ Refuse

LimiterSpec == LimiterInit /\ [][LimiterNext]_limiterVars

-------------------------------------------------------------------------------
LimiterTypeOK ==
    /\ now \in Nat
    /\ tokens \in 0 .. Capacity
    /\ last \in 0 .. now
    /\ grants \in Seq(Nat)
    /\ refusedAt \in SUBSET (0 .. now)

(* Over any stretch of time, however the calls are timed, the limiter lets  *)
(* through at most Burst orders plus one for every second the stretch lasts *)
(* (README.md:119, "10 burst, 1/sec refill").                               *)
WindowBound ==
    \A i, j \in 1 .. Len(grants) :
        i <= j => (j - i + 1) * Unit <= Capacity + (grants[j] - grants[i])

(* Asking again and again does not starve the caller: once a whole second   *)
(* has passed since the first refusal, try_acquire succeeds, although every *)
(* refusal in between moved last_refill (main.rs:78) forward.               *)
PollingIsNotStarved ==
    \A r \in refusedAt : now - r >= Unit => Refilled >= Unit

(* The reason for WindowBound: what the limiter has let through since its   *)
(* i-th grant, plus what it still holds, was all there at that grant or has *)
(* been refilled since.                                                     *)
Potential ==
    \A i \in 1 .. Len(grants) :
        /\ grants[i] <= last
        /\ (Len(grants) - i + 1) * Unit + tokens <= Capacity + (last - grants[i])

(* The reason for PollingIsNotStarved: while calls are refused nothing of   *)
(* the refill is dropped, so the fraction held is at least the time waited. *)
FractionKept ==
    \A r \in refusedAt : r <= last /\ tokens < Unit /\ tokens >= last - r

(* The limiter is a token bucket: its whole tokens only ever move one up    *)
(* with the clock and one down with a granted order.                        *)
Bucket == INSTANCE TokenBucket WITH tokens <- Refilled \div Unit

ImplementsBucket == Bucket!Spec

(* main.rs:254 says of this limiter "SEBI: rate limit (<10 orders/sec)":    *)
(* fewer than Burst grants would fall within any one second.                *)
FewerThanBurstPerSecond ==
    \A i, j \in 1 .. Len(grants) :
        (i <= j /\ grants[j] - grants[i] < Unit) => j - i + 1 < Burst

===============================================================================
