-------------------------------- MODULE Engine --------------------------------
(***************************************************************************)
(* The Rust execution engine: signal_loop of src/execution/src/main.rs     *)
(* with the broker call of engine/execution.rs, step by step between its   *)
(* awaits, with engine crashes, Redis outages and lost broker replies.     *)
(*                                                                         *)
(* The position of a ticker is what the code keeps of it, [qty, entry];    *)
(* NoPos stands for a ticker absent from the map or the Redis hash.        *)
(***************************************************************************)
EXTENDS Integers, Sequences, FiniteSets

CONSTANTS
    Tickers,          \* tickers signals are about
    Qtys, Prices,     \* quantities and prices signals carry
    Directions,       \* strings signals carry in `direction`
    MaxNotional,      \* max_position_pct * 1_000_000, execution.rs:169
    Burst,            \* RateLimiter::new(10, 1.0)
    MockMode,         \* Config::mock_mode
    MaxSignals,       \* bound: signals published to trade:signal
    FaultKinds,       \* subset of {"crash", "redis", "reply"}
    MaxFaults         \* bound: faults in a behaviour

ASSUME QtysAssumption == Qtys \subseteq Nat
ASSUME PricesAssumption == Prices \subseteq Nat
ASSUME BurstAssumption == Burst \in Nat \ {0}
ASSUME MockModeAssumption == MockMode \in BOOLEAN
ASSUME BoundsAssumption == MaxSignals \in Nat /\ MaxFaults \in Nat

VARIABLES
    pc,               \* where signal_loop stands
    queue,            \* signals delivered to the subscription, not yet read
    sig,              \* local `signal`
    active,           \* local `active`, the answer of GET 2fa:active
    positions,        \* local HashMap `positions`
    out,              \* local `result`, about to be published
    tokens,           \* whole tokens of local `rate_limiter`
    linked,           \* the pub/sub and publish connections are alive
    stored,           \* Redis hash engine:positions
    twofa,            \* Redis key 2fa:active exists
    redisUp,          \* Redis accepts connections
    filled,           \* broker: what its orders on a ticker add up to
    accepted,         \* broker: every order it accepted
    placed,           \* broker: how often it accepted one
    unmatched,        \* history: tickers whose last order did not open or close
                      \* just what the broker held
    late,             \* history: orders let through since the 2FA flag went
    published,        \* every result published on trade:result
    cut,              \* history: tickers whose last order was not recorded
    sent,             \* number of signals published so far
    faults            \* number of faults so far

engineVars == <<pc, sig, active, positions, out, tokens>>
redisVars  == <<stored, twofa, redisUp>>
brokerVars == <<filled, accepted, placed, unmatched, late>>
vars == <<pc, queue, sig, active, positions, out, tokens, linked, stored, twofa,
          redisUp, filled, accepted, placed, unmatched, late, published, cut, sent,
          faults>>

Bucket == INSTANCE TokenBucket

-------------------------------------------------------------------------------
\* main.rs:219 and 227
Buys  == {"BUY", "LONG"}
Sells == {"SELL", "SHORT"}

Position == [qty : Nat, entry : Nat]
NoPos == [qty |-> 0, entry |-> 0]
NoPositions == [t \in Tickers |-> NoPos]

Signal == [id : 1 .. MaxSignals, ticker : Tickers, dir : Directions,
           qty : Qtys, price : Prices]
Result == [id : 1 .. MaxSignals, ticker : Tickers,
           status : {"OPEN", "WIN", "LOSS"}, entry : Nat, exit : Nat]

Empty == [id |-> 0]   \* content of `sig` and `out` before the first signal

\* What the engine makes of an accepted order: a BUY replaces whatever was held
\* (main.rs:276), a SELL removes it whole, whatever its quantity (main.rs:312).
After(s) == IF s.dir \in Buys THEN [qty |-> s.qty, entry |-> s.price] ELSE NoPos

\* What a broker makes of it: quantities add up, below zero as well; the entry is
\* the price of the last BUY.
Ledger(s) ==
    LET held == filled[s.ticker]
    IN  IF s.dir \in Buys THEN [qty |-> held.qty + s.qty, entry |-> s.price]
        ELSE IF held.qty = s.qty THEN NoPos
        ELSE [held EXCEPT !.qty = held.qty - s.qty]

\* The order opens a position where there is none, or closes just what there is.
Matches(s) == filled[s.ticker].qty = IF s.dir \in Buys THEN 0 ELSE s.qty

\* execution.rs:154-178.  ExecutionEngine.positions is never written, so the
\* exposure already held is always zero; a SELL is not checked.
RiskOk(s) == s.dir \in Buys => s.qty > 0 /\ s.qty * s.price <= MaxNotional

\* main.rs:328-329: pnl >= 0.0, on floats: 0/0 is NaN, which is not >= 0.
Won(entry, exit) == exit >= entry /\ (entry > 0 \/ exit > 0)

Running   == pc \notin {"down", "ended"}
Listening == Running /\ linked

Fault(kind) == kind \in FaultKinds /\ faults < MaxFaults /\ faults' = faults + 1

Init ==
    /\ pc = "down"
    /\ queue = <<>>
    /\ sig = Empty /\ out = Empty
    /\ active = "unread"
    /\ positions = NoPositions
    /\ tokens = Burst
    /\ linked = FALSE
    /\ stored = NoPositions
    /\ twofa = FALSE
    /\ redisUp = TRUE
    /\ filled = NoPositions
    /\ accepted = {} /\ placed = 0 /\ unmatched = {} /\ late = 0
    /\ published = {} /\ cut = {}
    /\ sent = 0 /\ faults = 0

-------------------------------------------------------------------------------
(* Environment: the publishers, the 2FA flag, the clock.                     *)

\* Anyone publishes on trade:signal; pub/sub reaches only who is subscribed.
PublishSignal ==
    /\ redisUp /\ sent < MaxSignals
    /\ sent' = sent + 1
    /\ \E t \in Tickers, d \in Directions, q \in Qtys, p \in Prices :
          LET s == [id |-> sent + 1, ticker |-> t, dir |-> d, qty |-> q, price |-> p]
          IN  queue' = IF Listening THEN Append(queue, s) ELSE queue
    /\ UNCHANGED <<engineVars, linked, redisVars, brokerVars, published, cut, faults>>

\* The relay sets 2fa:active (handler.go) or its time to live runs out.
ToggleTwoFA ==
    /\ ~MockMode /\ redisUp
    /\ twofa' = ~twofa
    /\ late' = IF twofa' THEN 0 ELSE late
    /\ UNCHANGED <<engineVars, queue, linked, stored, redisUp, filled, accepted,
                   placed, unmatched, published, cut, sent, faults>>

Refill ==
    /\ Bucket!Refill
    /\ UNCHANGED <<pc, sig, active, positions, out, queue, linked, redisVars,
                   brokerVars, published, cut, sent, faults>>

-------------------------------------------------------------------------------
(* Starting up: main() connects or panics, signal_loop subscribes and then   *)
(* reads the hash back.                                                      *)

\* Mutant of Start: trade:signal is not subscribed to.
StartDeaf ==
    /\ pc = "down" /\ redisUp
    /\ pc' = "restore"
    /\ linked' = FALSE
    /\ positions' = NoPositions
    /\ tokens' = Burst
    /\ UNCHANGED <<queue, sig, active, out, redisVars, brokerVars, published,
                   cut, sent, faults>>

Start ==
    /\ pc = "down" /\ redisUp
    /\ pc' = "restore"
    /\ linked' = TRUE
    /\ positions' = NoPositions
    /\ tokens' = Burst
    /\ UNCHANGED <<queue, sig, active, out, redisVars, brokerVars, published,
                   cut, sent, faults>>

\* HGETALL; without a connection or on an error the map stays empty.
Restore ==
    /\ pc = "restore"
    /\ pc' = "recv"
    /\ \/ redisUp /\ positions' = stored /\ UNCHANGED <<cut, faults>>
       \/ /\ IF redisUp THEN Fault("redis") ELSE UNCHANGED faults
          /\ UNCHANGED positions
          /\ cut' = cut \cup {t \in Tickers : stored[t] # NoPos}
    /\ UNCHANGED <<queue, sig, active, out, tokens, linked, redisVars,
                   brokerVars, published, sent>>

-------------------------------------------------------------------------------
(* One turn of the loop.                                                     *)

\* An unknown direction is dropped, as an unreadable payload is.
Receive ==
    /\ pc = "recv" /\ queue # <<>>
    /\ sig' = Head(queue)
    /\ queue' = Tail(queue)
    /\ active' = "unread"
    /\ pc' = IF sig'.dir \in Buys \cup Sells THEN "gate" ELSE "recv"
    /\ UNCHANGED <<positions, out, tokens, linked, redisVars, brokerVars,
                   published, cut, sent, faults>>

\* "pubsub stream ended": signal_loop returns, the process stays up.
StreamEnds ==
    /\ pc = "recv" /\ queue = <<>> /\ ~linked
    /\ pc' = "ended"
    /\ UNCHANGED <<queue, sig, active, positions, out, tokens, linked, redisVars,
                   brokerVars, published, cut, sent, faults>>

\* Mutant of Gate: the flag is read but not looked at.
GateOpen ==
    /\ pc = "gate"
    /\ \/ MockMode /\ pc' = "limit" /\ UNCHANGED active
       \/ ~MockMode /\ pc' = "limit"
          /\ active' = IF redisUp /\ twofa THEN "some" ELSE "none"
    /\ UNCHANGED <<queue, sig, positions, out, tokens, linked, redisVars,
                   brokerVars, published, cut, sent, faults>>

\* GET 2fa:active.  When no connection can be made the check is passed over; an
\* error of the GET itself reads as a missing flag.
Gate ==
    /\ pc = "gate"
    /\ \/ (MockMode \/ ~redisUp) /\ pc' = "limit" /\ UNCHANGED <<active, faults>>
       \/ /\ ~MockMode /\ redisUp
          /\ active' = IF twofa THEN "some" ELSE "none"
          /\ pc' = IF twofa THEN "limit" ELSE "recv"
          /\ UNCHANGED faults
       \/ /\ ~MockMode /\ redisUp /\ Fault("redis")
          /\ \/ UNCHANGED active /\ pc' = "limit"
             \/ active' = "none" /\ pc' = "recv"
    /\ UNCHANGED <<queue, sig, positions, out, tokens, linked, redisVars,
                   brokerVars, published, cut, sent>>

\* try_acquire, then the risk check that opens ExecutionEngine::execute.
Limit ==
    /\ pc = "limit"
    /\ \/ tokens = 0 /\ pc' = "recv" /\ UNCHANGED tokens
       \/ Bucket!Take /\ pc' = IF RiskOk(sig) THEN "place" ELSE "recv"
    /\ UNCHANGED <<queue, sig, active, positions, out, linked, redisVars,
                   brokerVars, published, cut, sent, faults>>

\* The broker takes the order, and fills it.
Accept ==
    /\ accepted' = accepted \cup {sig}
    /\ placed' = placed + 1
    /\ filled' = [filled EXCEPT ![sig.ticker] = Ledger(sig)]
    /\ unmatched' = IF Matches(sig) THEN unmatched \ {sig.ticker}
                    ELSE unmatched \cup {sig.ticker}
    /\ late' = IF twofa \/ active = "unread" THEN late ELSE late + 1

\* Mutant of PlaceReplyLost: an order without a reply is sent once more.
PlaceReplyLostRetries ==
    /\ pc = "place" /\ Fault("reply")
    /\ Accept
    /\ cut' = cut \cup {sig.ticker}
    /\ pc' = "limit"
    /\ UNCHANGED <<queue, sig, active, positions, out, tokens, linked, redisVars,
                   published, sent>>

PlaceOk ==
    /\ pc = "place"
    /\ Accept
    /\ pc' = "book"
    /\ UNCHANGED <<queue, sig, active, positions, out, tokens, linked, redisVars,
                   published, cut, sent, faults>>

\* Mutant of PlaceRefused: Rejected is not told from an accepted order.
PlaceRefusedBooked ==
    /\ pc = "place"
    /\ pc' = "book"
    /\ UNCHANGED <<queue, sig, active, positions, out, tokens, linked, redisVars,
                   brokerVars, published, cut, sent, faults>>

\* HTTP error, unreadable reply or status Rejected: the signal is forgotten.
PlaceRefused ==
    /\ pc = "place"
    /\ pc' = "recv"
    /\ UNCHANGED <<queue, sig, active, positions, out, tokens, linked, redisVars,
                   brokerVars, published, cut, sent, faults>>

\* The same error, but the broker had taken the order before the reply was lost.
PlaceReplyLost ==
    /\ pc = "place" /\ Fault("reply")
    /\ Accept
    /\ cut' = cut \cup {sig.ticker}
    /\ pc' = "recv"
    /\ UNCHANGED <<queue, sig, active, positions, out, tokens, linked, redisVars,
                   published, sent>>

\* The result published for an accepted order, or Empty for an orphaned SELL.
ResultOf(s, held) ==
    IF s.dir \in Buys
    THEN [id |-> s.id, ticker |-> s.ticker, status |-> "OPEN",
          entry |-> s.price, exit |-> s.price]
    ELSE IF held = NoPos THEN Empty
    ELSE [id |-> s.id, ticker |-> s.ticker,
          status |-> IF Won(held.entry, s.price) THEN "WIN" ELSE "LOSS",
          entry |-> held.entry, exit |-> s.price]

\* Mutant of Book: HDEL is forgotten.
BookForgetsHdel ==
    /\ pc = "book"
    /\ positions' = [positions EXCEPT ![sig.ticker] = After(sig)]
    /\ stored' = IF redisUp /\ sig.dir \in Buys
                 THEN [stored EXCEPT ![sig.ticker] = After(sig)] ELSE stored
    /\ cut' = IF redisUp THEN cut \ {sig.ticker} ELSE cut \cup {sig.ticker}
    /\ out' = ResultOf(sig, positions[sig.ticker])
    /\ pc' = IF out' = Empty THEN "recv" ELSE "publish"
    /\ UNCHANGED <<queue, sig, active, tokens, linked, twofa, redisUp, brokerVars,
                   published, sent, faults>>

\* Ok(order): the map is updated, then the hash (HSET, HDEL; an error of either is
\* swallowed), and the result is made ready.  An orphaned SELL has none
\* (main.rs:339-341).
Book ==
    /\ pc = "book"
    /\ positions' = [positions EXCEPT ![sig.ticker] = After(sig)]
    /\ \/ /\ redisUp
          /\ stored' = [stored EXCEPT ![sig.ticker] = After(sig)]
          /\ cut' = cut \ {sig.ticker}
          /\ UNCHANGED faults
       \/ /\ IF redisUp THEN Fault("redis") ELSE UNCHANGED faults
          /\ cut' = cut \cup {sig.ticker}
          /\ UNCHANGED stored
    /\ out' = ResultOf(sig, positions[sig.ticker])
    /\ pc' = IF out' = Empty THEN "recv" ELSE "publish"
    /\ UNCHANGED <<queue, sig, active, tokens, linked, twofa, redisUp, brokerVars,
                   published, sent>>

\* PUBLISH trade:result; an error leaves signal_loop through `?`, and the stream
\* is dropped with all it still held.
PublishResult ==
    /\ pc = "publish"
    /\ \/ /\ linked
          /\ published' = published \cup {out}
          /\ pc' = "recv"
          /\ UNCHANGED <<queue, faults>>
       \/ /\ IF linked THEN Fault("redis") ELSE UNCHANGED faults
          /\ pc' = "ended"
          /\ queue' = <<>>
          /\ UNCHANGED published
    /\ UNCHANGED <<sig, active, positions, out, tokens, linked, redisVars,
                   brokerVars, cut, sent>>

-------------------------------------------------------------------------------
(* Faults.                                                                   *)

\* The process dies, with everything signal_loop holds in memory.
Crash ==
    /\ pc # "down" /\ Fault("crash")
    /\ pc' = "down"
    /\ queue' = <<>>
    /\ linked' = FALSE
    /\ positions' = NoPositions
    /\ cut' = IF pc = "book" THEN cut \cup {sig.ticker} ELSE cut
    /\ UNCHANGED <<sig, active, out, tokens, redisVars, brokerVars, published, sent>>

\* Redis goes down; its container has no volume, so it may come back empty.
RedisDown ==
    /\ redisUp /\ Fault("redis")
    /\ redisUp' = FALSE
    /\ linked' = FALSE
    /\ \/ UNCHANGED <<stored, twofa, cut>>
       \/ /\ stored' = NoPositions /\ twofa' = FALSE
          /\ cut' = cut \cup {t \in Tickers : stored[t] # NoPos}
    /\ UNCHANGED <<engineVars, queue, brokerVars, published, sent>>

RedisBack ==
    /\ ~redisUp
    /\ redisUp' = TRUE
    /\ UNCHANGED <<engineVars, queue, linked, stored, twofa, brokerVars, published,
                   cut, sent, faults>>

-------------------------------------------------------------------------------
Step ==
    \/ Start \/ Restore \/ Receive \/ StreamEnds \/ Gate \/ Limit
    \/ Book \/ PublishResult

Next ==
    \/ Step \/ PlaceOk \/ PlaceRefused \/ PlaceReplyLost
    \/ PublishSignal \/ ToggleTwoFA \/ Refill
    \/ Crash \/ RedisDown \/ RedisBack

Spec == Init /\ [][Next]_vars

\* docker restarts the container (restart: unless-stopped), the tokio task runs
\* whenever it can, a call to Redis has the redis crate's default time-outs, Redis
\* is restarted too.  Nothing is assumed of the broker's answer: the HTTP client is
\* made without a time-out (broker/client.rs:17).
FairSpec == Spec /\ WF_vars(Step) /\ WF_vars(RedisBack)

-------------------------------------------------------------------------------
TypeOK ==
    /\ pc \in {"down", "restore", "recv", "gate", "limit", "place", "book",
               "publish", "ended"}
    /\ queue \in Seq(Signal)
    /\ sig \in Signal \cup {Empty}
    /\ active \in {"unread", "some", "none"}
    /\ positions \in [Tickers -> Position]
    /\ out \in Result \cup {Empty}
    /\ tokens \in 0 .. Burst
    /\ linked \in BOOLEAN
    /\ stored \in [Tickers -> Position]
    /\ twofa \in BOOLEAN /\ redisUp \in BOOLEAN
    /\ filled \in [Tickers -> [qty : Int, entry : Nat]]
    /\ accepted \in SUBSET Signal /\ placed \in Nat
    /\ unmatched \in SUBSET Tickers /\ late \in Nat
    /\ published \in SUBSET Result
    /\ cut \in SUBSET Tickers
    /\ sent \in 0 .. MaxSignals /\ faults \in 0 .. MaxFaults

(* The broker adds orders up, the engine replaces and removes; crashes and  *)
(* outages come in between.  They disagree about a ticker only if its last  *)
(* order did not open or close just what the broker held (main.rs:276, 312),*)
(* or fell into a window the code leaves open (crash before map and hash    *)
(* are written, lost reply, lost or failed write, lost hash): otherwise the *)
(* hash is the broker's position, before and after a restart, and so is the *)
(* map the loop works on.                                                   *)
RecordsAgree ==
    \A t \in Tickers \ (cut \cup unmatched) :
        ~(pc = "book" /\ sig.ticker = t) =>
            /\ stored[t] = filled[t]
            /\ pc \notin {"down", "restore"} => positions[t] = filled[t]

(* The profit the engine reports is computed against a price really paid:   *)
(* the entry price of a WIN or LOSS is that of a BUY the broker accepted    *)
(* for that ticker, through any number of crashes and restores.             *)
EntryWasPaid ==
    \A r \in published : r.status \in {"WIN", "LOSS"} =>
        \E b \in accepted :
            b.dir \in Buys /\ b.ticker = r.ticker /\ b.price = r.entry

(* Seen from outside, the engine executes each signal at most once, in the  *)
(* order of publication, and each result is that of one execution, sent at  *)
(* most once and reckoned against a price paid: no crash, retry or restore  *)
(* places an order again or reports it twice.                               *)
Promise == INSTANCE Execution WITH Orders <- Signal
ImplementsExecution == Promise!Spec

(* Once the daily 2FA has run out (main.rs:241), at most one more order goes *)
(* out, the one that was already past its look at the flag; what is waved    *)
(* through because Redis cannot be reached (main.rs:244) is another matter,  *)
(* see TwoFASeen.                                                            *)
OneAfterExpiry == late <= 1

(* As long as Redis stays up, the engine always comes back to its            *)
(* subscription, whatever crashes: signals are listened to again.  It does   *)
(* not when the broker never answers an order, nor when a PUBLISH fails,     *)
(* which ends signal_loop with its stream alive (main.rs:308, 357).          *)
ListensAgain ==
    []redisUp => \/ []<>(pc = "recv")
                 \/ <>[](pc = "place")
                 \/ <>[](pc = "ended" /\ linked)

-------------------------------------------------------------------------------
(* Claims of the documentation that the code does not keep.                 *)

(* README.md:91, "Engine rejects SELL with no matching position": no such   *)
(* order reaches the broker.                                                *)
OrphanSellStopped ==
    pc = "book" /\ sig.dir \in Sells => positions[sig.ticker] # NoPos

(* main.rs:241, "check 2FA is active before allowing execution": an order   *)
(* out of mock mode has seen the flag.                                      *)
TwoFASeen == pc \in {"book", "publish"} => MockMode \/ active = "some"

(* main.rs:151, "Awaiting trade signals on trade:signal": the engine always  *)
(* comes back to its subscription, when Redis has been away as well.        *)
AwaitsSignals == []<>(pc = "recv")

(* main.rs:175, "Restore positions from Redis (survive engine restarts)":   *)
(* an engine that restarts knows the positions its broker orders left.      *)
SurvivesRestart ==
    pc = "recv" /\ unmatched = {} => positions = filled

===============================================================================
