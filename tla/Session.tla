------------------------------- MODULE Session -------------------------------
(***************************************************************************)
(* The daily unlock: the orchestrator's TOTP form (src/internal/handler),  *)
(* its session token (src/internal/token), the key 2fa:active that the     *)
(* engine reads before an order, and the scheduler (src/internal/          *)
(* scheduler) that asks the operator for a TOTP every morning; and the     *)
(* scripts that write the same key once, for paper trading.                *)
(*                                                                         *)
(* Time is counted in half minutes, the scheduler's ticker period, so      *)
(* minute m of the calendar is the two units 2m and 2m + 1.                *)
(***************************************************************************)
EXTENDS Integers

CONSTANTS
    Requests,         \* HTTP requests to /submit that can be under way
    Tasks,            \* names given to Scheduler.Register
    MinuteOf,         \* the scheduled minute of the day of each task
    Minutes,          \* minutes in a day
    Ttl,              \* 8*time.Hour, in half minutes
    Open, Close,      \* trading hours, in half minutes since midnight
    MaxTime,          \* bound on the clock
    MaxFaults         \* bound on restarts and Redis outages

Day == 2 * Minutes

ASSUME MinutesAssumption == Minutes \in Nat \ {0}
ASSUME TasksAssumption == MinuteOf \in [Tasks -> 0 .. Minutes - 1]
ASSUME TimesAssumption ==
    /\ Ttl \in Nat \ {0} /\ Open \in Nat /\ Close \in Nat
    /\ MaxTime \in Nat /\ MaxFaults \in Nat
\* A session does not last from midnight to the opening: 8 h against 09:15.
ASSUME TtlAssumption == Ttl <= Open /\ Open <= Close /\ Close <= Day

VARIABLES
    now,              \* half minutes since the first midnight
    req,              \* where each request stands in SubmitTOTP
    token,            \* Manager.token: [exp, active], or NoToken
    keyUntil,         \* when 2fa:active expires; it exists while now < keyUntil
    paper,            \* 2fa:active is "paper-mode", which has no expiry
    redisUp,
    ticked,           \* the ticker has fired in this half minute
    lastRun,          \* Scheduler.lastRun: the minute a task last fired, or -1
    fires,            \* history: how often a task fired in each minute
    started,          \* history: how often the process was restarted in each minute
    keyMissed,        \* history: the last SET of the key failed, or Redis lost it
    faults            \* number of faults so far

vars == <<now, req, token, keyUntil, paper, redisUp, ticked, lastRun, fires, started,
          keyMissed, faults>>
clockVars == <<ticked, lastRun, fires, started>>

NoToken == [exp |-> 0, active |-> FALSE]
Tokens == [exp : 0 .. MaxTime + Ttl, active : BOOLEAN]

Minute == now \div 2                   \* now.Format("2006-01-02 15:04")
AllMinutes == 0 .. MaxTime \div 2
Unlocked == paper \/ now < keyUntil    \* what the engine's GET 2fa:active sees
InMarket == now % Day \in Open .. Close - 1

\* Status() says "Session active."
StatusActive == token.active /\ now <= token.exp

Init ==
    /\ now = 0
    /\ req = [r \in Requests |-> "idle"]
    /\ token = NoToken
    /\ keyUntil = 0 /\ paper = FALSE
    /\ redisUp = TRUE
    /\ ticked = TRUE
    /\ lastRun = [t \in Tasks |-> -1]
    /\ fires = [t \in Tasks |-> [m \in AllMinutes |-> 0]]
    /\ started = [m \in AllMinutes |-> 0]
    /\ keyMissed = FALSE
    /\ faults = 0

-------------------------------------------------------------------------------
\* A POST with a TOTP: Invalidate, then the call of the broker.
Submit(r) ==
    /\ req[r] = "idle"
    /\ token' = [token EXCEPT !.active = FALSE]
    /\ req' = [req EXCEPT ![r] = "auth"]
    /\ UNCHANGED <<now, keyUntil, paper, redisUp, clockVars, keyMissed, faults>>

\* Authenticate returns an error: the form is shown again.
AuthFails(r) ==
    /\ req[r] = "auth"
    /\ req' = [req EXCEPT ![r] = "idle"]
    /\ UNCHANGED <<now, token, keyUntil, paper, redisUp, clockVars, keyMissed, faults>>

\* Authenticate returns a token: tokenMgr.Set(sessionToken, 8*time.Hour).
SetToken(r) ==
    /\ req[r] = "auth"
    /\ token' = [exp |-> now + Ttl, active |-> TRUE]
    /\ req' = [req EXCEPT ![r] = "key"]
    /\ UNCHANGED <<now, keyUntil, paper, redisUp, clockVars, keyMissed, faults>>

\* Mutant of SetKey: expiration 0 is "no expiration" to go-redis.
SetKeyForEver(r) ==
    /\ req[r] = "key"
    /\ keyUntil' = IF redisUp THEN MaxTime + Ttl ELSE keyUntil
    /\ paper' = (paper /\ ~redisUp)
    /\ keyMissed' = ~redisUp
    /\ req' = [req EXCEPT ![r] = "idle"]
    /\ UNCHANGED <<now, token, redisUp, clockVars, faults>>

\* Mutant of SetKey: SETNX, an existing key is not renewed.
SetKeyIfAbsent(r) ==
    /\ req[r] = "key"
    /\ keyUntil' = IF redisUp /\ ~Unlocked THEN now + Ttl ELSE keyUntil
    /\ UNCHANGED paper
    /\ keyMissed' = ~redisUp
    /\ req' = [req EXCEPT ![r] = "idle"]
    /\ UNCHANGED <<now, token, redisUp, clockVars, faults>>

\* rdb.Set(ctx, "2fa:active", "1", 8*time.Hour), its error ignored.  It replaces
\* whatever is there, "paper-mode" too.
SetKey(r) ==
    /\ req[r] = "key"
    /\ keyUntil' = IF redisUp THEN now + Ttl ELSE keyUntil
    /\ paper' = (paper /\ ~redisUp)
    /\ keyMissed' = ~redisUp
    /\ req' = [req EXCEPT ![r] = "idle"]
    /\ UNCHANGED <<now, token, redisUp, clockVars, faults>>

\* install.sh:95, aws-deploy.sh:121: redis-cli SET 2fa:active "paper-mode", which
\* takes the expiry away from a key that is there.
EnablePaper ==
    /\ redisUp /\ ~paper
    /\ paper' = TRUE
    /\ keyUntil' = 0
    /\ UNCHANGED <<now, req, token, redisUp, clockVars, keyMissed, faults>>

-------------------------------------------------------------------------------
Due(t) == Minute % Minutes = MinuteOf[t]

\* Mutant of ToFire: lastRun holds the time of day, without the date.
ToFireDateless == {t \in Tasks : Due(t) /\ lastRun[t] % Minutes # MinuteOf[t]}

\* The tasks checkAndRun starts: due now, and not yet fired in this minute.
ToFire == {t \in Tasks : Due(t) /\ lastRun[t] # Minute}

\* checkAndRun, called by loop for a tick of the 30 s ticker.
CheckAndRun ==
    /\ ~ticked
    /\ ticked' = TRUE
    /\ lastRun' = [t \in Tasks |-> IF t \in ToFire THEN Minute ELSE lastRun[t]]
    /\ fires' = [t \in Tasks |-> [m \in AllMinutes |->
                    IF t \in ToFire /\ m = Minute THEN fires[t][m] + 1 ELSE fires[t][m]]]
    /\ UNCHANGED <<now, req, token, keyUntil, paper, redisUp, started, keyMissed, faults>>

\* Time passes; the ticker fires once in every half minute.
Advance ==
    /\ now < MaxTime
    /\ ticked
    /\ now' = now + 1
    /\ ticked' = FALSE
    /\ UNCHANGED <<req, token, keyUntil, paper, redisUp, lastRun, fires, started,
                   keyMissed, faults>>

-------------------------------------------------------------------------------
\* The orchestrator dies and docker starts it again: NewManager, New, a new
\* ticker that first fires in the next half minute.  The key stays in Redis.
Restart ==
    /\ faults < MaxFaults
    /\ faults' = faults + 1
    /\ token' = NoToken
    /\ req' = [r \in Requests |-> "idle"]
    /\ ticked' = TRUE
    /\ lastRun' = [t \in Tasks |-> -1]
    /\ started' = [started EXCEPT ![Minute] = @ + 1]
    /\ UNCHANGED <<now, keyUntil, paper, redisUp, fires, keyMissed>>

\* Redis keeps nothing over a restart (docker-compose.yml gives it no volume).
RedisDown ==
    /\ faults < MaxFaults
    /\ redisUp
    /\ faults' = faults + 1
    /\ redisUp' = FALSE
    /\ keyUntil' = 0 /\ paper' = FALSE
    /\ keyMissed' = TRUE
    /\ UNCHANGED <<now, req, token, clockVars>>

RedisBack ==
    /\ ~redisUp
    /\ redisUp' = TRUE
    /\ UNCHANGED <<now, req, token, keyUntil, paper, clockVars, keyMissed, faults>>

Handler(r) == Submit(r) \/ AuthFails(r) \/ SetToken(r) \/ SetKey(r)

Next ==
    \/ \E r \in Requests : Handler(r)
    \/ EnablePaper
    \/ CheckAndRun
    \/ Advance
    \/ Restart
    \/ RedisDown
    \/ RedisBack

Spec == Init /\ [][Next]_vars

-------------------------------------------------------------------------------
TypeOK ==
    /\ now \in 0 .. MaxTime
    /\ req \in [Requests -> {"idle", "auth", "key"}]
    /\ token \in Tokens
    /\ keyUntil \in 0 .. MaxTime + Ttl
    /\ paper \in BOOLEAN /\ redisUp \in BOOLEAN
    /\ ticked \in BOOLEAN
    /\ lastRun \in [Tasks -> AllMinutes \cup {-1}]
    /\ fires \in [Tasks -> [AllMinutes -> Nat]]
    /\ started \in [AllMinutes -> Nat]
    /\ keyMissed \in BOOLEAN
    /\ faults \in 0 .. MaxFaults

(* While the market is open, the engine is unlocked only by a session of the *)
(* same calendar day (README.md:118, "Daily manual 2FA"), however late the   *)
(* evening before somebody logged in, and through restarts of either side:   *)
(* unless the paper-mode key of the scripts is there, which the first login  *)
(* replaces.                                                                 *)
UnlockedSameDay ==
    (InMarket /\ Unlocked /\ ~paper) => (keyUntil - Ttl) \div Day = now \div Day

(* The status page never promises more than the engine honours: while it     *)
(* says "Session active", and the request that set the token has written the *)
(* key, the key lasts at least as long as the token, unless Redis refused    *)
(* the last write or lost the key.  Requests may overlap in any way.         *)
KeyCoversToken ==
    (token.active /\ ~keyMissed /\ \A r \in Requests : req[r] # "key")
        => paper \/ keyUntil >= token.exp

(* The daily prompt and the daily report are sent once: in a scheduled minute *)
(* in which the process was not restarted a task fires exactly once, for all  *)
(* the ticks that fall into it; lastRun is kept in memory only                *)
(* (scheduler.go:84), so each restart in that minute can add one more firing, *)
(* and no more.                                                               *)
FiredOnceADay ==
    \A t \in Tasks : \A m \in AllMinutes :
        /\ fires[t][m] <= 1 + started[m]
        /\ (m % Minutes = MinuteOf[t] /\ started[m] = 0 /\ 2 * m + 2 <= now)
              => fires[t][m] = 1

-------------------------------------------------------------------------------
(* Claims of the documentation that the code does not keep.                  *)

(* README.md:118, "Daily manual 2FA": trading is unlocked by a session of the *)
(* same day.  The paper-mode key of install.sh unlocks it until a login.      *)
DailyTwoFA ==
    (InMarket /\ Unlocked) => (keyUntil - Ttl) \div Day = now \div Day

(* scheduler.go:84, "already fired this minute": no task fires twice in one.  *)
FiredThisMinute ==
    \A t \in Tasks : \A m \in AllMinutes : fires[t][m] <= 1

(* What the operator is told (handler.go:81 "Trading agent unlocked until    *)
(* 15:30 IST"): a session is good to the end of trading of its day.          *)
UnlockedUntilClose ==
    StatusActive /\ (\A r \in Requests : req[r] # "key") /\ now % Day < Close => Unlocked

===============================================================================
