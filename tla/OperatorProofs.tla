---------------------------- MODULE OperatorProofs ----------------------------
(***************************************************************************)
(* Theorems about what the operator sees and sets off: Session, for every  *)
(* set of requests and tasks, length of day and session, trading hours and *)
(* every number of faults, and Bridge, for every set of browsers and every *)
(* number of changes, disconnections and time-outs.                        *)
(***************************************************************************)
EXTENDS Session, Bridge, WellFoundedInduction, TLAPS

-------------------------------------------------------------------------------
(* Clocks.                                                                   *)

(* The quotient is the number whose multiples enclose the dividend.         *)
LEMMA Quotient ==
  ASSUME NEW d \in Nat, d > 0, NEW q \in Int, NEW k \in Int,
         d * q <= k, k < d * q + d
  PROVE  k \div d = q
<1> DEFINE p == k \div d
<1>1. p \in Int /\ d * p <= k /\ k < d * p + d
  OBVIOUS
<1> HIDE DEF p
<1>2. d * (q - p) < d /\ d * (p - q) < d
  BY <1>1
<1>3. q - p \in Int /\ p - q \in Int
  BY <1>1
<1>4. ASSUME NEW n \in Int, n >= 1 PROVE d * n >= d
  <2>1. d * (n - 1) >= 0
    BY <1>4
  <2> QED BY <1>4, <2>1
<1>5. q - p < 1 /\ p - q < 1
  BY <1>2, <1>3, <1>4
<1>6. p = q
  BY <1>1, <1>5
<1> QED BY <1>6 DEF p

LEMMA Remainder ==
  ASSUME NEW k \in Nat, NEW d \in Nat, d > 0
  PROVE  /\ k \div d \in Int /\ k % d \in Nat /\ k % d < d
         /\ k % d = k - d * (k \div d)
OBVIOUS

USE MinutesAssumption, TasksAssumption, TimesAssumption, TtlAssumption

LEMMA DayIsPositive == Day \in Nat /\ Day > 0
BY DEF Day

LEMMA MinuteFacts ==
  ASSUME now \in 0 .. MaxTime
  PROVE  /\ Minute \in Nat /\ Minute \in AllMinutes
         /\ 2 * Minute <= now /\ now <= 2 * Minute + 1
BY DEF Minute, AllMinutes

-------------------------------------------------------------------------------
(* The inductive invariant.                                                  *)

(* Neither clock was wound up further than a session from now.              *)
NoneOutlastsSession == token.exp <= now + Ttl /\ keyUntil <= now + Ttl

(* A task has fired at most once more in the current minute than the process *)
(* was restarted in it, lastRun says whether this life has, and by the end of *)
(* the second half minute of its minute a task has fired, if the process was  *)
(* there throughout.                                                          *)
LastRunIsLast ==
    \A t \in Tasks :
        /\ lastRun[t] <= Minute
        /\ lastRun[t] = Minute => fires[t][Minute] >= 1
        /\ lastRun[t] # Minute => fires[t][Minute] <= started[Minute]
        /\ \A m \in AllMinutes :
              fires[t][m] <= 1 + started[m] /\ (m > Minute => fires[t][m] = 0)
FiredWhenSeen ==
    \A t \in Tasks, m \in AllMinutes :
        /\ m % Minutes = MinuteOf[t] /\ started[m] = 0
        /\ 2 * m + 1 < now \/ (2 * m + 1 = now /\ ticked)
        => fires[t][m] = 1

Inv == TypeOK /\ NoneOutlastsSession /\ KeyCoversToken /\ LastRunIsLast /\ FiredWhenSeen

LEMMA InitInv == Init => Inv
<1> SUFFICES ASSUME Init PROVE Inv
  OBVIOUS
<1>1. Minute = 0 /\ MaxTime \div 2 \in Nat
  BY DEF Init, Minute
<1>2. TypeOK
  <2>1. now \in 0 .. MaxTime /\ keyUntil \in 0 .. MaxTime + Ttl
        /\ faults \in 0 .. MaxFaults /\ started \in [AllMinutes -> Nat]
    BY DEF Init
  <2>2. token \in Tokens
    BY DEF Init, Tokens, NoToken
  <2>3. lastRun \in [Tasks -> AllMinutes \cup {-1}] /\ fires \in [Tasks -> [AllMinutes -> Nat]]
    BY DEF Init
  <2> QED BY <2>1, <2>2, <2>3 DEF Init, TypeOK
<1>3. NoneOutlastsSession /\ KeyCoversToken
  BY DEF Init, NoneOutlastsSession, KeyCoversToken, NoToken
<1>4. LastRunIsLast
  BY <1>1 DEF Init, LastRunIsLast, AllMinutes
<1>5. FiredWhenSeen
  BY DEF Init, FiredWhenSeen, AllMinutes
<1> QED BY <1>2, <1>3, <1>4, <1>5 DEF Inv

LEMMA NextInv == Inv /\ [Next]_vars => Inv'
<1> SUFFICES ASSUME Inv, [Next]_vars PROVE Inv'
  OBVIOUS
<1>0. /\ now \in 0 .. MaxTime /\ req \in [Requests -> {"idle", "auth", "key"}]
      /\ token \in Tokens /\ keyUntil \in 0 .. MaxTime + Ttl /\ redisUp \in BOOLEAN
      /\ paper \in BOOLEAN /\ ticked \in BOOLEAN /\ started \in [AllMinutes -> Nat]
      /\ lastRun \in [Tasks -> AllMinutes \cup {-1}]
      /\ fires \in [Tasks -> [AllMinutes -> Nat]]
      /\ keyMissed \in BOOLEAN /\ faults \in 0 .. MaxFaults
  BY DEF Inv, TypeOK
<1>k. NoneOutlastsSession /\ KeyCoversToken
  BY DEF Inv
<1>l. LastRunIsLast /\ FiredWhenSeen
  BY DEF Inv
<1>i. AllMinutes \cup {-1} \subseteq Int
  BY DEF AllMinutes
<1>j. \A t \in Tasks : lastRun[t] \in Int
  <2>1. \A t \in Tasks : lastRun[t] \in AllMinutes \cup {-1}
    BY <1>0
  <2> QED BY <1>i, <2>1
\* A step that touches neither clock nor scheduler keeps what is said of them.
<1>s. ASSUME UNCHANGED <<now, clockVars>> PROVE (LastRunIsLast /\ FiredWhenSeen)'
  BY <1>l, <1>s DEF clockVars, LastRunIsLast, FiredWhenSeen, Minute, AllMinutes
<1>1. ASSUME NEW r \in Requests, Submit(r) PROVE Inv'
  <2>1. token' \in Tokens /\ token'.exp = token.exp /\ ~token'.active
    BY <1>0, <1>1 DEF Submit, Tokens
  <2>2. TypeOK'
    BY <1>0, <1>1, <2>1 DEF Submit, TypeOK, clockVars, AllMinutes
  <2>3. (NoneOutlastsSession /\ KeyCoversToken)'
    BY <1>k, <1>1, <2>1 DEF Submit, NoneOutlastsSession, KeyCoversToken
  <2> QED BY <1>1, <1>s, <2>2, <2>3 DEF Inv, Submit
<1>2. ASSUME NEW r \in Requests, AuthFails(r) PROVE Inv'
  <2>1. TypeOK'
    BY <1>0, <1>2 DEF AuthFails, TypeOK, clockVars, AllMinutes
  <2>2. \A s \in Requests : req'[s] = "key" <=> req[s] = "key"
    BY <1>0, <1>2 DEF AuthFails
  <2>3. (NoneOutlastsSession /\ KeyCoversToken)'
    BY <1>k, <1>2, <2>2 DEF AuthFails, NoneOutlastsSession, KeyCoversToken
  <2> QED BY <1>2, <1>s, <2>1, <2>3 DEF Inv, AuthFails
<1>3. ASSUME NEW r \in Requests, SetToken(r) PROVE Inv'
  <2>1. TypeOK'
    BY <1>0, <1>3 DEF SetToken, TypeOK, clockVars, AllMinutes, Tokens
  <2>2. req'[r] = "key"
    BY <1>0, <1>3 DEF SetToken
  <2>3. (NoneOutlastsSession /\ KeyCoversToken)'
    BY <1>0, <1>k, <1>3, <2>2 DEF SetToken, NoneOutlastsSession, KeyCoversToken
  <2> QED BY <1>3, <1>s, <2>1, <2>3 DEF Inv, SetToken
<1>4. ASSUME NEW r \in Requests, SetKey(r) PROVE Inv'
  <2>1. TypeOK'
    BY <1>0, <1>4 DEF SetKey, TypeOK, clockVars, AllMinutes
  <2>2. (NoneOutlastsSession /\ KeyCoversToken)'
    BY <1>0, <1>k, <1>4 DEF SetKey, NoneOutlastsSession, KeyCoversToken, Tokens
  <2> QED BY <1>4, <1>s, <2>1, <2>2 DEF Inv, SetKey
<1>5. CASE CheckAndRun
  <2>1. UNCHANGED <<now, req, token, keyUntil, paper, redisUp, started, keyMissed, faults>>
        /\ ticked' = TRUE /\ Minute' = Minute
        /\ lastRun' = [t \in Tasks |-> IF t \in ToFire THEN Minute ELSE lastRun[t]]
        /\ fires' = [t \in Tasks |-> [m \in AllMinutes |->
                IF t \in ToFire /\ m = Minute THEN fires[t][m] + 1 ELSE fires[t][m]]]
    BY <1>5 DEF CheckAndRun, Minute
  <2> HIDE DEF Minute
  <2>2. Minute \in Nat /\ Minute \in AllMinutes /\ 2 * Minute <= now /\ now <= 2 * Minute + 1
    BY <1>0, MinuteFacts
  <2>3. AllMinutes \subseteq Nat /\ AllMinutes' = AllMinutes
    BY DEF AllMinutes
  <2>4. TypeOK'
    BY <1>0, <2>1, <2>2, <2>3 DEF TypeOK
  <2>5. (NoneOutlastsSession /\ KeyCoversToken)'
    BY <1>k, <2>1 DEF NoneOutlastsSession, KeyCoversToken
  <2>6. \A t \in Tasks, m \in AllMinutes : fires[t][m] \in Nat /\ started[m] \in Nat
    BY <1>0
  <2>7. ASSUME NEW t \in Tasks, t \in ToFire
        PROVE  /\ lastRun'[t] = Minute
               /\ fires'[t][Minute] = fires[t][Minute] + 1
               /\ fires[t][Minute] <= started[Minute]
    BY <1>l, <2>1, <2>2, <2>7 DEF ToFire, LastRunIsLast
  <2>8. ASSUME NEW t \in Tasks, NEW m \in AllMinutes, t \notin ToFire \/ m # Minute
        PROVE  fires'[t][m] = fires[t][m]
    BY <2>1, <2>8
  <2>9. ASSUME NEW t \in Tasks
        PROVE  /\ lastRun'[t] <= Minute
               /\ lastRun'[t] = Minute => fires'[t][Minute] >= 1
               /\ lastRun'[t] # Minute => fires'[t][Minute] <= started[Minute]
               /\ \A m \in AllMinutes :
                      fires'[t][m] <= 1 + started[m] /\ (m > Minute => fires'[t][m] = 0)
    <3>1. CASE t \in ToFire
      <4>1. ASSUME NEW m \in AllMinutes
            PROVE  fires'[t][m] <= 1 + started[m] /\ (m > Minute => fires'[t][m] = 0)
        <5>1. CASE m = Minute
          BY <2>2, <2>6, <2>7, <3>1, <5>1
        <5>2. CASE m # Minute
          BY <1>l, <2>8, <5>2 DEF LastRunIsLast
        <5> QED BY <5>1, <5>2
      <4>2. fires'[t][Minute] >= 1 /\ lastRun'[t] = Minute
        BY <2>2, <2>6, <2>7, <3>1
      <4> QED BY <2>2, <4>1, <4>2
    <3>2. CASE t \notin ToFire
      <4>1. lastRun'[t] = lastRun[t]
        BY <2>1, <3>2
      <4>2. \A m \in AllMinutes : fires'[t][m] = fires[t][m]
        BY <2>8, <3>2
      <4> QED BY <1>l, <2>2, <4>1, <4>2 DEF LastRunIsLast
    <3> QED BY <3>1, <3>2
  <2>10. LastRunIsLast'
    BY <2>1, <2>3, <2>9 DEF LastRunIsLast
  <2>11. ASSUME NEW t \in Tasks, NEW m \in AllMinutes, m % Minutes = MinuteOf[t],
                started[m] = 0, 2 * m + 1 < now \/ 2 * m + 1 = now
         PROVE  fires'[t][m] = 1
    <3>1. m \in Nat /\ m <= Minute
      BY <1>0, <2>2, <2>3, <2>11
    <3>2. CASE m = Minute
      <4>1. CASE t \in ToFire
        BY <2>2, <2>6, <2>7, <2>11, <3>2, <4>1
      <4>2. CASE t \notin ToFire
        <5>1. lastRun[t] = Minute
          BY <2>11, <3>2, <4>2 DEF ToFire, Due
        <5>2. fires[t][m] >= 1 /\ fires[t][m] <= 1
          BY <1>l, <2>2, <2>6, <2>11, <3>2, <5>1 DEF LastRunIsLast
        <5> QED BY <2>6, <2>8, <4>2, <5>2
      <4> QED BY <4>1, <4>2
    <3>3. CASE m # Minute
      <4>1. 2 * m + 1 < now
        BY <1>0, <2>2, <3>1, <3>3
      <4>2. fires[t][m] = 1
        BY <1>l, <2>11, <4>1 DEF FiredWhenSeen
      <4> QED BY <2>8, <3>3, <4>2
    <3> QED BY <3>2, <3>3
  <2>12. FiredWhenSeen'
    BY <2>1, <2>3, <2>11 DEF FiredWhenSeen
  <2> QED BY <2>4, <2>5, <2>10, <2>12 DEF Inv
<1>6. CASE Advance
  <2>1. now' = now + 1 /\ now' <= MaxTime /\ ticked /\ ticked' = FALSE
        /\ UNCHANGED <<req, token, keyUntil, paper, redisUp, lastRun, fires, started,
                       keyMissed, faults>>
    BY <1>0, <1>6 DEF Advance
  <2>2. TypeOK'
    <3>1. now' \in 0 .. MaxTime
      BY <1>0, <2>1
    <3> QED BY <1>0, <2>1, <3>1 DEF TypeOK, AllMinutes
  <2>3. (NoneOutlastsSession /\ KeyCoversToken)'
    BY <1>0, <1>k, <2>1 DEF NoneOutlastsSession, KeyCoversToken, Tokens
  <2>4. Minute \in Nat /\ Minute' \in Nat /\ Minute <= Minute'
    BY <1>0, <2>1 DEF Minute
  <2>5. AllMinutes \subseteq Nat /\ AllMinutes' = AllMinutes /\ Minute' \in AllMinutes
    BY <1>0, <2>1 DEF AllMinutes, Minute
  <2> HIDE DEF Minute
  <2>6. ASSUME NEW t \in Tasks
        PROVE  /\ lastRun[t] <= Minute'
               /\ lastRun[t] = Minute' => fires[t][Minute'] >= 1
               /\ lastRun[t] # Minute' => fires[t][Minute'] <= started[Minute']
               /\ \A m \in AllMinutes :
                      fires[t][m] <= 1 + started[m] /\ (m > Minute' => fires[t][m] = 0)
    <3>1. lastRun[t] \in Int /\ started[Minute'] \in Nat
      BY <1>0, <1>j, <2>5
    <3>2. CASE Minute' = Minute
      BY <1>l, <3>2 DEF LastRunIsLast
    <3>3. CASE Minute' > Minute
      BY <1>l, <2>4, <2>5, <3>1, <3>3 DEF LastRunIsLast
    <3> QED BY <2>4, <3>2, <3>3
  <2>7. LastRunIsLast'
    BY <2>1, <2>5, <2>6 DEF LastRunIsLast
  <2>8. FiredWhenSeen'
    BY <1>0, <1>l, <2>1, <2>5 DEF FiredWhenSeen
  <2> QED BY <2>2, <2>3, <2>7, <2>8 DEF Inv
<1>7. CASE Restart
  <2>1. now' = now /\ ticked' = TRUE /\ token' = NoToken /\ Minute' = Minute
        /\ req' = [r \in Requests |-> "idle"]
        /\ lastRun' = [t \in Tasks |-> -1]
        /\ started' = [started EXCEPT ![Minute] = @ + 1]
        /\ faults < MaxFaults /\ faults' = faults + 1
        /\ UNCHANGED <<keyUntil, paper, redisUp, fires, keyMissed>>
    BY <1>7 DEF Restart, Minute
  <2>2. AllMinutes \subseteq Nat /\ AllMinutes' = AllMinutes
    BY DEF AllMinutes
  <2>3. Minute \in Nat /\ Minute \in AllMinutes /\ 2 * Minute <= now /\ now <= 2 * Minute + 1
    BY <1>0, MinuteFacts
  <2> HIDE DEF Minute
  <2>4. \A t \in Tasks, m \in AllMinutes : fires[t][m] \in Nat /\ started[m] \in Nat
    BY <1>0
  <2>5. /\ started' \in [AllMinutes -> Nat] /\ started'[Minute] = started[Minute] + 1
        /\ \A m \in AllMinutes : m # Minute => started'[m] = started[m]
    BY <1>0, <2>1, <2>3, <2>4
  <2>6. TypeOK'
    BY <1>0, <2>1, <2>2, <2>5 DEF TypeOK, Tokens, NoToken
  <2>7. (NoneOutlastsSession /\ KeyCoversToken)'
    BY <1>0, <1>k, <2>1 DEF NoneOutlastsSession, KeyCoversToken, NoToken
  <2>8. ASSUME NEW t \in Tasks
        PROVE  /\ fires[t][Minute] <= started'[Minute]
               /\ \A m \in AllMinutes :
                      fires[t][m] <= 1 + started'[m] /\ (m > Minute => fires[t][m] = 0)
    <3>1. ASSUME NEW m \in AllMinutes
          PROVE  fires[t][m] <= 1 + started'[m] /\ (m > Minute => fires[t][m] = 0)
      <4>1. started'[m] \in Nat /\ started'[m] >= started[m]
        BY <2>3, <2>4, <2>5
      <4> QED BY <1>l, <2>4, <4>1 DEF LastRunIsLast
    <3>2. fires[t][Minute] <= started'[Minute]
      BY <1>l, <2>3, <2>4, <2>5 DEF LastRunIsLast
    <3> QED BY <3>1, <3>2
  <2>9. \A t \in Tasks : lastRun'[t] = -1 /\ -1 <= Minute /\ -1 # Minute
    BY <2>1, <2>3
  <2>10. LastRunIsLast'
    BY <2>1, <2>2, <2>8, <2>9 DEF LastRunIsLast
  <2>11. ASSUME NEW t \in Tasks, NEW m \in AllMinutes, m % Minutes = MinuteOf[t],
                started'[m] = 0, 2 * m + 1 < now \/ 2 * m + 1 = now
         PROVE  fires[t][m] = 1
    <3>1. m # Minute /\ started[m] = 0 /\ m \in Nat
      BY <2>2, <2>3, <2>4, <2>5, <2>11
    <3>2. 2 * m + 1 < now
      BY <1>0, <2>3, <2>11, <3>1
    <3> QED BY <1>l, <2>11, <3>1, <3>2 DEF FiredWhenSeen
  <2>12. FiredWhenSeen'
    BY <2>1, <2>2, <2>11 DEF FiredWhenSeen
  <2> QED BY <2>6, <2>7, <2>10, <2>12 DEF Inv
<1>8. CASE RedisDown
  <2>1. TypeOK'
    <3>1. faults' \in 0 .. MaxFaults /\ keyUntil' \in 0 .. MaxTime + Ttl
      BY <1>0, <1>8 DEF RedisDown
    <3> QED BY <1>0, <1>8, <3>1 DEF RedisDown, TypeOK, clockVars, AllMinutes
  <2>2. (NoneOutlastsSession /\ KeyCoversToken)'
    BY <1>0, <1>k, <1>8 DEF RedisDown, NoneOutlastsSession, KeyCoversToken
  <2> QED BY <1>8, <1>s, <2>1, <2>2 DEF Inv, RedisDown
<1>11. CASE EnablePaper
  <2>1. TypeOK'
    <3>1. keyUntil' \in 0 .. MaxTime + Ttl
      BY <1>0, <1>11 DEF EnablePaper
    <3> QED BY <1>0, <1>11, <3>1 DEF EnablePaper, TypeOK, clockVars, AllMinutes
  <2>2. (NoneOutlastsSession /\ KeyCoversToken)'
    BY <1>0, <1>k, <1>11 DEF EnablePaper, NoneOutlastsSession, KeyCoversToken
  <2> QED BY <1>11, <1>s, <2>1, <2>2 DEF Inv, EnablePaper
<1>9. CASE RedisBack
  <2>1. TypeOK'
    BY <1>0, <1>9 DEF RedisBack, TypeOK, clockVars, AllMinutes
  <2>2. (NoneOutlastsSession /\ KeyCoversToken)'
    BY <1>k, <1>9 DEF RedisBack, NoneOutlastsSession, KeyCoversToken
  <2> QED BY <1>9, <1>s, <2>1, <2>2 DEF Inv, RedisBack
<1>10. CASE UNCHANGED vars
  <2>1. TypeOK'
    BY <1>0, <1>10 DEF vars, TypeOK, AllMinutes
  <2>2. (NoneOutlastsSession /\ KeyCoversToken)'
    BY <1>k, <1>10 DEF vars, NoneOutlastsSession, KeyCoversToken
  <2> QED BY <1>10, <1>s, <2>1, <2>2 DEF Inv, vars, clockVars
<1> QED BY <1>1, <1>2, <1>3, <1>4, <1>5, <1>6, <1>7, <1>8, <1>9, <1>10,
       <1>11 DEF Next, Handler

LEMMA InvHolds == Spec => []Inv
BY InitInv, NextInv, PTL DEF Spec

-------------------------------------------------------------------------------
THEOREM TypeCorrect == Spec => []TypeOK
<1>1. Inv => TypeOK
  BY DEF Inv
<1> QED BY <1>1, InvHolds, PTL

(* The status page never promises more than the engine honours, however     *)
(* many requests overlap.                                                   *)
THEOREM KeyLastsLongEnough == Spec => []KeyCoversToken
<1>1. Inv => KeyCoversToken
  BY DEF Inv
<1> QED BY <1>1, InvHolds, PTL

(* Yesterday's session never unlocks today's market, as long as a session   *)
(* is shorter than the time from midnight to the opening and the key is one *)
(* of a session, not the paper-mode key of the scripts.                     *)
THEOREM SessionsEndOvernight == Spec => []UnlockedSameDay
<1>1. Inv => UnlockedSameDay
  <2> SUFFICES ASSUME Inv, InMarket, Unlocked, ~paper
               PROVE  (keyUntil - Ttl) \div Day = now \div Day
    BY DEF UnlockedSameDay
  <2> DEFINE q == now \div Day
  <2>1. now \in Nat /\ keyUntil \in Nat /\ now < keyUntil /\ keyUntil <= now + Ttl
    BY DEF Inv, TypeOK, NoneOutlastsSession, Unlocked
  <2>2. now % Day >= Open /\ Ttl <= Open
    BY DayIsPositive DEF InMarket
  <2> DEFINE time == now % Day
  <2>3. q \in Int /\ time = now - Day * q /\ time < Day /\ time \in Nat /\ time >= Open
    BY <2>1, <2>2, DayIsPositive, Remainder
  <2> HIDE DEF q, time
  <2>4. Day * q \in Int /\ Day \in Nat
    BY <2>3, DayIsPositive
  <2> DEFINE start == Day * q
  <2>5. Day * q <= keyUntil - Ttl /\ keyUntil - Ttl < Day * q + Day
    <3>1. time = now - start /\ start \in Int
      BY <2>3, <2>4
    <3> HIDE DEF start
    <3>2. start <= keyUntil - Ttl /\ keyUntil - Ttl < start + Day
      BY <2>1, <2>2, <2>3, <2>4, <3>1
    <3> QED BY <3>2 DEF start
  <2>6. (keyUntil - Ttl) \div Day = q
    BY <2>1, <2>3, <2>5, DayIsPositive, Quotient
  <2> QED BY <2>6 DEF q
<1> QED BY <1>1, InvHolds, PTL

(* A daily task fires once in its minute, and for every restart in that     *)
(* minute at most once more.                                                *)
THEOREM TasksFireOnce == Spec => []FiredOnceADay
<1>1. Inv => FiredOnceADay
  <2> SUFFICES ASSUME Inv, NEW t \in Tasks, NEW m \in AllMinutes
               PROVE  /\ fires[t][m] <= 1 + started[m]
                      /\ (m % Minutes = MinuteOf[t] /\ started[m] = 0 /\ 2 * m + 2 <= now)
                            => fires[t][m] = 1
    BY DEF FiredOnceADay
  <2>1. m \in Nat /\ now \in Nat
    BY DEF Inv, TypeOK, AllMinutes
  <2> QED BY <2>1 DEF Inv, LastRunIsLast, FiredWhenSeen
<1> QED BY <1>1, InvHolds, PTL

-------------------------------------------------------------------------------
(* Bridge: the list of clients.                                              *)

(* A set of naturals has a least.                                           *)
LEMMA LeastOf ==
  ASSUME NEW S \in SUBSET Nat, S # {}
  PROVE  \E m \in S : \A k \in S : m <= k
<1>1. PICK m \in S : \A k \in S : <<k, m>> \notin OpToRel(<, Nat)
  <2> DEFINE R == OpToRel(<, Nat)
  <2>1. IsWellFoundedOn(R, Nat)
    BY NatLessThanWellFounded
  <2> HIDE DEF R
  <2>2. \E m \in S : \A k \in S : ~(<<k, m>> \in R)
    BY <2>1, WFMin
  <2> QED BY <2>2 DEF R
<1>2. ASSUME NEW k \in S PROVE m <= k
  <2>1. m \in Nat /\ k \in Nat
    OBVIOUS
  <2>2. ~(k < m)
    BY <1>1, <2>1 DEF OpToRel
  <2> QED BY <2>1, <2>2
<1> QED BY <1>2

(* What is left of the first k clients, for every k up to n.                *)
Leaves(f, n, gone) ==
    /\ f[0] = <<>>
    /\ \A k \in 1 .. n : f[k] = Unless(gone, clients[k], f[k - 1])
IsRest(f, n, gone) == f \in [0 .. n -> Seq(Clients)] /\ Leaves(f, n, gone)

LEMMA RestExists ==
  ASSUME clients \in Seq(Clients), NEW gone
  PROVE  \E f : IsRest(f, Len(clients), gone)
<1> DEFINE Missing == {n \in 0 .. Len(clients) : ~ \E f : IsRest(f, n, gone)}
<1>0. Len(clients) \in Nat
  OBVIOUS
<1>1. ASSUME Missing # {} PROVE FALSE
  <2>1. PICK n \in Missing : \A k \in Missing : n <= k
    <3>1. Missing \in SUBSET Nat
      BY <1>0
    <3> HIDE DEF Missing
    <3> QED BY <1>1, <3>1, LeastOf
  <2>2. n \in 0 .. Len(clients) /\ ~ \E f : IsRest(f, n, gone)
    OBVIOUS
  <2>3. n # 0
    <3>1. IsRest([k \in 0 .. 0 |-> <<>>], 0, gone)
      BY DEF IsRest, Leaves
    <3> QED BY <2>2, <3>1
  <2>4. n - 1 \in 0 .. Len(clients) /\ ~ (n <= n - 1) /\ n \in 1 .. Len(clients)
    BY <1>0, <2>2, <2>3
  <2>5. PICK f : IsRest(f, n - 1, gone)
    BY <2>1, <2>4
  <2> HIDE DEF Missing
  <2> DEFINE r == Unless(gone, clients[n], f[n - 1])
             g == [k \in 0 .. n |-> IF k = n THEN r ELSE f[k]]
  <2>6. f \in [0 .. n - 1 -> Seq(Clients)] /\ f[n - 1] \in Seq(Clients) /\ clients[n] \in Clients
    BY <1>0, <2>4, <2>5 DEF IsRest
  <2>7. r \in Seq(Clients)
    BY <2>6 DEF Unless
  <2> HIDE DEF r
  <2>8. g \in [0 .. n -> Seq(Clients)] /\ g[0] = <<>>
    BY <1>0, <2>4, <2>5, <2>6, <2>7 DEF IsRest, Leaves
  <2>9. ASSUME NEW k \in 1 .. n
        PROVE  g[k] = Unless(gone, clients[k], g[k - 1])
    <3>1. CASE k = n
      BY <1>0, <2>4, <3>1 DEF r
    <3>2. CASE k # n
      <4>1. k \in 1 .. n - 1 /\ k - 1 \in 0 .. n /\ k - 1 # n
        BY <1>0, <2>4, <3>2
      <4>2. f[k] = Unless(gone, clients[k], f[k - 1])
        BY <2>5, <4>1 DEF IsRest, Leaves
      <4> QED BY <3>2, <4>1, <4>2
    <3> QED BY <3>1, <3>2
  <2>10. IsRest(g, n, gone)
    BY <2>8, <2>9 DEF IsRest, Leaves
  <2> QED BY <2>2, <2>10
<1>2. Len(clients) \in 0 .. Len(clients)
  BY <1>0
<1> QED BY <1>1, <1>2

(* The n-th list lists once whoever of the first n is not gone.             *)
ListsOnce(s, n, gone) ==
    /\ s \in Seq(Clients) /\ Len(s) <= n /\ IsInjective(s)
    /\ \A d \in Clients : Contains(s, d) <=> d \notin gone /\ \E i \in 1 .. n : clients[i] = d

LEMMA RestListsOnce ==
  ASSUME clients \in Seq(Clients), IsInjective(clients), NEW gone, NEW f,
         Leaves(f, Len(clients), gone)
  PROVE  ListsOnce(f[Len(clients)], Len(clients), gone)
<1> DEFINE Wrong == {n \in 0 .. Len(clients) : ~ ListsOnce(f[n], n, gone)}
<1>0. Len(clients) \in Nat
  OBVIOUS
<1>1. ASSUME Wrong # {} PROVE FALSE
  <2>1. PICK n \in Wrong : \A k \in Wrong : n <= k
    <3>1. Wrong \in SUBSET Nat
      BY <1>0
    <3> HIDE DEF Wrong
    <3> QED BY <1>1, <3>1, LeastOf
  <2>2. n \in 0 .. Len(clients) /\ ~ ListsOnce(f[n], n, gone)
    OBVIOUS
  <2>3. n # 0
    <3>1. ListsOnce(<<>>, 0, gone)
      BY DEF ListsOnce, IsInjective, Contains
    <3>2. f[0] = <<>>
      BY DEF Leaves
    <3> QED BY <2>2, <3>1, <3>2
  <2> DEFINE m == n - 1
             c == clients[n]
  <2>4. m \in 0 .. Len(clients) /\ ~ (n <= m) /\ n \in 1 .. Len(clients) /\ n = m + 1 /\ m \in Nat
    BY <1>0, <2>2, <2>3
  <2>5. ListsOnce(f[m], m, gone)
    BY <2>1, <2>4
  <2> HIDE DEF Wrong
  <2>6. c \in Clients /\ \A i \in 1 .. m : clients[i] # c
    <3>1. DOMAIN clients = 1 .. Len(clients) /\ c \in Clients
      BY <2>4
    <3>2. ASSUME NEW i \in 1 .. m, clients[i] = c PROVE FALSE
      <4>1. i \in 1 .. Len(clients) /\ i # n
        BY <1>0, <2>4
      <4> QED BY <2>4, <3>1, <3>2, <4>1 DEF IsInjective
    <3> QED BY <3>1, <3>2
  <2>7. f[n] = IF c \in gone THEN f[m] ELSE Append(f[m], c)
    BY <2>4 DEF Leaves, Unless
  <2>8. \A d \in Clients : (\E i \in 1 .. n : clients[i] = d)
                             <=> d = c \/ \E i \in 1 .. m : clients[i] = d
    <3>1. \A i : i \in 1 .. n <=> i \in 1 .. m \/ i = n
      BY <2>4
    <3> QED BY <3>1
  <2> HIDE DEF m, c
  <2>9. CASE c \in gone
    BY <2>2, <2>4, <2>5, <2>7, <2>8, <2>9 DEF ListsOnce
  <2>10. CASE c \notin gone
    <3> DEFINE s == f[m]
               u == Append(s, c)
    <3>1. s \in Seq(Clients) /\ Len(s) <= m /\ IsInjective(s)
      BY <2>5 DEF ListsOnce
    <3>2. ~ Contains(s, c)
      BY <2>5, <2>6 DEF ListsOnce
    <3> HIDE DEF s
    <3>3. /\ u \in Seq(Clients) /\ Len(s) \in Nat /\ Len(u) = Len(s) + 1 /\ u[Len(s) + 1] = c
          /\ \A i \in 1 .. Len(s) : u[i] = s[i]
          /\ DOMAIN u = 1 .. Len(s) + 1 /\ DOMAIN s = 1 .. Len(s)
      BY <2>6, <3>1
    <3>4. \A i : i \in 1 .. Len(s) + 1 <=> i \in 1 .. Len(s) \/ i = Len(s) + 1
      BY <3>3
    <3> HIDE DEF u
    <3>e. \A i \in 1 .. Len(s) : s[i] # c
      BY <3>2 DEF Contains
    <3>5. IsInjective(u)
      BY <3>1, <3>3, <3>4, <3>e DEF IsInjective
    <3>6. \A d : Contains(u, d) <=> Contains(s, d) \/ d = c
      BY <3>3, <3>4 DEF Contains
    <3>7. f[n] = u
      BY <2>7, <2>10 DEF s, u
    <3>8. Len(u) <= n
      BY <2>4, <3>1, <3>3
    <3>9. \A d \in Clients : Contains(u, d) <=> d \notin gone /\ \E i \in 1 .. n : clients[i] = d
      BY <2>5, <2>8, <2>10, <3>6 DEF ListsOnce, s
    <3> QED BY <2>2, <3>3, <3>5, <3>7, <3>8, <3>9 DEF ListsOnce
  <2> QED BY <2>9, <2>10
<1>2. Len(clients) \in 0 .. Len(clients)
  BY <1>0
<1> QED BY <1>1, <1>2

(* remove leaves the others, in the list once, and none of those gone.      *)
LEMMA WithoutFacts ==
  ASSUME clients \in Seq(Clients), IsInjective(clients), NEW gone
  PROVE  /\ Without(gone) \in Seq(Clients) /\ IsInjective(Without(gone))
         /\ Len(Without(gone)) <= Len(clients)
         /\ \A d \in Clients : Contains(Without(gone), d) <=> Contains(clients, d) /\ d \notin gone
<1> DEFINE n == Len(clients)
           Rests(g) == g = [k \in 0 .. n |->
                              IF k = 0 THEN <<>> ELSE Unless(gone, clients[k], g[k - 1])]
           upto == CHOOSE g : Rests(g)
<1>1. n \in Nat
  OBVIOUS
<1>2. PICK f : IsRest(f, n, gone)
  BY RestExists
<1>3. Rests(f)
  <2> DEFINE g == [k \in 0 .. n |->
                     IF k = 0 THEN <<>> ELSE Unless(gone, clients[k], f[k - 1])]
  <2> HIDE DEF n
  <2>1. f \in [0 .. n -> Seq(Clients)]
    BY <1>2 DEF IsRest
  <2>2. ASSUME NEW k \in 0 .. n PROVE f[k] = g[k]
    BY <1>1, <1>2 DEF IsRest, Leaves
  <2>3. f = g
    BY <2>1, <2>2
  <2> QED BY <2>3
<1>4. Rests(upto)
  BY <1>3
<1>5. Without(gone) = upto[n]
  BY DEF Without
<1> HIDE DEF upto
<1>6. Leaves(upto, n, gone)
  <2> HIDE DEF n
  <2>1. upto[0] = <<>>
    BY <1>1, <1>4
  <2>2. ASSUME NEW k \in 1 .. n
        PROVE  upto[k] = Unless(gone, clients[k], upto[k - 1])
    BY <1>1, <1>4
  <2> QED BY <2>1, <2>2 DEF Leaves
<1>7. ListsOnce(Without(gone), n, gone)
  BY <1>5, <1>6, RestListsOnce
<1> HIDE DEF Rests
<1> QED BY <1>7 DEF ListsOnce, Contains

-------------------------------------------------------------------------------
(* Bridge: the inductive invariant.                                          *)

(* Whoever is listed has joined, and has its socket open unless somebody is   *)
(* still to remove it; whoever is open is listed unless left behind.         *)
Pushing == pc \in {"send", "await"}
ListedAreOpen ==
    /\ Len(clients) <= events
    /\ \A c \in Clients : Contains(clients, c) => c \in joined
    /\ \A c \in Clients : Contains(clients, c) =>
          c \in open \/ Served(c) \/ c \in unremoved \/ (Pushing /\ c \in dead)
    /\ \A c \in open : Served(c)
    /\ \A c \in open \ behind : Contains(clients, c)
    /\ \A c \in Clients : initial[c] # None => c \in joined

(* A send that is under way has something to send, to a client that is      *)
(* listed as long as it is there.                                           *)
SendIsToListed ==
    /\ pc # "sleep" => payload \in States
    /\ pc = "await" => target \in joined /\ (target \in open => Contains(clients, target))

BridgeInv == BridgeTypeOK /\ ListedAreOpen /\ SendIsToListed

LEMMA BridgeInitInv == BridgeInit => BridgeInv
<1> SUFFICES ASSUME BridgeInit PROVE BridgeInv
  OBVIOUS
<1>1. Len(clients) = 0 /\ clients \in Seq(Clients)
  BY DEF BridgeInit
<1>2. \A c \in Clients : ~ Contains(clients, c)
  BY <1>1 DEF BridgeInit, Contains
<1>3. IsInjective(clients)
  BY DEF BridgeInit, IsInjective
<1>4. BridgeTypeOK
  BY <1>1, <1>3, MaxEventsAssumption DEF BridgeInit, BridgeTypeOK
<1>5. ListedAreOpen
  BY <1>1, <1>2 DEF BridgeInit, ListedAreOpen
<1>6. SendIsToListed
  BY DEF BridgeInit, SendIsToListed
<1> QED BY <1>4, <1>5, <1>6 DEF BridgeInv

(* A step that moves neither the list nor a socket keeps the list open, if   *)
(* it only adds to those left behind and to the sends that failed.           *)
LEMMA ListUnmoved ==
  ASSUME ListedAreOpen, events \in Nat, events' \in Nat, events <= events',
         clients \in Seq(Clients), UNCHANGED <<clients, socketVars, unremoved>>,
         behind \subseteq behind', Pushing => Pushing' /\ dead \subseteq dead'
  PROVE  ListedAreOpen'
<1>1. Len(clients) \in Nat /\ Len(clients') <= events'
  BY DEF ListedAreOpen
<1>2. \A c : (Served(c)' <=> Served(c)) /\ (Contains(clients, c)' <=> Contains(clients, c))
  BY DEF Served, socketVars
<1> QED BY <1>1, <1>2 DEF ListedAreOpen, socketVars

LEMMA PushInv ==
  ASSUME BridgeInv, NEW p \in States, Push(p), ~ Pushing, dirty' \in BOOLEAN
  PROVE  BridgeInv'
<1>1. BridgeTypeOK'
  BY MaxEventsAssumption DEF BridgeInv, BridgeTypeOK, Push, socketVars
<1>2. ListedAreOpen'
  <2>1. behind \subseteq behind' /\ UNCHANGED <<clients, socketVars, unremoved, events>>
    BY DEF Push
  <2>2. events \in Nat /\ events <= events'
    BY <2>1, MaxEventsAssumption DEF BridgeInv, BridgeTypeOK
  <2> QED BY <2>1, <2>2, ListUnmoved DEF BridgeInv, BridgeTypeOK
<1>3. SendIsToListed'
  BY DEF Push, SendIsToListed
<1> QED BY <1>1, <1>2, <1>3 DEF BridgeInv

LEMMA BridgeNextInv == BridgeInv /\ [BridgeNext]_bridgeVars => BridgeInv'
<1> SUFFICES ASSUME BridgeInv, [BridgeNext]_bridgeVars PROVE BridgeInv'
  OBVIOUS
<1> USE MaxEventsAssumption
<1>0. BridgeTypeOK /\ ListedAreOpen /\ SendIsToListed
  BY DEF BridgeInv
<1>e. /\ events \in Nat /\ Len(clients) \in Nat /\ Len(clients) <= events /\ events <= MaxEvents
      /\ clients \in Seq(Clients) /\ open \subseteq joined /\ joined \subseteq Clients
  BY <1>0 DEF BridgeTypeOK, ListedAreOpen
<1>c. ASSUME Count PROVE events' \in 0 .. MaxEvents /\ events' = events + 1
  BY <1>e, <1>c DEF Count
<1>t. pc = "await" => target \in Clients
  BY <1>0, <1>e DEF SendIsToListed
<1>1. CASE Change
  <2>1. BridgeTypeOK'
    BY <1>0, <1>1, <1>c DEF Change, BridgeTypeOK, loopVars, socketVars
  <2>2. ListedAreOpen'
    BY <1>0, <1>1, <1>c, <1>e, ListUnmoved DEF Change, loopVars, Pushing
  <2>3. SendIsToListed'
    BY <1>0, <1>1 DEF Change, SendIsToListed, loopVars, socketVars
  <2> QED BY <2>1, <2>2, <2>3 DEF BridgeInv
<1>2. ASSUME NEW c \in Clients, Join(c) PROVE BridgeInv'
  <2>1. /\ clients' = Append(clients, c) /\ clients' \in Seq(Clients)
        /\ Len(clients') = Len(clients) + 1
        /\ \A i : i \in 1 .. Len(clients) + 1 <=> i \in 1 .. Len(clients) \/ i = Len(clients) + 1
        /\ clients'[Len(clients) + 1] = c /\ \A i \in 1 .. Len(clients) : clients'[i] = clients[i]
        /\ DOMAIN clients' = 1 .. Len(clients) + 1 /\ DOMAIN clients = 1 .. Len(clients)
    BY <1>2, <1>e DEF Join
  <2>2. ~ Contains(clients, c) /\ c \notin joined
    BY <1>0, <1>2 DEF Join, ListedAreOpen
  <2>3. \A i \in 1 .. Len(clients) : clients[i] # c
    BY <2>2 DEF Contains
  <2>4. IsInjective(clients')
    BY <1>0, <2>1, <2>3 DEF BridgeTypeOK, IsInjective
  <2>5. \A d : Contains(clients, d)' <=> Contains(clients, d) \/ d = c
    BY <2>1 DEF Contains
  <2>6. /\ shown' \in [Clients -> States \cup {None}] /\ initial' \in [Clients -> States \cup {None}]
        /\ behind' \subseteq Clients /\ behind \subseteq behind'
        /\ listening \subseteq listening' /\ listening' \subseteq listening \cup {c}
        /\ \A d \in Clients \ {c} : initial'[d] = initial[d]
    BY <1>0, <1>2 DEF Join, ReadInitial, BridgeTypeOK
  <2>7. BridgeTypeOK'
    <3>1. joined' = joined \cup {c} /\ open' = open \cup {c} /\ UNCHANGED <<kind, state, dirty, loopVars, unremoved>>
      BY <1>2 DEF Join
    <3> QED BY <1>0, <1>2, <1>c, <2>1, <2>2, <2>4, <2>6, <3>1 DEF Join, BridgeTypeOK, loopVars
  <2>8. ListedAreOpen'
    <3>1. /\ UNCHANGED <<pc, dead, unremoved>> /\ joined' = joined \cup {c} /\ open' = open \cup {c}
          /\ Len(clients') <= events' /\ (Pushing' <=> Pushing)
      BY <1>2, <1>c, <1>e, <2>1 DEF Join, loopVars, Pushing
    <3>2. \A d \in Clients \ {c} : Served(d) => Served(d)'
      BY <2>6 DEF Served
    <3>3. Served(c)'
      BY <1>0, <1>2, StatesAssumption DEF Join, ReadInitial, Served, BridgeTypeOK
    <3> QED BY <1>0, <1>e, <2>5, <2>6, <3>1, <3>2, <3>3 DEF ListedAreOpen
  <2>9. SendIsToListed'
    <3>1. UNCHANGED <<pc, payload, target>> /\ joined \subseteq joined' /\ open' = open \cup {c}
      BY <1>2 DEF Join, loopVars
    <3> QED BY <1>0, <1>t, <2>5, <3>1 DEF SendIsToListed
  <2> QED BY <2>7, <2>8, <2>9 DEF BridgeInv
<1>3. ASSUME NEW c \in Clients, SendInitial(c) PROVE BridgeInv'
  <2>1. /\ UNCHANGED <<kind, state, dirty, clients, last, pc, payload, next, target, dead, joined, open, events>>
        /\ behind \subseteq behind' /\ behind' \subseteq behind \cup {c}
        /\ initial[c] # None /\ initial' = [initial EXCEPT ![c] = None]
        /\ unremoved \subseteq unremoved' /\ listening \subseteq listening'
        /\ listening' \subseteq listening \cup {c}
        /\ c \in listening' \/ c \in unremoved'
        /\ unremoved' \subseteq unremoved \cup ({c} \ open)
    BY <1>3 DEF SendInitial, loopVars
  <2>2. c \in joined /\ initial[c] \in States
    BY <1>0, <2>1 DEF ListedAreOpen, BridgeTypeOK
  <2>3. shown' \in [Clients -> States \cup {None}] /\ initial' \in [Clients -> States \cup {None}]
    BY <1>0, <1>3, <2>2 DEF SendInitial, BridgeTypeOK
  <2>4. BridgeTypeOK'
    BY <1>0, <2>1, <2>2, <2>3 DEF BridgeTypeOK
  <2>5. ListedAreOpen'
    <3>1. \A d \in Clients : Served(d) => Served(d)' \/ d \in unremoved'
      BY <1>0, <2>1 DEF Served, BridgeTypeOK
    <3>4. c \in open => Served(c)'
      BY <1>3 DEF SendInitial, Served
    <3>2. \A d \in Clients : initial'[d] # None => initial[d] # None
      BY <1>0, <2>1 DEF BridgeTypeOK
    <3>3. Pushing' <=> Pushing
      BY <2>1 DEF Pushing
    <3>5. \A d \in open \ {c} : Served(d) => Served(d)'
      BY <1>0, <1>e, <2>1 DEF Served, BridgeTypeOK
    <3> QED BY <1>0, <2>1, <3>1, <3>2, <3>3, <3>4, <3>5 DEF ListedAreOpen
  <2>6. SendIsToListed'
    BY <1>0, <2>1 DEF SendIsToListed
  <2> QED BY <2>4, <2>5, <2>6 DEF BridgeInv
<1>4. ASSUME NEW c \in Clients, Disconnect(c) PROVE BridgeInv'
  <2>1. /\ UNCHANGED <<kind, state, dirty, clients, last, pc, payload, next, target, dead, joined, initial>>
        /\ c \in open /\ open' = open \ {c} /\ behind' = behind \ {c}
        /\ \/ UNCHANGED <<listening, unremoved>>
           \/ listening' = listening \ {c} /\ unremoved' = unremoved \cup {c}
    BY <1>4 DEF Disconnect, loopVars
  <2>2. shown' \in [Clients -> States \cup {None}]
    BY <1>0, <1>4 DEF Disconnect, BridgeTypeOK
  <2>3. BridgeTypeOK'
    BY <1>0, <1>4, <1>c, <2>1, <2>2 DEF BridgeTypeOK, Disconnect
  <2>4. ListedAreOpen'
    <3>1. \A d \in Clients : Served(d) => Served(d)' \/ d \in unremoved'
      BY <2>1 DEF Served
    <3>2. Pushing' <=> Pushing
      BY <2>1 DEF Pushing
    <3>3. Len(clients') <= events'
      BY <1>4, <1>c, <1>e, <2>1 DEF Disconnect
    <3>4. \A d \in open' : d # c /\ (Served(d) => Served(d)')
      BY <2>1 DEF Served
    <3> QED BY <1>0, <2>1, <3>1, <3>2, <3>3, <3>4 DEF ListedAreOpen
  <2>5. SendIsToListed'
    BY <1>0, <2>1 DEF SendIsToListed
  <2> QED BY <2>3, <2>4, <2>5 DEF BridgeInv
<1>5. ASSUME NEW c \in Clients, Leave(c) PROVE BridgeInv'
  <2>1. /\ clients' \in Seq(Clients) /\ IsInjective(clients') /\ Len(clients') <= Len(clients)
        /\ \A d \in Clients : Contains(clients, d)' <=> Contains(clients, d) /\ d # c
    <3>1. clients \in Seq(Clients) /\ IsInjective(clients) /\ clients' = Without({c})
      BY <1>0, <1>5 DEF Leave, Removed, BridgeTypeOK
    <3> QED BY <3>1, WithoutFacts
  <2>2. /\ UNCHANGED <<kind, state, dirty, last, pc, payload, next, target, dead, joined, open, initial,
                       shown, unremoved, events>>
        /\ c \in listening \ open /\ listening' = listening \ {c}
        /\ behind \subseteq behind' /\ behind' \subseteq behind \cup open
    BY <1>5 DEF Leave, loopVars
  <2>3. BridgeTypeOK'
    BY <1>0, <1>e, <2>1, <2>2 DEF BridgeTypeOK
  <2>4. ListedAreOpen'
    <3>1. \A d \in Clients : Served(d) /\ d # c => Served(d)'
      BY <2>2 DEF Served
    <3>2. Len(clients') <= events'
      <4>1. Len(clients') \in Nat
        BY <2>1
      <4> QED BY <1>e, <2>1, <2>2, <4>1
    <3>3. Pushing' <=> Pushing
      BY <2>2 DEF Pushing
    <3> QED BY <1>0, <1>e, <2>1, <2>2, <3>1, <3>2, <3>3 DEF ListedAreOpen
  <2>5. SendIsToListed'
    BY <1>0, <1>t, <2>1, <2>2 DEF SendIsToListed
  <2> QED BY <2>3, <2>4, <2>5 DEF BridgeInv
<1>6. CASE Wake
  <2>1. state \in States /\ dirty' = FALSE /\ ~ Pushing
    BY <1>0, <1>6 DEF Wake, BridgeTypeOK, Pushing
  <2>2. CASE kind = "wallet"
    BY <1>6, <2>1, <2>2, PushInv DEF Wake
  <2>3. CASE kind # "wallet"
    <3>1. BridgeTypeOK'
      BY <1>0, <1>6, <2>3 DEF Wake, BridgeTypeOK, socketVars
    <3>2. ListedAreOpen'
      BY <1>0, <1>6, <1>e, <2>1, <2>3, ListUnmoved DEF Wake
    <3>3. SendIsToListed'
      BY <1>6, <2>1, <2>3 DEF Wake, SendIsToListed
    <3> QED BY <3>1, <3>2, <3>3 DEF BridgeInv
  <2> QED BY <2>2, <2>3
<1>7. CASE Built
  <2>1. payload \in States /\ dirty' \in BOOLEAN /\ ~ Pushing
    BY <1>0, <1>7 DEF Built, BridgeTypeOK, SendIsToListed, Pushing
  <2> QED BY <1>7, <2>1, PushInv DEF Built
<1>8. CASE BuildRaises
  <2>1. /\ UNCHANGED <<kind, state, last, clients, payload, next, target, dead, socketVars, shown, unremoved>>
        /\ dirty' \in BOOLEAN /\ pc' = "sleep" /\ ~ Pushing
        /\ behind \subseteq behind' /\ behind' \subseteq behind \cup open
    BY <1>0, <1>8 DEF BuildRaises, BridgeTypeOK, Pushing
  <2>2. BridgeTypeOK'
    BY <1>0, <1>8, <1>c, <1>e, <2>1 DEF BuildRaises, BridgeTypeOK, socketVars
  <2>3. ListedAreOpen'
    BY <1>0, <1>8, <1>c, <1>e, <2>1, ListUnmoved DEF BuildRaises
  <2>4. SendIsToListed'
    BY <2>1 DEF SendIsToListed
  <2> QED BY <2>2, <2>3, <2>4 DEF BridgeInv
<1>9. CASE SendNext
  <2>1. next \in 1 .. Len(clients) /\ target' \in Clients /\ Contains(clients, target')
    BY <1>0, <1>9, <1>e DEF SendNext, BridgeTypeOK, Contains
  <2>2. BridgeTypeOK'
    BY <1>0, <1>9, <1>e, <2>1 DEF SendNext, BridgeTypeOK, socketVars
  <2>3. ListedAreOpen'
    BY <1>0, <1>9, <1>e, ListUnmoved DEF SendNext, Pushing
  <2>4. SendIsToListed'
    <3>1. payload' \in States /\ clients' = clients /\ joined' = joined
      BY <1>0, <1>9 DEF SendNext, SendIsToListed, socketVars
    <3>2. target' \in joined
      BY <1>0, <2>1 DEF ListedAreOpen
    <3> QED BY <2>1, <3>1, <3>2 DEF SendIsToListed, Contains
  <2> QED BY <2>2, <2>3, <2>4 DEF BridgeInv
<1>10. CASE Sent
  <2>1. payload \in States /\ target \in joined /\ target \in Clients
        /\ (target \in open => Contains(clients, target))
    BY <1>0, <1>10, <1>e DEF Sent, SendIsToListed
  <2>2. BridgeTypeOK'
    BY <1>0, <1>10, <2>1 DEF Sent, BridgeTypeOK, socketVars
  <2>3. ListedAreOpen'
    <3>1. /\ UNCHANGED <<clients, joined, open, initial, listening, events>>
          /\ dead \subseteq dead' /\ Pushing /\ Pushing'
          /\ \A c \in unremoved : c \in unremoved' \/ c \in dead'
          /\ \A c \in behind : c \in behind' \/ (c = target /\ target \in open)
      BY <1>10 DEF Sent, socketVars, Pushing
    <3>2. \A c \in Clients : Served(c)' <=> Served(c)
      BY <3>1 DEF Served
    <3> QED BY <1>0, <1>e, <2>1, <3>1, <3>2 DEF ListedAreOpen
  <2>4. SendIsToListed'
    BY <1>10, <2>1 DEF Sent, SendIsToListed
  <2> QED BY <2>2, <2>3, <2>4 DEF BridgeInv
<1>11. CASE TimesOut
  <2>1. payload \in States /\ target \in joined /\ target \in Clients
    BY <1>0, <1>11, <1>e DEF TimesOut, SendIsToListed
  <2>2. BridgeTypeOK'
    BY <1>0, <1>11, <1>c, <2>1 DEF TimesOut, BridgeTypeOK, socketVars
  <2>3. ListedAreOpen'
    BY <1>0, <1>11, <1>c, <1>e, ListUnmoved DEF TimesOut, Pushing
  <2>4. SendIsToListed'
    BY <1>11, <2>1 DEF TimesOut, SendIsToListed
  <2> QED BY <2>2, <2>3, <2>4 DEF BridgeInv
<1>12. CASE EndPass
  <2>1. /\ clients' \in Seq(Clients) /\ IsInjective(clients') /\ Len(clients') <= Len(clients)
        /\ \A d \in Clients : Contains(clients, d)' <=> Contains(clients, d) /\ d \notin dead
    <3>1. clients \in Seq(Clients) /\ IsInjective(clients) /\ clients' = Without(dead)
      BY <1>0, <1>12 DEF EndPass, BridgeTypeOK
    <3> QED BY <3>1, WithoutFacts
  <2>2. behind' = behind \cup (dead \cap open)
        /\ UNCHANGED <<joined, open, initial, listening, unremoved, events>>
    BY <1>12 DEF EndPass, socketVars
  <2>3. BridgeTypeOK'
    BY <1>0, <1>12, <1>e, <2>1, <2>2 DEF EndPass, BridgeTypeOK
  <2>4. ListedAreOpen'
    <3>1. Len(clients') <= events'
      <4>1. Len(clients') \in Nat
        BY <2>1
      <4> QED BY <1>e, <2>1, <2>2, <4>1
    <3>2. \A c \in Clients : Served(c)' <=> Served(c)
      BY <2>2 DEF Served
    <3> QED BY <1>0, <1>e, <2>1, <2>2, <3>1, <3>2 DEF ListedAreOpen
  <2>5. SendIsToListed'
    BY <1>12 DEF EndPass, SendIsToListed
  <2> QED BY <2>3, <2>4, <2>5 DEF BridgeInv
<1>13. CASE UNCHANGED bridgeVars
  BY <1>0, <1>13 DEF bridgeVars, BridgeInv, BridgeTypeOK, ListedAreOpen, SendIsToListed, Served, Pushing
<1> QED BY <1>1, <1>2, <1>3, <1>4, <1>5, <1>6, <1>7, <1>8, <1>9, <1>10, <1>11, <1>12, <1>13 DEF BridgeNext

LEMMA BridgeInvHolds == BridgeSpec => []BridgeInv
BY BridgeInitInv, BridgeNextInv, PTL DEF BridgeSpec

(* The loop, its list, the endpoints and what the pages show keep their      *)
(* types, nobody is listed twice, and the iterator stays within a place of   *)
(* the list (dashboard_bridge.py:43-143).                                    *)
THEOREM BridgeTypeCorrect == BridgeSpec => []BridgeTypeOK
<1>1. BridgeInv => BridgeTypeOK
  BY DEF BridgeInv
<1> QED BY <1>1, BridgeInvHolds, PTL

(* self.clients follows the open sockets (dashboard_bridge.py:49-54, 97-102): *)
(* one that stays open is listed unless a push has timed out on it, and one   *)
(* that has closed is listed only until its endpoint removes it or, when the  *)
(* endpoint ended on another exception, until a push has tried it, however    *)
(* pages come and go under the iterator.                                      *)
THEOREM ListsAreOpen == BridgeSpec => []ListIsOpen
<1>1. BridgeInv => ListIsOpen
  <2> SUFFICES ASSUME BridgeInv PROVE ListIsOpen
    OBVIOUS
  <2>1. ASSUME NEW i \in 1 .. Len(clients)
        PROVE  LET c == clients[i]
               IN  c \in open \/ Served(c) \/ c \in unremoved \/ (pc # "sleep" /\ c \in dead)
    <3>1. clients[i] \in Clients /\ Contains(clients, clients[i])
      BY DEF BridgeInv, BridgeTypeOK, Contains
    <3> QED BY <3>1 DEF BridgeInv, ListedAreOpen, Pushing
  <2> QED BY <2>1 DEF BridgeInv, ListedAreOpen, ListIsOpen
<1> QED BY <1>1, BridgeInvHolds, PTL

===============================================================================
