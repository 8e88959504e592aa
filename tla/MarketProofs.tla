----------------------------- MODULE MarketProofs -----------------------------
(***************************************************************************)
(* Theorems about the two places where the program counts: RateLimiter,    *)
(* for every burst, resolution and clock bound, and Feed, for every        *)
(* watchlist, number of failures, fault and browser.                       *)
(***************************************************************************)
EXTENDS RateLimiter, Feed, TLAPS

(* Capacity is a whole number of ticks, at least the cost of one order. *)
LEMMA CapacityFacts == Capacity \in Nat /\ Capacity >= Unit
<1>1. Burst >= 1 /\ Unit >= 1 /\ Burst \in Nat /\ Unit \in Nat
  BY BurstAssumption, UnitAssumption
<1>2. PICK b \in Nat : Burst = b + 1
  <2>1. Burst - 1 \in Nat /\ Burst = (Burst - 1) + 1
    BY <1>1
  <2> QED BY <2>1
<1>3. Burst * Unit = b * Unit + Unit
  BY <1>1, <1>2
<1>4. b * Unit \in Nat
  BY <1>1, <1>2
<1> QED BY <1>1, <1>3, <1>4 DEF Capacity

(* The refill never leaves the bucket's range and never loses a tick unless *)
(* the bucket is full.                                                      *)
LEMMA RefilledFacts ==
  ASSUME LimiterTypeOK
  PROVE  /\ Refilled \in 0 .. Capacity
         /\ Refilled <= tokens + (now - last)
         /\ Refilled < Capacity => Refilled = tokens + (now - last)
         /\ Refilled >= tokens
BY CapacityFacts DEF LimiterTypeOK, Refilled

(* The clock, the bucket and the history keep their types (main.rs:57-86).  *)
THEOREM LimiterTypeCorrect == LimiterSpec => []LimiterTypeOK
<1>1. LimiterInit => LimiterTypeOK
  BY CapacityFacts DEF LimiterInit, LimiterTypeOK
<1>2. LimiterTypeOK /\ [LimiterNext]_limiterVars => LimiterTypeOK'
  <2> SUFFICES ASSUME LimiterTypeOK, [LimiterNext]_limiterVars PROVE LimiterTypeOK'
    OBVIOUS
  <2>0. Refilled \in 0 .. Capacity /\ Capacity' = Capacity
    BY RefilledFacts DEF Capacity
  <2>1. CASE Tick
    BY <2>0, <2>1, MaxTimeAssumption DEF LimiterTypeOK, Tick
  <2>2. CASE Acquire
    BY <2>0, <2>2, CapacityFacts, UnitAssumption DEF LimiterTypeOK, Acquire
  <2>3. CASE Refuse
    BY <2>0, <2>3, CapacityFacts, UnitAssumption DEF LimiterTypeOK, Refuse
  <2>4. CASE UNCHANGED limiterVars
    BY <2>0, <2>4 DEF LimiterTypeOK, limiterVars
  <2> QED BY <2>1, <2>2, <2>3, <2>4 DEF LimiterNext
<1> QED BY <1>1, <1>2, PTL DEF LimiterSpec

(* The accounting of WindowBound holds at every step: a grant spends what   *)
(* the refill brought, never more.                                          *)
LEMMA PotentialStep ==
  ASSUME LimiterTypeOK, Potential, [LimiterNext]_limiterVars
  PROVE  Potential'
<1> USE UnitAssumption, CapacityFacts
<1>0. Capacity' = Capacity /\ Refilled \in 0 .. Capacity
      /\ Refilled <= tokens + (now - last)
  BY RefilledFacts DEF Capacity
<1>1. CASE Tick
  BY <1>1, <1>0 DEF Potential, Tick
<1>2. CASE Acquire
  <2>1. grants' = Append(grants, now) /\ Len(grants') = Len(grants) + 1
        /\ Len(grants) \in Nat
    BY <1>2 DEF Acquire, LimiterTypeOK
  <2> SUFFICES ASSUME NEW i \in 1 .. Len(grants')
               PROVE  /\ grants'[i] <= last'
                      /\ (Len(grants') - i + 1) * Unit + tokens'
                            <= Capacity + (last' - grants'[i])
    BY <1>0 DEF Potential
  <2>2. CASE i = Len(grants) + 1
    <3>1. grants'[i] = now /\ (Len(grants') - i + 1) * Unit = Unit
      BY <2>1, <2>2 DEF LimiterTypeOK
    <3> QED BY <3>1, <1>0, <1>2 DEF Acquire, LimiterTypeOK
  <2>3. CASE i \in 1 .. Len(grants)
    <3> DEFINE n == Len(grants) - i + 1
    <3>1. grants'[i] = grants[i] /\ Len(grants') - i + 1 = n + 1 /\ n \in Nat
          /\ grants[i] \in Nat
      BY <2>1, <2>3 DEF LimiterTypeOK
    <3>2. grants[i] <= last /\ n * Unit + tokens <= Capacity + (last - grants[i])
      BY <2>3 DEF Potential
    <3>3. (n + 1) * Unit = n * Unit + Unit /\ n * Unit \in Nat
      BY <3>1
    <3>4. (Len(grants') - i + 1) * Unit = n * Unit + Unit
      BY <3>1, <3>3
    <3> DEFINE spent == n * Unit
    <3> HIDE DEF n, spent
    <3>5. spent + Unit + tokens' <= Capacity + (last' - grants[i]) /\ grants[i] <= last'
      BY <3>1, <3>2, <3>3, <1>0, <1>2 DEF Acquire, LimiterTypeOK, spent
    <3> QED BY <3>1, <3>4, <3>5 DEF spent
  <2> QED BY <2>1, <2>2, <2>3
<1>3. CASE Refuse
  <2> SUFFICES ASSUME NEW i \in 1 .. Len(grants)
               PROVE  /\ grants[i] <= last'
                      /\ (Len(grants) - i + 1) * Unit + tokens'
                            <= Capacity + (last' - grants[i])
    BY <1>0, <1>3 DEF Potential, Refuse
  <2> DEFINE n == Len(grants) - i + 1
  <2>1. n \in Nat /\ n * Unit \in Nat /\ grants[i] \in Nat
    BY DEF LimiterTypeOK
  <2>2. grants[i] <= last /\ n * Unit + tokens <= Capacity + (last - grants[i])
    BY DEF Potential
  <2> HIDE DEF n
  <2>3. grants[i] <= last' /\ n * Unit + tokens' <= Capacity + (last' - grants[i])
    BY <2>1, <2>2, <1>0, <1>3 DEF Refuse, LimiterTypeOK
  <2> QED BY <2>3 DEF n
<1>4. CASE UNCHANGED limiterVars
  BY <1>0, <1>4 DEF Potential, limiterVars
<1> QED BY <1>1, <1>2, <1>3, <1>4 DEF LimiterNext

(* README.md:119, "10 burst, 1/sec refill": in any stretch of time at most  *)
(* Burst orders pass plus one per second, for every schedule of the calls.  *)
THEOREM WindowIsBounded == LimiterSpec => []WindowBound
<1> USE UnitAssumption, CapacityFacts
<1>1. LimiterInit => Potential /\ WindowBound
  BY DEF LimiterInit, Potential, WindowBound
<1>2. LimiterTypeOK /\ Potential /\ WindowBound /\ [LimiterNext]_limiterVars => WindowBound'
  <2> SUFFICES ASSUME LimiterTypeOK, Potential, WindowBound, [LimiterNext]_limiterVars
               PROVE  WindowBound'
    OBVIOUS
  <2>0. Capacity' = Capacity
    BY DEF Capacity
  <2>1. CASE UNCHANGED grants
    BY <2>0, <2>1 DEF WindowBound
  <2>2. CASE Acquire
    <3>1. grants' = Append(grants, now) /\ Len(grants') = Len(grants) + 1
          /\ Len(grants) \in Nat
      BY <2>2 DEF Acquire, LimiterTypeOK
    <3> SUFFICES ASSUME NEW i \in 1 .. Len(grants'), NEW j \in 1 .. Len(grants'),
                        i <= j
                 PROVE  (j - i + 1) * Unit <= Capacity + (grants'[j] - grants'[i])
      BY <2>0 DEF WindowBound
    <3>2. CASE j \in 1 .. Len(grants)
      <4>1. i \in 1 .. Len(grants) /\ grants'[i] = grants[i] /\ grants'[j] = grants[j]
        BY <3>1, <3>2 DEF LimiterTypeOK
      <4> QED BY <3>2, <4>1 DEF WindowBound
    <3>3. CASE j = Len(grants')
      <4>1. Potential' /\ LimiterTypeOK'
        <5>1. Potential'
          BY PotentialStep
        <5>2. last' = now /\ tokens' = Refilled - Unit /\ Refilled \in 0 .. Capacity
          BY <2>2, RefilledFacts DEF Acquire
        <5>3. LimiterTypeOK'
          BY <2>0, <2>2, <5>2 DEF LimiterTypeOK, Acquire
        <5> QED BY <5>1, <5>3
      <4>2. grants'[j] = last'
        BY <2>2, <3>1, <3>3 DEF Acquire, LimiterTypeOK
      <4>3. (j - i + 1) * Unit + tokens' <= Capacity + (grants'[j] - grants'[i])
        BY <2>0, <3>3, <4>1, <4>2 DEF Potential
      <4> DEFINE m == (j - i + 1) * Unit
      <4>4. m \in Int /\ grants'[i] \in Nat /\ grants'[j] \in Nat /\ tokens' \in Nat
        BY <2>0, <4>1 DEF LimiterTypeOK
      <4> HIDE DEF m
      <4>5. m <= Capacity + (grants'[j] - grants'[i])
        <5>1. m + tokens' <= Capacity + (grants'[j] - grants'[i])
          BY <4>3 DEF m
        <5> QED BY <4>4, <5>1
      <4> QED BY <4>5 DEF m
    <3> QED BY <3>1, <3>2, <3>3
  <2> QED BY <2>1, <2>2 DEF LimiterNext, Tick, Refuse, limiterVars
<1> QED BY <1>1, <1>2, PotentialStep, LimiterTypeCorrect, PTL DEF LimiterSpec

(* A caller that is refused keeps every tick it waits, so one second after  *)
(* the first refusal it is served, however often it asks in between.        *)
THEOREM NoStarvation == LimiterSpec => []PollingIsNotStarved
<1> USE UnitAssumption, CapacityFacts
<1>1. LimiterInit => FractionKept
  BY DEF LimiterInit, FractionKept
<1>2. LimiterTypeOK /\ FractionKept /\ [LimiterNext]_limiterVars => FractionKept'
  <2> SUFFICES ASSUME LimiterTypeOK, FractionKept, [LimiterNext]_limiterVars PROVE FractionKept'
    OBVIOUS
  <2>0. /\ Refilled \in 0 .. Capacity
        /\ Refilled < Capacity => Refilled = tokens + (now - last)
    BY RefilledFacts
  <2>1. CASE Tick
    BY <2>1 DEF FractionKept, Tick
  <2>2. CASE Acquire
    BY <2>2 DEF FractionKept, Acquire
  <2>3. CASE Refuse
    <3>1. CASE refusedAt = {}
      BY <2>0, <2>3, <3>1 DEF FractionKept, Refuse, LimiterTypeOK
    <3>2. CASE refusedAt # {}
      BY <2>0, <2>3, <3>2 DEF FractionKept, Refuse, LimiterTypeOK
    <3> QED BY <3>1, <3>2
  <2>4. CASE UNCHANGED limiterVars
    BY <2>4 DEF FractionKept, limiterVars
  <2> QED BY <2>1, <2>2, <2>3, <2>4 DEF LimiterNext
<1>3. LimiterTypeOK /\ FractionKept => PollingIsNotStarved
  <2> SUFFICES ASSUME LimiterTypeOK, FractionKept, NEW r \in refusedAt, now - r >= Unit
               PROVE  Refilled >= Unit
    BY DEF PollingIsNotStarved
  <2>1. r \in Nat /\ r <= last /\ tokens >= last - r /\ tokens \in Nat /\ last \in Nat
        /\ now \in Nat /\ last <= now
    BY DEF LimiterTypeOK, FractionKept
  <2>2. tokens + (now - last) >= Unit
    BY <2>1
  <2> QED BY <2>1, <2>2 DEF Refilled
<1> QED BY <1>1, <1>2, <1>3, LimiterTypeCorrect, PTL DEF LimiterSpec

(* Integer division by the resolution, as the two bounds it satisfies.      *)
LEMMA DivBounds ==
  ASSUME NEW a \in Nat, NEW u \in Nat \ {0}
  PROVE  /\ a \div u \in Nat
         /\ (a \div u) * u <= a
         /\ a < (a \div u) * u + u
<1>1. a = u * (a \div u) + (a % u) /\ a % u \in 0 .. u - 1 /\ a \div u \in Int
  OBVIOUS
<1>2. (a \div u) * u = u * (a \div u)
  BY <1>1
<1> QED BY <1>1, <1>2

(* ... and which determine it.                                              *)
LEMMA DivUnique ==
  ASSUME NEW a \in Nat, NEW u \in Nat \ {0}, NEW q \in Nat,
         q * u <= a, a < q * u + u
  PROVE  a \div u = q
BY DivBounds

(* One order costs one whole token and one tick adds at most one, so the    *)
(* float arithmetic of main.rs:74-85 implements the token bucket.           *)
THEOREM RefinesBucket == LimiterSpec => ImplementsBucket
<1> USE UnitAssumption, BurstAssumption, CapacityFacts
<1> DEFINE W == Refilled \div Unit
<1>1. LimiterInit => Bucket!Init
  <2> SUFFICES ASSUME LimiterInit PROVE W = Burst
    BY DEF Bucket!Init
  <2>1. Refilled = Burst * Unit /\ Refilled \in Nat
    BY DEF LimiterInit, Refilled, Capacity
  <2> QED BY <2>1, DivUnique
<1>2. LimiterTypeOK /\ [LimiterNext]_limiterVars => [Bucket!Next]_W
  <2> SUFFICES ASSUME LimiterTypeOK, [LimiterNext]_limiterVars PROVE [Bucket!Next]_W
    OBVIOUS
  <2>0. /\ Capacity' = Capacity /\ Capacity = Burst * Unit
        /\ Refilled \in 0 .. Capacity
        /\ W \in Nat /\ W * Unit <= Refilled /\ Refilled < W * Unit + Unit
    BY RefilledFacts, DivBounds DEF Capacity
  <2>1. CASE Refilled' = Refilled
    BY <2>1
  <2>2. CASE Tick
    <3>1. Refilled' = Refilled \/ (Refilled' = Refilled + 1 /\ Refilled < Capacity)
      BY <2>0, <2>2 DEF Tick, LimiterTypeOK, Refilled
    <3>2. CASE Refilled' = Refilled + 1 /\ Refilled < Capacity
      <4>1. CASE Refilled + 1 < W * Unit + Unit
        <5>1. (Refilled + 1) \div Unit = W
          <6> HIDE DEF W
          <6>1. W \in Nat /\ Refilled + 1 \in Nat /\ W * Unit <= Refilled + 1
            BY <2>0
          <6> QED BY <4>1, <6>1, DivUnique
        <5>2. W' = W
          BY <3>2, <5>1
        <5> QED BY <5>2
      <4>2. CASE Refilled + 1 = W * Unit + Unit
        <5>1. (W + 1) * Unit = W * Unit + Unit
          BY <2>0
        <5>2. (Refilled + 1) \div Unit = W + 1
          BY <2>0, <4>2, <5>1, DivUnique
        <5>3. W' = W + 1
          BY <3>2, <5>2
        <5>4. W < Burst
          <6>1. W * Unit < Burst * Unit
            BY <2>0, <3>2
          <6>2. W >= Burst => W * Unit >= Burst * Unit
            <7> SUFFICES ASSUME W >= Burst PROVE W * Unit >= Burst * Unit
              OBVIOUS
            <7>1. PICK k \in Nat : W = Burst + k
              <8>1. W - Burst \in Nat /\ W = Burst + (W - Burst)
                BY <2>0
              <8> QED BY <8>1
            <7>2. W * Unit = Burst * Unit + k * Unit /\ k * Unit \in Nat
              BY <7>1
            <7> QED BY <7>2
          <6> QED BY <2>0, <6>1, <6>2
        <5> QED BY <5>3, <5>4 DEF Bucket!Next, Bucket!Refill
      <4> QED BY <2>0, <4>1, <4>2
    <3> QED BY <2>1, <3>1, <3>2
  <2>3. CASE Acquire
    <3>1. Refilled' = Refilled - Unit /\ Refilled >= Unit
      BY <2>0, <2>3 DEF Acquire, LimiterTypeOK, Refilled
    <3>2. W > 0
      BY <2>0, <3>1
    <3>3. (W - 1) * Unit = W * Unit - Unit
      BY <2>0
    <3>4. (Refilled - Unit) \div Unit = W - 1
      BY <2>0, <3>1, <3>2, <3>3, DivUnique
    <3> QED BY <3>1, <3>2, <3>4 DEF Bucket!Next, Bucket!Take
  <2>4. CASE Refuse
    <3>1. Refilled' = Refilled
      BY <2>0, <2>4 DEF Refuse, LimiterTypeOK, Refilled
    <3> QED BY <2>1, <3>1
  <2>5. CASE UNCHANGED limiterVars
    <3>1. Refilled' = Refilled
      BY <2>5 DEF limiterVars, Refilled, Capacity
    <3> QED BY <2>1, <3>1
  <2> QED BY <2>2, <2>3, <2>4, <2>5 DEF LimiterNext
<1> QED BY <1>1, <1>2, LimiterTypeCorrect, PTL DEF LimiterSpec, ImplementsBucket, Bucket!Spec

-------------------------------------------------------------------------------
(* Feed.                                                                     *)

USE FirstAssumption, BoundsAssumption

(* Only discovery can make a ticker fail without a request for it, and only *)
(* once: until the next request it is not among those asked for, and has    *)
(* never failed; from then on it always is.                                 *)
FailedOnceUnasked ==
    /\ \A t \in Tickers : failures[t] <= refused[t] + 1
    /\ \A t \in Tickers \ ToSet(watch) : failures[t] = 0
    /\ pc = "download" =>
          asked \subseteq ToSet(watch) /\ \A t \in Tickers \ asked : failures[t] = 0

Counts ==
    /\ watch \in Seq(Tickers) /\ asked \in SUBSET Tickers /\ bad \in SUBSET Tickers
    /\ failures \in [Tickers -> Nat] /\ refused \in [Tickers -> Nat]

Inv == Counts /\ FailedOnceUnasked /\ DroppedForCause

LEMMA SetOfList ==
  ASSUME NEW s \in Seq(Tickers), NEW t \in Tickers
  PROVE  /\ ToSet(s) \in SUBSET Tickers
         /\ ToSet(Append(s, t)) = ToSet(s) \cup {t}
<1>1. Append(s, t) \in Seq(Tickers) /\ Len(Append(s, t)) = Len(s) + 1
  OBVIOUS
<1>2. /\ \A i \in 1 .. Len(s) : s[i] \in Tickers /\ Append(s, t)[i] = s[i]
      /\ Append(s, t)[Len(s) + 1] = t
  OBVIOUS
<1>3. DOMAIN s = 1 .. Len(s) /\ DOMAIN Append(s, t) = 1 .. Len(s) + 1 /\ Len(s) \in Nat
  BY <1>1
<1> QED BY <1>2, <1>3 DEF ToSet

LEMMA InitInv == Init => Inv
<1> SUFFICES ASSUME Init PROVE Inv
  OBVIOUS
<1> QED BY DEF Init, Inv, Counts, FailedOnceUnasked, DroppedForCause

LEMMA NextInv == Inv /\ [Next]_vars => Inv'
<1> SUFFICES ASSUME Inv, [Next]_vars PROVE Inv'
  OBVIOUS
<1> USE DEF Inv, Counts, FailedOnceUnasked, DroppedForCause
<1>1. CASE Ask
  <2>1. ToSet(watch) \in SUBSET Tickers
    BY SetOfList DEF ToSet
  <2> QED BY <1>1, <2>1 DEF Ask
<1>2. CASE Answer
  <2>1. PICK lacking \in SUBSET asked :
          LET missing == lacking \cup (ToSet(watch) \ asked)
              failing == missing \ bad
          IN  /\ failures' = [t \in Tickers |->
                                failures[t] + (IF t \in failing THEN 1 ELSE 0)]
              /\ refused' = [t \in Tickers |->
                                refused[t] + (IF t \in lacking THEN 1 ELSE 0)]
              /\ bad' = bad \cup {t \in failing : Drops(failures'[t])}
    BY <1>2 DEF Answer
  <2> DEFINE missing == lacking \cup (ToSet(watch) \ asked)
             failing == missing \ bad
  <2>2. pc = "download" /\ pc' = "quote" /\ UNCHANGED <<watch, asked>>
    BY <1>2 DEF Answer
  <2>3. ToSet(watch) \in SUBSET Tickers
    BY SetOfList DEF ToSet
  <2>4. Counts'
    BY <2>1, <2>2, <2>3
  <2>5. ASSUME NEW t \in Tickers
        PROVE  /\ failures'[t] <= refused'[t] + 1 /\ refused'[t] >= refused[t]
               /\ t \notin ToSet(watch) => failures'[t] = 0
    <3>1. CASE t \in lacking
      BY <2>1, <2>2, <3>1
    <3>2. CASE t \in ToSet(watch) \ asked
      BY <2>1, <2>2, <3>2
    <3>3. CASE t \notin missing
      BY <2>1, <2>2, <3>3
    <3> QED BY <3>1, <3>2, <3>3
  <2>6. FailedOnceUnasked'
    BY <2>2, <2>5
  <2>7. DroppedForCause'
    <3> SUFFICES ASSUME NEW t \in bad' PROVE refused'[t] >= Failures - 1
      OBVIOUS
    <3>1. t \in Tickers
      BY <2>4
    <3>2. CASE t \in bad
      BY <2>4, <2>5, <3>1, <3>2
    <3>3. CASE t \notin bad
      BY <2>1, <2>4, <2>5, <3>1, <3>3 DEF Drops
    <3> QED BY <3>2, <3>3
  <2> QED BY <2>4, <2>6, <2>7
<1>3. ASSUME NEW t \in Tickers, Discover(t)
      PROVE  Inv'
  <2>1. ToSet(watch') = ToSet(watch) \cup {t}
    BY <1>3, SetOfList DEF Discover
  <2>2. watch' \in Seq(Tickers)
    BY <1>3 DEF Discover
  <2> QED BY <1>3, <2>1, <2>2 DEF Discover, handVars
<1>4. CASE \/ DownloadFails \/ NextQuote \/ SendNext \/ Sent \/ UNCHANGED vars
           \/ \E c \in Clients : Join(c) \/ Leave(c)
           \/ \E t \in Tickers, price \in Prices : Trade(t, price)
  <2>1. UNCHANGED <<watch, asked, failures, bad, refused>> /\ (pc' = "download" => pc = "download")
    BY <1>4 DEF DownloadFails, NextQuote, SendNext, Sent, Join, Leave, Trade, pollVars, vars
  <2> QED BY <2>1
<1> QED BY <1>1, <1>2, <1>3, <1>4 DEF Next, Loop

(* A ticker is dropped for good only when the source has left it out of its *)
(* answers Failures - 1 times at least, whatever is discovered when.        *)
THEOREM DropsHaveCause == Spec => []DroppedForCause
<1>1. Inv => DroppedForCause
  BY DEF Inv
<1> QED BY <1>1, InitInv, NextInv, PTL DEF Spec

===============================================================================
