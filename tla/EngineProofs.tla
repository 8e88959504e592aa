----------------------------- MODULE EngineProofs -----------------------------
(***************************************************************************)
(* Theorems about Engine, for every set of tickers, quantities, prices and *)
(* directions, every risk limit and burst, and every number and mix of     *)
(* faults.                                                                 *)
(***************************************************************************)
EXTENDS Engine, TLAPS

USE QtysAssumption, PricesAssumption, BurstAssumption, MockModeAssumption,
    BoundsAssumption

\* The points of a turn of the loop at which `signal` holds a signal.
InTurn == {"gate", "limit", "place", "book", "publish"}

(* TypeOK, and the locals are meaningful where the loop uses them.          *)
TypeInv ==
    /\ TypeOK
    /\ pc \in InTurn => sig \in Signal
    /\ pc = "publish" => out \in Result

(* Steps grouped by what they leave alone: the proofs below need only this. *)
Idle ==
    \/ PublishSignal \/ ToggleTwoFA \/ Refill \/ Receive \/ StreamEnds \/ Gate
    \/ Limit \/ PlaceRefused \/ RedisBack \/ UNCHANGED vars

LEMMA NextSplit ==
  ASSUME [Next]_vars
  PROVE  \/ Idle \/ Start \/ Restore \/ PlaceOk \/ PlaceReplyLost \/ Book
         \/ PublishResult \/ Crash \/ RedisDown
BY DEF Next, Step, Idle

LEMMA PositionFacts ==
  /\ NoPos \in Position
  /\ NoPositions \in [Tickers -> Position]
  /\ \A t \in Tickers : NoPositions[t] = NoPos
  /\ \A s \in Signal : After(s) \in Position
BY DEF NoPos, NoPositions, Position, Signal, After

(* An order that matches what the broker holds leaves there what the engine *)
(* makes of it.                                                             *)
LEMMA LedgerFacts ==
  ASSUME TypeOK, NEW s \in Signal
  PROVE  /\ s.ticker \in Tickers
         /\ Ledger(s) \in [qty : Int, entry : Nat]
         /\ Matches(s) => Ledger(s) = After(s)
<1>1. /\ s.ticker \in Tickers /\ s.qty \in Nat /\ s.price \in Nat
      /\ filled[s.ticker] \in [qty : Int, entry : Nat]
  BY DEF TypeOK, Signal
<1>2. Ledger(s) \in [qty : Int, entry : Nat]
  BY <1>1 DEF Ledger, NoPos
<1>3. Matches(s) => Ledger(s) = After(s)
  BY <1>1 DEF Matches, Ledger, After
<1> QED BY <1>1, <1>2, <1>3

LEMMA AcceptFacts ==
  ASSUME TypeOK, sig \in Signal, Accept
  PROVE  /\ filled' = [filled EXCEPT ![sig.ticker] = Ledger(sig)]
         /\ filled' \in [Tickers -> [qty : Int, entry : Nat]]
         /\ accepted' \in SUBSET Signal /\ placed' \in Nat
         /\ unmatched' \in SUBSET Tickers /\ late' \in Nat
         /\ unmatched \ {sig.ticker} \subseteq unmatched'
         /\ sig.ticker \notin unmatched' => Ledger(sig) = After(sig)
<1>1. /\ sig.ticker \in Tickers /\ Ledger(sig) \in [qty : Int, entry : Nat]
      /\ Matches(sig) => Ledger(sig) = After(sig)
  BY LedgerFacts
<1>2. /\ filled' = [filled EXCEPT ![sig.ticker] = Ledger(sig)]
      /\ accepted' = accepted \cup {sig} /\ placed' = placed + 1
      /\ unmatched' = IF Matches(sig) THEN unmatched \ {sig.ticker}
                      ELSE unmatched \cup {sig.ticker}
      /\ late' \in {late, late + 1}
  BY DEF Accept
<1>3. filled' \in [Tickers -> [qty : Int, entry : Nat]]
  BY <1>1, <1>2 DEF TypeOK
<1> HIDE DEF Ledger, After, Matches
<1> QED BY <1>1, <1>2, <1>3 DEF TypeOK

LEMMA EmptyQueue == <<>> \in Seq(Signal)
OBVIOUS

LEMMA ResultFacts ==
  ASSUME NEW s \in Signal, NEW h \in Position
  PROVE  /\ ResultOf(s, h) \in Result \cup {Empty}
         /\ ResultOf(s, h) # Empty => ResultOf(s, h) \in Result
         /\ ResultOf(s, h) # Empty =>
                /\ ResultOf(s, h).id = s.id /\ ResultOf(s, h).ticker = s.ticker
                /\ ResultOf(s, h).status # "OPEN" =>
                      h # NoPos /\ ResultOf(s, h).entry = h.entry
BY DEF ResultOf, Signal, Result, Position, Empty

(* Every variable keeps its type, in particular the rate limiter its range. *)
LEMMA TypeStep ==
  ASSUME TypeInv, [Next]_vars
  PROVE  TypeInv'
<1> USE DEF TypeInv, TypeOK, InTurn, engineVars, redisVars, brokerVars
<1>1. CASE PublishSignal
  <2>1. queue' \in Seq(Signal)
    <3>1. PICK t \in Tickers, d \in Directions, q \in Qtys, p \in Prices :
             queue' = IF Listening
                      THEN Append(queue, [id |-> sent + 1, ticker |-> t, dir |-> d,
                                          qty |-> q, price |-> p])
                      ELSE queue
      BY <1>1 DEF PublishSignal
    <3>2. [id |-> sent + 1, ticker |-> t, dir |-> d, qty |-> q, price |-> p] \in Signal
      BY <1>1 DEF PublishSignal, Signal
    <3> QED BY <3>1, <3>2
  <2> QED BY <1>1, <2>1 DEF PublishSignal
<1>2. CASE ToggleTwoFA
  BY <1>2 DEF ToggleTwoFA
<1>3. CASE Refill
  BY <1>3 DEF Refill, Bucket!Refill
<1>4. CASE Start
  BY <1>4, PositionFacts DEF Start
<1>5. CASE Restore
  BY <1>5 DEF Restore, Fault
<1>6. CASE Receive
  <2>1. sig' \in Signal /\ queue' \in Seq(Signal)
    BY <1>6 DEF Receive
  <2> QED BY <1>6, <2>1 DEF Receive
<1>7. CASE StreamEnds
  BY <1>7 DEF StreamEnds
<1>8. CASE Gate
  BY <1>8 DEF Gate, Fault
<1>9. CASE Limit
  BY <1>9 DEF Limit, Bucket!Take
<1>10. CASE PlaceOk
  <2>1. sig \in Signal
    BY <1>10 DEF PlaceOk
  <2>2. /\ pc' = "book"
        /\ UNCHANGED <<queue, sig, active, positions, out, tokens, linked, stored, twofa,
                       redisUp, published, cut, sent, faults>>
    BY <1>10 DEF PlaceOk
  <2>3. Accept
    BY <1>10 DEF PlaceOk
  <2> QED BY <2>1, <2>2, <2>3, AcceptFacts
<1>11. CASE PlaceRefused
  BY <1>11 DEF PlaceRefused
<1>12. CASE PlaceReplyLost
  <2>1. sig \in Signal /\ sig.ticker \in Tickers
    BY <1>12 DEF PlaceReplyLost, Signal
  <2>2. /\ pc' = "recv" /\ cut' = cut \cup {sig.ticker} /\ faults' \in 0 .. MaxFaults
        /\ UNCHANGED <<queue, sig, active, positions, out, tokens, linked, stored, twofa,
                       redisUp, published, sent>>
    BY <1>12 DEF PlaceReplyLost, Fault
  <2>3. Accept
    BY <1>12 DEF PlaceReplyLost
  <2> QED BY <2>1, <2>2, <2>3, AcceptFacts
<1>13. CASE Book
  <2>1. sig \in Signal /\ sig.ticker \in Tickers /\ positions[sig.ticker] \in Position
    BY <1>13 DEF Book, Signal
  <2>2. out' \in Result \cup {Empty} /\ (out' # Empty => out' \in Result)
    BY <1>13, <2>1, ResultFacts DEF Book
  <2>3. /\ stored' \in [Tickers -> Position] /\ positions' \in [Tickers -> Position]
        /\ cut' \in SUBSET Tickers /\ faults' \in 0 .. MaxFaults
    BY <1>13, <2>1, PositionFacts DEF Book, Fault
  <2>4. /\ pc = "book" /\ pc' \in {"recv", "publish"} /\ (pc' = "publish" => out' # Empty)
        /\ UNCHANGED <<queue, sig, active, tokens, linked, twofa, redisUp, filled,
                       accepted, placed, unmatched, late, published, sent>>
    BY <1>13 DEF Book
  <2> QED BY <2>2, <2>3, <2>4
<1>14. CASE PublishResult
  <2>1. /\ pc = "publish" /\ pc' \in {"recv", "ended"}
        /\ queue' = queue \/ queue' = <<>>
        /\ published' = published \/ published' = published \cup {out}
        /\ faults' \in 0 .. MaxFaults
        /\ UNCHANGED <<sig, active, positions, out, tokens, linked, stored, twofa,
                       redisUp, filled, accepted, placed, unmatched, late, cut, sent>>
    BY <1>14 DEF PublishResult, Fault
  <2> QED BY <2>1, EmptyQueue
<1>15. CASE Crash
  <2>1. pc = "book" => sig.ticker \in Tickers
    BY DEF Signal
  <2>2. cut' \in SUBSET Tickers
    BY <1>15, <2>1 DEF Crash
  <2>3. /\ faults' \in 0 .. MaxFaults /\ pc' = "down" /\ linked' = FALSE
        /\ queue' \in Seq(Signal) /\ positions' \in [Tickers -> Position]
    BY <1>15, PositionFacts, EmptyQueue DEF Crash, Fault
  <2>4. UNCHANGED <<sig, active, out, tokens, stored, twofa, redisUp, filled,
                    accepted, placed, unmatched, late, published, sent>>
    BY <1>15 DEF Crash
  <2> QED BY <2>2, <2>3, <2>4
<1>16. CASE RedisDown
  <2>1. /\ stored' \in [Tickers -> Position] /\ twofa' \in BOOLEAN
        /\ cut' \in SUBSET Tickers
    BY <1>16, PositionFacts DEF RedisDown
  <2>2. faults' \in 0 .. MaxFaults
    BY <1>16 DEF RedisDown, Fault
  <2>3. /\ redisUp' \in BOOLEAN /\ linked' \in BOOLEAN
        /\ UNCHANGED <<pc, sig, active, positions, out, tokens, queue, filled,
                       accepted, placed, unmatched, late, published, sent>>
    BY <1>16 DEF RedisDown
  <2> QED BY <2>1, <2>2, <2>3
<1>17. CASE RedisBack
  BY <1>17 DEF RedisBack
<1>18. CASE UNCHANGED vars
  BY <1>18 DEF vars
<1> QED
  BY <1>1, <1>2, <1>3, <1>4, <1>5, <1>6, <1>7, <1>8, <1>9, <1>10, <1>11, <1>12,
     <1>13, <1>14, <1>15, <1>16, <1>17, <1>18 DEF Next, Step

LEMMA TypeInit == Init => TypeInv
<1> SUFFICES ASSUME Init PROVE TypeInv
  OBVIOUS
<1>1. /\ positions \in [Tickers -> Position] /\ stored \in [Tickers -> Position]
      /\ filled \in [Tickers -> [qty : Int, entry : Nat]] /\ queue \in Seq(Signal)
  BY PositionFacts, EmptyQueue DEF Init, Position, NoPositions, NoPos
<1>2. /\ linked \in BOOLEAN /\ twofa \in BOOLEAN /\ redisUp \in BOOLEAN
  BY DEF Init
<1>3. tokens \in 0 .. Burst /\ sent \in 0 .. MaxSignals /\ faults \in 0 .. MaxFaults
  BY DEF Init
<1>4. /\ pc = "down" /\ active = "unread" /\ sig = Empty /\ out = Empty
      /\ accepted = {} /\ placed = 0 /\ published = {} /\ cut = {}
      /\ unmatched = {} /\ late = 0
  BY DEF Init
<1> QED BY <1>1, <1>2, <1>3, <1>4 DEF TypeInv, TypeOK, InTurn

THEOREM TypeCorrect == Spec => []TypeOK
<1>1. TypeInv => TypeOK
  BY DEF TypeInv
<1> QED BY <1>1, TypeInit, TypeStep, PTL DEF Spec

-------------------------------------------------------------------------------
(* What an idle step preserves: no record moves, and the loop neither enters *)
(* nor leaves the points at which a record is due.                           *)
LEMMA IdleFacts ==
  ASSUME TypeInv, Idle
  PROVE  /\ UNCHANGED <<positions, stored, filled, accepted, placed, unmatched,
                        published, cut>>
         /\ pc' = "book" <=> pc = "book"
         /\ pc' = "publish" <=> pc = "publish"
         /\ pc \in {"book", "publish"} => sig' = sig /\ out' = out
         /\ pc' \in {"down", "restore"} <=> pc \in {"down", "restore"}
<1> USE DEF TypeInv, TypeOK, engineVars, redisVars, brokerVars
<1>1. CASE PublishSignal
  BY <1>1 DEF PublishSignal
<1>2. CASE ToggleTwoFA
  BY <1>2 DEF ToggleTwoFA
<1>3. CASE Refill
  BY <1>3 DEF Refill
<1>4. CASE Receive
  BY <1>4 DEF Receive
<1>5. CASE StreamEnds
  BY <1>5 DEF StreamEnds
<1>6. CASE Gate
  BY <1>6 DEF Gate
<1>7. CASE Limit
  BY <1>7 DEF Limit
<1>8. CASE PlaceRefused
  BY <1>8 DEF PlaceRefused
<1>9. CASE RedisBack
  BY <1>9 DEF RedisBack
<1>10. CASE UNCHANGED vars
  BY <1>10 DEF vars
<1> QED
  BY <1>1, <1>2, <1>3, <1>4, <1>5, <1>6, <1>7, <1>8, <1>9, <1>10 DEF Idle

(* RecordsAgree is not inductive alone: between the broker's answer and the *)
(* map the broker already holds the new position, and a starting engine     *)
(* holds an empty map.                                                      *)
AgreeInv ==
    /\ RecordsAgree
    /\ pc = "book" /\ sig.ticker \notin unmatched => filled[sig.ticker] = After(sig)
    /\ pc \in {"down", "restore"} => positions = NoPositions

LEMMA AgreeStep ==
  ASSUME TypeInv, AgreeInv, [Next]_vars
  PROVE  AgreeInv'
<1> USE DEF AgreeInv, RecordsAgree
<1>1. CASE Idle
  BY <1>1, IdleFacts
<1>2. CASE Start
  BY <1>2 DEF Start, redisVars, brokerVars
<1>3. CASE Restore
  <2>1. /\ pc = "restore" /\ pc' = "recv" /\ UNCHANGED <<stored, filled, unmatched>>
        /\ \/ positions' = stored /\ UNCHANGED cut
           \/ /\ positions' = positions
              /\ cut' = cut \cup {t \in Tickers : stored[t] # NoPos}
    BY <1>3 DEF Restore, redisVars, brokerVars
  <2> QED BY <2>1, PositionFacts
<1>4. CASE PlaceOk
  <2>1. /\ sig \in Signal /\ sig.ticker \in Tickers /\ pc = "place" /\ pc' = "book"
        /\ UNCHANGED <<sig, positions, stored, cut>>
    BY <1>4 DEF PlaceOk, redisVars, TypeInv, InTurn, Signal
  <2>2. /\ filled' = [filled EXCEPT ![sig.ticker] = Ledger(sig)]
        /\ unmatched \ {sig.ticker} \subseteq unmatched'
        /\ sig.ticker \notin unmatched' => Ledger(sig) = After(sig)
    BY <1>4, <2>1, AcceptFacts DEF PlaceOk, TypeInv
  <2>3. After(sig)' = After(sig)
    BY <2>1 DEF After
  <2> QED BY <2>1, <2>2, <2>3 DEF TypeInv, TypeOK
<1>5. CASE PlaceReplyLost
  <2>1. /\ sig \in Signal /\ sig.ticker \in Tickers /\ pc = "place" /\ pc' = "recv"
        /\ UNCHANGED <<sig, positions, stored>> /\ cut' = cut \cup {sig.ticker}
    BY <1>5 DEF PlaceReplyLost, redisVars, TypeInv, InTurn, Signal
  <2>2. /\ filled' = [filled EXCEPT ![sig.ticker] = Ledger(sig)]
        /\ unmatched \ {sig.ticker} \subseteq unmatched'
    BY <1>5, <2>1, AcceptFacts DEF PlaceReplyLost, TypeInv
  <2> QED BY <2>1, <2>2 DEF TypeInv, TypeOK
<1>6. CASE Book
  <2>1. sig.ticker \in Tickers
    BY <1>6 DEF Book, TypeInv, InTurn, Signal
  <2>2. /\ pc' \in {"recv", "publish"} /\ pc = "book"
        /\ UNCHANGED <<filled, unmatched>>
        /\ positions' = [positions EXCEPT ![sig.ticker] = After(sig)]
    BY <1>6 DEF Book, brokerVars
  <2>3. CASE /\ stored' = [stored EXCEPT ![sig.ticker] = After(sig)]
             /\ cut' = cut \ {sig.ticker}
    BY <2>1, <2>2, <2>3 DEF TypeInv, TypeOK
  <2>4. CASE stored' = stored /\ cut' = cut \cup {sig.ticker}
    BY <2>1, <2>2, <2>4 DEF TypeInv, TypeOK
  <2> QED BY <1>6, <2>3, <2>4 DEF Book
<1>7. CASE PublishResult
  BY <1>7 DEF PublishResult, redisVars, brokerVars
<1>8. CASE Crash
  BY <1>8 DEF Crash, redisVars, brokerVars
<1>9. CASE RedisDown
  <2>1. UNCHANGED <<pc, sig, positions, filled, unmatched>>
    BY <1>9 DEF RedisDown, engineVars, brokerVars
  <2>2. CASE UNCHANGED <<stored, cut>>
    BY <2>1, <2>2
  <2>3. CASE stored' = NoPositions /\ cut' = cut \cup {t \in Tickers : stored[t] # NoPos}
    BY <2>1, <2>3, PositionFacts
  <2> QED BY <1>9, <2>2, <2>3 DEF RedisDown
<1> QED
  BY <1>1, <1>2, <1>3, <1>4, <1>5, <1>6, <1>7, <1>8, <1>9, NextSplit

(* Whatever faults happen, engine, hash and broker, each by its own rule,   *)
(* agree on every ticker whose last order matched what the broker held and  *)
(* was recorded in full (main.rs:176-194, 276-325).                         *)
THEOREM RecordsStayTrue == Spec => []RecordsAgree
<1>1. Init => AgreeInv
  BY DEF Init, AgreeInv, RecordsAgree
<1>2. AgreeInv => RecordsAgree
  BY DEF AgreeInv
<1> QED BY <1>1, <1>2, TypeInit, TypeStep, AgreeStep, PTL DEF Spec

-------------------------------------------------------------------------------
\* Some BUY of t that the broker accepted was at price e.
Paid(t, e) == \E b \in accepted : b.dir \in Buys /\ b.ticker = t /\ b.price = e

(* The entry price travels from the order to the map, to the hash, back to  *)
(* a restarted map and into the result: it was paid at each of these places.*)
PaidInv ==
    /\ EntryWasPaid
    /\ \A t \in Tickers : positions[t] # NoPos => Paid(t, positions[t].entry)
    /\ \A t \in Tickers : stored[t] # NoPos => Paid(t, stored[t].entry)
    /\ pc = "publish" /\ out.status # "OPEN" => Paid(out.ticker, out.entry)
    /\ pc = "book" => sig \in accepted

LEMMA PaidStep ==
  ASSUME TypeInv, PaidInv, [Next]_vars
  PROVE  PaidInv'
<1> USE DEF PaidInv, EntryWasPaid, Paid
<1>1. CASE Idle
  BY <1>1, IdleFacts
<1>2. CASE Start
  BY <1>2, PositionFacts DEF Start, redisVars, brokerVars
<1>3. CASE Restore
  BY <1>3 DEF Restore, redisVars, brokerVars
<1>4. CASE PlaceOk
  BY <1>4 DEF PlaceOk, Accept, redisVars
<1>5. CASE PlaceReplyLost
  BY <1>5 DEF PlaceReplyLost, Accept, redisVars
<1>6. CASE Book
  <2>1. sig \in Signal /\ sig.ticker \in Tickers /\ sig \in accepted
        /\ positions[sig.ticker] \in Position
    BY <1>6 DEF Book, TypeInv, TypeOK, InTurn, Signal
  <2>2. After(sig) # NoPos => Paid(sig.ticker, After(sig).entry)
    BY <2>1 DEF After
  <2>3. /\ UNCHANGED <<accepted, published, sig>>
        /\ positions' = [positions EXCEPT ![sig.ticker] = After(sig)]
        /\ stored' = stored \/ stored' = [stored EXCEPT ![sig.ticker] = After(sig)]
        /\ out' = ResultOf(sig, positions[sig.ticker])
        /\ pc' \in {"recv", "publish"} /\ (pc' = "publish" => out' # Empty)
    BY <1>6 DEF Book, brokerVars
  <2>4. \A t \in Tickers : positions'[t] # NoPos => Paid(t, positions'[t].entry)
    BY <2>1, <2>2, <2>3 DEF TypeInv, TypeOK
  <2>5. \A t \in Tickers : stored'[t] # NoPos => Paid(t, stored'[t].entry)
    <3>1. CASE stored' = stored
      BY <3>1
    <3>2. CASE stored' = [stored EXCEPT ![sig.ticker] = After(sig)]
      BY <2>1, <2>2, <3>2 DEF TypeInv, TypeOK
    <3> QED BY <2>3, <3>1, <3>2
  <2>6. out' # Empty /\ out'.status # "OPEN" => Paid(out'.ticker, out'.entry)
    BY <2>1, <2>3, ResultFacts
  <2> QED BY <2>3, <2>4, <2>5, <2>6
<1>7. CASE PublishResult
  <2>1. UNCHANGED <<positions, stored, accepted, out>> /\ pc' \in {"recv", "ended"}
        /\ (published' = published \/ published' = published \cup {out})
    BY <1>7 DEF PublishResult, redisVars, brokerVars
  <2>2. out.status # "OPEN" => Paid(out.ticker, out.entry)
    BY <1>7 DEF PublishResult
  <2> QED BY <2>1, <2>2
<1>8. CASE Crash
  BY <1>8, PositionFacts DEF Crash, redisVars, brokerVars
<1>9. CASE RedisDown
  BY <1>9, PositionFacts DEF RedisDown, engineVars, brokerVars
<1> QED
  BY <1>1, <1>2, <1>3, <1>4, <1>5, <1>6, <1>7, <1>8, <1>9, NextSplit

(* Profits are never computed from a price nobody paid, whatever is lost,   *)
(* restored or overwritten on the way (main.rs:327-337).                    *)
THEOREM EntriesWerePaid == Spec => []EntryWasPaid
<1>1. Init => PaidInv
  BY PositionFacts DEF Init, PaidInv, EntryWasPaid
<1>2. PaidInv => EntryWasPaid
  BY DEF PaidInv
<1> QED BY <1>1, <1>2, TypeInit, TypeStep, PaidStep, PTL DEF Spec

-------------------------------------------------------------------------------
(* Nothing is late while the flag is there, nor while a signal that has     *)
(* seen it is on its way: that one may be the first late order, and the     *)
(* next signal has to look at the flag again.                               *)
LateInv ==
    /\ late \in {0, 1}
    /\ twofa => late = 0
    /\ pc \in {"limit", "place"} => active # "none" /\ (active = "some" => late = 0)
    /\ pc = "gate" => active = "unread"

LEMMA LateStep ==
  ASSUME TypeInv, LateInv, [Next]_vars
  PROVE  LateInv'
<1> USE DEF LateInv, engineVars, redisVars, brokerVars
<1>1. CASE Start \/ Restore \/ StreamEnds \/ PlaceRefused \/ Crash
  BY <1>1 DEF Start, Restore, StreamEnds, PlaceRefused, Crash
<1>2. CASE Receive
  BY <1>2 DEF Receive
<1>3. CASE Gate
  BY <1>3 DEF Gate
<1>4. CASE Limit
  BY <1>4 DEF Limit
<1>5. CASE PlaceOk \/ PlaceReplyLost
  <2>1. /\ pc = "place" /\ pc' \in {"book", "recv"} /\ UNCHANGED <<twofa, active>>
        /\ late' = IF twofa \/ active = "unread" THEN late ELSE late + 1
    BY <1>5 DEF PlaceOk, PlaceReplyLost, Accept
  <2> QED BY <2>1 DEF TypeInv, TypeOK
<1>6. CASE Book \/ PublishResult
  BY <1>6 DEF Book, PublishResult
<1>7. CASE ToggleTwoFA
  BY <1>7 DEF ToggleTwoFA
<1>8. CASE PublishSignal \/ Refill \/ RedisDown \/ RedisBack
  BY <1>8 DEF PublishSignal, Refill, RedisDown, RedisBack
<1>9. CASE UNCHANGED vars
  BY <1>9 DEF vars
<1> QED
  BY <1>1, <1>2, <1>3, <1>4, <1>5, <1>6, <1>7, <1>8, <1>9 DEF Next, Step

(* However crashes, outages and the flag's coming and going interleave with *)
(* the turn of the loop, at most one order let through by the flag reaches  *)
(* the broker after it has gone (main.rs:241-258).                          *)
THEOREM OneOrderAfterExpiry == Spec => []OneAfterExpiry
<1>1. Init => LateInv
  BY DEF Init, LateInv
<1>2. LateInv => OneAfterExpiry
  BY DEF LateInv, OneAfterExpiry
<1> QED BY <1>1, <1>2, TypeInit, TypeStep, LateStep, PTL DEF Spec

-------------------------------------------------------------------------------
(* Signals are numbered in the order of publication.  What waits is newer   *)
(* than what is being handled, in order, and what the broker has taken or   *)
(* the engine has reported is not newer than it; strictly older before the  *)
(* order is placed, or reported.                                            *)
QueueInOrder ==
    /\ \A i \in 1 .. Len(queue) : sig.id < queue[i].id /\ queue[i].id <= sent
    /\ \A i, j \in 1 .. Len(queue) : i < j => queue[i].id < queue[j].id

OrderInv ==
    /\ sig.id \in Nat /\ sig.id <= sent
    /\ QueueInOrder
    /\ \A o \in accepted : o.id <= sig.id
    /\ \A r \in published : r.id <= sig.id
    /\ pc \in {"gate", "limit", "place"} => \A o \in accepted : o.id < sig.id
    /\ pc \in InTurn => sig.dir \in Buys \cup Sells
    /\ pc \in InTurn => \A r \in published : r.id < sig.id

\* What is about to be sent follows from the order just placed and the position
\* held until then.
OutInv ==
    pc = "publish" =>
        /\ sig \in accepted
        /\ \E h \in Position : out = ResultOf(sig, h)
                               /\ (h # NoPos => Paid(sig.ticker, h.entry))

LEMMA OrderStep ==
  ASSUME TypeInv, OrderInv, OutInv, [Next]_vars
  PROVE  OrderInv'
<1> USE DEF OrderInv, InTurn
<1>0. /\ pc \in InTurn => sig \in Signal
      /\ queue \in Seq(Signal) /\ sent \in Nat
      /\ \A s \in Signal : s.id \in Nat
  BY DEF TypeInv, TypeOK, Signal
<1>1. CASE PublishSignal
  <2>1. /\ sent' = sent + 1
        /\ UNCHANGED <<sig, accepted, published, pc>>
    BY <1>1 DEF PublishSignal, engineVars, brokerVars
  <2>2. PICK t \in Tickers, d \in Directions, q \in Qtys, p \in Prices :
           queue' = IF Listening
                    THEN Append(queue, [id |-> sent + 1, ticker |-> t, dir |-> d,
                                        qty |-> q, price |-> p])
                    ELSE queue
    BY <1>1 DEF PublishSignal
  <2> DEFINE new == [id |-> sent + 1, ticker |-> t, dir |-> d, qty |-> q, price |-> p]
  <2>3. CASE ~Listening
    BY <1>0, <2>1, <2>2, <2>3 DEF QueueInOrder
  <2>4. CASE Listening
    <3>1. new \in Signal /\ new.id = sent + 1
      BY <1>1 DEF PublishSignal, Signal, TypeInv, TypeOK
    <3>2. queue' = Append(queue, new)
      BY <2>2, <2>4
    <3> HIDE DEF new
    <3>3. /\ Len(queue') = Len(queue) + 1 /\ Len(queue) \in Nat
          /\ queue'[Len(queue) + 1] = new
          /\ \A i \in 1 .. Len(queue) : queue'[i] = queue[i] /\ queue[i].id \in Nat
      BY <1>0, <3>1, <3>2
    <3>4. ASSUME NEW i \in 1 .. Len(queue')
          PROVE  sig.id < queue'[i].id /\ queue'[i].id <= sent + 1
      <4>1. i = Len(queue) + 1 \/ i \in 1 .. Len(queue)
        BY <3>3
      <4> QED BY <1>0, <3>1, <3>3, <4>1 DEF QueueInOrder
    <3>5. ASSUME NEW i \in 1 .. Len(queue'), NEW j \in 1 .. Len(queue'), i < j
          PROVE  queue'[i].id < queue'[j].id
      <4>1. /\ i \in 1 .. Len(queue)
            /\ j = Len(queue) + 1 \/ j \in 1 .. Len(queue)
        <5>1. i \in 1 .. Len(queue) + 1 /\ j \in 1 .. Len(queue) + 1 /\ Len(queue) \in Nat
          BY <3>3
        <5> QED BY <3>5, <5>1
      <4>2. queue[i].id <= sent /\ queue[i].id \in Nat /\ queue'[i] = queue[i]
        BY <3>3, <4>1 DEF QueueInOrder
      <4>3. CASE j = Len(queue) + 1
        BY <1>0, <3>1, <3>3, <4>2, <4>3
      <4>4. CASE j \in 1 .. Len(queue)
        BY <3>3, <3>5, <4>1, <4>4 DEF QueueInOrder
      <4> QED BY <4>1, <4>3, <4>4
    <3>6. QueueInOrder'
      BY <2>1, <3>4, <3>5 DEF QueueInOrder
    <3> QED BY <1>0, <2>1, <3>6
  <2> QED BY <2>3, <2>4
<1>2. CASE Receive
  <2>1. /\ queue # <<>> /\ sig' = Head(queue) /\ queue' = Tail(queue)
        /\ pc' \in InTurn => sig'.dir \in Buys \cup Sells
        /\ UNCHANGED <<accepted, published, sent>>
    BY <1>2 DEF Receive, brokerVars
  <2>2. sig' = queue[1] /\ sig'.id \in Nat /\ sig.id < sig'.id /\ sig'.id <= sent
    BY <1>0, <2>1 DEF QueueInOrder
  <2>3. /\ Len(queue') = Len(queue) - 1 /\ Len(queue) \in Nat
        /\ \A i \in 1 .. Len(queue') : queue'[i] = queue[i + 1]
    BY <1>0, <2>1
  <2>4. QueueInOrder'
    BY <1>0, <2>1, <2>2, <2>3 DEF QueueInOrder
  <2>5. /\ \A o \in accepted : o.id \in Nat
        /\ \A r \in published : r.id \in Nat
    BY DEF TypeInv, TypeOK, Signal, Result
  <2> QED BY <2>1, <2>2, <2>4, <2>5
<1>3. CASE PlaceOk \/ PlaceReplyLost
  <2>1. /\ pc = "place" /\ pc' \in {"book", "recv"} /\ accepted' = accepted \cup {sig}
        /\ UNCHANGED <<queue, sig, published, sent>>
    BY <1>3 DEF PlaceOk, PlaceReplyLost, Accept
  <2> QED BY <1>0, <2>1 DEF QueueInOrder
<1>4. CASE PublishResult
  <2>1. /\ pc = "publish" /\ pc' \in {"recv", "ended"}
        /\ queue' \in {queue, <<>>}
        /\ published' = published \/ published' = published \cup {out}
        /\ UNCHANGED <<sig, accepted, sent>>
    BY <1>4 DEF PublishResult, brokerVars
  <2>2. out.id = sig.id
    BY <1>0, <2>1, ResultFacts DEF OutInv, TypeInv, Result, Empty
  <2>3. QueueInOrder'
    BY <2>1 DEF QueueInOrder
  <2> QED BY <1>0, <2>1, <2>2, <2>3
<1>5. CASE Crash
  BY <1>0, <1>5 DEF Crash, brokerVars, QueueInOrder
<1>6. CASE Limit \/ Gate \/ PlaceRefused \/ Book
  <2>1. /\ pc \in InTurn
        /\ pc = "gate" => pc' \in {"limit", "recv"}
        /\ pc = "limit" => pc' \in {"place", "recv"}
        /\ pc \notin {"gate", "limit"} => pc' \in {"publish", "recv"}
        /\ UNCHANGED <<queue, sig, accepted, published, sent>>
    BY <1>6 DEF Limit, Gate, PlaceRefused, Book, brokerVars, Bucket!Take
  <2> QED BY <1>0, <2>1 DEF QueueInOrder
<1>7. CASE \/ ToggleTwoFA \/ Refill \/ Start \/ Restore \/ StreamEnds \/ RedisDown
           \/ RedisBack \/ UNCHANGED vars
  <2>1. /\ pc' = pc \/ pc' \notin InTurn
        /\ UNCHANGED <<queue, sig, accepted, published, sent>>
    BY <1>7 DEF ToggleTwoFA, Refill, Start, Restore, StreamEnds, RedisDown, RedisBack,
                vars, engineVars, brokerVars
  <2> QED BY <1>0, <2>1 DEF QueueInOrder
<1> QED
  BY <1>1, <1>2, <1>3, <1>4, <1>5, <1>6, <1>7 DEF Next, Step

LEMMA OutStep ==
  ASSUME TypeInv, PaidInv, OutInv, [Next]_vars
  PROVE  OutInv'
<1> USE DEF OutInv, Paid
<1>1. CASE Idle
  BY <1>1, IdleFacts
<1>2. CASE Book
  <2>1. /\ sig \in Signal /\ sig.ticker \in Tickers /\ sig \in accepted
        /\ positions[sig.ticker] \in Position
    BY <1>2 DEF Book, TypeInv, TypeOK, InTurn, Signal, PaidInv
  <2>2. UNCHANGED <<sig, accepted>> /\ out' = ResultOf(sig, positions[sig.ticker])
    BY <1>2 DEF Book, brokerVars
  <2>3. positions[sig.ticker] # NoPos => Paid(sig.ticker, positions[sig.ticker].entry)
    BY <2>1 DEF PaidInv
  <2> QED BY <2>1, <2>2, <2>3
<1>3. CASE RedisDown
  BY <1>3 DEF RedisDown, engineVars, brokerVars
<1>4. CASE Start \/ Restore \/ PlaceOk \/ PlaceReplyLost \/ PublishResult \/ Crash
  BY <1>4 DEF Start, Restore, PlaceOk, PlaceReplyLost, PublishResult, Crash
<1> QED
  BY <1>1, <1>2, <1>3, <1>4, NextSplit

\* Placing is Execute, publishing is a report, the rest is out of sight.
LEMMA PromiseStep ==
  ASSUME TypeInv, OrderInv, OutInv, OutInv', [Next]_vars
  PROVE  [Promise!Next]_(Promise!vars)
<1> USE DEF Promise!vars
<1>1. CASE Idle
  BY <1>1, IdleFacts
<1>2. CASE PlaceOk \/ PlaceReplyLost
  <2>1. /\ pc = "place" /\ sig \in Signal
        /\ accepted' = accepted \cup {sig} /\ placed' = placed + 1
        /\ UNCHANGED published
    BY <1>2 DEF PlaceOk, PlaceReplyLost, Accept, TypeInv, InTurn
  <2>2. Promise!Execute(sig)
    BY <2>1 DEF OrderInv, Promise!Execute
  <2> QED BY <2>1, <2>2 DEF Promise!Next
<1>3. CASE PublishResult
  <2>1. pc = "publish" /\ UNCHANGED <<accepted, placed>>
    BY <1>3 DEF PublishResult, brokerVars
  <2>2. CASE UNCHANGED published
    BY <2>1, <2>2
  <2>3. CASE published' = published \cup {out}
    <3>1. /\ sig \in accepted /\ sig \in Signal /\ out \in Result
          /\ \A r \in published : r.id < sig.id
      BY <2>1 DEF OutInv, TypeInv, InTurn, OrderInv
    <3>2. PICK h \in Position : /\ out = ResultOf(sig, h)
                                /\ h # NoPos => Paid(sig.ticker, h.entry)
      BY <2>1 DEF OutInv
    <3>3. CASE sig.dir \in Buys
      <4>1. Promise!ReportBuy(sig)
        BY <2>1, <2>3, <3>1, <3>2, <3>3 DEF ResultOf, Promise!ReportBuy, Promise!Send
      <4> QED BY <3>1, <4>1 DEF Promise!Next
    <3>4. CASE sig.dir \notin Buys
      <4>1. sig.dir \in Sells
        BY <2>1, <3>4 DEF OrderInv, InTurn
      <4>2. h # NoPos
        BY <3>1, <3>2, <3>4 DEF ResultOf, Result, Empty
      <4>3. PICK b \in accepted : b.dir \in Buys /\ b.ticker = sig.ticker /\ b.price = h.entry
        BY <3>2, <4>2 DEF Paid
      <4>4. Promise!ReportSell(sig, b)
        BY <2>1, <2>3, <3>1, <3>2, <3>4, <4>1, <4>2, <4>3
           DEF ResultOf, Won, Promise!ReportSell, Promise!Outcome, Promise!Send
      <4> QED BY <3>1, <4>3, <4>4 DEF Promise!Next
    <3> QED BY <3>3, <3>4
  <2> QED BY <1>3, <2>2, <2>3 DEF PublishResult
<1>4. CASE Start \/ Restore \/ Book \/ Crash \/ RedisDown
  BY <1>4 DEF Start, Restore, Book, Crash, RedisDown, brokerVars
<1> QED
  BY <1>1, <1>2, <1>3, <1>4, NextSplit

(* Seen from outside, whatever faults happen, each signal is executed and   *)
(* reported at most once, in order (main.rs:201-359).                       *)
THEOREM EngineKeepsPromise == Spec => ImplementsExecution
<1>1. Init => OrderInv /\ OutInv /\ PaidInv /\ Promise!Init
  BY PositionFacts, EmptyQueue
     DEF Init, OrderInv, OutInv, PaidInv, EntryWasPaid, QueueInOrder, InTurn, Empty,
         Promise!Init
<1> QED
  BY <1>1, TypeInit, TypeStep, OrderStep, PaidStep, OutStep, PromiseStep, PTL
     DEF Spec, ImplementsExecution, Promise!Spec

===============================================================================
