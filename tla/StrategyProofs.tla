--------------------------- MODULE StrategyProofs ---------------------------
(***************************************************************************)
(* Theorems about Strategy, for every finite set of tickers, any prices,   *)
(* sizes, limits and counts, and every combination of events.              *)
(***************************************************************************)
EXTENDS Strategy, FiniteSetTheorems, WellFoundedInduction, TLAPS

USE PricesAssumption, SizesAssumption, KnownAssumption, TickersAssumption

-------------------------------------------------------------------------------
(* Numbers.                                                                  *)

(* What a partial close hands back is at most what the position cost.       *)
LEMMA ReturnedBounds ==
  ASSUME NEW cost \in Nat, NEW q \in Nat \ {0}, NEW k \in 0 .. q
  PROVE  (cost * k) \div q \in 0 .. cost
<1> DEFINE d == (cost * k) \div q
<1>1. cost * k \in Nat /\ cost * k <= cost * q
  OBVIOUS
<1>2. d \in Int /\ q * d <= cost * k /\ d >= 0
  BY <1>1
<1> HIDE DEF d
<1>3. ~ (d > cost)
  <2> SUFFICES ASSUME d > cost PROVE FALSE
    OBVIOUS
  <2>1. d - cost - 1 \in Nat
    BY <1>2
  <2>2. q * (d - cost - 1) >= 0
    BY <2>1
  <2>3. q * d = q * (d - cost - 1) + cost * q + q
    BY <1>2
  <2> QED BY <1>1, <1>2, <2>2, <2>3
<1> QED BY <1>2, <1>3 DEF d

LEMMA PricesArePositive == \A p \in Prices : p \in Nat /\ p > 0
OBVIOUS

(* An order is for one share at least.                                      *)
LEMMA SizeFacts ==
  ASSUME TypeOK
  PROVE  /\ \A p \in Prices : SizeAt(p) \in Nat
         /\ \A t \in Tickers : Size(t) \in Nat /\ BigSize(t) \in Nat
<1>1. wallet.available \in Int
  BY DEF TypeOK, Wallets
<1>2. ASSUME NEW p \in Prices PROVE SizeAt(p) \in Nat
  <2>1. SizeDivisor * p \in Nat /\ SizeDivisor * p > 0
    OBVIOUS
  <2>2. wallet.available \div (SizeDivisor * p) \in Int
    <3> DEFINE d == SizeDivisor * p
    <3>1. d \in Nat /\ d > 0
      BY <2>1
    <3> HIDE DEF d
    <3>2. wallet.available \div d \in Int
      BY <1>1, <3>1
    <3> QED BY <3>2 DEF d
  <2> DEFINE n == wallet.available \div (SizeDivisor * p)
  <2> HIDE DEF n
  <2>3. MoreThan(1, n) \in Nat
    BY <2>2 DEF MoreThan, n
  <2> QED BY <2>3 DEF SizeAt, n
<1>3. ASSUME NEW t \in Tickers PROVE BigSize(t) \in Nat
  <2>0. price[t] \in Prices
    BY DEF TypeOK
  <2>1. price[t] \in Nat /\ price[t] > 0
    BY <2>0, PricesArePositive
  <2> DEFINE n == (wallet.available * 4) \div (5 * price[t])
  <2>2. n \in Int
    BY <1>1, <2>1
  <2> HIDE DEF n
  <2>3. MoreThan(1, n) \in Nat
    BY <2>2 DEF MoreThan
  <2> QED BY <2>3 DEF BigSize, n
<1>4. ASSUME NEW t \in Tickers PROVE Size(t) \in Nat
  <2>1. price[t] \in Prices
    BY DEF TypeOK
  <2> QED BY <1>2, <2>1 DEF Size
<1> QED BY <1>2, <1>3, <1>4

(* A channel: what a message sent or taken does to it.                      *)
LEMMA Sending ==
  ASSUME NEW S, NEW s \in Seq(S), NEW m \in S
  PROVE  /\ Append(s, m) \in Seq(S) /\ Len(s) \in Nat
         /\ DOMAIN Append(s, m) = 1 .. Len(s) + 1
         /\ Len(Append(s, m)) = Len(s) + 1
         /\ Append(s, m)[Len(s) + 1] = m
         /\ \A i \in 1 .. Len(s) : Append(s, m)[i] = s[i]
OBVIOUS

LEMMA Taking ==
  ASSUME NEW S, NEW s \in Seq(S), s # <<>>
  PROVE  /\ Tail(s) \in Seq(S) /\ Len(s) \in Nat /\ Len(s) > 0
         /\ Head(s) \in S /\ Head(s) = s[1]
         /\ Len(Tail(s)) = Len(s) - 1 /\ DOMAIN Tail(s) = 1 .. Len(s) - 1
         /\ \A i \in 1 .. Len(s) - 1 : Tail(s)[i] = s[i + 1]
OBVIOUS

-------------------------------------------------------------------------------
(* The wallet.                                                               *)

(* What a BUY or a SELL makes of a wallet: of the positions only that of the *)
(* ticker changes, by the quantity, or by what of it there is to sell.       *)
LEMMA OpenedFacts ==
  ASSUME NEW w \in Wallets, NEW t \in Tickers, NEW qty \in Nat, NEW p \in Nat
  PROVE  /\ Opened(w, t, qty, p) \in Wallets
         /\ Opened(w, t, qty, p).positions[t].qty = w.positions[t].qty + qty
         /\ \A u \in Tickers \ {t} : Opened(w, t, qty, p).positions[u] = w.positions[u]
<1> DEFINE n == qty * p
<1>1. n \in Nat
  OBVIOUS
<1> HIDE DEF n
<1>2. Opened(w, t, qty, p) =
        [w EXCEPT !.available = @ - n, !.invested = @ + n,
                  !.positions[t] = [qty |-> @.qty + qty, cost |-> @.cost + n]]
  BY DEF Opened, n
<1> DEFINE p2 == [qty |-> w.positions[t].qty + qty, cost |-> w.positions[t].cost + n]
<1>3. p2 \in Position /\ p2.qty = w.positions[t].qty + qty
  BY <1>1 DEF Wallets, Position
<1>4. Opened(w, t, qty, p) =
        [initial |-> w.initial, available |-> w.available - n,
         invested |-> w.invested + n, realized |-> w.realized,
         positions |-> [w.positions EXCEPT ![t] = p2]]
  BY <1>2 DEF Wallets
<1> HIDE DEF p2
<1>5. [w.positions EXCEPT ![t] = p2] \in [Tickers -> Position]
  BY <1>3 DEF Wallets
<1>6. Opened(w, t, qty, p) \in Wallets
  BY <1>1, <1>4, <1>5 DEF Wallets
<1>7. Opened(w, t, qty, p).positions = [w.positions EXCEPT ![t] = p2]
  BY <1>4
<1> QED BY <1>3, <1>6, <1>7 DEF Wallets

LEMMA ClosedFacts ==
  ASSUME NEW w \in Wallets, NEW t \in Tickers, NEW qty \in Nat, NEW p \in Nat, CanClose(w, t)
  PROVE  /\ Closed(w, t, qty, p) \in Wallets
         /\ Closed(w, t, qty, p).positions[t].qty <= w.positions[t].qty
         /\ \A u \in Tickers \ {t} : Closed(w, t, qty, p).positions[u] = w.positions[u]
<1> DEFINE k    == CloseQty(w, t, qty)
           back == Returned(w, t, k)
           pos  == w.positions[t]
           paid == k * p
           left == IF k = pos.qty THEN NoPos
                   ELSE [qty |-> pos.qty - k, cost |-> pos.cost - back]
<1>1. pos \in Position /\ pos.qty \in Nat \ {0} /\ pos.cost \in Nat
  BY DEF Wallets, Position, CanClose
<1>2. k \in 0 .. pos.qty
  BY <1>1 DEF CloseQty
<1>3. back \in 0 .. pos.cost
  <2> HIDE DEF k
  <2> QED BY <1>1, <1>2, ReturnedBounds DEF Returned
<1>4. paid \in Nat
  <2> HIDE DEF k
  <2>1. k \in Nat
    BY <1>1, <1>2
  <2> QED BY <2>1
<1>5. left \in Position /\ left.qty <= pos.qty
  <2> HIDE DEF k, back, pos
  <2> QED BY <1>1, <1>2, <1>3 DEF Position, NoPos
<1>6. Closed(w, t, qty, p) =
        [w EXCEPT !.available = @ + paid, !.invested = @ - back,
                  !.realized = @ + paid - back, !.positions[t] = left]
  BY DEF Closed
<1>7. back \in Int
  BY <1>1, <1>3
<1> HIDE DEF k, back, paid, left
<1>8. Closed(w, t, qty, p) =
        [initial |-> w.initial, available |-> w.available + paid,
         invested |-> w.invested - back, realized |-> w.realized + paid - back,
         positions |-> [w.positions EXCEPT ![t] = left]]
  BY <1>6 DEF Wallets
<1>9. [w.positions EXCEPT ![t] = left] \in [Tickers -> Position]
  BY <1>5 DEF Wallets
<1>10. Closed(w, t, qty, p) \in Wallets
  BY <1>4, <1>7, <1>8, <1>9 DEF Wallets
<1>11. Closed(w, t, qty, p).positions = [w.positions EXCEPT ![t] = left]
  BY <1>8
<1> QED BY <1>5, <1>10, <1>11 DEF Wallets

(* A wallet after a result was posted.                                    *)
LEMMA BookedFacts ==
  ASSUME NEW w \in Wallets, NEW r \in Report
  PROVE  /\ Booked(w, r) \in Wallets
         /\ \A u \in Tickers \ {r.ticker} : Booked(w, r).positions[u] = w.positions[u]
         /\ Booked(w, r).positions[r.ticker].qty
               <= w.positions[r.ticker].qty + Shares(r, r.ticker)
         /\ r.dir = "BUY" /\ Booked(w, r) # w
               => Booked(w, r).positions[r.ticker].qty = w.positions[r.ticker].qty + r.qty
<1>1. /\ r.ticker \in Tickers /\ r.qty \in Nat /\ r.entry \in Nat /\ r.dir \in {"BUY", "SELL"}
      /\ \A t \in Tickers : w.positions[t].qty \in Nat
  BY DEF Report, Wallets, Position
<1>2. CASE r.dir = "BUY" /\ CanOpen(w, r.qty, r.entry)
  <2>1. Booked(w, r) = Opened(w, r.ticker, r.qty, r.entry) /\ Shares(r, r.ticker) = r.qty
    BY <1>2 DEF Booked, Shares
  <2> DEFINE o == Opened(w, r.ticker, r.qty, r.entry)
             t == r.ticker
             q == r.qty
  <2>2. /\ o \in Wallets
        /\ o.positions[t].qty = w.positions[t].qty + q
        /\ \A u \in Tickers \ {t} : o.positions[u] = w.positions[u]
    <3> DEFINE p == r.entry
    <3>1. t \in Tickers /\ q \in Nat /\ p \in Nat
      BY <1>1
    <3> HIDE DEF t, q, p
    <3>2. /\ Opened(w, t, q, p) \in Wallets
          /\ Opened(w, t, q, p).positions[t].qty = w.positions[t].qty + q
          /\ \A u \in Tickers \ {t} : Opened(w, t, q, p).positions[u] = w.positions[u]
      BY <3>1, OpenedFacts
    <3> QED BY <3>2 DEF t, q, p
  <2> HIDE DEF o
  <2>3. Booked(w, r) = o
    BY <2>1 DEF o
  <2>4. w.positions[r.ticker].qty + r.qty \in Nat
    BY <1>1
  <2> QED BY <2>1, <2>2, <2>3, <2>4
<1>3. CASE r.dir = "BUY" /\ ~CanOpen(w, r.qty, r.entry)
  <2>1. Booked(w, r) = w /\ Shares(r, r.ticker) = r.qty
    BY <1>3 DEF Booked, Shares
  <2> QED BY <1>1, <2>1
<1>4. CASE r.dir = "SELL" /\ CanClose(w, r.ticker)
  <2>1. Booked(w, r) = Closed(w, r.ticker, r.qty, r.entry) /\ Shares(r, r.ticker) = 0
    BY <1>4 DEF Booked, Shares
  <2> DEFINE o == Closed(w, r.ticker, r.qty, r.entry)
  <2>2. /\ o \in Wallets
        /\ o.positions[r.ticker].qty <= w.positions[r.ticker].qty
        /\ \A u \in Tickers \ {r.ticker} : o.positions[u] = w.positions[u]
    BY <1>1, <1>4, ClosedFacts
  <2> HIDE DEF o
  <2>3. Booked(w, r) = o
    BY <2>1 DEF o
  <2>4. w.positions[r.ticker].qty = w.positions[r.ticker].qty + 0
    BY <1>1
  <2> QED BY <1>4, <2>1, <2>2, <2>3, <2>4
<1>5. CASE r.dir = "SELL" /\ ~CanClose(w, r.ticker)
  <2>1. Booked(w, r) = w /\ Shares(r, r.ticker) = 0
    BY <1>5 DEF Booked, Shares
  <2> QED BY <1>1, <1>5, <2>1
<1> QED BY <1>1, <1>2, <1>3, <1>4, <1>5

-------------------------------------------------------------------------------
(* Types.                                                                    *)

LEMMA FreshIsWallet == Fresh(Cash) \in Wallets
BY DEF Fresh, Wallets, Position, NoPos

LEMMA AnyPriceIsOne == AnyPrice \in Prices
BY DEF AnyPrice

(* The variables in groups, for steps that leave most of them alone.         *)
OrderOfLoop == [ticker : Tickers, dir : {"BUY", "SELL"}, price : Prices, qty : Nat]
LoopTyped ==
    /\ pc \in {"down", "top", "awake", "saving", "begin", "scan", "guard", "sent", "best",
              "dead"}
    /\ todo \in SUBSET Tickers /\ grown \in BOOLEAN
    /\ openCount \in Nat /\ low \in BOOLEAN /\ had \in BOOLEAN
    /\ cur \in OrderOfLoop \cup {NoOrder}
    /\ tries \in SUBSET [ticker : Tickers, price : Prices]
MarketTyped == known \in SUBSET Tickers /\ price \in [Tickers -> Prices]
RiskTyped ==
    /\ recent \in SUBSET Tickers /\ Risk \in RiskState /\ saved \in SUBSET RiskState
    /\ startEquity \in SUBSET Int /\ day \in Nat /\ dayPnl \in Int
WalletTyped ==
    wallet \in Wallets /\ books \in Wallets /\ split \in BOOLEAN /\ disk \in Wallets
EngineTyped ==
    /\ engine \in {"up", "down"} /\ held \in [Tickers -> Lots] /\ stored \in [Tickers -> Lots]
    /\ filled \in [Tickers -> Nat]
ResultTyped == listening \in BOOLEAN /\ toListen \in Seq(Report) /\ toBook \in Seq(Report)
MissedTyped == missed \in SUBSET Tickers
SignalsTyped == signals \in Seq(Order) /\ sent \in 0 .. MaxSignals
OtherTyped == halted \in BOOLEAN /\ events \in 0 .. MaxEvents
AllTyped ==
    /\ LoopTyped /\ MarketTyped /\ RiskTyped /\ WalletTyped /\ EngineTyped /\ ResultTyped
    /\ MissedTyped /\ SignalsTyped /\ OtherTyped

LEMMA TypeGroups == (TypeOK <=> AllTyped) /\ (TypeOK' <=> AllTyped')
BY DEF AllTyped, OtherTyped, TypeOK, LoopTyped, MarketTyped, RiskTyped, WalletTyped, EngineTyped,
       ResultTyped, MissedTyped, SignalsTyped, OrderOfLoop

LEMMA Unmoved ==
  /\ LoopTyped /\ UNCHANGED <<pc, loopVars>> => LoopTyped'
  /\ MarketTyped /\ UNCHANGED marketVars => MarketTyped'
  /\ RiskTyped /\ UNCHANGED <<recent, riskVars, dayVars, day, saved>> => RiskTyped'
  /\ WalletTyped /\ UNCHANGED walletVars => WalletTyped'
  /\ EngineTyped /\ UNCHANGED engineVars => EngineTyped'
  /\ ResultTyped /\ UNCHANGED resultVars => ResultTyped'
  /\ MissedTyped /\ UNCHANGED missed => MissedTyped'
  /\ SignalsTyped /\ UNCHANGED <<signals, sent>> => SignalsTyped'
  /\ OtherTyped /\ UNCHANGED <<halted, events>> => OtherTyped'
BY DEF OtherTyped, LoopTyped, MarketTyped, RiskTyped, WalletTyped, EngineTyped, ResultTyped,
       MissedTyped, SignalsTyped, loopVars, marketVars, riskVars, dayVars, walletVars, engineVars,
       resultVars, Risk

LEMMA TypeInit == Init => TypeOK
<1> SUFFICES ASSUME Init PROVE TypeOK
  OBVIOUS
<1>1. Risk \in RiskState
  BY DEF Init, Risk, RiskState
<1>2. WalletTyped
  BY FreshIsWallet DEF Init, WalletTyped
<1>3. LoopTyped /\ MarketTyped
  BY AnyPriceIsOne DEF Init, LoopTyped, MarketTyped
<1>4. OtherTyped
  <2>1. halted \in BOOLEAN
    BY DEF Init
  <2>2. events \in 0 .. MaxEvents
    BY DEF Init
  <2> QED BY <2>1, <2>2 DEF OtherTyped
<1>5. RiskTyped
  <2>1. recent = {} /\ saved = {} /\ startEquity = {} /\ day = 1 /\ dayPnl = 0
    BY DEF Init
  <2> QED BY <1>1, <2>1 DEF RiskTyped
<1>6. SignalsTyped
  <2>1. signals = <<>> /\ sent = 0
    BY DEF Init
  <2> QED BY <2>1 DEF SignalsTyped
<1>7. ResultTyped /\ MissedTyped
  <2>1. missed = {} /\ toListen = <<>> /\ toBook = <<>>
    BY DEF Init
  <2>2. listening \in BOOLEAN
    BY DEF Init
  <2> QED BY <2>1, <2>2 DEF ResultTyped, MissedTyped
<1>8. EngineTyped
  BY DEF Init, EngineTyped, Nothing, Unheld, Lots
<1> QED BY <1>2, <1>3, <1>4, <1>5, <1>6, <1>7, <1>8, TypeGroups DEF AllTyped

(* The risk state, field by field.                                          *)
LEMMA RiskFields ==
  Risk \in RiskState <=>
    /\ losses \in 0 .. LossesToPause /\ pause \in {"none", "running", "expired"}
    /\ date \in Nat /\ tickerLosses \in [Tickers -> 0 .. LossesToBlock]
    /\ blocked \in SUBSET Tickers
BY DEF Risk, RiskState

LEMMA PublishTyped ==
  ASSUME SignalsTyped, NEW by \in {"scan", "best", "bot"}, NEW dir \in {"BUY", "SELL"},
         NEW t \in Tickers, NEW q \in Nat, NEW p \in Nat, Publish(by, dir, t, q, p)
  PROVE  SignalsTyped'
<1> DEFINE s == [by |-> by, dir |-> dir, ticker |-> t, qty |-> q, price |-> p]
<1>1. s \in Order
  BY DEF Order
<1> HIDE DEF s
<1>2. CASE CanSend
  <2>1. sent' = sent + 1 /\ signals' \in {signals, Append(signals, s)}
    BY <1>2 DEF Publish, s
  <2>2. Append(signals, s) \in Seq(Order)
    BY <1>1, Sending DEF SignalsTyped
  <2> QED BY <1>2, <2>1, <2>2 DEF SignalsTyped, CanSend
<1>3. CASE ~CanSend
  BY <1>3 DEF Publish, SignalsTyped
<1> QED BY <1>2, <1>3

LEMMA StartTyped == TypeOK /\ Start => TypeOK'
<1> SUFFICES ASSUME TypeOK, Start PROVE TypeOK'
  OBVIOUS
<1>0. AllTyped
  BY TypeGroups
<1>1. LoopTyped'
  BY <1>0 DEF Start, AllTyped, LoopTyped, loopVars
<1>2. Risk' \in RiskState
  <2>1. CASE saved = {}
    BY <2>1 DEF Start, Risk, RiskState
  <2>2. CASE saved # {}
    <3>1. PICK s \in saved : /\ losses' = s.losses /\ pause' = s.pause /\ date' = s.date
                             /\ blocked' = s.blocked /\ tickerLosses' = s.tickerLosses
      BY <2>2 DEF Start
    <3>2. s \in RiskState
      BY <1>0 DEF AllTyped, RiskTyped
    <3> QED BY <3>1, <3>2 DEF Risk, RiskState
  <2> QED BY <2>1, <2>2
<1>3. RiskTyped'
  BY <1>0, <1>2 DEF Start, AllTyped, RiskTyped
<1>4. WalletTyped' /\ MissedTyped'
  BY <1>0, FreshIsWallet DEF Start, LoadWallet, AllTyped, WalletTyped, MissedTyped
<1> QED BY <1>0, <1>1, <1>3, <1>4, TypeGroups, Unmoved DEF Start, AllTyped

(* The equity is a number and the held tickers are countable.               *)
LEMMA SnapshotFacts ==
  ASSUME TypeOK
  PROVE  Equity(wallet) \in Int /\ Cardinality(Positions) \in Nat
<1>1. Equity(wallet) \in Int
  BY DEF TypeOK, Wallets, Equity
<1>2. IsFiniteSet(Positions)
  <2>1. Positions \subseteq Tickers
    BY DEF Positions
  <2> QED BY <2>1, FS_Subset
<1>3. Cardinality(Positions) \in Nat
  BY <1>2, FS_CardinalityType
<1> QED BY <1>1, <1>3

LEMMA BeginScanTyped == TypeOK /\ BeginScan => TypeOK'
<1> SUFFICES ASSUME TypeOK, BeginScan PROVE TypeOK'
  OBVIOUS
<1>1. /\ openCount' \in Nat
      /\ cur' = cur /\ tries' = tries
  BY SnapshotFacts DEF BeginScan
<1>2. low' \in BOOLEAN
  BY DEF BeginScan
<1>3. /\ pc' \in {"top", "scan"}
      /\ UNCHANGED <<todo, grown, had>> \/ (todo' = known /\ grown' = FALSE /\ had' = FALSE)
      /\ pause' \in {pause, "none"}
  BY DEF BeginScan
<1>4. LoopTyped'
  BY <1>1, <1>2, <1>3 DEF TypeOK, LoopTyped, OrderOfLoop
<1>5. /\ date' \in {date, day} /\ (startEquity' \in {startEquity, {Equity(wallet)}})
      /\ dayPnl' \in {dayPnl, 0}
      /\ UNCHANGED <<recent, blocked, losses, tickerLosses, day, saved>>
  BY DEF BeginScan, dayVars
<1>6. Risk' \in RiskState
  BY <1>3, <1>5, RiskFields DEF TypeOK, Risk, RiskState
<1>7. RiskTyped'
  BY <1>5, <1>6, SnapshotFacts DEF TypeOK, RiskTyped
<1>8. UNCHANGED <<marketVars, pipeVars, signals, sent, halted, walletVars, events>>
  BY DEF BeginScan
<1> QED BY <1>4, <1>7, <1>8, TypeGroups, Unmoved DEF AllTyped, pipeVars

LEMMA LookAtTyped ==
  ASSUME TypeOK, NEW t \in Tickers, LookAt(t)
  PROVE  TypeOK'
<1>1. /\ todo' = todo \ {t} /\ UNCHANGED <<grown, openCount, low, tries>>
      /\ UNCHANGED <<marketVars, recent, riskVars, dayVars, day, saved, halted, walletVars,
                      pipeVars, events>>
  BY DEF LookAt
<1>2. price[t] \in Prices /\ price[t] \in Nat
  <2>1. price[t] \in Prices
    BY DEF TypeOK
  <2> QED BY <2>1, PricesArePositive
<1>3. Size(t) \in Nat /\ BigSize(t) \in Nat
  BY SizeFacts
<1> DEFINE Goes == /\ pc' \in {pc, "dead", "guard", "sent"} /\ had' \in BOOLEAN
                   /\ cur' = cur \/ cur' \in OrderOfLoop
                   /\ SignalsTyped'
<1>4. AllTyped
  BY TypeGroups
<1>5. had \in BOOLEAN
  BY <1>4 DEF AllTyped, LoopTyped
<1>6. ASSUME PassOver(t) PROVE Goes
  <2>1. SignalsTyped'
    BY <1>4, <1>6, Unmoved DEF PassOver, AllTyped
  <2>2. had' \in BOOLEAN
    BY <1>5, <1>6 DEF PassOver
  <2> QED BY <1>6, <2>1, <2>2 DEF PassOver
<1>7. ASSUME Enter(t) PROVE Goes
  <2>1. SignalsTyped'
    BY <1>4, <1>7, Unmoved DEF Enter, AllTyped
  <2>2. pc' \in {"dead", "guard"} /\ had' \in BOOLEAN
    BY <1>7 DEF Enter
  <2>3. cur' = cur \/ \E q \in {BigSize(t), Size(t)} :
                         cur' = [ticker |-> t, dir |-> "BUY", price |-> price[t], qty |-> q]
    BY <1>7 DEF Enter
  <2>4. cur' = cur \/ cur' \in OrderOfLoop
    BY <1>2, <1>3, <2>3 DEF OrderOfLoop
  <2> QED BY <2>1, <2>2, <2>4
<1>8. ASSUME Exit(t) PROVE Goes
  <2>1. pc' \in {"dead", "sent"} /\ had' \in BOOLEAN
    BY <1>8 DEF Exit
  <2>2. \/ UNCHANGED <<cur, signals, sent>>
        \/ /\ cur' = [ticker |-> t, dir |-> "SELL", price |-> price[t], qty |-> Size(t)]
           /\ Publish("scan", "SELL", t, Size(t), price[t])
    BY <1>8 DEF Exit
  <2>3. SignalsTyped'
    BY <1>2, <1>3, <1>4, <2>2, PublishTyped, Unmoved DEF AllTyped
  <2>4. cur' = cur \/ cur' \in OrderOfLoop
    BY <1>2, <1>3, <2>2 DEF OrderOfLoop
  <2> QED BY <2>1, <2>3, <2>4
<1>9. Goes
  BY <1>6, <1>7, <1>8 DEF LookAt
<1>10. /\ pc' \in {pc, "dead", "guard", "sent"} /\ had' \in BOOLEAN
       /\ cur' = cur \/ cur' \in OrderOfLoop
  BY <1>9
<1>11. SignalsTyped'
  BY <1>9
<1>12. todo' \in SUBSET Tickers
  BY <1>1, <1>4 DEF AllTyped, LoopTyped
<1>13. cur' \in OrderOfLoop \cup {NoOrder}
  BY <1>4, <1>10 DEF AllTyped, LoopTyped
<1>14. LoopTyped'
  BY <1>1, <1>4, <1>10, <1>12, <1>13 DEF AllTyped, LoopTyped
<1> QED BY <1>1, <1>4, <1>11, <1>14, TypeGroups, Unmoved DEF AllTyped, pipeVars

(* Only where run() stands and what it has left to do is changed.           *)
LEMMA SteppedTyped ==
  ASSUME TypeOK,
         pc' \in {"top", "awake", "saving", "begin", "scan", "sent", "best", "dead"},
         tries' \in SUBSET [ticker : Tickers, price : Prices],
         SignalsTyped' \/ UNCHANGED <<signals, sent>>,
         cur' \in {cur, NoOrder},
         UNCHANGED <<todo, grown, openCount, low, had, marketVars, riskVars, dayVars, day,
                     halted, walletVars, pipeVars, events>>,
         saved' \in SUBSET RiskState, recent' \in SUBSET Tickers
  PROVE  TypeOK'
<1>1. AllTyped
  BY TypeGroups
<1>2. LoopTyped'
  BY <1>1 DEF AllTyped, LoopTyped
<1>3. RiskTyped'
  BY <1>1 DEF AllTyped, RiskTyped, riskVars, dayVars, Risk
<1> QED BY <1>1, <1>2, <1>3, TypeGroups, Unmoved DEF AllTyped, pipeVars

LEMMA TopTyped == TypeOK /\ (Top \/ HaltUnread \/ Heartbeat) => TypeOK'
<1> SUFFICES ASSUME TypeOK, Top \/ HaltUnread \/ Heartbeat PROVE TypeOK'
  OBVIOUS
<1>1. saved \in SUBSET RiskState /\ recent \in SUBSET Tickers /\ tries \in SUBSET [ticker : Tickers, price : Prices]
  BY DEF TypeOK
<1> QED BY <1>1, SteppedTyped DEF Top, HaltUnread, Heartbeat, loopVars

LEMMA PersistTyped == TypeOK /\ Persist => TypeOK'
<1> SUFFICES ASSUME TypeOK, Persist PROVE TypeOK'
  OBVIOUS
<1>1. saved \in SUBSET RiskState /\ recent \in SUBSET Tickers /\ Risk \in RiskState
      /\ tries \in SUBSET [ticker : Tickers, price : Prices]
  BY DEF TypeOK
<1>2. saved' \in SUBSET RiskState
  BY <1>1 DEF Persist
<1> QED BY <1>1, <1>2, SteppedTyped DEF Persist, loopVars

(* While an order is looked at by its guards, or being published, there is  *)
(* one.                                                                     *)
OrderIsThere ==
    pc \in {"guard", "sent"} => cur \in OrderOfLoop

LEMMA GuardedTyped == TypeOK /\ OrderIsThere /\ Guarded => TypeOK'
<1> SUFFICES ASSUME TypeOK, OrderIsThere, Guarded PROVE TypeOK'
  OBVIOUS
<1>1. saved \in SUBSET RiskState /\ recent \in SUBSET Tickers /\ tries \in SUBSET [ticker : Tickers, price : Prices]
      /\ cur \in OrderOfLoop
  BY DEF TypeOK, Guarded, OrderIsThere
<1>2. cur.ticker \in Tickers /\ cur.qty \in Nat /\ cur.price \in Nat
  BY <1>1, PricesArePositive DEF OrderOfLoop
<1>3. SignalsTyped
  BY TypeGroups DEF AllTyped
<1>4. SignalsTyped' \/ UNCHANGED <<signals, sent>>
  BY <1>2, <1>3, PublishTyped DEF Guarded
<1>5. pc' \in {"scan", "sent"} /\ cur' \in {cur, NoOrder}
  BY DEF Guarded
<1>6. UNCHANGED <<todo, grown, openCount, low, had, marketVars, riskVars, dayVars, day,
                   halted, walletVars, pipeVars, events>>
  BY DEF Guarded
<1>7. /\ tries' \in SUBSET [ticker : Tickers, price : Prices]
      /\ saved' \in SUBSET RiskState /\ recent' \in SUBSET Tickers
  BY <1>1 DEF Guarded
<1> QED BY <1>4, <1>5, <1>6, <1>7, SteppedTyped

LEMMA PublishedTyped == TypeOK /\ OrderIsThere /\ Published => TypeOK'
<1> SUFFICES ASSUME TypeOK, OrderIsThere, Published PROVE TypeOK'
  OBVIOUS
<1>1. saved \in SUBSET RiskState /\ recent \in SUBSET Tickers /\ tries \in SUBSET [ticker : Tickers, price : Prices]
      /\ cur \in OrderOfLoop
  BY DEF TypeOK, Published, OrderIsThere
<1>2. cur.ticker \in Tickers
  BY <1>1 DEF OrderOfLoop
<1>3. /\ tries' \in SUBSET [ticker : Tickers, price : Prices]
      /\ saved' \in SUBSET RiskState /\ recent' \in SUBSET Tickers
  BY <1>1, <1>2 DEF Published
<1>4. pc' = "scan" /\ cur' = NoOrder /\ UNCHANGED <<signals, sent>>
      /\ UNCHANGED <<todo, grown, openCount, low, had, marketVars, riskVars, dayVars, day,
                     halted, walletVars, pipeVars, events>>
  BY DEF Published
<1> QED BY <1>3, <1>4, SteppedTyped

LEMMA EndScanTyped == TypeOK /\ (ScanRaises \/ EndScan) => TypeOK'
<1> SUFFICES ASSUME TypeOK, ScanRaises \/ EndScan PROVE TypeOK'
  OBVIOUS
<1>1. saved \in SUBSET RiskState /\ recent \in SUBSET Tickers /\ tries \in SUBSET [ticker : Tickers, price : Prices]
  BY DEF TypeOK
<1> QED BY <1>1, SteppedTyped DEF ScanRaises, EndScan, loopVars

LEMMA ForceBuyBestTyped == TypeOK /\ ForceBuyBest => TypeOK'
<1> SUFFICES ASSUME TypeOK, ForceBuyBest PROVE TypeOK'
  OBVIOUS
<1>1. saved \in SUBSET RiskState /\ recent \in SUBSET Tickers
      /\ known \in SUBSET Tickers /\ price \in [Tickers -> Prices]
  BY DEF TypeOK
<1>2. PICK best \in SUBSET known : tries' = {[ticker |-> t, price |-> price[t]] : t \in best}
  BY DEF ForceBuyBest
<1>3. \A t \in best : [ticker |-> t, price |-> price[t]] \in [ticker : Tickers, price : Prices]
  BY <1>1
<1>4. tries' \in SUBSET [ticker : Tickers, price : Prices]
  BY <1>2, <1>3
<1>5. pc' = "best" /\ UNCHANGED <<saved, recent, signals, sent>>
      /\ UNCHANGED <<todo, grown, openCount, low, had, cur, marketVars, riskVars, dayVars, day,
                     halted, walletVars, pipeVars, events>>
  BY DEF ForceBuyBest
<1> QED BY <1>1, <1>4, <1>5, SteppedTyped

LEMMA TryBestTyped == TypeOK /\ TryBest => TypeOK'
<1> SUFFICES ASSUME TypeOK, TryBest PROVE TypeOK'
  OBVIOUS
<1>1. saved \in SUBSET RiskState /\ recent \in SUBSET Tickers
      /\ tries \in SUBSET [ticker : Tickers, price : Prices] /\ SignalsTyped
  BY TypeGroups DEF TypeOK, AllTyped
<1>2. PICK c \in tries : \/ tries' = tries \ {c} /\ UNCHANGED <<signals, sent>>
                         \/ /\ Publish("best", "BUY", c.ticker, SizeAt(c.price), c.price)
                            /\ tries' = {}
  BY DEF TryBest
<1>3. c.ticker \in Tickers /\ c.price \in Prices
  BY <1>1
<1>4. SizeAt(c.price) \in Nat /\ c.price \in Nat
  BY <1>3, SizeFacts, PricesArePositive
<1>5. SignalsTyped' \/ UNCHANGED <<signals, sent>>
  BY <1>1, <1>2, <1>3, <1>4, PublishTyped
<1>6. tries' \in SUBSET [ticker : Tickers, price : Prices]
  BY <1>1, <1>2
<1>7. pc' \in {"top", "best"} /\ UNCHANGED <<saved, recent>>
      /\ UNCHANGED <<todo, grown, openCount, low, had, cur, marketVars, riskVars, dayVars, day,
                     halted, walletVars, pipeVars, events>>
  BY DEF TryBest
<1> QED BY <1>1, <1>5, <1>6, <1>7, SteppedTyped

LEMMA RotateOutTyped == TypeOK /\ RotateOut => TypeOK'
<1> SUFFICES ASSUME TypeOK, RotateOut PROVE TypeOK'
  OBVIOUS
<1>1. saved \in SUBSET RiskState /\ recent \in SUBSET Tickers
      /\ tries \in SUBSET [ticker : Tickers, price : Prices] /\ SignalsTyped
      /\ price \in [Tickers -> Prices] /\ wallet \in Wallets
  BY TypeGroups DEF TypeOK, AllTyped
<1>2. SignalsTyped' \/ UNCHANGED <<signals, sent>>
  <2> SUFFICES ASSUME NEW t \in Positions,
                      Publish("best", "SELL", t, wallet.positions[t].qty, price[t])
               PROVE  SignalsTyped'
    BY DEF RotateOut
  <2>1. t \in Tickers /\ price[t] \in Nat /\ wallet.positions[t].qty \in Nat
    BY <1>1, PricesArePositive DEF Positions, Wallets, Position
  <2> QED BY <1>1, <2>1, PublishTyped
<1>3. pc' \in {"top", "dead"}
  BY DEF RotateOut
<1> QED BY <1>1, <1>2, <1>3, SteppedTyped DEF RotateOut, loopVars

-------------------------------------------------------------------------------
(* Down the pipeline, and the rest of the steps.                             *)

(* A result reaches both channels.                                          *)
LEMMA EmitTyped ==
  ASSUME ResultTyped, NEW r \in Report, Emit(r)
  PROVE  toBook' = Append(toBook, r) /\ ResultTyped'
<1>1. toBook \in Seq(Report) /\ toListen \in Seq(Report) /\ listening \in BOOLEAN
  BY DEF ResultTyped
<1>2. Append(toBook, r) \in Seq(Report) /\ Append(toListen, r) \in Seq(Report)
  BY <1>1, Sending
<1>3. toBook' = Append(toBook, r) /\ toListen' \in {toListen, Append(toListen, r)}
      /\ listening' = listening
  BY DEF Emit
<1> QED BY <1>1, <1>2, <1>3 DEF ResultTyped

(* What the engine does with the signal it takes, and what it leaves if it  *)
(* ends on the way.                                                         *)
Entry(s) == [qty |-> s.qty, entry |-> s.price]
Reports(s) == \E r \in Report : r.dir = s.dir /\ r.ticker = s.ticker /\ r.qty = s.qty /\ Emit(r)
Bought(s) ==
    /\ s.dir = "BUY"
    /\ filled' = [filled EXCEPT ![s.ticker] = @ + s.qty]
    /\ stored' \in {stored, [stored EXCEPT ![s.ticker] = Entry(s)]}
    /\ \/ held' = [held EXCEPT ![s.ticker] = Entry(s)] /\ Reports(s) /\ UNCHANGED missed
       \/ /\ held' = Nothing /\ UNCHANGED resultVars
          /\ missed' = IF stored' = stored THEN missed ELSE missed \cup {s.ticker}
Sold(s) ==
    /\ s.dir = "SELL"
    /\ UNCHANGED filled
    /\ stored' \in {stored, [stored EXCEPT ![s.ticker] = Unheld]}
    /\ \/ /\ held' = [held EXCEPT ![s.ticker] = Unheld]
          /\ UNCHANGED resultVars \/ Reports(s)
          /\ missed' = IF stored'[s.ticker] = Unheld THEN missed \ {s.ticker}
                       ELSE missed \cup {s.ticker}
       \/ /\ held' = Nothing /\ UNCHANGED resultVars
          /\ missed' = IF stored'[s.ticker] = Unheld THEN missed \ {s.ticker} ELSE missed
Dropped == UNCHANGED <<held, stored, filled, resultVars, missed>>

LEMMA BuysFacts ==
  ASSUME NEW s \in Order, s.dir = "BUY", EngineBuys(s)
  PROVE  Bought(s)
<1>1. filled' = [filled EXCEPT ![s.ticker] = @ + s.qty]
      /\ stored' \in {stored, [stored EXCEPT ![s.ticker] = Entry(s)]}
  BY DEF EngineBuys, Record, Entry
<1>2. \/ held' = [held EXCEPT ![s.ticker] = Entry(s)] /\ UNCHANGED missed
         /\ Emit(Result(s, "OPEN", s.price, s.price))
      \/ /\ held' = Nothing /\ UNCHANGED resultVars
         /\ missed' = IF stored' = stored THEN missed ELSE missed \cup {s.ticker}
  BY DEF EngineBuys, LoopEnds, Quiet, Entry
<1>3. LET r == Result(s, "OPEN", s.price, s.price) IN
      r \in Report /\ r.dir = s.dir /\ r.ticker = s.ticker /\ r.qty = s.qty
  BY DEF Order, Report, Result
<1> QED BY <1>1, <1>2, <1>3 DEF Bought, Reports

LEMMA SellsFacts ==
  ASSUME NEW s \in Order, s.dir = "SELL", EngineSells(s), held \in [Tickers -> Lots]
  PROVE  Sold(s)
<1> DEFINE pos    == held[s.ticker]
           status == IF s.price >= pos.entry THEN "WIN" ELSE "LOSS"
           r      == Result(s, status, pos.entry, s.price)
<1>1. UNCHANGED filled /\ stored' \in {stored, [stored EXCEPT ![s.ticker] = Unheld]}
  BY DEF EngineSells, Record
<1>2. \/ /\ held' = [held EXCEPT ![s.ticker] = Unheld]
         /\ UNCHANGED resultVars \/ Emit(r)
         /\ missed' = IF stored'[s.ticker] = Unheld THEN missed \ {s.ticker}
                      ELSE missed \cup {s.ticker}
      \/ /\ held' = Nothing /\ UNCHANGED resultVars
         /\ missed' = IF stored'[s.ticker] = Unheld THEN missed \ {s.ticker} ELSE missed
  BY DEF EngineSells, After, LoopEnds, Quiet
<1>3. status \in {"OPEN", "WIN", "LOSS"} /\ pos.entry \in Nat /\ s.price \in Nat
  BY DEF Order, Lots
<1> HIDE DEF pos, status
<1>4. r \in Report /\ r.dir = s.dir /\ r.ticker = s.ticker /\ r.qty = s.qty
  BY <1>3 DEF Order, Report, Result
<1> HIDE DEF r
<1>5. Emit(r) => Reports(s)
  BY <1>4 DEF Reports
<1> QED BY <1>1, <1>2, <1>5 DEF Sold

LEMMA EngineFacts ==
  ASSUME TypeOK, EngineActs
  PROVE  /\ signals' \in Seq(Order) /\ engine' \in {"up", "down"}
         /\ UNCHANGED <<pc, loopVars, marketVars, recent, riskVars, dayVars, day, saved,
                        halted, walletVars, sent, events>>
         /\ Dropped \/ \E s \in Order : Bought(s) \/ Sold(s)
<1>1. signals # <<>> /\ signals \in Seq(Order) /\ engine = "up" /\ held \in [Tickers -> Lots]
  BY DEF EngineActs, TypeOK
<1> DEFINE s == Head(signals)
<1>2. s \in Order /\ Tail(signals) \in Seq(Order) /\ <<>> \in Seq(Order)
  BY <1>1, Taking
<1>3. \/ LoopGoesOn /\ Quiet /\ UNCHANGED <<held, stored, filled, missed>>
      \/ s.dir = "BUY" /\ EngineBuys(s)
      \/ s.dir = "SELL" /\ EngineSells(s)
  BY DEF EngineActs
<1> HIDE DEF s
<1>4. LoopGoesOn \/ LoopEnds
  BY <1>3 DEF EngineBuys, EngineSells
<1>5. signals' \in Seq(Order) /\ engine' \in {"up", "down"}
  BY <1>1, <1>2, <1>4 DEF LoopGoesOn, LoopEnds
<1>6. Dropped \/ \E o \in Order : Bought(o) \/ Sold(o)
  BY <1>1, <1>2, <1>3, BuysFacts, SellsFacts DEF Dropped, Quiet
<1> QED BY <1>5, <1>6 DEF EngineActs

LEMMA NothingIsTyped == Nothing \in [Tickers -> Lots] /\ \A t \in Tickers : Nothing[t].qty = 0
BY DEF Nothing, Unheld, Lots

LEMMA EngineTakes == TypeOK /\ EngineActs => TypeOK'
<1> SUFFICES ASSUME TypeOK, EngineActs PROVE TypeOK'
  OBVIOUS
<1>1. AllTyped
  BY TypeGroups
<1>2. EngineTyped' /\ ResultTyped' /\ MissedTyped'
  <2>1. CASE Dropped
    BY <1>1, <2>1, EngineFacts, Unmoved DEF AllTyped, Dropped, EngineTyped, MissedTyped
  <2>2. ASSUME NEW s \in Order, Bought(s) \/ Sold(s)
        PROVE  EngineTyped' /\ ResultTyped' /\ MissedTyped'
    <3>1. s.ticker \in Tickers /\ s.qty \in Nat /\ Entry(s) \in Lots /\ Unheld \in Lots
      BY DEF Order, Entry, Lots, Unheld
    <3>2. ResultTyped'
      <4>1. UNCHANGED resultVars \/ Reports(s)
        BY <2>2 DEF Bought, Sold
      <4> QED BY <1>1, <4>1, EmitTyped, Unmoved DEF AllTyped, Reports
    <3>3. /\ held \in [Tickers -> Lots] /\ stored \in [Tickers -> Lots]
          /\ filled \in [Tickers -> Nat] /\ missed \in SUBSET Tickers
      BY <1>1 DEF AllTyped, EngineTyped, MissedTyped
    <3>4. missed' \in SUBSET Tickers
      BY <2>2, <3>1, <3>3 DEF Bought, Sold
    <3>5. held' \in [Tickers -> Lots] /\ stored' \in [Tickers -> Lots]
      BY <2>2, <3>1, <3>3, NothingIsTyped DEF Bought, Sold
    <3>6. filled' \in [Tickers -> Nat]
      BY <2>2, <3>1, <3>3 DEF Bought, Sold
    <3> QED BY <3>2, <3>4, <3>5, <3>6, EngineFacts DEF EngineTyped, MissedTyped
  <2> QED BY <2>1, <2>2, EngineFacts
<1>3. SignalsTyped'
  BY <1>1, EngineFacts DEF AllTyped, SignalsTyped
<1> QED BY <1>1, <1>2, <1>3, EngineFacts, TypeGroups, Unmoved DEF AllTyped

LEMMA EngineLives == TypeOK /\ (EngineEnds \/ EngineStarts) => TypeOK'
<1> SUFFICES ASSUME TypeOK, EngineEnds \/ EngineStarts PROVE TypeOK'
  OBVIOUS
<1>1. AllTyped
  BY TypeGroups
<1>2. EngineTyped'
  BY <1>1, NothingIsTyped DEF AllTyped, EngineTyped, EngineEnds, EngineStarts, LoopEnds
<1>3. UNCHANGED <<resultVars, missed>>
  BY DEF EngineEnds, EngineStarts, Quiet
<1>4. signals' \in {signals, <<>>} /\ sent' = sent
  BY DEF EngineEnds, EngineStarts, LoopEnds
<1>5. SignalsTyped'
  <2>1. <<>> \in Seq(Order) /\ signals \in Seq(Order) /\ sent \in 0 .. MaxSignals
    BY <1>1 DEF AllTyped, SignalsTyped
  <2>2. signals' \in Seq(Order) /\ sent' \in 0 .. MaxSignals
    BY <1>4, <2>1
  <2> QED BY <2>2 DEF SignalsTyped
<1>6. UNCHANGED <<pc, loopVars, marketVars, recent, riskVars, dayVars, day, saved, halted,
                   walletVars, sent, events>>
  BY DEF EngineEnds, EngineStarts
<1>7. LoopTyped' /\ MarketTyped' /\ RiskTyped' /\ OtherTyped'
  BY <1>1, <1>6, Unmoved DEF AllTyped
<1>8. WalletTyped' /\ ResultTyped' /\ MissedTyped'
  BY <1>1, <1>3, <1>6, Unmoved DEF AllTyped
<1> QED BY <1>2, <1>5, <1>7, <1>8, TypeGroups DEF AllTyped

(* The report at the head of a channel.                                     *)
LEMMA OrchestratorFacts ==
  ASSUME TypeOK, OrchestratorBooks
  PROVE  /\ toBook # <<>> /\ toBook \in Seq(Report) /\ Head(toBook) \in Report
         /\ toBook' = Tail(toBook) /\ toBook' \in Seq(Report)
         /\ wallet' = wallet \/ wallet' = Booked(wallet, Head(toBook))
         /\ books' = books \/ books' = Booked(books, Head(toBook))
         /\ missed' = IF Head(toBook).dir = "BUY" /\ wallet' = wallet
                      THEN missed \cup {Head(toBook).ticker} ELSE missed
         /\ wallet' \in Wallets /\ books' \in Wallets
         /\ UNCHANGED <<pc, loopVars, marketVars, recent, riskVars, startEquity, date, day,
                        saved, halted, split, disk, engineVars, listening, toListen, signals,
                        sent, events>>
<1>1. /\ toBook # <<>> /\ toBook \in Seq(Report) /\ toBook' = Tail(toBook)
      /\ wallet \in Wallets /\ books \in Wallets
  BY DEF OrchestratorBooks, TypeOK
<1>2. Head(toBook) \in Report /\ toBook' \in Seq(Report)
  BY <1>1, Taking
<1>3. /\ wallet' = wallet \/ wallet' = Booked(wallet, Head(toBook))
      /\ books' = books \/ books' = Booked(books, Head(toBook))
  BY DEF OrchestratorBooks, LogTrade
<1>4. wallet' \in Wallets /\ books' \in Wallets
  BY <1>1, <1>2, <1>3, BookedFacts
<1> QED BY <1>1, <1>2, <1>3, <1>4 DEF OrchestratorBooks

LEMMA OrchestratorTyped == TypeOK /\ OrchestratorBooks => TypeOK'
<1> SUFFICES ASSUME TypeOK, OrchestratorBooks PROVE TypeOK'
  OBVIOUS
<1>1. AllTyped
  BY TypeGroups
<1> DEFINE r == Head(toBook)
<1>2. r \in Report /\ r.ticker \in Tickers /\ r.qty * (r.exit - r.entry) \in Int
  BY OrchestratorFacts DEF Report
<1>3. dayPnl' = dayPnl \/ dayPnl' = dayPnl + r.qty * (r.exit - r.entry)
  BY DEF OrchestratorBooks, LogTrade
<1> HIDE DEF r
<1>4. dayPnl' \in Int
  BY <1>1, <1>2, <1>3 DEF AllTyped, RiskTyped
<1>5. RiskTyped'
  BY <1>1, <1>4, OrchestratorFacts DEF AllTyped, RiskTyped, riskVars, Risk
<1>6. MissedTyped'
  BY <1>1, <1>2, OrchestratorFacts DEF AllTyped, MissedTyped, r
<1>7. ResultTyped'
  BY <1>1, OrchestratorFacts DEF AllTyped, ResultTyped
<1>8. WalletTyped'
  BY <1>1, OrchestratorFacts DEF AllTyped, WalletTyped
<1> QED BY <1>1, <1>5, <1>6, <1>7, <1>8, OrchestratorFacts, TypeGroups, Unmoved DEF AllTyped

LEMMA SavesTyped == TypeOK /\ (SaveWallet \/ ResetWallet) => TypeOK'
<1> SUFFICES ASSUME TypeOK, SaveWallet \/ ResetWallet PROVE TypeOK'
  OBVIOUS
<1>1. AllTyped
  BY TypeGroups
<1>2. WalletTyped'
  BY <1>1, FreshIsWallet DEF AllTyped, WalletTyped, SaveWallet, ResetWallet
<1>3. events' \in 0 .. MaxEvents
  BY <1>1 DEF AllTyped, OtherTyped, SaveWallet, ResetWallet, Event
<1>4. OtherTyped'
  BY <1>1, <1>3 DEF AllTyped, OtherTyped, SaveWallet, ResetWallet
<1> QED BY <1>1, <1>2, <1>4, TypeGroups, Unmoved DEF AllTyped, pipeVars, SaveWallet, ResetWallet

LEMMA SubscribeTyped == TypeOK /\ Subscribe => TypeOK'
<1> SUFFICES ASSUME TypeOK, Subscribe PROVE TypeOK'
  OBVIOUS
<1>1. AllTyped
  BY TypeGroups
<1>2. listening' \in BOOLEAN
  BY DEF Subscribe
<1>3. ResultTyped'
  BY <1>1, <1>2 DEF AllTyped, ResultTyped, Subscribe
<1> QED BY <1>1, <1>3, TypeGroups, Unmoved DEF AllTyped, pipeVars, Subscribe

(* What a result does to the risk state.                                    *)
LEMMA CountTyped ==
  ASSUME TypeOK, NEW r \in Report, Count(r)
  PROVE  /\ losses' \in 0 .. LossesToPause /\ pause' \in {pause, "running"}
         /\ tickerLosses' \in [Tickers -> 0 .. LossesToBlock] /\ blocked' \in SUBSET Tickers
<1>1. /\ losses \in 0 .. LossesToPause /\ blocked \in SUBSET Tickers
      /\ tickerLosses \in [Tickers -> 0 .. LossesToBlock]
  BY RiskFields DEF TypeOK
<1>2. r.ticker \in Tickers /\ LossesToPause \in Nat \ {0} /\ LossesToBlock \in Nat \ {0}
  BY DEF Report
<1> DEFINE n == IF losses < LossesToPause THEN losses + 1 ELSE losses
           m == IF tickerLosses[r.ticker] < LossesToBlock
                THEN tickerLosses[r.ticker] + 1 ELSE LossesToBlock
<1>3. n \in 0 .. LossesToPause
  BY <1>1, <1>2
<1>4. m \in 0 .. LossesToBlock
  <2> DEFINE k == tickerLosses[r.ticker]
  <2>1. k \in 0 .. LossesToBlock
    BY <1>1, <1>2
  <2> HIDE DEF k
  <2>2. (IF k < LossesToBlock THEN k + 1 ELSE LossesToBlock) \in 0 .. LossesToBlock
    BY <1>2, <2>1
  <2> QED BY <2>2 DEF k
<1>5. \/ UNCHANGED riskVars
      \/ /\ losses' = 0
         /\ tickerLosses' = [tickerLosses EXCEPT ![r.ticker] = 0]
         /\ UNCHANGED <<pause, blocked>>
      \/ /\ losses' = n
         /\ pause' \in {pause, "running"}
         /\ tickerLosses' = [tickerLosses EXCEPT ![r.ticker] = m]
         /\ blocked' \in {blocked, blocked \cup {r.ticker}}
  BY DEF Count
<1> HIDE DEF n, m
<1> QED BY <1>1, <1>2, <1>3, <1>4, <1>5 DEF riskVars

LEMMA ListenTyped == TypeOK /\ Listen => TypeOK'
<1> SUFFICES ASSUME TypeOK, Listen PROVE TypeOK'
  OBVIOUS
<1>1. AllTyped
  BY TypeGroups
<1>2. toListen # <<>> /\ toListen \in Seq(Report) /\ listening \in BOOLEAN
  BY <1>1 DEF AllTyped, ResultTyped, Listen
<1>3. Head(toListen) \in Report /\ Tail(toListen) \in Seq(Report)
  BY <1>2, Taking
<1>4. /\ UNCHANGED riskVars \/ Count(Head(toListen))
      /\ toListen' \in {<<>>, Tail(toListen)}
  BY DEF Listen
<1>5. listening' \in BOOLEAN
  BY <1>2 DEF Listen
<1>6. <<>> \in Seq(Report)
  OBVIOUS
<1>7. ResultTyped'
  BY <1>1, <1>3, <1>4, <1>5, <1>6 DEF AllTyped, ResultTyped, Listen
<1>8. Risk' \in RiskState
  <2>1. losses' \in 0 .. LossesToPause /\ pause' \in {pause, "running"}
        /\ tickerLosses' \in [Tickers -> 0 .. LossesToBlock] /\ blocked' \in SUBSET Tickers
    BY <1>1, <1>3, <1>4, CountTyped, RiskFields DEF AllTyped, RiskTyped, riskVars
  <2>2. date' = date /\ date \in Nat /\ pause \in {"none", "running", "expired"}
    BY <1>1, RiskFields DEF AllTyped, RiskTyped, Listen, dayVars
  <2> QED BY <2>1, <2>2 DEF Risk, RiskState
<1>9. RiskTyped'
  BY <1>1, <1>8 DEF AllTyped, RiskTyped, Listen, dayVars
<1> QED BY <1>1, <1>7, <1>9, TypeGroups, Unmoved DEF AllTyped, pipeVars, Listen

(* Events are counted.                                                      *)
LEMMA EventTyped ==
  ASSUME TypeOK, NEW kind, Event(kind)
  PROVE  events' \in 0 .. MaxEvents
BY DEF TypeOK, Event

LEMMA QuoteTyped == TypeOK /\ (Quote \/ FirstQuote) => TypeOK'
<1> SUFFICES ASSUME TypeOK, Quote \/ FirstQuote PROVE TypeOK'
  OBVIOUS
<1>1. AllTyped
  BY TypeGroups
<1>2. CASE Quote
  <2>1. PICK t \in known, p \in Prices : price' = [price EXCEPT ![t] = p]
    BY <1>2 DEF Quote
  <2>2. MarketTyped'
    BY <1>1, <1>2, <2>1 DEF AllTyped, MarketTyped, Quote
  <2> QED BY <1>1, <1>2, <2>2, TypeGroups, Unmoved DEF AllTyped, pipeVars, Quote
<1>3. CASE FirstQuote
  <2>1. events' \in 0 .. MaxEvents
    BY <1>3, EventTyped DEF FirstQuote
  <2>2. MarketTyped'
    BY <1>1, <1>3 DEF AllTyped, MarketTyped, FirstQuote
  <2>3. grown' \in BOOLEAN
    BY <1>3 DEF FirstQuote
  <2>4. LoopTyped'
    BY <1>1, <1>3, <2>3 DEF AllTyped, LoopTyped, FirstQuote
  <2>5. OtherTyped'
    BY <1>1, <1>3, <2>1 DEF AllTyped, OtherTyped, FirstQuote
  <2> QED BY <1>1, <1>3, <2>2, <2>4, <2>5, TypeGroups, Unmoved DEF AllTyped, pipeVars, FirstQuote
<1> QED BY <1>2, <1>3

LEMMA TimeTyped == TypeOK /\ Time => TypeOK'
<1> SUFFICES ASSUME TypeOK, Time PROVE TypeOK'
  OBVIOUS
<1>1. AllTyped
  BY TypeGroups
<1>2. /\ recent' \in SUBSET recent /\ blocked' \in SUBSET blocked /\ pause' \in {pause, "expired"}
      /\ UNCHANGED <<pc, loopVars, marketVars, losses, tickerLosses, dayVars, day, saved,
                     halted, walletVars, pipeVars, signals, sent, events>>
  BY DEF Time, PauseExpires, SignalCooldownEnds, TickerCooldownEnds, riskVars
<1>3. Risk' \in RiskState
  <2>1. /\ losses \in 0 .. LossesToPause /\ pause \in {"none", "running", "expired"}
        /\ date \in Nat /\ tickerLosses \in [Tickers -> 0 .. LossesToBlock]
        /\ blocked \in SUBSET Tickers
    BY <1>1, RiskFields DEF AllTyped, RiskTyped
  <2> QED BY <1>2, <2>1 DEF Risk, RiskState, dayVars
<1>4. RiskTyped'
  BY <1>1, <1>2, <1>3 DEF AllTyped, RiskTyped, dayVars
<1> QED BY <1>1, <1>2, <1>4, TypeGroups, Unmoved DEF AllTyped, pipeVars

LEMMA OperatorTyped == TypeOK /\ (NewDay \/ HaltOrResume \/ ForceBuy) => TypeOK'
<1> SUFFICES ASSUME TypeOK, NewDay \/ HaltOrResume \/ ForceBuy PROVE TypeOK'
  OBVIOUS
<1>1. AllTyped
  BY TypeGroups
<1>2. events' \in 0 .. MaxEvents
  BY EventTyped DEF NewDay, HaltOrResume, ForceBuy
<1>3. CASE NewDay
  <2>1. RiskTyped'
    BY <1>1, <1>3 DEF AllTyped, RiskTyped, NewDay, riskVars, dayVars, Risk
  <2>2. OtherTyped'
    BY <1>1, <1>2, <1>3 DEF AllTyped, OtherTyped, NewDay
  <2> QED BY <1>1, <1>3, <2>1, <2>2, TypeGroups, Unmoved DEF AllTyped, pipeVars, NewDay
<1>4. CASE HaltOrResume
  <2>1. halted' \in BOOLEAN
    BY <1>4 DEF HaltOrResume
  <2>2. OtherTyped'
    BY <1>1, <1>2, <1>4, <2>1 DEF AllTyped, OtherTyped, HaltOrResume
  <2> QED BY <1>1, <1>4, <2>2, TypeGroups, Unmoved DEF AllTyped, pipeVars, HaltOrResume
<1>5. CASE ForceBuy
  <2>1. SignalsTyped'
    BY <1>1, <1>5, PublishTyped DEF AllTyped, ForceBuy
  <2>2. OtherTyped'
    BY <1>1, <1>2, <1>5 DEF AllTyped, OtherTyped, ForceBuy
  <2> QED BY <1>1, <1>5, <2>1, <2>2, TypeGroups, Unmoved DEF AllTyped, pipeVars, ForceBuy
<1> QED BY <1>3, <1>4, <1>5

(* What a save that was cut short leaves has positions of one of the two.   *)
LEMMA CutShortFacts ==
  ASSUME books \in Wallets, disk \in Wallets, NEW w \in CutShort
  PROVE  /\ w \in Wallets
         /\ \A t \in Tickers : w.positions[t] \in {disk.positions[t], books.positions[t], NoPos}
<1>1. NoPos \in Position
  BY DEF NoPos, Position
<1>2. CASE w = [books EXCEPT !.positions = disk.positions]
  BY <1>2 DEF Wallets
<1>3. ASSUME NEW kept \in SUBSET Tickers,
             w = [books EXCEPT !.positions = [t \in Tickers |-> IF t \in kept THEN @[t] ELSE NoPos]]
      PROVE  /\ w \in Wallets
             /\ \A t \in Tickers : w.positions[t] \in {books.positions[t], NoPos}
  <2> DEFINE f == [t \in Tickers |-> IF t \in kept THEN books.positions[t] ELSE NoPos]
  <2>1. f \in [Tickers -> Position] /\ \A t \in Tickers : f[t] \in {books.positions[t], NoPos}
    BY <1>1 DEF Wallets
  <2>2. w = [books EXCEPT !.positions = f]
    BY <1>3
  <2> HIDE DEF f
  <2> QED BY <2>1, <2>2 DEF Wallets
<1> QED BY <1>2, <1>3 DEF CutShort

LEMMA StopTyped ==
  ASSUME TypeOK, NEW kind, Stop(kind)
  PROVE  TypeOK'
<1>1. AllTyped
  BY TypeGroups
<1>2. events' \in 0 .. MaxEvents
  BY EventTyped DEF Stop
<1>3. LoopTyped'
  BY <1>1 DEF AllTyped, LoopTyped, Stop
<1>4. Risk \in RiskState
  BY <1>1 DEF AllTyped, RiskTyped
<1>5. saved' \in SUBSET RiskState /\ Risk' = Risk
  BY <1>1, <1>4 DEF AllTyped, RiskTyped, Stop, riskVars, dayVars, Risk
<1>6. RiskTyped'
  BY <1>1, <1>5 DEF AllTyped, RiskTyped, Stop, dayVars
<1>7. listening' \in BOOLEAN
  BY DEF Stop
<1>8. ResultTyped'
  BY <1>1, <1>7 DEF AllTyped, ResultTyped, Stop
<1>9. OtherTyped'
  BY <1>1, <1>2 DEF AllTyped, OtherTyped, Stop
<1>10. WalletTyped'
  BY <1>1, CutShortFacts DEF AllTyped, WalletTyped, Stop
<1> QED BY <1>1, <1>3, <1>6, <1>8, <1>9, <1>10, TypeGroups, Unmoved DEF AllTyped, pipeVars, Stop

(* A step by its actions.                                                   *)
LEMMA NextSplit ==
  ASSUME [Next]_vars
  PROVE  \/ Start \/ Top \/ HaltUnread \/ Heartbeat \/ Persist \/ BeginScan
         \/ (\E t \in Tickers : LookAt(t))
         \/ Guarded \/ Published \/ ScanRaises \/ EndScan \/ ForceBuyBest \/ TryBest
         \/ RotateOut \/ Time
         \/ EngineActs \/ EngineEnds \/ EngineStarts
         \/ OrchestratorBooks \/ SaveWallet \/ ResetWallet \/ Subscribe \/ Listen
         \/ Quote \/ FirstQuote \/ NewDay \/ HaltOrResume \/ ForceBuy
         \/ (\E kind \in {"crash", "shutdown"} : Stop(kind))
         \/ UNCHANGED vars
BY DEF Next, LoopRuns, LoopWaits

LEMMA TypeStep == TypeOK /\ OrderIsThere /\ [Next]_vars => TypeOK'
<1> SUFFICES ASSUME TypeOK, OrderIsThere, [Next]_vars PROVE TypeOK'
  OBVIOUS
<1>1. CASE UNCHANGED vars
  BY <1>1, TypeGroups, Unmoved DEF AllTyped, pipeVars, vars
<1> QED BY <1>1, NextSplit, StartTyped, TopTyped, PersistTyped, BeginScanTyped, LookAtTyped,
           GuardedTyped, PublishedTyped, EndScanTyped, ForceBuyBestTyped, TryBestTyped,
           RotateOutTyped, TimeTyped, EngineTakes, EngineLives, OrchestratorTyped, SavesTyped, SubscribeTyped,
           ListenTyped, QuoteTyped, OperatorTyped, StopTyped

LEMMA OrderStep == TypeOK /\ OrderIsThere /\ [Next]_vars => OrderIsThere'
<1> SUFFICES ASSUME TypeOK, OrderIsThere, [Next]_vars PROVE OrderIsThere'
  OBVIOUS
<1>1. ASSUME NEW t \in Tickers, LookAt(t) PROVE OrderIsThere'
  <2>1. CASE PassOver(t)
    BY <1>1, <2>1 DEF LookAt, PassOver, OrderIsThere
  <2>2. Size(t) \in Nat /\ BigSize(t) \in Nat /\ price[t] \in Prices
    BY SizeFacts DEF TypeOK
  <2>3. CASE Enter(t)
    <3>1. \/ pc' = "dead"
          \/ \E q \in {BigSize(t), Size(t)} : cur' = [ticker |-> t, dir |-> "BUY", price |-> price[t], qty |-> q]
      BY <2>3 DEF Enter
    <3> QED BY <2>2, <3>1 DEF OrderIsThere, OrderOfLoop
  <2>4. CASE Exit(t)
    <3>1. \/ pc' = "dead"
          \/ cur' = [ticker |-> t, dir |-> "SELL", price |-> price[t], qty |-> Size(t)]
      BY <2>4 DEF Exit
    <3> QED BY <2>2, <3>1 DEF OrderIsThere, OrderOfLoop
  <2> QED BY <1>1, <2>1, <2>3, <2>4 DEF LookAt
<1>2. CASE pc' \notin {"guard", "sent"}
  BY <1>2 DEF OrderIsThere
<1>3. CASE UNCHANGED <<pc, cur>>
  BY <1>3 DEF OrderIsThere
<1>4. CASE Guarded
  BY <1>4 DEF Guarded, OrderIsThere, loopVars
<1>5. \/ pc' \notin {"guard", "sent"} \/ UNCHANGED <<pc, cur>> \/ Guarded
      \/ \E t \in Tickers : LookAt(t)
  <2>1. CASE Start \/ Top \/ HaltUnread \/ Heartbeat \/ Persist \/ BeginScan \/ Published \/ ScanRaises \/ EndScan
    BY <2>1 DEF Start, Top, HaltUnread, Heartbeat, Persist, BeginScan, Published, ScanRaises, EndScan
  <2>2. CASE ForceBuyBest \/ TryBest \/ RotateOut
    BY <2>2 DEF ForceBuyBest, TryBest, RotateOut
  <2>3. CASE Time \/ EngineActs \/ EngineEnds \/ EngineStarts \/ OrchestratorBooks
    BY <2>3 DEF Time, PauseExpires, SignalCooldownEnds, TickerCooldownEnds, EngineActs,
                EngineEnds, EngineStarts, OrchestratorBooks, loopVars
  <2>7. CASE SaveWallet \/ ResetWallet \/ Subscribe \/ Listen
    BY <2>7 DEF SaveWallet, ResetWallet, Subscribe, Listen, loopVars
  <2>4. CASE Quote \/ FirstQuote \/ NewDay \/ HaltOrResume \/ ForceBuy
    BY <2>4 DEF Quote, FirstQuote, NewDay, HaltOrResume, ForceBuy, loopVars
  <2>5. CASE \E kind \in {"crash", "shutdown"} : Stop(kind)
    BY <2>5 DEF Stop
  <2>6. CASE UNCHANGED vars
    BY <2>6 DEF vars, loopVars
  <2> QED BY <2>1, <2>2, <2>3, <2>4, <2>5, <2>6, <2>7, NextSplit
<1> QED BY <1>1, <1>2, <1>3, <1>4, <1>5

LEMMA Typed == Spec => [](TypeOK /\ OrderIsThere)
<1>1. Init => OrderIsThere
  BY DEF Init, OrderIsThere
<1> QED BY <1>1, TypeInit, TypeStep, OrderStep, PTL DEF Spec

(* Whatever is signalled, guarded, filled, booked or lost, the state of the *)
(* loop, its brakes, the wallet and the messages under way stay well formed *)
(* (strategy.py).                                                           *)
THEOREM TypeCorrect == Spec => []TypeOK
BY Typed, PTL

-------------------------------------------------------------------------------
(* The pause.                                                                *)

(* A pause that the listener has called is ended by time alone, and no new  *)
(* entry comes to its guards in it, at whichever await it fell              *)
(* (strategy.py:255-263, 913).                                              *)
THEOREM PausesHold == Spec => PauseTakesHold
<1> DEFINE Held == pause = "running" /\ pc # "down" =>
                      /\ pause' # "none"
                      /\ pc' \in {"guard", "best"} => pc \in {"guard", "best"}
<1>1. TypeOK /\ [Next]_vars => [Held]_vars
  <2> SUFFICES ASSUME TypeOK, [Next]_vars, pause = "running", pc # "down", ~ UNCHANGED vars
               PROVE  /\ pause' # "none"
                      /\ pc' \in {"guard", "best"} => pc \in {"guard", "best"}
    OBVIOUS
  <2>1. ASSUME NEW t \in Tickers, LookAt(t)
        PROVE  UNCHANGED pause /\ (pc' \in {"guard", "best"} => pc \in {"guard", "best"})
    BY <2>1 DEF LookAt, PassOver, Enter, MayEnter, Exit, riskVars
  <2>2. CASE Top \/ HaltUnread \/ Heartbeat \/ Persist \/ BeginScan \/ Guarded \/ Published \/ ScanRaises \/ EndScan
    BY <2>2 DEF Top, HaltUnread, Heartbeat, Persist, BeginScan, Guarded, Published, ScanRaises, EndScan, riskVars
  <2>3. CASE ForceBuyBest \/ TryBest \/ RotateOut
    BY <2>3 DEF ForceBuyBest, MayForce, TryBest, RotateOut, riskVars
  <2>4. CASE Time \/ EngineActs \/ EngineEnds \/ EngineStarts \/ OrchestratorBooks
    BY <2>4 DEF Time, PauseExpires, SignalCooldownEnds, TickerCooldownEnds, EngineActs,
                EngineEnds, EngineStarts, OrchestratorBooks, riskVars
  <2>9. CASE SaveWallet \/ ResetWallet \/ Subscribe
    BY <2>9 DEF SaveWallet, ResetWallet, Subscribe, riskVars
  <2>5. CASE Listen
    <3>1. pc' = pc /\ (UNCHANGED riskVars \/ Count(Head(toListen)))
      BY <2>5 DEF Listen
    <3>2. pause' \in {pause, "running"}
      BY <3>1 DEF Count, riskVars
    <3> QED BY <3>1, <3>2
  <2>6. CASE Quote \/ FirstQuote \/ NewDay \/ HaltOrResume \/ ForceBuy
    BY <2>6 DEF Quote, FirstQuote, NewDay, HaltOrResume, ForceBuy, riskVars
  <2>7. CASE \E kind \in {"crash", "shutdown"} : Stop(kind)
    BY <2>7 DEF Stop, riskVars
  <2>8. ~ Start
    BY DEF Start
  <2> QED BY <2>1, <2>2, <2>3, <2>4, <2>5, <2>6, <2>7, <2>8, <2>9, NextSplit
<1> QED BY <1>1, TypeCorrect, PTL DEF Spec, PauseTakesHold

-------------------------------------------------------------------------------
(* The engine's positions and the wallet's.                                  *)

(* A quantity of t is there, or a BUY of it at least is on its way, and in   *)
(* either case no SELL will be booked after it.  EngineIsCovered says nothing *)
(* of a ticker that has results under way; this does.                        *)
Unsold(b, t, n) == \A j \in DOMAIN b : j > n /\ b[j].ticker = t => b[j].dir = "BUY"
Comes(b, t, q) ==
    \E i \in DOMAIN b :
        b[i].ticker = t /\ b[i].dir = "BUY" /\ b[i].qty >= q /\ Unsold(b, t, i)
Backed(b, w, t, q) ==
    q = 0 \/ Comes(b, t, q) \/ (w.positions[t].qty >= q /\ Unsold(b, t, 0))
Covered ==
    \A t \in Tickers \ missed :
        Backed(toBook, wallet, t, held[t].qty) /\ Backed(toBook, wallet, t, stored[t].qty)

LEMMA QuantitiesAreNat ==
  ASSUME TypeOK
  PROVE  \A t \in Tickers : /\ wallet.positions[t].qty \in Nat
                            /\ held[t].qty \in Nat /\ stored[t].qty \in Nat
BY DEF TypeOK, Wallets, Position, Lots

LEMMA BackedCovers == TypeOK /\ Covered => EngineIsCovered
<1> SUFFICES ASSUME TypeOK, Covered, NEW t \in Tickers \ missed,
                    \A i \in DOMAIN toBook : toBook[i].ticker # t
             PROVE  /\ wallet.positions[t].qty >= held[t].qty
                    /\ wallet.positions[t].qty >= stored[t].qty
  BY DEF EngineIsCovered
<1>1. \A q : ~ Comes(toBook, t, q)
  BY DEF Comes
<1> QED BY <1>1, QuantitiesAreNat DEF Covered, Backed

(* A result that is sent leaves that so, if it is none of a SELL of t ...    *)
LEMMA BackedBySending ==
  ASSUME TypeOK, NEW r \in Report, toBook' = Append(toBook, r), wallet' = wallet,
         NEW t \in Tickers, NEW q \in Nat,
         Backed(toBook, wallet, t, q), r.ticker = t => r.dir = "BUY"
  PROVE  Backed(toBook', wallet', t, q)
<1>1. /\ DOMAIN toBook = 1 .. Len(toBook) /\ Len(toBook) \in Nat
      /\ DOMAIN toBook' = 1 .. Len(toBook) + 1 /\ toBook'[Len(toBook) + 1] = r
      /\ \A i \in 1 .. Len(toBook) : toBook'[i] = toBook[i]
  BY Sending DEF TypeOK
<1>2. ASSUME NEW n \in Nat, Unsold(toBook, t, n) PROVE Unsold(toBook', t, n)
  <2> SUFFICES ASSUME NEW j \in DOMAIN toBook', j > n, toBook'[j].ticker = t
               PROVE  toBook'[j].dir = "BUY"
    BY DEF Unsold
  <2>1. CASE j = Len(toBook) + 1
    BY <1>1, <2>1
  <2>2. CASE j # Len(toBook) + 1
    <3>1. j \in 1 .. Len(toBook)
      BY <1>1, <2>2
    <3> QED BY <1>1, <1>2, <3>1 DEF Unsold
  <2> QED BY <2>1, <2>2
<1>3. CASE Comes(toBook, t, q)
  <2>1. PICK i \in DOMAIN toBook :
           /\ toBook[i].ticker = t /\ toBook[i].dir = "BUY" /\ toBook[i].qty >= q
           /\ Unsold(toBook, t, i)
    BY <1>3 DEF Comes
  <2>2. i \in Nat /\ i \in DOMAIN toBook' /\ toBook'[i] = toBook[i]
    BY <1>1
  <2>3. Unsold(toBook', t, i)
    BY <1>2, <2>1, <2>2
  <2>4. \A j \in DOMAIN toBook' : j > i /\ toBook'[j].ticker = t => toBook'[j].dir = "BUY"
    BY <2>3 DEF Unsold
  <2>5. Comes(toBook', t, q)
    BY <2>1, <2>2, <2>4 DEF Comes, Unsold
  <2> QED BY <2>5 DEF Backed
<1>4. CASE wallet.positions[t].qty >= q /\ Unsold(toBook, t, 0)
  BY <1>2, <1>4 DEF Backed
<1> QED BY <1>3, <1>4 DEF Backed

(* ... and so does one that is booked, if it is not a BUY that is refused.   *)
LEMMA BackedByBooking ==
  ASSUME TypeOK, OrchestratorBooks, NEW t \in Tickers \ missed', NEW q \in Nat,
         Backed(toBook, wallet, t, q)
  PROVE  Backed(toBook', wallet', t, q)
<1> DEFINE r == Head(toBook)
           n == Len(toBook)
<1>1. /\ r \in Report /\ r = toBook[1] /\ n \in Nat /\ n > 0 /\ DOMAIN toBook = 1 .. n
      /\ DOMAIN toBook' = 1 .. n - 1
      /\ \A i \in 1 .. n - 1 : toBook'[i] = toBook[i + 1]
  <2>1. toBook \in Seq(Report) /\ toBook # <<>> /\ toBook' = Tail(toBook)
    BY OrchestratorFacts
  <2>2. DOMAIN toBook = 1 .. Len(toBook)
    BY <2>1
  <2> QED BY <2>1, <2>2, Taking
<1>2. /\ wallet' = wallet \/ wallet' = Booked(wallet, r)
      /\ missed' = IF r.dir = "BUY" /\ wallet' = wallet THEN missed \cup {r.ticker} ELSE missed
  BY OrchestratorFacts
<1>3. r.ticker \in Tickers /\ r.qty \in Nat /\ r.dir \in {"BUY", "SELL"}
  BY <1>1 DEF Report
<1>4. wallet.positions[t].qty \in Nat /\ wallet'.positions[t].qty \in Nat
  <2>1. wallet \in Wallets /\ wallet' \in Wallets
    BY OrchestratorFacts DEF TypeOK
  <2> QED BY <2>1 DEF Wallets, Position
<1>5. t # r.ticker => wallet'.positions[t] = wallet.positions[t]
  BY <1>1, <1>2, BookedFacts DEF TypeOK
<1>6. t = r.ticker /\ r.dir = "BUY"
        => wallet'.positions[t].qty = wallet.positions[t].qty + r.qty
  <2> HIDE DEF r
  <2> SUFFICES ASSUME t = r.ticker, r.dir = "BUY"
               PROVE  wallet'.positions[t].qty = wallet.positions[t].qty + r.qty
    OBVIOUS
  <2>1. wallet' # wallet
    BY <1>2
  <2>2. wallet \in Wallets /\ r \in Report
    BY <1>1 DEF TypeOK
  <2> DEFINE b == Booked(wallet, r)
  <2>3. b # wallet => b.positions[r.ticker].qty = wallet.positions[r.ticker].qty + r.qty
    BY <2>2, BookedFacts
  <2>4. wallet' = b
    BY <1>2, <2>1
  <2> HIDE DEF b
  <2> QED BY <2>1, <2>3, <2>4
<1> HIDE DEF r, n
<1>7. ASSUME NEW k \in Nat, NEW l \in Nat, k <= l + 1, Unsold(toBook, t, k) PROVE Unsold(toBook', t, l)
  <2> SUFFICES ASSUME NEW j \in DOMAIN toBook', j > l, toBook'[j].ticker = t
               PROVE  toBook'[j].dir = "BUY"
    BY DEF Unsold
  <2>1. j + 1 \in DOMAIN toBook /\ j + 1 > k /\ toBook'[j] = toBook[j + 1]
    BY <1>1, <1>7
  <2> QED BY <1>7, <2>1 DEF Unsold
<1>8. CASE Comes(toBook, t, q)
  <2>1. PICK i \in DOMAIN toBook :
           /\ toBook[i].ticker = t /\ toBook[i].dir = "BUY" /\ toBook[i].qty >= q
           /\ Unsold(toBook, t, i)
    BY <1>8 DEF Comes
  <2>2. CASE i = 1
    <3>1. wallet'.positions[t].qty >= q
      BY <1>1, <1>3, <1>4, <1>6, <2>1, <2>2
    <3>2. Unsold(toBook', t, 0)
      BY <1>7, <2>1, <2>2
    <3> QED BY <3>1, <3>2 DEF Backed
  <2>3. CASE i # 1
    <3>1. i - 1 \in 1 .. n - 1 /\ i - 1 \in Nat /\ i \in Nat /\ i <= (i - 1) + 1
          /\ toBook'[i - 1] = toBook[i]
      BY <1>1, <2>3
    <3>2. Unsold(toBook', t, i - 1)
      BY <1>7, <2>1, <3>1
    <3>3. \A j \in DOMAIN toBook' : j > i - 1 /\ toBook'[j].ticker = t => toBook'[j].dir = "BUY"
      BY <3>2 DEF Unsold
    <3>4. Comes(toBook', t, q)
      BY <1>1, <2>1, <3>1, <3>3 DEF Comes, Unsold
    <3> QED BY <3>4 DEF Backed
  <2> QED BY <2>2, <2>3
<1>9. CASE wallet.positions[t].qty >= q /\ Unsold(toBook, t, 0)
  <2>1. t = r.ticker => r.dir = "BUY"
    BY <1>1, <1>9 DEF Unsold
  <2>2. wallet'.positions[t].qty >= q
    BY <1>3, <1>4, <1>5, <1>6, <1>9, <2>1
  <2>3. Unsold(toBook', t, 0)
    BY <1>7, <1>9
  <2> QED BY <2>2, <2>3 DEF Backed
<1> QED BY <1>8, <1>9 DEF Backed

LEMMA CoveredByEngine ==
  ASSUME TypeOK, Covered, EngineActs
  PROVE  Covered'
<1>0. wallet' = wallet
  BY EngineFacts DEF walletVars
<1>1. ASSUME NEW t \in Tickers, NEW q, UNCHANGED toBook, Backed(toBook, wallet, t, q)
      PROVE  Backed(toBook', wallet', t, q)
  BY <1>0, <1>1 DEF Backed, Comes, Unsold
<1>2. CASE Dropped
  BY <1>1, <1>2 DEF Dropped, Covered, resultVars
<1>3. ASSUME NEW s \in Order, Bought(s) \/ Sold(s) PROVE Covered'
  <2>1. /\ s.ticker \in Tickers /\ s.qty \in Nat /\ Entry(s).qty = s.qty /\ Unheld.qty = 0
        /\ held \in [Tickers -> Lots] /\ stored \in [Tickers -> Lots]
    BY DEF Order, Entry, Unheld, TypeOK
  <2> SUFFICES ASSUME NEW t \in Tickers, t \notin missed'
               PROVE  /\ Backed(toBook', wallet', t, held'[t].qty)
                    /\ Backed(toBook', wallet', t, stored'[t].qty)
    BY DEF Covered
  <2>2. \A q \in Nat : q = 0 => Backed(toBook', wallet', t, q)
    BY DEF Backed
  <2>3. UNCHANGED toBook \/ Reports(s)
    BY <1>3 DEF Bought, Sold, resultVars
  <2>4. ASSUME NEW q \in Nat, Backed(toBook, wallet, t, q), t # s.ticker \/ s.dir = "BUY"
        PROVE  Backed(toBook', wallet', t, q)
    <3>1. CASE UNCHANGED toBook
      BY <1>1, <2>4, <3>1
    <3>2. CASE Reports(s)
      <4>1. PICK r \in Report : r.dir = s.dir /\ r.ticker = s.ticker /\ toBook' = Append(toBook, r)
        BY <3>2 DEF Reports, Emit
      <4> QED BY <1>0, <2>4, <4>1, BackedBySending
    <3> QED BY <2>3, <3>1, <3>2
  <2>5. t # s.ticker => /\ t \notin missed
                        /\ held'[t] = held[t] \/ held'[t].qty = 0
                        /\ stored'[t] = stored[t]
    BY <1>3, <2>1, NothingIsTyped DEF Bought, Sold
  <2>6. CASE t # s.ticker
    BY <2>2, <2>4, <2>5, <2>6, QuantitiesAreNat DEF Covered
  <2>7. CASE t = s.ticker /\ Sold(s)
    <3>1. held'[t].qty = 0
      BY <2>1, <2>7, NothingIsTyped DEF Sold
    <3>2. CASE stored'[t] = Unheld
      BY <2>1, <2>2, <3>1, <3>2
    <3>3. CASE stored'[t] # Unheld
      <4>1. stored' = stored /\ t \notin missed /\ UNCHANGED resultVars
        BY <2>1, <2>7, <3>3 DEF Sold
      <4>2. Backed(toBook', wallet', t, stored[t].qty)
        BY <1>1, <4>1, QuantitiesAreNat DEF Covered, resultVars
      <4> QED BY <2>2, <3>1, <4>1, <4>2
    <3> QED BY <3>2, <3>3
  <2>8. CASE t = s.ticker /\ Bought(s)
    <3>1. t \notin missed /\ s.dir = "BUY"
      BY <2>8 DEF Bought
    <3>2. Backed(toBook', wallet', t, stored[t].qty)
      BY <2>4, <3>1, QuantitiesAreNat DEF Covered
    <3>3. CASE held' = [held EXCEPT ![s.ticker] = Entry(s)] /\ Reports(s)
      <4>1. PICK r \in Report : /\ r.dir = "BUY" /\ r.ticker = t /\ r.qty = s.qty
                                /\ toBook' = Append(toBook, r)
        BY <2>8, <3>1, <3>3 DEF Reports, Emit
      <4>2. /\ DOMAIN toBook' = 1 .. Len(toBook) + 1 /\ toBook'[Len(toBook) + 1] = r
            /\ Len(toBook) \in Nat
        BY <4>1, Sending DEF TypeOK
      <4>3. Comes(toBook', t, s.qty)
        BY <2>1, <4>1, <4>2 DEF Comes, Unsold
      <4>4. Backed(toBook', wallet', t, s.qty)
        BY <4>3 DEF Backed
      <4>5. held'[t].qty = s.qty /\ (stored'[t] = stored[t] \/ stored'[t].qty = s.qty)
        BY <2>1, <2>8, <3>3 DEF Bought
      <4> QED BY <3>2, <4>4, <4>5
    <3>4. CASE held' = Nothing /\ stored' = stored
      BY <2>2, <3>2, <3>4, NothingIsTyped
    <3> QED BY <2>8, <3>1, <3>3, <3>4 DEF Bought
  <2> QED BY <1>3, <2>6, <2>7, <2>8
<1> QED BY <1>2, <1>3, EngineFacts

LEMMA CoveredByOrchestrator ==
  ASSUME TypeOK, Covered, OrchestratorBooks
  PROVE  Covered'
<1> SUFFICES ASSUME NEW t \in Tickers \ missed'
             PROVE  /\ Backed(toBook', wallet', t, held'[t].qty)
                    /\ Backed(toBook', wallet', t, stored'[t].qty)
  BY OrchestratorFacts DEF Covered, engineVars
<1>1. t \in Tickers \ missed
  BY OrchestratorFacts
<1> QED BY <1>1, BackedByBooking, QuantitiesAreNat, OrchestratorFacts DEF Covered, engineVars

(* A start may find another wallet, or another engine; a stop loses nothing  *)
(* that counts here.                                                         *)
LEMMA CoveredByStart ==
  ASSUME Covered, Start
  PROVE  Covered'
<1> SUFFICES ASSUME NEW t \in Tickers, t \notin missed'
             PROVE  /\ Backed(toBook', wallet', t, held'[t].qty)
                    /\ Backed(toBook', wallet', t, stored'[t].qty)
  BY DEF Covered
<1>1. t \notin missed /\ wallet'.positions[t] = wallet.positions[t]
  BY DEF Start, LoadWallet
<1>2. wallet'.positions[t].qty = wallet.positions[t].qty
  BY <1>1
<1>3. UNCHANGED <<held, stored, toBook>>
  BY DEF Start, engineVars, resultVars
<1> QED BY <1>1, <1>2, <1>3 DEF Covered, Backed, Comes, Unsold

LEMMA CoveredByEngineLife ==
  ASSUME TypeOK, Covered, EngineEnds \/ EngineStarts
  PROVE  Covered'
<1>1. /\ UNCHANGED <<stored, toBook, missed, wallet>>
      /\ held' = stored \/ held' = Nothing
  BY DEF EngineEnds, EngineStarts, LoopEnds, Quiet, resultVars, walletVars
<1>2. \A t \in Tickers : \A q : Backed(toBook, wallet, t, q) => Backed(toBook', wallet', t, q)
  BY <1>1 DEF Backed, Comes, Unsold
<1>3. \A t \in Tickers : Backed(toBook', wallet', t, 0)
  BY DEF Backed
<1> QED BY <1>1, <1>2, <1>3, NothingIsTyped DEF Covered

(* Every other step leaves the wallets and the pipeline alone.               *)
LEMMA PipeAlone ==
  ASSUME [Next]_vars
  PROVE  \/ EngineActs \/ EngineEnds \/ EngineStarts \/ OrchestratorBooks \/ Start
         \/ SaveWallet \/ ResetWallet \/ \E kind \in {"crash", "shutdown"} : Stop(kind)
         \/ UNCHANGED <<walletVars, held, stored, toBook, filled, missed>>
<1>1. ASSUME NEW t \in Tickers, LookAt(t) PROVE UNCHANGED <<walletVars, pipeVars>>
  BY <1>1 DEF LookAt
<1>2. CASE Top \/ HaltUnread \/ Heartbeat \/ Persist \/ BeginScan \/ Guarded \/ Published
  BY <1>2 DEF Top, HaltUnread, Heartbeat, Persist, BeginScan, Guarded, Published, pipeVars,
              engineVars, resultVars
<1>3. CASE ScanRaises \/ EndScan \/ ForceBuyBest \/ TryBest \/ RotateOut
  BY <1>3 DEF ScanRaises, EndScan, ForceBuyBest, TryBest, RotateOut, pipeVars, engineVars,
              resultVars
<1>4. CASE Time \/ Subscribe \/ Listen
  BY <1>4 DEF Time, PauseExpires, SignalCooldownEnds, TickerCooldownEnds, Subscribe, Listen,
              pipeVars, engineVars, resultVars
<1>5. CASE Quote \/ FirstQuote \/ NewDay \/ HaltOrResume \/ ForceBuy
  BY <1>5 DEF Quote, FirstQuote, NewDay, HaltOrResume, ForceBuy, pipeVars, engineVars, resultVars
<1>6. CASE UNCHANGED vars
  BY <1>6 DEF vars, pipeVars, engineVars, resultVars
<1> QED BY <1>1, <1>2, <1>3, <1>4, <1>5, <1>6, NextSplit DEF pipeVars, engineVars, resultVars

(* Though a SELL empties the engine's position and takes only its quantity   *)
(* from the wallet's, and a BUY replaces the one and adds to the other, the  *)
(* engine never holds, nor would restore, what the wallet does not, once      *)
(* results are booked, wherever it ends and starts again, unless HDEL failed, *)
(* a BUY was recorded and not reported or reported and not booked, or another *)
(* wallet was loaded (main.rs:172-194, 260-362, router.py:300-356).          *)
THEOREM WalletCoversEngine == Spec => []EngineIsCovered
<1>1. Init => Covered
  BY DEF Init, Covered, Backed, Nothing, Unheld
<1>2. TypeOK /\ Covered /\ [Next]_vars => Covered'
  <2> SUFFICES ASSUME TypeOK, Covered, [Next]_vars PROVE Covered'
    OBVIOUS
  <2>1. CASE UNCHANGED <<wallet, held, stored, toBook, missed>>
    BY <2>1 DEF Covered, Backed, Comes, Unsold
  <2>2. CASE SaveWallet \/ ResetWallet \/ \E kind \in {"crash", "shutdown"} : Stop(kind)
    <3>1. UNCHANGED <<wallet, held, stored, toBook, missed>>
      BY <2>2 DEF SaveWallet, ResetWallet, Stop, pipeVars, engineVars, resultVars
    <3> QED BY <2>1, <3>1
  <2> QED BY <2>1, <2>2, CoveredByEngine, CoveredByOrchestrator, CoveredByStart,
             CoveredByEngineLife, PipeAlone DEF walletVars
<1>3. TypeOK /\ Covered => EngineIsCovered
  BY BackedCovers
<1> QED BY <1>1, <1>2, <1>3, TypeCorrect, PTL DEF Spec

-------------------------------------------------------------------------------
(* Shares bought and shares held.                                            *)

(* A set of naturals has a least.                                           *)
LEMMA LeastOf ==
  ASSUME NEW S \in SUBSET Nat, S # {}
  PROVE  \E m \in S : \A k \in S : m <= k
<1>1. PICK m \in S : \A k \in S : <<k, m>> \notin OpToRel(<, Nat)
  <2> DEFINE R == OpToRel(<, Nat)
  <2>1. IsWellFoundedOn(R, Nat)
    BY NatLessThanWellFounded
  <2> HIDE DEF R
  <2>2. \E m \in S : \A k \in S : ~(<<k, m>> \in R)
    BY <2>1, WFMin
  <2> QED BY <2>2 DEF R
<1>2. ASSUME NEW k \in S PROVE m <= k
  <2>1. m \in Nat /\ k \in Nat
    OBVIOUS
  <2>2. ~(k < m)
    BY <1>1, <2>1 DEF OpToRel
  <2> QED BY <2>1, <2>2
<1> QED BY <1>2

(* The running count of the shares of t in a channel.                       *)
Grows(f, s, n, t) == f[0] = 0 /\ \A k \in 1 .. n : f[k] = f[k - 1] + Shares(s[k], t)
IsTally(f, s, n, t) == f \in [0 .. n -> Nat] /\ Grows(f, s, n, t)

LEMMA SharesType == \A r \in Report, t \in Tickers : Shares(r, t) \in Nat
BY DEF Report, Shares

LEMMA TallyExists ==
  ASSUME NEW s \in Seq(Report), NEW t \in Tickers
  PROVE  \E f : IsTally(f, s, Len(s), t)
<1> DEFINE Without == {n \in 0 .. Len(s) : ~ \E f : IsTally(f, s, n, t)}
<1>0. Len(s) \in Nat
  OBVIOUS
<1>1. ASSUME Without # {} PROVE FALSE
  <2>1. PICK n \in Without : \A k \in Without : n <= k
    <3>1. Without \in SUBSET Nat
      BY <1>0
    <3> HIDE DEF Without
    <3> QED BY <1>1, <3>1, LeastOf
  <2>2. n \in 0 .. Len(s) /\ ~ \E f : IsTally(f, s, n, t)
    OBVIOUS
  <2>3. n # 0
    <3>1. IsTally([k \in 0 .. 0 |-> 0], s, 0, t)
      BY DEF IsTally, Grows
    <3> QED BY <2>2, <3>1
  <2>4. n - 1 \in 0 .. Len(s) /\ ~ (n <= n - 1) /\ n \in 1 .. Len(s)
    BY <1>0, <2>2, <2>3
  <2>5. PICK f : IsTally(f, s, n - 1, t)
    BY <2>1, <2>4
  <2> HIDE DEF Without
  <2> DEFINE g == [k \in 0 .. n |-> IF k = n THEN f[n - 1] + Shares(s[n], t) ELSE f[k]]
  <2>6. s[n] \in Report /\ Shares(s[n], t) \in Nat
    BY <2>4, SharesType
  <2>7. f \in [0 .. n - 1 -> Nat] /\ f[n - 1] \in Nat /\ f[n - 1] + Shares(s[n], t) \in Nat
    BY <1>0, <2>4, <2>5, <2>6 DEF IsTally, Grows
  <2>8. g \in [0 .. n -> Nat] /\ g[0] = 0
    BY <1>0, <2>4, <2>5, <2>7 DEF IsTally, Grows
  <2>9. ASSUME NEW k \in 1 .. n PROVE g[k] = g[k - 1] + Shares(s[k], t)
    <3>1. CASE k = n
      BY <1>0, <2>4, <3>1
    <3>2. CASE k # n
      <4>1. k \in 1 .. n - 1 /\ k - 1 \in 0 .. n /\ k - 1 # n
        BY <1>0, <2>4, <3>2
      <4>2. f[k] = f[k - 1] + Shares(s[k], t)
        BY <2>5, <4>1 DEF IsTally, Grows
      <4> QED BY <3>2, <4>1, <4>2
    <3> QED BY <3>1, <3>2
  <2>10. IsTally(g, s, n, t)
    BY <2>8, <2>9 DEF IsTally, Grows
  <2> QED BY <2>2, <2>10
<1>2. Len(s) \in 0 .. Len(s)
  BY <1>0
<1> QED BY <1>1, <1>2

(* Two running counts of the same channel agree.                            *)
LEMMA TallyIsUnique ==
  ASSUME NEW n \in Nat, NEW f, NEW g, NEW s, NEW t, Grows(f, s, n, t), Grows(g, s, n, t)
  PROVE  f[n] = g[n]
<1> DEFINE Differ == {k \in 0 .. n : f[k] # g[k]}
<1>1. ASSUME Differ # {} PROVE FALSE
  <2>1. PICK m \in Differ : \A k \in Differ : m <= k
    <3>1. Differ \in SUBSET Nat
      OBVIOUS
    <3> HIDE DEF Differ
    <3> QED BY <1>1, <3>1, LeastOf
  <2>2. m \in 1 .. n /\ m - 1 \in 0 .. n /\ ~ (m <= m - 1) /\ f[m] # g[m]
    BY DEF Grows
  <2>3. f[m - 1] = g[m - 1]
    BY <2>1, <2>2
  <2>4. f[m] = f[m - 1] + Shares(s[m], t) /\ g[m] = g[m - 1] + Shares(s[m], t)
    BY <2>2 DEF Grows
  <2> QED BY <2>2, <2>3, <2>4
<1> QED BY <1>1

LEMMA TallyCounts ==
  ASSUME NEW s \in Seq(Report), NEW t \in Tickers, NEW f, IsTally(f, s, Len(s), t)
  PROVE  SharesIn(s, t) = f[Len(s)]
<1> DEFINE n == Len(s)
           Counts(g) == g = [k \in 0 .. n |-> IF k = 0 THEN 0 ELSE g[k - 1] + Shares(s[k], t)]
           upto == CHOOSE g : Counts(g)
<1>1. n \in Nat
  OBVIOUS
<1>2. Counts(f)
  BY <1>1 DEF IsTally, Grows
<1>3. Counts(upto)
  BY <1>2
<1>4. SharesIn(s, t) = upto[n]
  BY DEF SharesIn
<1> HIDE DEF upto
<1>5. Grows(upto, s, n, t)
  <2> HIDE DEF n
  <2>1. upto[0] = 0 /\ \A k \in 1 .. n : upto[k] = upto[k - 1] + Shares(s[k], t)
    BY <1>1, <1>3
  <2> QED BY <2>1 DEF Grows
<1>6. Grows(f, s, n, t)
  BY DEF IsTally
<1> HIDE DEF n, Counts
<1>7. upto[n] = f[n]
  BY <1>1, <1>5, <1>6, TallyIsUnique
<1> QED BY <1>4, <1>7 DEF n

(* What is on the way grows by what is sent ...                             *)
LEMMA SharesAppended ==
  ASSUME NEW s \in Seq(Report), NEW r \in Report, NEW t \in Tickers
  PROVE  /\ SharesIn(s, t) \in Nat
         /\ SharesIn(Append(s, r), t) = SharesIn(s, t) + Shares(r, t)
<1> DEFINE n == Len(s)
           u == Append(s, r)
<1>1. /\ u \in Seq(Report) /\ n \in Nat /\ Len(u) = n + 1 /\ u[n + 1] = r
      /\ \A k \in 1 .. n : u[k] = s[k]
  BY Sending
<1> HIDE DEF n, u
<1>2. PICK f : IsTally(f, u, n + 1, t)
  BY <1>1, TallyExists
<1>3. f \in [0 .. n + 1 -> Nat] /\ f[n] \in Nat /\ f[n + 1] = f[n] + Shares(r, t)
  BY <1>1, <1>2 DEF IsTally, Grows
<1> DEFINE g == [k \in 0 .. n |-> f[k]]
<1>4. IsTally(g, s, n, t)
  <2>1. g \in [0 .. n -> Nat] /\ g[0] = 0
    BY <1>1, <1>2 DEF IsTally, Grows
  <2>2. ASSUME NEW k \in 1 .. n PROVE g[k] = g[k - 1] + Shares(s[k], t)
    <3>1. k \in 1 .. n + 1 /\ k - 1 \in 0 .. n /\ k \in 0 .. n
      BY <1>1
    <3>2. f[k] = f[k - 1] + Shares(u[k], t)
      BY <1>2, <3>1 DEF IsTally, Grows
    <3> QED BY <1>1, <3>1, <3>2
  <2> QED BY <2>1, <2>2 DEF IsTally, Grows
<1>5. g[n] = f[n]
  BY <1>1
<1> HIDE DEF g
<1>6. SharesIn(s, t) = f[n]
  BY <1>4, <1>5, TallyCounts DEF n
<1>7. SharesIn(u, t) = f[n + 1]
  BY <1>1, <1>2, TallyCounts
<1> QED BY <1>3, <1>6, <1>7 DEF u

(* ... and shrinks by what is taken.                                        *)
LEMMA SharesTaken ==
  ASSUME NEW s \in Seq(Report), s # <<>>, NEW t \in Tickers
  PROVE  /\ SharesIn(Tail(s), t) \in Nat
         /\ SharesIn(s, t) = Shares(Head(s), t) + SharesIn(Tail(s), t)
<1> DEFINE n == Len(s) - 1
           u == Tail(s)
           q == Shares(s[1], t)
<1>1. /\ u \in Seq(Report) /\ n \in Nat /\ Len(s) = n + 1 /\ Len(u) = n /\ Head(s) = s[1]
      /\ \A k \in 1 .. n : u[k] = s[k + 1]
  BY Taking
<1>2. s[1] \in Report /\ q \in Nat
  BY <1>1, SharesType
<1>3. PICK f : IsTally(f, s, Len(s), t)
  BY TallyExists
<1> HIDE DEF n, u, q
<1>4. PICK h : IsTally(h, u, n, t)
  BY <1>1, TallyExists
<1> DEFINE g == [k \in 0 .. n + 1 |-> IF k = 0 THEN 0 ELSE h[k - 1] + q]
<1>5. Grows(g, s, n + 1, t)
  <2>1. g[0] = 0
    BY <1>1
  <2>2. ASSUME NEW k \in 1 .. n + 1 PROVE g[k] = g[k - 1] + Shares(s[k], t)
    <3>1. k \in 0 .. n + 1 /\ k - 1 \in 0 .. n + 1 /\ k # 0 /\ g[k] = h[k - 1] + q
      BY <1>1
    <3>2. CASE k = 1
      <4>1. h[0] = 0 /\ g[0] = 0 /\ Shares(s[k], t) = q
        BY <1>1, <1>4, <3>2 DEF IsTally, Grows, q
      <4> QED BY <1>2, <3>1, <3>2, <4>1
    <3>3. CASE k # 1
      <4> DEFINE j == k - 1
      <4>1. j \in 1 .. n /\ j - 1 \in 0 .. n /\ k - 2 = j - 1 /\ j + 1 = k /\ j # 0
        BY <1>1, <3>3
      <4>2. h[j] = h[j - 1] + Shares(u[j], t) /\ u[j] = s[k]
        BY <1>1, <1>4, <4>1 DEF IsTally, Grows
      <4>3. g[j] = h[j - 1] + q /\ h[j - 1] \in Nat /\ u[j] \in Report
        BY <1>1, <1>4, <3>1, <4>1 DEF IsTally
      <4>4. Shares(u[j], t) \in Nat
        BY <4>3, SharesType
      <4> HIDE DEF g, j
      <4>5. g[k] = h[j] + q
        BY <3>1 DEF j
      <4>6. g[j] + Shares(s[k], t) = h[j] + q
        BY <1>2, <4>2, <4>3, <4>4
      <4> QED BY <4>5, <4>6 DEF j
    <3> QED BY <3>2, <3>3
  <2> QED BY <2>1, <2>2 DEF Grows
<1>6. h[n] \in Nat
  BY <1>1, <1>4 DEF IsTally
<1>7. g[n + 1] = h[n] + q
  BY <1>1
<1> HIDE DEF g
<1>8. f[n + 1] = g[n + 1]
  BY <1>1, <1>3, <1>5, TallyIsUnique DEF IsTally
<1>9. SharesIn(s, t) = f[n + 1]
  BY <1>1, <1>3, TallyCounts
<1>10. SharesIn(u, t) = h[n]
  BY <1>1, <1>4, TallyCounts
<1> QED BY <1>1, <1>2, <1>6, <1>7, <1>8, <1>9, <1>10 DEF u, q

LEMMA NothingSent ==
  ASSUME NEW t \in Tickers
  PROVE  SharesIn(<<>>, t) = 0
<1> DEFINE f == [k \in 0 .. 0 |-> 0]
<1>1. <<>> \in Seq(Report) /\ Len(<<>>) = 0
  OBVIOUS
<1>2. IsTally(f, <<>>, 0, t) /\ f[0] = 0
  BY DEF IsTally, Grows
<1> HIDE DEF f
<1>3. SharesIn(<<>>, t) = f[Len(<<>>)]
  BY <1>1, <1>2, TallyCounts
<1> QED BY <1>1, <1>2, <1>3

(* A wallet, with what is on its way.                                        *)
Fits(w) == \A t \in Tickers : w.positions[t].qty + SharesIn(toBook, t) <= filled[t]

LEMMA WalletsFit == WalletIsBacked <=> Fits(wallet) /\ Fits(books) /\ Fits(disk)
BY DEF WalletIsBacked, Fits, OnTheWay

LEMMA BackedNumbers ==
  ASSUME TypeOK, NEW t \in Tickers
  PROVE  /\ filled[t] \in Nat /\ SharesIn(toBook, t) \in Nat
         /\ \A w \in Wallets : w.positions[t].qty \in Nat
<1>1. filled[t] \in Nat /\ toBook \in Seq(Report)
  BY DEF TypeOK
<1>2. PICK f : IsTally(f, toBook, Len(toBook), t)
  BY <1>1, TallyExists
<1>3. SharesIn(toBook, t) = f[Len(toBook)] /\ Len(toBook) \in Nat
  BY <1>1, <1>2, TallyCounts
<1>4. f[Len(toBook)] \in Nat
  BY <1>2, <1>3 DEF IsTally
<1> QED BY <1>1, <1>3, <1>4 DEF Wallets, Position

LEMMA FitsByEngine ==
  ASSUME TypeOK, EngineActs, NEW w \in Wallets, Fits(w)
  PROVE  Fits(w)'
<1>1. CASE Dropped
  BY <1>1 DEF Fits, Dropped, resultVars
<1>2. ASSUME NEW s \in Order, Bought(s) \/ Sold(s) PROVE Fits(w)'
  <2> SUFFICES ASSUME NEW t \in Tickers
               PROVE  w.positions[t].qty + SharesIn(toBook', t) <= filled'[t]
    BY DEF Fits
  <2> DEFINE bought == IF s.dir = "BUY" /\ s.ticker = t THEN s.qty ELSE 0
  <2>1. filled'[t] = filled[t] + bought /\ bought \in Nat
    BY <1>2 DEF Bought, Sold, Order, TypeOK
  <2>2. \/ SharesIn(toBook', t) = SharesIn(toBook, t)
        \/ SharesIn(toBook', t) = SharesIn(toBook, t) + bought
    <3>1. CASE UNCHANGED toBook
      BY <3>1
    <3>2. CASE Reports(s)
      <4>1. PICK r \in Report : /\ r.dir = s.dir /\ r.ticker = s.ticker /\ r.qty = s.qty
                                /\ toBook' = Append(toBook, r)
        BY <3>2 DEF Reports, Emit
      <4>2. Shares(r, t) = bought
        BY <4>1 DEF Shares
      <4> QED BY <4>1, <4>2, SharesAppended DEF TypeOK
    <3> QED BY <1>2, <3>1, <3>2 DEF Bought, Sold, resultVars
  <2> HIDE DEF bought
  <2>3. w.positions[t].qty + SharesIn(toBook, t) <= filled[t]
    BY DEF Fits
  <2>4. w.positions[t].qty \in Nat /\ SharesIn(toBook, t) \in Nat /\ filled[t] \in Nat
    BY BackedNumbers
  <2> QED BY <2>1, <2>2, <2>3, <2>4
<1> QED BY <1>1, <1>2, EngineFacts

LEMMA FitsByBooking ==
  ASSUME TypeOK, OrchestratorBooks, NEW w \in Wallets, Fits(w),
         NEW v \in Wallets, v = w \/ v = Booked(w, Head(toBook))
  PROVE  \A t \in Tickers : v.positions[t].qty + SharesIn(toBook', t) <= filled'[t]
<1> TAKE t \in Tickers
<1> DEFINE r == Head(toBook)
<1>1. r \in Report /\ toBook # <<>> /\ toBook \in Seq(Report) /\ toBook' = Tail(toBook)
      /\ filled' = filled
  BY OrchestratorFacts DEF engineVars
<1>2. /\ SharesIn(toBook', t) \in Nat /\ Shares(r, t) \in Nat
      /\ SharesIn(toBook, t) = Shares(r, t) + SharesIn(toBook', t)
  BY <1>1, SharesTaken, SharesType
<1>3. w.positions[t].qty \in Nat /\ v.positions[t].qty \in Nat /\ filled[t] \in Nat
  BY BackedNumbers
<1> HIDE DEF r
<1>4. v.positions[t].qty <= w.positions[t].qty + Shares(r, t)
  <2>1. CASE v = w
    BY <1>2, <1>3, <2>1
  <2>2. CASE v = Booked(w, r) /\ t = r.ticker
    <3>1. Booked(w, r).positions[r.ticker].qty <= w.positions[r.ticker].qty + Shares(r, r.ticker)
      BY <1>1, BookedFacts
    <3> QED BY <2>2, <3>1
  <2>3. CASE v = Booked(w, r) /\ t # r.ticker
    <3>1. \A u \in Tickers \ {r.ticker} : Booked(w, r).positions[u] = w.positions[u]
      BY <1>1, BookedFacts
    <3>2. v.positions[t] = w.positions[t]
      BY <2>3, <3>1
    <3> QED BY <1>2, <1>3, <3>2
  <2> QED BY <2>1, <2>2, <2>3 DEF r
<1>5. w.positions[t].qty + SharesIn(toBook, t) <= filled[t]
  BY DEF Fits
<1> QED BY <1>1, <1>2, <1>3, <1>4, <1>5

(* A new wallet fits, and so does one with positions of two that do.        *)
LEMMA PartsFit ==
  ASSUME TypeOK, NEW v \in Wallets, NEW w \in Wallets, Fits(v), Fits(w), NEW u \in Wallets,
         \A t \in Tickers : u.positions[t] \in {v.positions[t], w.positions[t], NoPos}
  PROVE  Fits(u)
<1> SUFFICES ASSUME NEW t \in Tickers
             PROVE  u.positions[t].qty + SharesIn(toBook, t) <= filled[t]
  BY DEF Fits
<1>1. CASE u.positions[t] \in {v.positions[t], w.positions[t]}
  <2>1. u.positions[t].qty \in {v.positions[t].qty, w.positions[t].qty}
    BY <1>1
  <2> QED BY <2>1 DEF Fits
<1>2. CASE u.positions[t] = NoPos
  <2>1. u.positions[t].qty = 0
    BY <1>2 DEF NoPos
  <2>2. v.positions[t].qty \in Nat /\ SharesIn(toBook, t) \in Nat /\ filled[t] \in Nat
    BY BackedNumbers
  <2>3. v.positions[t].qty + SharesIn(toBook, t) <= filled[t]
    BY DEF Fits
  <2> QED BY <2>1, <2>2, <2>3
<1> QED BY <1>1, <1>2

LEMMA FreshFits ==
  ASSUME TypeOK, Fits(wallet)
  PROVE  Fits(Fresh(Cash))
<1>1. wallet \in Wallets /\ Fresh(Cash) \in Wallets
  BY FreshIsWallet DEF TypeOK
<1>2. \A t \in Tickers : Fresh(Cash).positions[t] = NoPos
  BY DEF Fresh
<1> QED BY <1>1, <1>2, PartsFit

(* However results are lost, refused or overtaken by a restart, and wallets  *)
(* are saved by halves, loaded or reset, none of them holds shares that the  *)
(* engine did not buy, nor will it once all that is on its way is booked     *)
(* (router.py:300-356, wallet.py:81-108, strategy.py:867-933).               *)
THEOREM WalletHoldsWhatWasBought == Spec => []WalletIsBacked
<1>1. Init => WalletIsBacked
  <2> SUFFICES ASSUME Init, NEW t \in Tickers, NEW w \in {wallet, books, disk}
               PROVE  w.positions[t].qty + OnTheWay(t) <= filled[t]
    BY DEF WalletIsBacked
  <2>1. w.positions[t].qty = 0 /\ filled[t] = 0 /\ toBook = <<>>
    BY DEF Init, Fresh, NoPos
  <2>2. OnTheWay(t) = 0
    BY <2>1, NothingSent DEF OnTheWay
  <2> QED BY <2>1, <2>2
<1>2. TypeOK /\ WalletIsBacked /\ [Next]_vars => WalletIsBacked'
  <2> SUFFICES ASSUME TypeOK, WalletIsBacked, [Next]_vars PROVE WalletIsBacked'
    OBVIOUS
  <2>1. /\ wallet \in Wallets /\ books \in Wallets /\ disk \in Wallets
        /\ Fits(wallet) /\ Fits(books) /\ Fits(disk) /\ Fits(Fresh(Cash))
    BY WalletsFit, FreshFits DEF TypeOK
  <2>2. ASSUME UNCHANGED <<toBook, filled>>,
               Fits(wallet'), Fits(books'), Fits(disk')
        PROVE  WalletIsBacked'
    BY <2>2 DEF WalletIsBacked, Fits, OnTheWay
  <2>3. CASE EngineActs
    <3>1. UNCHANGED walletVars
      BY <2>3, EngineFacts
    <3>2. \A w \in Wallets : Fits(w) =>
             \A t \in Tickers : w.positions[t].qty + SharesIn(toBook', t) <= filled'[t]
      BY <2>3, FitsByEngine DEF Fits
    <3> QED BY <2>1, <3>1, <3>2 DEF WalletIsBacked, OnTheWay, walletVars
  <2>4. CASE OrchestratorBooks
    <3>1. /\ wallet' = wallet \/ wallet' = Booked(wallet, Head(toBook))
          /\ books' = books \/ books' = Booked(books, Head(toBook))
          /\ wallet' \in Wallets /\ books' \in Wallets /\ disk' = disk
      BY <2>4, OrchestratorFacts
    <3>2. \A t \in Tickers : wallet'.positions[t].qty + SharesIn(toBook', t) <= filled'[t]
      BY <2>1, <2>4, <3>1, FitsByBooking
    <3>3. \A t \in Tickers : books'.positions[t].qty + SharesIn(toBook', t) <= filled'[t]
      BY <2>1, <2>4, <3>1, FitsByBooking
    <3>4. \A t \in Tickers : disk.positions[t].qty + SharesIn(toBook', t) <= filled'[t]
      BY <2>1, <2>4, FitsByBooking
    <3> QED BY <3>1, <3>2, <3>3, <3>4 DEF WalletIsBacked, OnTheWay
  <2>5. CASE Start
    BY <2>1, <2>2, <2>5 DEF Start, LoadWallet, engineVars, resultVars
  <2>6. CASE SaveWallet \/ ResetWallet
    BY <2>1, <2>2, <2>6 DEF SaveWallet, ResetWallet, pipeVars, engineVars, resultVars
  <2>7. CASE \E kind \in {"crash", "shutdown"} : Stop(kind)
    <3>1. /\ UNCHANGED <<wallet, books, toBook, filled>>
          /\ disk' = disk \/ disk' \in CutShort
      BY <2>7 DEF Stop, engineVars
    <3>2. Fits(disk')
      <4>1. CASE disk' = disk
        BY <2>1, <4>1
      <4>2. CASE disk' \in CutShort
        BY <2>1, <4>2, CutShortFacts, PartsFit
      <4> QED BY <3>1, <4>1, <4>2
    <3> QED BY <2>1, <2>2, <3>1, <3>2
  <2>8. CASE EngineEnds \/ EngineStarts
    BY <2>1, <2>2, <2>8 DEF EngineEnds, EngineStarts, Quiet, walletVars, resultVars
  <2>9. CASE UNCHANGED <<walletVars, held, stored, toBook, filled, missed>>
    BY <2>1, <2>2, <2>9 DEF walletVars
  <2> QED BY <2>3, <2>4, <2>5, <2>6, <2>7, <2>8, <2>9, PipeAlone
<1> QED BY <1>1, <1>2, TypeCorrect, PTL DEF Spec

===============================================================================
