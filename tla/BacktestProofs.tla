---------------------------- MODULE BacktestProofs ----------------------------
(***************************************************************************)
(* Theorems about Backtest, for every capital, position size, limit and    *)
(* threshold, every set of prices and any number of tickers and bars.      *)
(* What RSI and drop compute is never looked at.                           *)
(***************************************************************************)
EXTENDS Backtest, TLAPS

USE PricesAssumption, SizesAssumption

-------------------------------------------------------------------------------
(* What one bar makes of a book.                                             *)

(* The product of two natural numbers is one, and zero only if a factor is. *)
LEMMA Products ==
  ASSUME NEW a \in Nat, NEW b \in Nat
  PROVE  a * b \in Nat /\ (a > 0 /\ b > 0 => a * b > 0)
OBVIOUS

(* At least one share is bought.                                            *)
LEMMA QuantityIsPositive ==
  ASSUME NEW b \in Books, NEW price \in Nat \ {0}
  PROVE  Quantity(b, price) \in Nat /\ Quantity(b, price) > 0
<1>1. SizeDivisor * price \in Nat /\ SizeDivisor * price > 0
  BY Products
<1>2. b.wallet \in Int
  BY DEF Books
<1>3. b.wallet \div (SizeDivisor * price) \in Int
  BY <1>1, <1>2
<1> QED BY <1>3 DEF Quantity

(* A sale turns the position into money and its gain into profit.           *)
LEMMA SaleFacts ==
  ASSUME NEW b \in Books, NEW price \in Nat
  PROVE  /\ Sold(b, price) \in Books /\ ~Holds(Sold(b, price))
         /\ Sold(b, price).wallet >= b.wallet
         /\ Sold(b, price).invested = b.invested - b.pos.qty * b.pos.entry
         /\ Sold(b, price).pos = NoPos
         /\ Sold(b, price).wallet + Sold(b, price).invested
              = b.wallet + b.invested + b.pos.qty * (price - b.pos.entry)
         /\ Sold(b, price).pnl = b.pnl + b.pos.qty * (price - b.pos.entry)
<1>1. b.pos.qty \in Nat /\ b.pos.entry \in Nat /\ b.wallet \in Int /\ b.invested \in Int
      /\ b.pnl \in Int
  BY DEF Books, Places
<1>2. b.pos.qty * price \in Nat /\ b.pos.qty * b.pos.entry \in Nat
  BY <1>1, Products
<1>3. b.pos.qty * (price - b.pos.entry) = b.pos.qty * price - b.pos.qty * b.pos.entry
  BY <1>1
<1>4. NoPos \in Places /\ NoPos.qty = 0
  BY DEF NoPos, Places
<1>5. Sold(b, price) \in Books /\ Sold(b, price).pos = NoPos
  <2> DEFINE back == b.pos.qty * price
             cost == b.pos.qty * b.pos.entry
             gain == b.pos.qty * (price - b.pos.entry)
  <2>1. back \in Int /\ cost \in Int /\ gain \in Int
    BY <1>2, <1>3
  <2>2. Sold(b, price) = [wallet |-> b.wallet + back, invested |-> b.invested - cost,
                          pos |-> NoPos, pnl |-> b.pnl + gain]
    BY DEF Sold
  <2> HIDE DEF back, cost, gain
  <2>3. b.wallet + back \in Int /\ b.invested - cost \in Int /\ b.pnl + gain \in Int
    BY <1>1, <2>1
  <2> QED BY <1>4, <2>2, <2>3 DEF Books
<1>6. /\ Sold(b, price).wallet = b.wallet + b.pos.qty * price
      /\ Sold(b, price).invested = b.invested - b.pos.qty * b.pos.entry
      /\ Sold(b, price).pnl = b.pnl + b.pos.qty * (price - b.pos.entry)
  BY DEF Sold
<1> QED BY <1>1, <1>2, <1>3, <1>4, <1>5, <1>6 DEF Holds

(* The profits of a book are what its capital has become, what it invested  *)
(* is the cost of its position, and it owes nothing.                        *)
Sound(b) ==
    /\ b \in Books /\ b.wallet + b.invested = Capital + b.pnl /\ b.wallet >= 0
    /\ b.invested = b.pos.qty * b.pos.entry

(* The position of a book is in the band its exits leave at a price.        *)
InBand(b, price) ==
    Holds(b) => /\ Gain(b.pos, price) < TakeProfit * b.pos.entry
                /\ Gain(b.pos, price) > 0 - StopLoss * b.pos.entry
                /\ Gain(b.pos, price) >= 50 * b.pos.entry => price * 100 > b.pos.highest * 97

LEMMA SaleIsSound ==
  ASSUME NEW b, Sound(b), NEW price \in Nat
  PROVE  Sound(Sold(b, price)) /\ ~Holds(Sold(b, price))
<1> DEFINE gain == b.pos.qty * (price - b.pos.entry)
           cost == b.pos.qty * b.pos.entry
           sold == Sold(b, price)
<1>1. b \in Books /\ b.wallet \in Int /\ b.invested \in Int /\ b.pnl \in Int
      /\ b.wallet + b.invested = Capital + b.pnl /\ b.wallet >= 0 /\ b.invested = cost
  BY DEF Sound, Books
<1>2. gain \in Int
  BY <1>1 DEF Books, Places
<1>3. sold \in Books /\ ~Holds(sold) /\ sold.wallet >= b.wallet /\ sold.pnl = b.pnl + gain
      /\ sold.wallet + sold.invested = b.wallet + b.invested + gain
      /\ sold.invested = b.invested - cost /\ sold.pos = NoPos
  BY <1>1, SaleFacts
<1>4. sold.wallet \in Int /\ sold.invested \in Int /\ sold.pnl \in Int
  BY <1>3 DEF Books
<1> HIDE DEF gain, sold, cost
<1>5. sold.invested = 0 /\ sold.pos.qty * sold.pos.entry = 0
  <2>1. NoPos.qty * NoPos.entry = 0
    BY DEF NoPos
  <2> QED BY <1>1, <1>3, <2>1
<1>6. Sound(sold) /\ ~Holds(sold)
  BY <1>1, <1>2, <1>3, <1>4, <1>5 DEF Sound
<1> QED BY <1>6 DEF sold

LEMMA ExitFacts ==
  ASSUME NEW b, Sound(b), NEW price \in Nat \ {0}
  PROVE  Sound(Exited(b, price)) /\ InBand(Exited(b, price), price)
<1> DEFINE higher == [b EXCEPT !.pos.highest = IF price > @ THEN price ELSE @]
<1>1. b \in Books /\ b.pos \in Places /\ b.pos.qty \in Nat /\ b.pos.entry \in Nat
      /\ b.wallet \in Int /\ b.invested \in Int /\ b.pnl \in Int /\ b.pos.highest \in Nat
  BY DEF Sound, Books, Places
<1>2. CASE ~Holds(b)
  BY <1>2 DEF Exited, InBand
<1>3. CASE Holds(b) /\ Sells(higher.pos, price)
  <2>1. Exited(b, price) = Sold(b, price)
    BY <1>3 DEF Exited
  <2>2. Sound(Sold(b, price)) /\ ~Holds(Sold(b, price))
    BY SaleIsSound
  <2> QED BY <2>1, <2>2 DEF InBand
<1>4. CASE Holds(b) /\ ~Sells(higher.pos, price)
  <2>1. Exited(b, price) = higher
    BY <1>4 DEF Exited
  <2>2. higher \in Books /\ higher.wallet = b.wallet /\ higher.invested = b.invested
        /\ higher.pnl = b.pnl /\ higher.pos.entry = b.pos.entry
        /\ higher.pos.qty = b.pos.qty /\ higher.pos.highest \in Nat
    BY <1>1 DEF Books, Places
  <2>3. Sound(higher)
    BY <2>2 DEF Sound
  <2>4. Gain(higher.pos, price) \in Int /\ TakeProfit * higher.pos.entry \in Int
        /\ 0 - StopLoss * higher.pos.entry \in Int
    BY <1>1, <2>2 DEF Gain
  <2>5. Gain(higher.pos, price) >= 50 * higher.pos.entry
          => price * 100 > higher.pos.highest * 97
    <3> SUFFICES ASSUME ~(price * 100 <= higher.pos.highest * 97)
                 PROVE  price * 100 > higher.pos.highest * 97
      BY <1>4 DEF Sells
    <3> DEFINE top == higher.pos.highest
    <3>1. top \in Nat
      BY <2>2
    <3> HIDE DEF top
    <3>2. ~(price * 100 <= top * 97) => price * 100 > top * 97
      BY <3>1
    <3> QED BY <3>2 DEF top
  <2>6. /\ Gain(higher.pos, price) < TakeProfit * higher.pos.entry
        /\ Gain(higher.pos, price) > 0 - StopLoss * higher.pos.entry
    BY <1>4, <2>4 DEF Sells
  <2> HIDE DEF higher
  <2>7. InBand(higher, price)
    BY <2>5, <2>6 DEF InBand
  <2> QED BY <2>1, <2>3, <2>7
<1> QED BY <1>2, <1>3, <1>4

LEMMA EntryFacts ==
  ASSUME NEW b, Sound(b), NEW seen \in Seq(Prices), NEW price \in Nat \ {0},
         Last(seen) = price, MayEnter(b, seen)
  PROVE  /\ Sound(Entered(b, price)) /\ InBand(Entered(b, price), price)
<1> DEFINE qty  == Quantity(b, price)
           cost == qty * price
           new  == Entered(b, price)
<1>1. b.wallet \in Int /\ b.pnl \in Int /\ b \in Books /\ b.invested = 0
  <2>1. b.pos.qty = 0 /\ b.pos.entry \in Nat
    BY DEF Sound, Books, Places, MayEnter, Holds
  <2>2. b.pos.qty * b.pos.entry = 0
    BY <2>1
  <2> QED BY <2>2 DEF Sound, Books
<1>2. qty \in Nat /\ cost \in Nat
  BY <1>1, QuantityIsPositive, Products
<1>3. cost <= b.wallet
  BY DEF MayEnter
<1>4. new \in Books /\ new.wallet = b.wallet - cost /\ new.invested = b.invested + cost
      /\ new.pnl = b.pnl /\ new.pos.entry = price /\ new.pos.highest = price
      /\ new.pos.qty * new.pos.entry = cost
  <2>1. new = [wallet |-> b.wallet - cost, invested |-> b.invested + cost,
               pos |-> [qty |-> qty, entry |-> price, highest |-> price], pnl |-> b.pnl]
    BY DEF Entered
  <2>0. new.pos.qty * new.pos.entry = cost
    BY <2>1
  <2> HIDE DEF new, cost, qty
  <2>2. b.wallet - cost \in Int /\ b.invested + cost \in Int
    BY <1>1, <1>2
  <2>3. [qty |-> qty, entry |-> price, highest |-> price] \in Places
    BY <1>2 DEF Places
  <2> QED BY <1>1, <2>0, <2>1, <2>2, <2>3 DEF Books
<1>5. Sound(new)
  BY <1>1, <1>2, <1>3, <1>4 DEF Sound
<1>6. TakeProfit * price > 0 /\ StopLoss * price > 0
  BY Products
<1>7. Gain(new.pos, price) = 0
  BY <1>4 DEF Gain
<1>8. TakeProfit * price \in Int /\ StopLoss * price \in Int
  OBVIOUS
<1>9. ~(0 >= 50 * price)
  OBVIOUS
<1>10. InBand(new, price)
  BY <1>4, <1>6, <1>7, <1>8, <1>9 DEF InBand
<1> QED BY <1>5, <1>10

(* The history takes the price at its end.                                  *)
LEMMA HistoryFacts ==
  ASSUME NEW s \in Seq(Prices), NEW price \in Prices
  PROVE  /\ Remembered(s, price) \in Seq(Prices)
         /\ Remembered(s, price) # <<>>
         /\ Last(Remembered(s, price)) = price
<1>1. CASE Len(s) < History
  BY <1>1 DEF Remembered, Last
<1>2. CASE ~(Len(s) < History)
  <2>1. s # <<>>
    BY <1>2
  <2>2. Tail(s) \in Seq(Prices)
    BY <2>1
  <2>3. Remembered(s, price) = Append(Tail(s), price)
    BY <1>2 DEF Remembered
  <2> DEFINE rest == Tail(s)
  <2> HIDE DEF rest
  <2>4. rest \in Seq(Prices)
    BY <2>2 DEF rest
  <2>5. /\ Append(rest, price) \in Seq(Prices) /\ Append(rest, price) # <<>>
        /\ Append(rest, price)[Len(Append(rest, price))] = price
    BY <2>4
  <2> QED BY <2>3, <2>5 DEF Last, rest
<1> QED BY <1>1, <1>2

-------------------------------------------------------------------------------
(* The inductive invariant: types, and beside the properties themselves that *)
(* the curve has reached the equity of the last close.                       *)

CurveFollows == last \in Prices => curve = EquityAt(book, last)

Inv == TypeOK /\ Sound(book) /\ HeldInBand /\ Accounted /\ CurveFollows /\ CurveEndsInResult

LEMMA FreshIsSound == Sound(FreshBook) /\ ~Holds(FreshBook)
BY DEF Sound, FreshBook, NoPos, Books, Places, Holds

LEMMA EquityIsInt ==
  ASSUME NEW b \in Books, NEW price \in Nat
  PROVE  EquityAt(b, price) \in Int
BY DEF EquityAt, Books, Places

LEMMA InitInv == Init => Inv
<1> SUFFICES ASSUME Init PROVE Inv
  OBVIOUS
<1> USE FreshIsSound DEF Init
<1>1. TypeOK
  <2>1. <<>> \in Seq(Prices) /\ <<>> \in Seq(Outcomes)
    OBVIOUS
  <2> QED BY <2>1 DEF TypeOK, Sound
<1>2. Accounted
  BY DEF Accounted, Sound
<1> QED BY <1>1, <1>2 DEF Inv, HeldInBand, CurveFollows, CurveEndsInResult

LEMMA NextInv == Inv /\ [Next]_vars => Inv'
<1> SUFFICES ASSUME Inv, [Next]_vars PROVE Inv'
  OBVIOUS
<1>0. /\ pc \in {"next", "replay", "report", "failed"} /\ left \in 0 .. MaxTickers
      /\ bar \in 0 .. MaxBars /\ last \in Prices \cup {0, NaN} /\ prices \in Seq(Prices)
      /\ book \in Books /\ curve \in Int /\ results \in Seq(Outcomes)
  BY DEF Inv, TypeOK
<1>1. CASE StartTicker
  <2>1. <<>> \in Seq(Prices)
    OBVIOUS
  <2>2. TypeOK'
    BY <1>0, <1>1, <2>1, FreshIsSound DEF StartTicker, TypeOK, Sound
  <2>3. Sound(book)' /\ HeldInBand'
    BY <1>1, FreshIsSound DEF StartTicker, HeldInBand, Sound, Holds
  <2>4. Accounted' /\ CurveEndsInResult'
    BY <1>1, FreshIsSound DEF StartTicker, Inv, Accounted, CurveEndsInResult, Sound
  <2> QED BY <1>1, <2>2, <2>3, <2>4 DEF Inv, StartTicker, CurveFollows
<1>2. CASE SkipTicker
  BY <1>0, <1>2 DEF SkipTicker, Inv, TypeOK, Sound, HeldInBand, Accounted, CurveFollows,
                    CurveEndsInResult, Holds, Gain, EquityAt
<1>3. CASE MissingBar
  BY <1>0, <1>3 DEF MissingBar, Inv, TypeOK, Sound, HeldInBand, Accounted, CurveFollows,
                    CurveEndsInResult, Holds, Gain, EquityAt
<1>4. CASE Bar
  <2>1. PICK price \in Prices :
          LET seen == Remembered(prices, price)
              b    == Exited(book, price)
          IN  /\ last' = price /\ prices' = seen
              /\ \/ book' = b
                 \/ MayEnter(b, seen) /\ book' = Entered(b, price)
              /\ curve' = EquityAt(book', price)
    BY <1>4 DEF Bar
  <2> DEFINE seen == Remembered(prices, price)
             b    == Exited(book, price)
  <2>2. seen \in Seq(Prices) /\ Last(seen) = price
    BY <1>0, HistoryFacts
  <2>3. Sound(b) /\ InBand(b, price)
    BY ExitFacts DEF Inv
  <2>4. Sound(book') /\ InBand(book', price)
    BY <2>1, <2>2, <2>3, EntryFacts
  <2>5. book' \in Books
    BY <2>4 DEF Sound
  <2>6. EquityAt(book', price) \in Int
    BY <2>5, EquityIsInt
  <2>7. TypeOK'
    BY <1>0, <1>4, <2>1, <2>2, <2>5, <2>6 DEF Bar, TypeOK
  <2>8. HeldInBand'
    BY <2>1, <2>2, <2>4 DEF HeldInBand, InBand
  <2>9. Accounted' /\ CurveEndsInResult'
    BY <1>4, <2>4 DEF Bar, Inv, Accounted, CurveEndsInResult, Sound
  <2>10. CurveFollows'
    BY <2>1 DEF CurveFollows
  <2> QED BY <2>4, <2>7, <2>8, <2>9, <2>10 DEF Inv
<1>5. CASE EndTicker
  <2>1. CASE Holds(book) /\ last = NaN
    BY <1>0, <1>5, <2>1 DEF EndTicker, Inv, TypeOK, Sound, HeldInBand, Accounted, CurveFollows,
                    CurveEndsInResult, Holds, Gain, EquityAt
  <2>2. CASE ~(Holds(book) /\ last = NaN)
    <3> DEFINE b == IF Holds(book) THEN Sold(book, last) ELSE book
               result == [pnl |-> b.pnl, final |-> b.wallet + b.invested,
                          curve |-> curve, last |-> last]
    <3>1. book' = b /\ results' = Append(results, result) /\ pc' = "next"
          /\ UNCHANGED <<left, bar, last, prices, curve>>
      BY <1>5, <2>2 DEF EndTicker
    <3>2. book.wallet \in Int /\ book.invested \in Int /\ book.pnl \in Int
          /\ book.pos.qty \in Nat /\ book.pos.entry \in Nat
      BY <1>0 DEF Books, Places
    <3>3. Holds(book) => last \in Nat
      BY <1>0, <2>2
    <3>4. Sound(b) /\ ~Holds(b)
      <4>1. CASE Holds(book)
        BY <3>3, <4>1, SaleIsSound DEF Inv
      <4>2. CASE ~Holds(book)
        BY <4>2 DEF Inv
      <4> QED BY <4>1, <4>2
    <3>5. b.wallet \in Int /\ b.invested \in Int /\ b.pnl \in Int /\ b.pos.qty = 0
      BY <3>4 DEF Sound, Books, Places, Holds
    <3>6. result \in Outcomes
      BY <1>0, <3>5 DEF Outcomes
    <3>7. TypeOK'
      BY <1>0, <3>1, <3>4, <3>6 DEF TypeOK, Sound
    <3>8. HeldInBand' /\ Sound(book)'
      BY <3>1, <3>4 DEF HeldInBand, Sound, Holds
    <3>9. Accounted'
      BY <1>0, <3>1, <3>4, <3>6 DEF Inv, Accounted, Sound
    <3>10. last \in Prices => curve = b.wallet + b.invested
      <4>1. ASSUME last \in Prices, Holds(book) PROVE curve = b.wallet + b.invested
        BY <1>0, <3>3, <4>1, SaleFacts DEF Inv, CurveFollows, EquityAt
      <4>2. ASSUME last \in Prices, ~Holds(book) PROVE curve = b.wallet + b.invested
        <5>1. last \in Int
          BY <4>2
        <5>2. book.pos.qty = 0
          BY <3>2, <4>2 DEF Holds
        <5>3. book.pos.qty * (last - book.pos.entry) = 0
          BY <3>2, <5>1, <5>2
        <5> QED BY <3>2, <4>2, <5>3 DEF Inv, CurveFollows, EquityAt
      <4> QED BY <4>1, <4>2
    <3>11. CurveFollows'
      <4>1. ASSUME last \in Prices PROVE EquityAt(b, last) = b.wallet + b.invested
        <5>1. last \in Int /\ b.pos.entry \in Int
          BY <3>4, <4>1 DEF Sound, Books, Places
        <5>2. b.pos.qty * (last - b.pos.entry) = 0
          BY <3>5, <5>1
        <5> QED BY <3>5, <5>2 DEF EquityAt
      <4> QED BY <3>1, <3>10, <4>1 DEF CurveFollows
    <3>12. CurveEndsInResult'
      BY <1>0, <3>1, <3>6, <3>10 DEF Inv, CurveEndsInResult
    <3> QED BY <3>7, <3>8, <3>9, <3>11, <3>12 DEF Inv
  <2> QED BY <2>1, <2>2
<1>6. CASE Aggregate
  BY <1>0, <1>6 DEF Aggregate, Inv, TypeOK, Sound, HeldInBand, Accounted, CurveFollows,
                    CurveEndsInResult, Holds, Gain, EquityAt
<1>7. CASE UNCHANGED vars
  BY <1>0, <1>7 DEF vars, Inv, TypeOK, Sound, HeldInBand, Accounted, CurveFollows,
                    CurveEndsInResult, Holds, Gain, EquityAt
<1> QED BY <1>1, <1>2, <1>3, <1>4, <1>5, <1>6, <1>7 DEF Next

LEMMA InvHolds == Spec => []Inv
BY InitInv, NextInv, PTL DEF Spec

-------------------------------------------------------------------------------
(* Everything keeps its type: in particular no quantity, and no entry price, *)
(* is ever below zero.  That cash is not either is NothingIsBorrowed, and    *)
(* with ProfitsAreAccounted what is invested is the cost of what is held.    *)
THEOREM TypeCorrect == Spec => []TypeOK
<1>1. Inv => TypeOK
  BY DEF Inv
<1> QED BY <1>1, InvHolds, PTL

(* The profits of the trades are what the capital has become, at every bar   *)
(* and in every result that _aggregate adds up; what is invested is the cost *)
(* of the position held.                                                     *)
THEOREM ProfitsAreAccounted == Spec => []Accounted
<1>1. Inv => Accounted
  BY DEF Inv
<1> QED BY <1>1, InvHolds, PTL

(* However large the share of the capital and however dear the ticker, the   *)
(* replay never spends what it does not have.                                *)
THEOREM NothingIsBorrowed == Spec => []NeverBorrows
<1>1. Inv => NeverBorrows
  BY DEF Inv, Sound, NeverBorrows
<1> QED BY <1>1, InvHolds, PTL

(* No position outlives a bar beyond its take profit or its stop loss, or    *)
(* beyond the trailing stop of one that has gained 5 %.                      *)
THEOREM ExitsComeFirst == Spec => []HeldInBand
<1>1. Inv => HeldInBand
  BY DEF Inv
<1> QED BY <1>1, InvHolds, PTL

(* The curve of a result whose last close is not missing ends in its final   *)
(* equity; with a missing one it need not (the last bar is passed over).     *)
THEOREM CurvesEndInResults == Spec => []CurveEndsInResult
<1>1. Inv => CurveEndsInResult
  BY DEF Inv
<1> QED BY <1>1, InvHolds, PTL

===============================================================================
