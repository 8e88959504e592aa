------------------------------- MODULE Backtest -------------------------------
(***************************************************************************)
(* The replay of src/app/backtest.py behind POST /backtest: one ticker     *)
(* after the other, each with the whole capital, bar by bar; exits before  *)
(* entries, the position left at the end sold at the last close.           *)
(*                                                                         *)
(* Prices are whole numbers, percentages thousandths.  A close may be      *)
(* missing: zero (or below) or NaN.  The RSI of the whole history and the  *)
(* drop since its first price are computed; the RSI on three time frames   *)
(* and the MACD answer anything.                                           *)
(***************************************************************************)
EXTENDS Integers, SequencesExt

CONSTANTS
    Prices,         \* closes of valid bars
    NaN,            \* a close that is no number
    Capital,        \* initial_capital
    SizeDivisor,    \* 100 / position_size_pct
    MaxPositions,   \* max_positions; one ticker can only fill one place
    TakeProfit,     \* take_profit_pct, in thousandths
    StopLoss,       \* stop_loss_pct, in thousandths
    Oversold,       \* rsi_oversold
    MinDrop,        \* min_drop_pct, in thousandths
    RsiPeriod,      \* rsi_period
    Frames,         \* 30, backtest.py:205
    History,        \* 200, backtest.py:88
    MaxTickers,     \* bound: tickers asked for (10, router.py:601)
    MaxBars         \* bound: bars of a ticker after the first thirty

ASSUME PricesAssumption == Prices \subseteq Nat \ {0} /\ NaN \notin Nat
ASSUME SizesAssumption ==
    /\ Capital \in Nat /\ SizeDivisor \in Nat \ {0} /\ MaxPositions \in Nat
    /\ TakeProfit \in Nat \ {0} /\ StopLoss \in Nat \ {0}
    /\ Oversold \in 0 .. 100 /\ MinDrop \in Nat
    /\ RsiPeriod \in Nat /\ Frames \in Nat /\ History \in Nat \ {0}
    /\ MaxTickers \in Nat \ {0} /\ MaxBars \in Nat

VARIABLES
    pc,        \* "next" ticker, "replay", "report", or "failed" (status 500)
    left,      \* tickers still to replay
    bar,       \* bars read of the present one
    last,      \* closes[-1], as far as it has been read
    prices,    \* price_history
    book,      \* [wallet, invested, pos, pnl]; pnl is the sum over `trades`
    curve,     \* last entry of equity_curve
    results    \* of the tickers done: [pnl, final, curve]

vars == <<pc, left, bar, last, prices, book, curve, results>>

NoPos == [qty |-> 0, entry |-> 0, highest |-> 0]
FreshBook == [wallet |-> Capital, invested |-> 0, pos |-> NoPos, pnl |-> 0]

Init ==
    /\ pc = "next" /\ left \in 1 .. MaxTickers
    /\ bar = 0 /\ last = 0 /\ prices = <<>>
    /\ book = FreshBook /\ curve = Capital
    /\ results = <<>>

-------------------------------------------------------------------------------
(* One bar.                                                                  *)

Holds(b) == b.pos.qty > 0

\* pos_pnl_pct, in thousandths, times the entry price
Gain(pos, price) == (price - pos.entry) * 1000

\* Take profit, stop loss, and the two trailing stops: at +2 % the first asks
\* for current <= entry, and the second is for a take profit above 5 %.
Sells(pos, price) ==
    \/ Gain(pos, price) >= TakeProfit * pos.entry
    \/ Gain(pos, price) <= 0 - StopLoss * pos.entry
    \/ Gain(pos, price) >= 20 * pos.entry /\ price <= pos.entry
    \/ Gain(pos, price) >= 50 * pos.entry /\ price * 100 <= pos.highest * 97

\* Mutant of Sold: what was invested is not taken down.
SoldKeepsInvested(b, price) ==
    [b EXCEPT !.wallet = @ + b.pos.qty * price,
              !.pnl    = @ + b.pos.qty * (price - b.pos.entry),
              !.pos    = NoPos]

Sold(b, price) ==
    [wallet   |-> b.wallet + b.pos.qty * price,
     invested |-> b.invested - b.pos.qty * b.pos.entry,
     pos      |-> NoPos,
     pnl      |-> b.pnl + b.pos.qty * (price - b.pos.entry)]

Exited(b, price) ==
    LET higher == [b EXCEPT !.pos.highest = IF price > @ THEN price ELSE @]
    IN  IF ~Holds(b) THEN b
        ELSE IF Sells(higher.pos, price) THEN Sold(b, price) ELSE higher

Moves(s, sign) ==
    LET Move(i) == sign * (s[i + 1] - s[i])
    IN  FoldFunction(+, 0, [i \in 1 .. Len(s) - 1 |-> IF Move(i) > 0 THEN Move(i) ELSE 0])
Gains(s)  == Moves(s, 1)
Losses(s) == Moves(s, 0 - 1)

\* _calc_rsi(prices) < rsi_oversold: 100 - 100 / (1 + gain / loss), or 100
\* without a loss, or 50 with a single price.
RsiLow(s) ==
    IF Len(s) < 2 THEN 50 < Oversold
    ELSE Losses(s) > 0 /\ 100 * Gains(s) < Oversold * (Gains(s) + Losses(s))

Dropped(s) == (Last(s) - Head(s)) * 1000 < 0 - MinDrop * Head(s)

\* qty = max(1, int(notional / current))
Quantity(b, price) ==
    LET n == b.wallet \div (SizeDivisor * price) IN IF n > 1 THEN n ELSE 1

\* Mutant of MayEnter: one share is bought whatever is left.
MayEnterBroke(b, s) ==
    /\ ~Holds(b) /\ MaxPositions > 0
    /\ Len(s) >= RsiPeriod /\ RsiLow(s) /\ Dropped(s) /\ Len(s) >= Frames

MayEnter(b, s) ==
    /\ ~Holds(b) /\ MaxPositions > 0
    /\ Len(s) >= RsiPeriod /\ RsiLow(s) /\ Dropped(s) /\ Len(s) >= Frames
    /\ Quantity(b, Last(s)) * Last(s) <= b.wallet

Entered(b, price) ==
    LET cost == Quantity(b, price) * price
    IN  [wallet |-> b.wallet - cost, invested |-> b.invested + cost,
         pos |-> [qty |-> Quantity(b, price), entry |-> price, highest |-> price],
         pnl |-> b.pnl]

\* wallet + invested + unrealized
EquityAt(b, price) == b.wallet + b.invested + b.pos.qty * (price - b.pos.entry)

Remembered(s, price) ==
    IF Len(s) < History THEN Append(s, price) ELSE Append(Tail(s), price)

-------------------------------------------------------------------------------
\* _backtest_ticker: enough rows have come.
StartTicker ==
    /\ pc = "next" /\ left > 0
    /\ left' = left - 1 /\ pc' = "replay"
    /\ bar' = 0 /\ last' = 0 /\ prices' = <<>>
    /\ book' = FreshBook /\ curve' = Capital
    /\ UNCHANGED results

\* No rows or too few, or an exception on the way: the ticker is left out.
SkipTicker ==
    /\ \/ pc = "next" /\ left > 0 /\ left' = left - 1
       \/ pc = "replay" /\ UNCHANGED left
    /\ pc' = "next"
    /\ UNCHANGED <<bar, last, prices, book, curve, results>>

\* A missing close is passed over, whatever is held.
MissingBar ==
    /\ pc = "replay" /\ bar < MaxBars
    /\ bar' = bar + 1 /\ last' \in {0, NaN}
    /\ UNCHANGED <<pc, left, prices, book, curve, results>>

\* Mutant of Bar: the entry is looked at first, and the exit only without one.
BarEntersFirst ==
    /\ pc = "replay" /\ bar < MaxBars
    /\ bar' = bar + 1
    /\ \E price \in Prices :
       LET seen == Remembered(prices, price) IN
       /\ last' = price /\ prices' = seen
       /\ IF RsiLow(seen) /\ Dropped(seen)
          THEN book' \in {book} \cup {Entered(book, p) : p \in
                                    {q \in {price} : MayEnter(book, seen)}}
          ELSE book' = Exited(book, price)
       /\ curve' = EquityAt(book', price)
    /\ UNCHANGED <<pc, left, results>>

Bar ==
    /\ pc = "replay" /\ bar < MaxBars
    /\ bar' = bar + 1
    /\ \E price \in Prices :
       LET seen == Remembered(prices, price)
           b    == Exited(book, price)
       IN  /\ last' = price /\ prices' = seen
           /\ \/ book' = b
              \/ MayEnter(b, seen) /\ book' = Entered(b, price)
           /\ curve' = EquityAt(book', price)
    /\ UNCHANGED <<pc, left, results>>

\* Mutant of EndTicker: the position is sold for what it was bought.
EndTickerAtEntry ==
    /\ pc = "replay"
    /\ pc' = "next"
    /\ LET b == IF Holds(book) THEN Sold(book, book.pos.entry) ELSE book IN
       /\ book' = b
       /\ results' = Append(results, [pnl |-> b.pnl, final |-> b.wallet + b.invested,
                                      curve |-> curve, last |-> last])
    /\ UNCHANGED <<left, bar, last, prices, curve>>

\* The position left is sold at closes[-1], which no test has looked at: at NaN
\* every sum of the report is NaN, which JSON cannot carry.
EndTicker ==
    /\ pc = "replay"
    /\ IF Holds(book) /\ last = NaN
       THEN pc' = "failed" /\ UNCHANGED <<book, results>>
       ELSE /\ pc' = "next"
            /\ LET b == IF Holds(book) THEN Sold(book, last) ELSE book IN
               /\ book' = b
               /\ results' = Append(results,
                                [pnl |-> b.pnl, final |-> b.wallet + b.invested,
                                 curve |-> curve, last |-> last])
    /\ UNCHANGED <<left, bar, last, prices, curve>>

\* _aggregate, or the answer that all tickers failed.
Aggregate ==
    /\ pc = "next" /\ left = 0
    /\ pc' = "report"
    /\ UNCHANGED <<left, bar, last, prices, book, curve, results>>

Next ==
    \/ StartTicker \/ SkipTicker \/ MissingBar \/ Bar \/ EndTicker \/ Aggregate

Spec == Init /\ [][Next]_vars

-------------------------------------------------------------------------------
Places   == [qty : Nat, entry : Nat, highest : Nat]
Books    == [wallet : Int, invested : Int, pos : Places, pnl : Int]
Outcomes == [pnl : Int, final : Int, curve : Int, last : Prices \cup {0, NaN}]

TypeOK ==
    /\ pc \in {"next", "replay", "report", "failed"}
    /\ left \in 0 .. MaxTickers /\ bar \in 0 .. MaxBars
    /\ last \in Prices \cup {0, NaN} /\ prices \in Seq(Prices)
    /\ book \in Books /\ curve \in Int
    /\ results \in Seq(Outcomes)

(* The profits of the trades are what the capital has become: in the replay *)
(* at any bar, where what is invested is the cost of the position held, and *)
(* in every result, so that total_pnl of the report and the final equities  *)
(* tell the same story.                                                     *)
Accounted ==
    /\ book.wallet + book.invested = Capital + book.pnl
    /\ book.invested = book.pos.qty * book.pos.entry
    /\ \A i \in DOMAIN results : results[i].final = Capital + results[i].pnl

(* The replay never spends money it does not have: though it buys one share *)
(* at least, whatever position_size_pct says, the cost is looked at.        *)
NeverBorrows == book.wallet >= 0

(* No position is carried past a bar whose close was past its take profit   *)
(* or its stop loss, or 3 % below its highest with 5 % gained: exits come   *)
(* before entries, and no entry signal hides one (as it does in             *)
(* strategy.py:309).                                                        *)
HeldInBand ==
    Holds(book) /\ prices # <<>> =>
        LET pos   == book.pos
            price == Last(prices)
        IN  /\ Gain(pos, price) < TakeProfit * pos.entry
            /\ Gain(pos, price) > 0 - StopLoss * pos.entry
            /\ Gain(pos, price) >= 50 * pos.entry => price * 100 > pos.highest * 97

(* The curve that growth, drawdown and Sharpe ratio are computed from ends  *)
(* in the final equity, unless the last close is missing.                   *)
CurveEndsInResult ==
    \A i \in DOMAIN results :
        results[i].last \in Prices => results[i].curve = results[i].final

===============================================================================
