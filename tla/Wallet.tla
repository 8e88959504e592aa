-------------------------------- MODULE Wallet --------------------------------
(***************************************************************************)
(* The wallet record of src/app/wallet.py and its two operations.  Amounts *)
(* are whole numbers.  Of a position the module keeps [qty, cost], cost    *)
(* being qty * avg_price of the code; what a partial close hands back is   *)
(* rounded down to a whole number, where the code rounds to a float.  The  *)
(* router opens LONG positions only (router.py:315), so `side` is left out.*)
(***************************************************************************)
EXTENDS Integers, FiniteSetsExt

CONSTANT Tickers      \* tickers the wallet may hold

NoPos == [qty |-> 0, cost |-> 0]   \* a ticker absent from `positions`
Position == [qty : Nat, cost : Nat]

Wallets == [initial : Int, available : Int, invested : Int, realized : Int,
            positions : [Tickers -> Position]]

\* Wallet(initial_capital=capital)
Fresh(capital) ==
    [initial |-> capital, available |-> capital, invested |-> 0, realized |-> 0,
     positions |-> [t \in Tickers |-> NoPos]]

\* Mutant of CanOpen: the funds are not checked.
CanOpenAlways(w, qty, price) == TRUE

\* open_position does not raise "Insufficient funds"
CanOpen(w, qty, price) == qty * price <= w.available

\* open_position(ticker, qty, price, "LONG")
Opened(w, t, qty, price) ==
    LET notional == qty * price
    IN  [w EXCEPT !.available = @ - notional,
                  !.invested  = @ + notional,
                  !.positions[t] = [qty  |-> @.qty + qty,
                                    cost |-> @.cost + notional]]

\* close_position does not raise "No position"
CanClose(w, t) == w.positions[t].qty > 0

\* close_qty = min(qty, pos.qty)
CloseQty(w, t, qty) ==
    IF qty <= w.positions[t].qty THEN qty ELSE w.positions[t].qty

\* notional_returned = close_qty * pos.avg_price
Returned(w, t, k) == (w.positions[t].cost * k) \div w.positions[t].qty

\* Mutant of Closed: the profit is not paid out.
ClosedAtCost(w, t, qty, price) ==
    LET k    == CloseQty(w, t, qty)
        back == Returned(w, t, k)
        pos  == w.positions[t]
    IN  [w EXCEPT !.available = @ + back,
                  !.invested  = @ - back,
                  !.realized  = @ + k * price - back,
                  !.positions[t] = IF k = pos.qty THEN NoPos
                                   ELSE [qty |-> pos.qty - k, cost |-> pos.cost - back]]

\* close_position(ticker, qty, price): pnl = k * price - back
Closed(w, t, qty, price) ==
    LET k    == CloseQty(w, t, qty)
        back == Returned(w, t, k)
        pos  == w.positions[t]
    IN  [w EXCEPT !.available = @ + k * price,
                  !.invested  = @ - back,
                  !.realized  = @ + k * price - back,
                  !.positions[t] = IF k = pos.qty THEN NoPos
                                   ELSE [qty |-> pos.qty - k, cost |-> pos.cost - back]]

\* total_equity()
Equity(w) == w.available + w.invested

\* What the open positions cost, together.
CostHeld(w) == MapThenSumSet(LAMBDA t : w.positions[t].cost, Tickers)

===============================================================================
