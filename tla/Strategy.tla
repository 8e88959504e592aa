------------------------------- MODULE Strategy -------------------------------
(***************************************************************************)
(* The trading loop: StrategyAgent of src/app/strategy.py (the scan loop   *)
(* `run`, the forced trade `_pick_best_trade` and the listener of          *)
(* trade:result, step by step between their awaits), with what its signals *)
(* set in motion: the engine, the orchestrator that reports each result to *)
(* the memory service, and the wallet in which it is booked.               *)
(*                                                                         *)
(* Indicators and guards answer anything; clocks are replaced by "running" *)
(* and "expired"; the market is open, short_enabled is off (its default).  *)
(* The database has one wallet, written whole or cut short by a stop       *)
(* (WalletService has its statements one by one).                          *)
(***************************************************************************)
EXTENDS Wallet, SequencesExt

CONSTANTS
    Prices,           \* prices quoted
    FirstKnown,       \* tickers with a price history at the start
    Cash,             \* initial capital
    SizeDivisor,      \* 100 / position_size_pct
    MaxPositions,     \* max_positions
    TakeProfit,       \* take_profit_pct, in thousandths
    StopLoss,         \* stop_loss_pct, in thousandths
    LossLimit,        \* daily_loss_limit_pct
    LossesToPause,    \* 3, strategy.py:913
    LossesToBlock,    \* 3, strategy.py:922
    MaxSignals,       \* bound: signals published
    Events,           \* subset of {"crash", "shutdown", "discover", "forcebuy",
                      \*            "halt", "newday", "reset", "engine"}
    MaxEvents,        \* bound: such events in a behaviour, "engine" apart
    MaxTogether       \* bound: signals, and such events counted twice

ASSUME PricesAssumption == Prices \subseteq Nat \ {0} /\ Prices # {}
ASSUME SizesAssumption ==
    /\ Cash \in Nat /\ SizeDivisor \in Nat \ {0} /\ MaxPositions \in Nat
    /\ TakeProfit \in Nat /\ StopLoss \in Nat
    /\ LossLimit \in Nat /\ LossesToPause \in Nat \ {0} /\ LossesToBlock \in Nat \ {0}
    /\ MaxSignals \in Nat /\ MaxEvents \in Nat /\ MaxTogether \in Nat
ASSUME KnownAssumption == FirstKnown \subseteq Tickers
ASSUME TickersAssumption == IsFiniteSet(Tickers)

VARIABLES
    pc,               \* where run() stands; "dead" when an exception ended it
    todo,             \* tickers the scan has yet to look at
    grown,            \* price_history got a key since the scan began
    openCount,        \* local `open_count`
    low,              \* local `current_equity` is below _daily_start_equity
    had,              \* local `had_signal`
    cur,              \* the order under way
    tries,            \* _pick_best_trade: candidates not tried yet
    known, price,     \* keys of price_history, last price of each
    recent,           \* tickers signalled less than signal_cooldown ago
    pause,            \* _loss_cooldown_until: "none", "running" or "expired"
    blocked,          \* tickers whose _ticker_cooldown_until is ahead
    losses,           \* _consecutive_losses, up to LossesToPause
    tickerLosses,     \* lengths of _ticker_losses, up to LossesToBlock
    startEquity,      \* _daily_start_equity, as a set: {} when not set
    date, day,        \* _daily_loss_date (0: none), and today
    saved,            \* Redis hash strategy:risk, as a set
    halted,           \* Redis key trading:halt
    wallet,           \* wallet_instance of strategy.py
    books,            \* wallet_instance of router.py, in which results are booked
    split,            \* these are two objects since a /wallet/reset
    disk,             \* the wallet as the database has it
    engine,           \* signal_loop is "up" or "down"
    held,             \* its positions, [qty, entry]
    stored,           \* Redis hash engine:positions
    signals,          \* trade:signal on its way to the engine
    listening,        \* _listen_trade_results is subscribed
    toListen,         \* trade:result on its way to _listen_trade_results
    toBook,           \* trade:result on its way through the orchestrator
    missed,           \* history: tickers of which a BUY or a SELL went astray
    filled,           \* history: shares of each ticker the engine ever bought
    dayPnl,           \* history: profit of the closings booked since date was set
    sent, events      \* counters of the bounds

loopVars  == <<todo, grown, openCount, low, had, cur, tries>>
riskVars  == <<pause, blocked, losses, tickerLosses>>
dayVars   == <<startEquity, date, dayPnl>>
marketVars == <<known, price>>
walletVars == <<wallet, books, split, disk>>
resultVars == <<listening, toListen, toBook>>
engineVars == <<engine, held, stored, filled>>
pipeVars  == <<engineVars, resultVars, missed>>
vars == <<pc, loopVars, marketVars, recent, riskVars, dayVars, day, saved, halted,
          walletVars, pipeVars, signals, sent, events>>

NoOrder == [ticker |-> "none"]
Unheld  == [qty |-> 0, entry |-> 0]
Nothing == [t \in Tickers |-> Unheld]

Positions   == {t \in Tickers : CanClose(wallet, t)}
MoreThan(a, b) == IF a > b THEN a ELSE b

\* qty = max(1, int(notional / current))
SizeAt(p) == MoreThan(1, wallet.available \div (SizeDivisor * p))
Size(t)   == SizeAt(price[t])
\* The same with notional = 80 % of the cash (line 335).
BigSize(t) == MoreThan(1, (wallet.available * 4) \div (5 * price[t]))

\* Every pc but "scan" stands at an await: only there do the other tasks of the
\* service run (the listener, the handlers, the market bridge).
Awaiting == pc \notin {"down", "scan"}

Room(n)     == sent + 2 * events + n <= MaxTogether
Event(kind) == kind \in Events /\ events < MaxEvents /\ Room(2) /\ events' = events + 1
CanSend     == sent < MaxSignals /\ Room(1)

\* Quotes change it before anything reads it.
AnyPrice == CHOOSE p \in Prices : TRUE

Init ==
    /\ pc = "down"
    /\ todo = {} /\ grown = FALSE /\ openCount = 0 /\ low = FALSE /\ had = FALSE
    /\ cur = NoOrder /\ tries = {}
    /\ known = FirstKnown /\ price = [t \in Tickers |-> AnyPrice]
    /\ recent = {} /\ pause = "none" /\ blocked = {}
    /\ losses = 0 /\ tickerLosses = [t \in Tickers |-> 0]
    /\ startEquity = {} /\ date = 0 /\ day = 1 /\ dayPnl = 0
    /\ saved = {} /\ halted = FALSE
    /\ wallet = Fresh(Cash) /\ books = wallet /\ split = FALSE /\ disk = wallet
    /\ engine = "up" /\ held = Nothing /\ stored = Nothing
    /\ filled = [t \in Tickers |-> 0]
    /\ missed = {} /\ listening = FALSE
    /\ signals = <<>> /\ toListen = <<>> /\ toBook = <<>>
    /\ sent = 0 /\ events = 0

-------------------------------------------------------------------------------
(* Starting, and the top of the loop.                                        *)

Risk == [losses |-> losses, pause |-> pause, date |-> date,
         tickerLosses |-> tickerLosses, blocked |-> blocked]

\* load_from_db: what the database has, or on any error a new wallet.
LoadWallet ==
    /\ wallet' \in {disk, Fresh(Cash)}
    /\ books' = wallet' /\ split' = FALSE
    /\ missed' = missed \cup {t \in Tickers : wallet'.positions[t] # wallet.positions[t]}

\* A new StrategyAgent, and restore_state() from what Redis has.
Start ==
    /\ pc = "down"
    /\ pc' = "top"
    /\ LoadWallet
    /\ IF saved = {}
       THEN /\ losses' = 0 /\ pause' = "none" /\ date' = 0 /\ blocked' = {}
            /\ tickerLosses' = [t \in Tickers |-> 0]
       ELSE \E s \in saved :
            /\ losses' = s.losses /\ pause' = s.pause /\ date' = s.date
            /\ blocked' = s.blocked /\ tickerLosses' = s.tickerLosses
    /\ recent' = {} /\ startEquity' = {}
    /\ UNCHANGED <<loopVars, marketVars, dayPnl, day, saved, halted, disk, engineVars,
                   resultVars, signals, sent, events>>

\* GET trading:halt: sleep 30 s and look again, or sleep 15 s and scan.
Top ==
    /\ pc = "top"
    /\ pc' = IF halted THEN "top" ELSE "awake"
    /\ UNCHANGED <<loopVars, marketVars, recent, riskVars, dayVars, day, saved,
                   halted, walletVars, pipeVars, signals, sent, events>>

\* The GET fails, which is swallowed: no halt is seen.
HaltUnread ==
    /\ pc = "top" /\ halted
    /\ pc' = "awake"
    /\ UNCHANGED <<loopVars, marketVars, recent, riskVars, dayVars, day, saved,
                   halted, walletVars, pipeVars, signals, sent, events>>

\* The heartbeat is due: persist_state() is called ...
Heartbeat ==
    /\ pc = "awake"
    /\ pc' = "saving"
    /\ UNCHANGED <<loopVars, marketVars, recent, riskVars, dayVars, day, saved,
                   halted, walletVars, pipeVars, signals, sent, events>>

\* ... and returns; any exception in it is swallowed.
Persist ==
    /\ pc = "saving"
    /\ saved' = {Risk} \/ UNCHANGED saved
    /\ pc' = "begin"
    /\ UNCHANGED <<loopVars, marketVars, recent, riskVars, dayVars, day, halted,
                   walletVars, pipeVars, signals, sent, events>>

\* daily_pnl < 0 and |daily_pnl| / _daily_start_equity * 100 >= limit
OverLimit(pnl, start) == pnl < 0 /\ (0 - pnl) * 100 >= LossLimit * start

\* Mutant of BeginScan: the pause is ended whether it has expired or not.
BeginScanUnpauses ==
    /\ pc \in {"awake", "begin"}
    /\ openCount' = Cardinality(Positions)
    /\ IF date # day
       THEN date' = day /\ startEquity' = {Equity(wallet)} /\ dayPnl' = 0
       ELSE UNCHANGED dayVars
    /\ low' = \E start \in startEquity' : Equity(wallet) < start
    /\ IF \E start \in startEquity' :
             Equity(wallet) > 0 /\ OverLimit(Equity(wallet) - start, start)
       THEN pc' = "top" /\ UNCHANGED <<pause, todo, grown, had>>
       ELSE /\ pc' = "scan"
            /\ pause' = "none"
            /\ todo' = known /\ grown' = FALSE /\ had' = FALSE
    /\ UNCHANGED <<cur, tries, marketVars, recent, blocked, losses, tickerLosses, day,
                   saved, halted, walletVars, pipeVars, signals, sent, events>>

\* Lines 240-265 hold no await: the snapshot, the daily loss limit, the pause.
BeginScan ==
    /\ pc \in {"awake", "begin"}
    /\ openCount' = Cardinality(Positions)
    /\ IF date # day
       THEN date' = day /\ startEquity' = {Equity(wallet)} /\ dayPnl' = 0
       ELSE UNCHANGED dayVars
    /\ low' = \E start \in startEquity' : Equity(wallet) < start
    /\ IF \E start \in startEquity' :
             Equity(wallet) > 0 /\ OverLimit(Equity(wallet) - start, start)
       THEN pc' = "top" /\ UNCHANGED <<pause, todo, grown, had>>
       ELSE /\ pc' = "scan"
            /\ pause' = IF pause = "expired" THEN "none" ELSE pause
            /\ todo' = known /\ grown' = FALSE /\ had' = FALSE
    /\ UNCHANGED <<cur, tries, marketVars, recent, blocked, losses, tickerLosses, day,
                   saved, halted, walletVars, pipeVars, signals, sent, events>>

-------------------------------------------------------------------------------
(* The scan, one ticker at a time.                                           *)

\* _publish_trade: an error of Redis is swallowed, and without an engine that
\* listens the signal is lost; past the bound all are.
Publish(by, dir, t, qty, p) ==
    IF CanSend
    THEN /\ sent' = sent + 1
         /\ signals' = IF engine = "up"
                       THEN Append(signals, [by |-> by, dir |-> dir, ticker |-> t,
                                             qty |-> qty, price |-> p])
                       ELSE signals
    ELSE UNCHANGED <<sent, signals>>

\* pos_change of a held ticker, times cost, in thousandths
Gain(t) ==
    LET pos == wallet.positions[t] IN (price[t] * pos.qty - pos.cost) * 1000

\* Mutant of MustExit: a loss is compared without its sign.
MustExitUnsigned(t) ==
    LET cost == wallet.positions[t].cost
    IN  Gain(t) >= TakeProfit * cost \/ Gain(t) >= StopLoss * cost

\* Take profit, stop loss and the trailing stop (which comes down to the stop
\* loss: above +2 % it asks for current <= entry) fire for sure ...
MustExit(t) ==
    LET cost == wallet.positions[t].cost
    IN  Gain(t) >= TakeProfit * cost \/ Gain(t) <= 0 - StopLoss * cost

\* ... the Bollinger band and the time held may fire on any move of 0.1 %.
MayExit(t) ==
    LET cost == wallet.positions[t].cost
    IN  Gain(t) >= cost \/ Gain(t) <= 0 - cost

\* An entry signal; strategy.py:294-301.
MayEnter(t) == t \notin blocked /\ pause = "none" /\ openCount < MaxPositions

\* The ticker is in one of its cooldowns, or its indicators (RSI on three time
\* frames, MACD, Bollinger band, volume, regime) have no signal in its prices.
PassOver(t) ==
    /\ t \in recent \cup blocked \/ (t \in Positions => ~MustExit(t))
    /\ UNCHANGED <<pc, had, cur, signals, sent>>

\* A BUY on its way to its guards; line 334 reads _daily_start_equity.
Enter(t) ==
    /\ t \notin recent /\ MayEnter(t)
    /\ had' = TRUE
    /\ IF startEquity = {}
       THEN pc' = "dead" /\ UNCHANGED cur
       ELSE /\ pc' = "guard"
            /\ cur' = [ticker |-> t, dir |-> "BUY", price |-> price[t],
                       qty |-> IF low THEN BigSize(t) ELSE Size(t)]
    /\ UNCHANGED <<signals, sent>>

\* An exit, evaluated only without an entry signal (line 309, `if not signal
\* and`); it divides by avg_price (line 311), then line 334 as above.
Exit(t) ==
    /\ t \notin recent \cup blocked /\ t \in Positions
    /\ MustExit(t) \/ MayExit(t)
    /\ had' = TRUE
    /\ IF startEquity = {} \/ wallet.positions[t].cost = 0
       THEN pc' = "dead" /\ UNCHANGED <<cur, signals, sent>>
       ELSE /\ pc' = "sent"
            /\ cur' = [ticker |-> t, dir |-> "SELL", price |-> price[t], qty |-> Size(t)]
            /\ Publish("scan", "SELL", t, Size(t), price[t])

LookAt(t) ==
    /\ pc = "scan" /\ t \in todo /\ ~grown
    /\ todo' = todo \ {t}
    /\ PassOver(t) \/ Enter(t) \/ Exit(t)
    /\ UNCHANGED <<grown, openCount, low, tries, marketVars, recent, riskVars, dayVars,
                   day, saved, halted, walletVars, pipeVars, events>>

Checks == {"advocate", "memory", "researcher", "sentiment", "macro"}

\* What a check gets from its service: a verdict, an error status, or nothing;
\* whether the trade is blocked then, _check_advocate to _check_macro.
Answers == {"allow", "block", "status", "silence"}
Blocks(check, answer) ==
    \/ answer = "block"
    \/ answer = "status" /\ check = "researcher"
    \/ answer = "silence" /\ check \in {"researcher", "macro"}

\* _run_pre_trade_checks: one check that blocks is enough.
Verdicts(checks) ==
    {stops \in BOOLEAN :
        IF stops THEN \E c \in checks, answer \in Answers : Blocks(c, answer)
                 ELSE \A c \in checks : \E answer \in Answers : ~Blocks(c, answer)}

\* Mutant of Guarded: a blocked ticker is looked at again in the same scan.
GuardedAgain ==
    /\ pc = "guard"
    /\ \E stops \in Verdicts(Checks) :
       \/ /\ stops /\ pc' = "scan" /\ todo' = todo \cup {cur.ticker} /\ cur' = NoOrder
          /\ UNCHANGED <<signals, sent>>
       \/ /\ ~stops /\ pc' = "sent" /\ UNCHANGED <<todo, cur>>
          /\ Publish("scan", "BUY", cur.ticker, cur.qty, cur.price)
    /\ UNCHANGED <<grown, openCount, low, had, tries, marketVars, recent, riskVars,
                   dayVars, day, saved, halted, walletVars, pipeVars, events>>

\* _run_pre_trade_checks came back: blocked, or the BUY goes out.
Guarded ==
    /\ pc = "guard"
    /\ \E stops \in Verdicts(Checks) :
       \/ stops /\ pc' = "scan" /\ cur' = NoOrder /\ UNCHANGED <<signals, sent>>
       \/ /\ ~stops /\ pc' = "sent" /\ UNCHANGED cur
          /\ Publish("scan", "BUY", cur.ticker, cur.qty, cur.price)
    /\ UNCHANGED <<todo, grown, openCount, low, had, tries, marketVars, recent, riskVars, dayVars, day, saved, halted,
                   walletVars, pipeVars, events>>

\* _publish_trade came back, and only now the ticker is in its cooldown.
Published ==
    /\ pc = "sent"
    /\ recent' = recent \cup {cur.ticker}
    /\ pc' = "scan" /\ cur' = NoOrder
    /\ UNCHANGED <<todo, grown, openCount, low, had, tries, marketVars, riskVars, dayVars, day, saved, halted, walletVars,
                   pipeVars, signals, sent, events>>

\* Python refuses to go on iterating over a dict that has changed its size.
ScanRaises ==
    /\ pc = "scan" /\ grown
    /\ pc' = "dead"
    /\ UNCHANGED <<loopVars, marketVars, recent, riskVars, dayVars, day, saved, halted,
                   walletVars, pipeVars, signals, sent, events>>

\* Mutant of EndScan: the flag is read once, before the loop.
EndScanAwake ==
    /\ pc = "scan" /\ todo = {} /\ ~grown
    /\ pc' = "awake"
    /\ UNCHANGED <<loopVars, marketVars, recent, riskVars, dayVars, day, saved, halted,
                   walletVars, pipeVars, signals, sent, events>>

\* Nothing to force: back to the top.
EndScan ==
    /\ pc = "scan" /\ todo = {} /\ ~grown
    /\ pc' = "top"
    /\ UNCHANGED <<loopVars, marketVars, recent, riskVars, dayVars, day, saved, halted,
                   walletVars, pipeVars, signals, sent, events>>

\* No signal in this scan and force_trade_sec gone by.
MayForce == pc = "scan" /\ todo = {} /\ ~grown /\ ~had /\ pause = "none"

\* Room for another: the candidates, of which up to three are tried.
ForceBuyBest ==
    /\ MayForce /\ openCount < MaxPositions
    /\ \E best \in SUBSET (known \ (Positions \cup blocked)) :
          /\ Cardinality(best) \in 1 .. 3
          /\ tries' = {[ticker |-> t, price |-> price[t]] : t \in best}
    /\ pc' = "best"
    /\ UNCHANGED <<todo, grown, openCount, low, had, cur, marketVars, recent, riskVars,
                   dayVars, day, saved, halted, walletVars, pipeVars, signals, sent, events>>

\* The guards of one candidate came back: the next is tried, or the BUY goes out.
TryBest ==
    /\ pc = "best"
    /\ \E c \in tries, stops \in Verdicts(Checks \ {"advocate", "macro"}) :
          \/ /\ stops /\ tries' = tries \ {c}
             /\ pc' = IF tries' = {} THEN "top" ELSE "best"
             /\ UNCHANGED <<signals, sent>>
          \/ /\ ~stops
             /\ Publish("best", "BUY", c.ticker, SizeAt(c.price), c.price)
             /\ tries' = {} /\ pc' = "top"
    /\ UNCHANGED <<todo, grown, openCount, low, had, cur, marketVars, recent, riskVars,
                   dayVars, day, saved, halted, walletVars, pipeVars, events>>

\* Full: a held position is sold whole (the scores decide which); a position
\* bought at price zero cannot be scored.
RotateOut ==
    /\ MayForce /\ openCount >= MaxPositions
    /\ Positions \cap known # {}
    /\ IF \E t \in Positions \cap known : wallet.positions[t].cost = 0
       THEN pc' = "dead" /\ UNCHANGED <<signals, sent>>
       ELSE /\ \E t \in Positions \cap known :
                  Publish("best", "SELL", t, wallet.positions[t].qty, price[t])
            /\ pc' = "top"
    /\ UNCHANGED <<loopVars, marketVars, recent, riskVars, dayVars, day, saved, halted,
                   walletVars, pipeVars, events>>

-------------------------------------------------------------------------------
(* Down the pipeline.                                                        *)

Result(s, status, entry, exit) ==
    [dir |-> s.dir, ticker |-> s.ticker, qty |-> s.qty, status |-> status,
     entry |-> entry, exit |-> exit]

\* trade:result reaches the orchestrator, and the listener if it is subscribed.
Emit(r) ==
    /\ toBook' = Append(toBook, r)
    /\ toListen' = IF listening THEN Append(toListen, r) ELSE toListen
    /\ UNCHANGED listening

Quiet == UNCHANGED resultVars

\* HSET or HDEL of engine:positions; an error is swallowed.
Record(t, pos) ==
    \/ stored' = [stored EXCEPT ![t] = pos]
    \/ "engine" \in Events /\ UNCHANGED stored

\* signal_loop is no more: the process died, PUBLISH failed or the stream ended.
\* Its map is gone, and so are the signals that it had not taken.
LoopEnds ==
    /\ "engine" \in Events
    /\ engine' = "down" /\ held' = Nothing
    /\ signals' = <<>>

LoopGoesOn == signals' = Tail(signals) /\ UNCHANGED engine

\* A BUY is accepted; the engine records it and reports it, or ends in between.
EngineBuys(s) ==
    LET new == [qty |-> s.qty, entry |-> s.price]
    IN  /\ filled' = [filled EXCEPT ![s.ticker] = @ + s.qty]
        /\ Record(s.ticker, new)
        /\ \/ /\ LoopGoesOn
              /\ held' = [held EXCEPT ![s.ticker] = new]
              /\ Emit(Result(s, "OPEN", s.price, s.price))
              /\ UNCHANGED missed
           \/ /\ LoopEnds /\ Quiet
              /\ missed' = IF stored' = stored THEN missed ELSE missed \cup {s.ticker}

\* Mutant of After: the position stays in the engine's map.
AfterKeeps(s) == held

\* positions.remove(&ticker)
After(s) == [held EXCEPT ![s.ticker] = Unheld]

\* A SELL is accepted: what was held is closed whole; nothing held, nothing to report.
EngineSells(s) ==
    LET pos == held[s.ticker]
        won == s.price >= pos.entry
    IN  /\ UNCHANGED filled
        /\ Record(s.ticker, Unheld)
        /\ \/ /\ LoopGoesOn
              /\ held' = After(s)
              /\ IF pos = Unheld THEN Quiet
                 ELSE Emit(Result(s, IF won THEN "WIN" ELSE "LOSS", pos.entry, s.price))
              /\ missed' = IF stored'[s.ticker] = Unheld THEN missed \ {s.ticker}
                           ELSE missed \cup {s.ticker}
           \/ /\ LoopEnds /\ Quiet
              /\ missed' = IF stored'[s.ticker] = Unheld THEN missed \ {s.ticker}
                           ELSE missed

\* Module Engine, seen from outside: a signal is dropped (2FA, rate limit, risk, the
\* broker's refusal, a lost reply) or executed.  What happens in between only its
\* own end can show to anybody, wherever it comes.
EngineActs ==
    /\ engine = "up" /\ signals # <<>>
    /\ LET s == Head(signals) IN
       \/ LoopGoesOn /\ Quiet /\ UNCHANGED <<held, stored, filled, missed>>
       \/ s.dir = "BUY" /\ EngineBuys(s)
       \/ s.dir = "SELL" /\ EngineSells(s)
    /\ UNCHANGED <<pc, loopVars, marketVars, recent, riskVars, dayVars, day, saved,
                   halted, walletVars, sent, events>>

\* signal_loop ends between two signals.
EngineEnds ==
    /\ engine = "up"
    /\ LoopEnds /\ Quiet
    /\ UNCHANGED <<pc, loopVars, marketVars, recent, riskVars, dayVars, day, saved,
                   halted, walletVars, stored, filled, missed, sent, events>>

\* Started again: HGETALL, or an empty map if that fails.
EngineStarts ==
    /\ engine = "down"
    /\ engine' = "up"
    /\ held' \in {stored, Nothing}
    /\ UNCHANGED <<pc, loopVars, marketVars, recent, riskVars, dayVars, day, saved,
                   halted, walletVars, stored, filled, resultVars, missed, signals,
                   sent, events>>

\* A wallet after log_trade of the router: BUY opens and SELL closes at
\* trade.entry_price, and either may be refused.
Booked(w, r) ==
    IF r.dir = "BUY"
    THEN IF CanOpen(w, r.qty, r.entry) THEN Opened(w, r.ticker, r.qty, r.entry) ELSE w
    ELSE IF CanClose(w, r.ticker) THEN Closed(w, r.ticker, r.qty, r.entry) ELSE w

\* log_trade of the router: the strategy's wallet follows unless it is another object.
LogTrade(r) ==
    /\ books' = Booked(books, r)
    /\ wallet' = IF split THEN wallet ELSE Booked(wallet, r)
    /\ dayPnl' = dayPnl + r.qty * (r.exit - r.entry)

\* Mutant of OrchestratorBooks: a result that was posted may be posted again.
OrchestratorBooksTwice ==
    /\ pc # "scan" /\ toBook # <<>>
    /\ toBook' \in {toBook, Tail(toBook)}
    /\ LET r == Head(toBook) IN
       /\ IF pc = "down" THEN UNCHANGED <<wallet, books, dayPnl>> ELSE LogTrade(r)
       /\ missed' = IF r.dir = "BUY" /\ wallet' = wallet
                    THEN missed \cup {r.ticker} ELSE missed
    /\ UNCHANGED <<pc, loopVars, marketVars, recent, riskVars, startEquity, date, day,
                   saved, halted, split, disk, engineVars, listening, toListen, signals,
                   sent, events>>

\* pushTradeToDash posts the result once.  If the service is down the error is
\* swallowed and the result is lost.
OrchestratorBooks ==
    /\ pc # "scan" /\ toBook # <<>>
    /\ toBook' = Tail(toBook)
    /\ LET r == Head(toBook) IN
       /\ IF pc = "down" THEN UNCHANGED <<wallet, books, dayPnl>> ELSE LogTrade(r)
       /\ missed' = IF r.dir = "BUY" /\ wallet' = wallet
                    THEN missed \cup {r.ticker} ELSE missed
    /\ UNCHANGED <<pc, loopVars, marketVars, recent, riskVars, startEquity, date, day,
                   saved, halted, split, disk, engineVars, listening, toListen, signals,
                   sent, events>>

\* A save of the wallet has been written; until then a restart finds an older one.
SaveWallet ==
    /\ Awaiting /\ disk # books
    /\ disk' = books
    /\ UNCHANGED <<pc, loopVars, marketVars, recent, riskVars, dayVars, day, saved,
                   halted, wallet, books, split, pipeVars, signals, sent, events>>

\* /wallet/reset: the router has a wallet of its own from now on, which is saved
\* unless that fails (the capital asked for is the initial one).
ResetWallet ==
    /\ Awaiting /\ Event("reset")
    /\ books' = Fresh(Cash) /\ split' = TRUE
    /\ disk' \in {disk, Fresh(Cash)}
    /\ UNCHANGED <<pc, loopVars, marketVars, recent, riskVars, dayVars, day, saved,
                   halted, wallet, pipeVars, signals, sent>>

\* The task that run() starts subscribes, or does so again after an exception.
Subscribe ==
    /\ Awaiting /\ ~listening
    /\ listening' = TRUE
    /\ UNCHANGED <<pc, loopVars, marketVars, recent, riskVars, dayVars, day, saved,
                   halted, walletVars, engineVars, toListen, toBook, missed, signals, sent,
                   events>>

\* status == "LOSS" and pnl < 0, pnl_percent having been rounded to 0.01.
Felt(r) == r.status = "LOSS" /\ (r.entry - r.exit) * 20000 >= r.entry

\* One message of _listen_trade_results.
Count(r) ==
    LET n == IF losses < LossesToPause THEN losses + 1 ELSE losses
        m == IF tickerLosses[r.ticker] < LossesToBlock
             THEN tickerLosses[r.ticker] + 1 ELSE LossesToBlock
    IN  \/ ~Felt(r) /\ r.status # "WIN" /\ UNCHANGED riskVars
        \/ /\ r.status = "WIN"
           /\ losses' = 0
           /\ tickerLosses' = [tickerLosses EXCEPT ![r.ticker] = 0]
           /\ UNCHANGED <<pause, blocked>>
        \/ /\ Felt(r)
           /\ losses' = n
           /\ pause' = IF n = LossesToPause THEN "running" ELSE pause
           /\ tickerLosses' = [tickerLosses EXCEPT ![r.ticker] = m]
           /\ blocked' = IF m = LossesToBlock THEN blocked \cup {r.ticker} ELSE blocked

\* The profit on an entry at price zero is infinite, null in JSON: float(None)
\* raises, and the subscription is gone for 10 s with what it held.
Listen ==
    /\ Awaiting /\ listening /\ toListen # <<>>
    /\ LET r == Head(toListen) IN
       IF r.status # "OPEN" /\ r.entry = 0
       THEN listening' = FALSE /\ toListen' = <<>> /\ UNCHANGED riskVars
       ELSE Count(r) /\ toListen' = Tail(toListen) /\ UNCHANGED listening
    /\ UNCHANGED <<pc, loopVars, marketVars, recent, dayVars, day, saved, halted,
                   walletVars, engineVars, toBook, missed, signals, sent, events>>

-------------------------------------------------------------------------------
(* Time, quotes, operators, faults.                                          *)

\* feed_quote
Quote ==
    /\ Awaiting
    /\ \E t \in known, p \in Prices :
          p # price[t] /\ price' = [price EXCEPT ![t] = p]
    /\ UNCHANGED <<pc, loopVars, known, recent, riskVars, dayVars, day, saved, halted,
                   walletVars, pipeVars, signals, sent, events>>

\* feed_quote of a ticker that discovery has added.
FirstQuote ==
    /\ Awaiting /\ Event("discover")
    /\ \E t \in Tickers \ known, p \in Prices :
          known' = known \cup {t} /\ price' = [price EXCEPT ![t] = p]
    /\ grown' = (pc \in {"guard", "sent"})
    /\ UNCHANGED <<pc, todo, openCount, low, had, cur, tries, recent, riskVars, dayVars,
                   day, saved, halted, walletVars, pipeVars, signals, sent>>

SignalCooldownEnds(t) ==
    /\ t \in recent
    /\ recent' = recent \ {t}
    /\ UNCHANGED <<pc, loopVars, marketVars, riskVars, dayVars, day, saved, halted,
                   walletVars, pipeVars, signals, sent, events>>

TickerCooldownEnds(t) ==
    /\ t \in blocked
    /\ blocked' = blocked \ {t}
    /\ UNCHANGED <<pc, loopVars, marketVars, recent, pause, losses, tickerLosses,
                   dayVars, day, saved, halted, walletVars, pipeVars, signals, sent, events>>

PauseExpires ==
    /\ pause = "running"
    /\ pause' = "expired"
    /\ UNCHANGED <<pc, loopVars, marketVars, recent, blocked, losses, tickerLosses,
                   dayVars, day, saved, halted, walletVars, pipeVars, signals, sent, events>>

NewDay ==
    /\ Event("newday")
    /\ day' = day + 1
    /\ UNCHANGED <<pc, loopVars, marketVars, recent, riskVars, dayVars, saved, halted,
                   walletVars, pipeVars, signals, sent>>

\* /halt and /resume of the Telegram bot.
HaltOrResume ==
    /\ Event("halt")
    /\ halted' = ~halted
    /\ UNCHANGED <<pc, loopVars, marketVars, recent, riskVars, dayVars, day, saved,
                   walletVars, pipeVars, signals, sent>>

\* /forcebuy of the Telegram bot: one share at price 0.
ForceBuy ==
    /\ Event("forcebuy") /\ CanSend
    /\ \E t \in Tickers : Publish("bot", "BUY", t, 1, 0)
    /\ UNCHANGED <<pc, loopVars, marketVars, recent, riskVars, dayVars, day, saved,
                   halted, walletVars, pipeVars>>

\* What a save that is cut short leaves: the new row with the old positions, or
\* with some of the new ones.
CutShort ==
    {[books EXCEPT !.positions = disk.positions]}
    \cup {[books EXCEPT !.positions = [t \in Tickers |-> IF t \in kept THEN @[t] ELSE NoPos]] :
            kept \in SUBSET Tickers}

\* lifespan ends after persist_state(); a crash ends at once.
Stop(kind) ==
    /\ pc # "down" /\ Event(kind)
    /\ pc' = "down"
    /\ todo' = {} /\ grown' = FALSE /\ openCount' = 0 /\ low' = FALSE /\ had' = FALSE
    /\ cur' = NoOrder /\ tries' = {}
    /\ saved' = IF kind = "shutdown" THEN {Risk} ELSE saved
    /\ listening' = FALSE /\ toListen' = <<>>
    /\ disk' \in {disk} \cup (IF disk = books THEN {} ELSE CutShort)
    /\ UNCHANGED <<marketVars, recent, riskVars, dayVars, day, halted, wallet, books,
                   split, engineVars, toBook, missed, signals, sent>>

-------------------------------------------------------------------------------
\* What the event loop does of itself, once a sleep ends or a guard answers.
LoopRuns ==
    \/ Heartbeat \/ BeginScan
    \/ \E t \in Tickers : LookAt(t)
    \/ Guarded \/ ScanRaises \/ EndScan \/ ForceBuyBest \/ TryBest \/ RotateOut

\* What waits for Redis.
LoopWaits == Start \/ Top \/ HaltUnread \/ Persist \/ Published

Time ==
    \/ PauseExpires
    \/ \E t \in Tickers : SignalCooldownEnds(t) \/ TickerCooldownEnds(t)

Next ==
    \/ LoopRuns \/ LoopWaits \/ Time
    \/ EngineActs \/ EngineEnds \/ EngineStarts
    \/ OrchestratorBooks \/ SaveWallet \/ ResetWallet \/ Subscribe \/ Listen
    \/ Quote \/ FirstQuote \/ NewDay \/ HaltOrResume \/ ForceBuy
    \/ \E kind \in {"crash", "shutdown"} : Stop(kind)

Spec == Init /\ [][Next]_vars

\* Sleeps end and guards answer within their clients' 45 s.  No pause or cooldown
\* lasts for ever, which is what weak fairness of the step that ends it says.
\* Nothing is assumed of Redis, whose client has no time-out (strategy.py:53).
FairSpec ==
    /\ Spec
    /\ WF_vars(LoopRuns)
    /\ []<>(pause # "running")
    /\ \A t \in Tickers : []<>(t \notin recent) /\ []<>(t \notin blocked)

-------------------------------------------------------------------------------
Order  == [by : {"scan", "best", "bot"}, dir : {"BUY", "SELL"}, ticker : Tickers,
           qty : Nat, price : Nat]
Report == [dir : {"BUY", "SELL"}, ticker : Tickers, qty : Nat,
           status : {"OPEN", "WIN", "LOSS"}, entry : Nat, exit : Nat]
RiskState == [losses : 0 .. LossesToPause, pause : {"none", "running", "expired"},
              date : Nat, tickerLosses : [Tickers -> 0 .. LossesToBlock],
              blocked : SUBSET Tickers]

Lots == [qty : Nat, entry : Nat]

TypeOK ==
    /\ pc \in {"down", "top", "awake", "saving", "begin", "scan", "guard", "sent", "best",
              "dead"}
    /\ todo \in SUBSET Tickers /\ grown \in BOOLEAN
    /\ openCount \in Nat /\ low \in BOOLEAN /\ had \in BOOLEAN
    /\ cur \in [ticker : Tickers, dir : {"BUY", "SELL"}, price : Prices, qty : Nat]
               \cup {NoOrder}
    /\ tries \in SUBSET [ticker : Tickers, price : Prices]
    /\ known \in SUBSET Tickers /\ price \in [Tickers -> Prices]
    /\ recent \in SUBSET Tickers
    /\ Risk \in RiskState
    /\ startEquity \in SUBSET Int /\ day \in Nat /\ dayPnl \in Int
    /\ saved \in SUBSET RiskState
    /\ halted \in BOOLEAN
    /\ wallet \in Wallets /\ books \in Wallets /\ split \in BOOLEAN /\ disk \in Wallets
    /\ engine \in {"up", "down"}
    /\ held \in [Tickers -> Lots] /\ stored \in [Tickers -> Lots]
    /\ signals \in Seq(Order)
    /\ listening \in BOOLEAN /\ toListen \in Seq(Report) /\ toBook \in Seq(Report)
    /\ filled \in [Tickers -> Nat] /\ missed \in SUBSET Tickers
    /\ sent \in 0 .. MaxSignals /\ events \in 0 .. MaxEvents

(* Neither the wallet the loop decides on nor the one results are booked in *)
(* holds more of a ticker than the engine has bought of it, with what is     *)
(* still on its way to be booked, however results are lost, wallets are      *)
(* loaded, reset and half saved, and restarts fall.                          *)
Shares(r, t) == IF r.dir = "BUY" /\ r.ticker = t THEN r.qty ELSE 0
SharesIn(results, t) ==
    LET upto[n \in 0 .. Len(results)] ==
            IF n = 0 THEN 0 ELSE upto[n - 1] + Shares(results[n], t)
    IN  upto[Len(results)]
OnTheWay(t) == SharesIn(toBook, t)
WalletIsBacked ==
    \A t \in Tickers, w \in {wallet, books, disk} :
        w.positions[t].qty + OnTheWay(t) <= filled[t]

(* What the engine holds, the wallet holds too, once the results of the      *)
(* ticker are booked, and so does what the engine would restore: though a    *)
(* SELL empties the engine's position and only takes its own quantity from   *)
(* the wallet, and a BUY replaces the one and adds to the other; whichever   *)
(* of the two restarts, and wherever the engine stops.  Excepted is a ticker *)
(* of which, since it was last sold, a BUY was recorded and not reported,    *)
(* or reported and not booked, the HDEL failed, or the wallet was loaded     *)
(* with another position than it had.                                        *)
EngineIsCovered ==
    \A t \in Tickers \ missed :
        (\A i \in DOMAIN toBook : toBook[i].ticker # t)
            => /\ wallet.positions[t].qty >= held[t].qty
               /\ wallet.positions[t].qty >= stored[t].qty

(* A pause, once the listener has called it, is ended by time alone, though *)
(* the scan loop writes the same variable; and it takes hold at once: at    *)
(* most the BUY whose guards were awaited when it came goes out.            *)
PauseTakesHold ==
    [][pause = "running" /\ pc # "down" =>
          /\ pause' # "none"
          /\ pc' \in {"guard", "best"} => pc \in {"guard", "best"}]_vars

\* A call to Redis that never answers holds the loop for good.
Waits == pc \in {"down", "top", "saving", "sent"}

\* The three exceptions that end run(): the history got a key under the iterator
\* (line 267), _daily_start_equity was never set (334), a position cost nothing (311).
Ended ==
    /\ pc = "dead"
    /\ grown \/ startEquity = {} \/ \E t \in Positions : wallet.positions[t].cost = 0

(* The loop always comes back to its top: no guard, order, result, quote,   *)
(* restart or command keeps it from there, but a Redis that does not answer *)
(* and the three exceptions.                                                 *)
ScansAgain == []<>(pc = "top") \/ <>[]Waits \/ <>Ended

(* A halt that is not taken back is obeyed in the end, if Redis can be asked *)
(* (an error of the GET is passed over, strategy.py:215): the loop comes to  *)
(* rest at its top, or for good in a call or an exception, whatever is held  *)
(* and whatever else is going on.                                            *)
HaltTakesEffect ==
    <>[]halted => []<><<HaltUnread>>_vars \/ <>[](Waits \/ pc = "dead")

(* A position under its stop loss does not stay there unnoticed (README.md:90): *)
(* a SELL is published or the price recovers, or trading is halted or at its    *)
(* daily limit; unless the loop has ended, or scan after scan an entry signal   *)
(* of the ticker comes first (strategy.py:309).                                 *)
Losing(t) ==
    t \in Positions \cap known /\ Gain(t) <= 0 - StopLoss * wallet.positions[t].cost
BeingSold(t) == pc = "sent" /\ cur.ticker = t /\ cur.dir = "SELL"
AtLimit == \E start \in startEquity : Equity(wallet) > 0 /\ OverLimit(Equity(wallet) - start, start)
Enters(t) == pc = "scan" /\ pc' = "guard" /\ cur'.ticker = t
StopLossFires ==
    \A t \in Tickers :
        \/ []<>(~Losing(t) \/ BeingSold(t) \/ halted \/ AtLimit)
        \/ []<><<Enters(t)>>_vars
        \/ <>[](Waits \/ pc = "dead")

-------------------------------------------------------------------------------
(* Claims of the documentation that the code does not keep.                 *)

(* main.py:109, create_task(strategy.run()): it runs as long as the service. *)
NeverEnds == pc # "dead"

\* An order of the loop goes out in this step.
Orders(dir) ==
    /\ Len(signals') = Len(signals) + 1
    /\ LET s == signals'[Len(signals')] IN s.by # "bot" /\ s.dir = dir

(* app/optimizer.py:19, "max MaxPositions open".                            *)
PositionsAreLimited == Cardinality(Positions) <= MaxPositions

(* README.md:90, "Stop-loss | 0.5% per trade": a scan that comes to a ticker *)
(* under its stop loss, outside its cooldowns, sells it.                    *)
StopLossComesFirst ==
    [][\A t \in Tickers :
          /\ pc = "scan" /\ pc' # "down" /\ t \in todo /\ t \notin todo'
          /\ Losing(t) /\ t \notin recent \cup blocked /\ CanSend
          => Orders("SELL")]_vars

(* README.md:89, "3 losses -> 10-minute pause": no BUY goes out in a pause. *)
PauseIsKept == [][pause = "running" => ~Orders("BUY")]_vars

(* README.md:88, "2% of capital - auto-halts": no scan begins once the      *)
(* losses reported and booked today have reached the limit.                 *)
LimitHalts ==
    [][pc' = "scan" /\ pc \in {"awake", "begin"} /\ date = day =>
          ~ \E start \in startEquity : OverLimit(dayPnl, start)]_vars

(* bot.py:208, "EMERGENCY HALT - All trading stopped".                      *)
HaltStopsTrading == [][halted => ~Orders("BUY") /\ ~Orders("SELL")]_vars

(* docs/persistence_report.md:47, "Safety brakes survive restarts": a pause *)
(* that was running before is still there afterwards.                       *)
BrakesSurvive ==
    [][pc = "down" /\ pc' = "top" /\ pause = "running" => pause' = "running"]_vars

===============================================================================
