-------------------------------- MODULE Report --------------------------------
(***************************************************************************)
(* GET /report/daily of src/app/router.py, query by query: the days of the *)
(* table of trades (db.py), two more queries for each day, all of it again *)
(* for the equity curve, the capital, then the statistics by ticker and by *)
(* hour, while trades are booked and days end in between; and the page of  *)
(* a single day, which adds up the same rows in Python.                    *)
(*                                                                         *)
(* A trade is its ticker, the time it is dated, its gain in percent and    *)
(* its cost.  The page of a day rounds each trade's percentage, to a       *)
(* multiple of Grain, before it counts and adds; that it rounds its price  *)
(* too, which has two decimals as the exchange quotes it, is left out, as  *)
(* is rounding for display, and so are the statistics by signal and by     *)
(* week, which have the form of those by ticker.  Reports share nothing:   *)
(* there is one.                                                           *)
(***************************************************************************)
EXTENDS Integers, SequencesExt

CONSTANTS
    Tickers,        \* tickers traded
    Percents,       \* pnl_percent; an opening has zero
    Costs,          \* entry_price * quantity
    Capitals,       \* initial capitals
    DayLength,      \* units of time in a day
    Ahead,          \* what Indian time is ahead of the database's, in these
    Limit,          \* the parameter `days`
    Grain,          \* what the page of a day rounds a percentage to
    MaxTrades,      \* bound: trades booked
    MaxTime         \* bound: units of time

ASSUME TimesAssumption ==
    /\ DayLength \in Nat \ {0} /\ Ahead \in Nat /\ Limit \in Nat \ {0}
    /\ Grain \in Nat \ {0} /\ MaxTrades \in Nat /\ MaxTime \in Nat
ASSUME MoneyAssumption ==
    Percents \subseteq Int /\ Costs \subseteq Nat /\ Capitals \subseteq Nat
ASSUME TickersAssumption == IsFiniteSet(Tickers)

VARIABLES
    trades,     \* table trades, [at, ticker, percent, cost], as they were committed
    now,        \* NOW()
    pc,         \* the query that is due; "idle" before and "done" after them
    rows,       \* what the first query of get_daily_summaries returned
    days,       \* its result, as far as it has come, newest first
    gain,       \* gross profit of the day under way
    overall,    \* the first result, from which the totals are taken
    curve,      \* the equity curve, oldest day first
    stats,      \* the statistics by ticker and by hour, as far as they have come
    reads       \* history: when each part was read, and the trades booked by then

reportVars == <<trades, now, pc, rows, days, gain, overall, curve, stats, reads>>
tableVars == <<trades, now>>
handlerVars == <<pc, rows, days, gain, overall, curve, stats, reads>>

ReportInit ==
    /\ trades = <<>> /\ now = 0
    /\ pc = "idle" /\ rows = <<>> /\ days = <<>> /\ gain = 0
    /\ overall = <<>> /\ curve = <<>>
    /\ stats = <<>> /\ reads = <<>>

-------------------------------------------------------------------------------
(* What the queries compute.                                                 *)

\* DATE(timestamp AT TIME ZONE 'Asia/Kolkata')
DayOf(time) == (time + Ahead) \div DayLength
HourOf(time) == (time + Ahead) % DayLength

\* Mutant of On: the day is that of the database's clock.
OnUtc(day) == {i \in DOMAIN trades : trades[i].at \div DayLength = day}

On(day) == {i \in DOMAIN trades : DayOf(trades[i].at) = day}

Won(S)  == {i \in S : trades[i].percent > 0}
Lost(S) == {i \in S : trades[i].percent < 0}

\* pnl_percent * entry_price * quantity, in hundredths
Profit(trade) == trade.percent * trade.cost
Total(S) == SumFunctionOnSet([i \in DOMAIN trades |-> Profit(trades[i])], S)

DayRow(day) == [day |-> day, total |-> Cardinality(On(day)), wins |-> Cardinality(Won(On(day))),
                losses |-> Cardinality(Lost(On(day))), pnl |-> Total(On(day))]

\* GROUP BY trade_date ORDER BY trade_date DESC LIMIT $1: days with trades, not days.
Dates == {DayOf(trades[i].at) : i \in DOMAIN trades}

Newest == CHOOSE list \in [1 .. Cardinality(Dates) -> Dates] :
              \A i, j \in DOMAIN list : i < j => list[i] > list[j]

DayRows ==
    LET length == IF Cardinality(Dates) < Limit THEN Cardinality(Dates) ELSE Limit
    IN  [i \in 1 .. length |-> DayRow(Newest[i])]

\* WHERE timestamp >= NOW() - days: the last so many times 24 hours.
InWindow(time) == {i \in DOMAIN trades : trades[i].at >= time - Limit * DayLength}

\* get_ticker_stats, get_hourly_stats: GROUP BY.
ByTicker == [t \in Tickers |-> Total({i \in InWindow(now) : trades[i].ticker = t})]

\* Mutant of ByHour: the window is one of whole days.
ByHourOfDays == [h \in 0 .. DayLength - 1 |->
    Total({i \in DOMAIN trades : /\ HourOf(trades[i].at) = h
                                 /\ DayOf(trades[i].at) > DayOf(now) - Limit})]

ByHour == [h \in 0 .. DayLength - 1 |->
    Total({i \in InWindow(now) : HourOf(trades[i].at) = h})]

\* round(pnl_percent, 2): a small gain becomes none.
Rounded(percent) == ((2 * percent + Grain) \div (2 * Grain)) * Grain

\* get_day_detail: one query; trades rounded, counted and added up in Python.
Detail(day) ==
    LET mine  == {i \in DOMAIN trades : DayOf(trades[i].at) = day}
        Shown(i) == Rounded(trades[i].percent)
        won   == {i \in mine : Shown(i) > 0}
        lost  == {i \in mine : Shown(i) < 0}
        gains == [i \in DOMAIN trades |-> Shown(i) * trades[i].cost]
    IN  [day    |-> day, total |-> Cardinality(mine),
         wins   |-> Cardinality(won), losses |-> Cardinality(lost),
         pnl    |-> SumFunctionOnSet(gains, mine),
         gain   |-> SumFunctionOnSet(gains, won),
         loss   |-> 0 - SumFunctionOnSet(gains, lost)]

\* The loop of get_daily_equity_curve: the peak that drawdowns are measured
\* from begins at zero, so the capital itself is none.
CurveOf(done, base) ==
    LET list == Reverse(done)
        point[i \in 0 .. Len(list)] ==
            IF i = 0 THEN [equity |-> base, peak |-> 0]
            ELSE LET equity == point[i - 1].equity + list[i].pnl
                 IN  [equity |-> equity,
                      peak   |-> IF equity > point[i - 1].peak THEN equity
                                                               ELSE point[i - 1].peak]
    IN  [i \in 1 .. Len(list) |-> point[i]]

-------------------------------------------------------------------------------
(* The handler.                                                              *)

Read == [at |-> now, booked |-> Len(trades)]

\* get_daily_summaries: GET /report/daily begins with it, and
\* get_daily_equity_curve calls it once more.
ReadDays ==
    /\ rows' = DayRows /\ days' = <<>>
    /\ \/ pc = "idle" /\ pc' = IF rows' = <<>> THEN "again" ELSE "gain"
       \/ pc = "again" /\ pc' = IF rows' = <<>> THEN "capital" ELSE "gain"
    /\ reads' = Append(reads, Read)
    /\ UNCHANGED <<tableVars, gain, overall, curve, stats>>

Current == rows[Len(days) + 1]

ReadGain ==
    /\ pc = "gain"
    /\ gain' = Total(Won(On(Current.day)))
    /\ pc' = "loss"
    /\ UNCHANGED <<tableVars, rows, days, overall, curve, stats, reads>>

ReadLoss ==
    /\ pc = "loss"
    /\ days' = Append(days,
           [day |-> Current.day, total |-> Current.total, wins |-> Current.wins,
            losses |-> Current.losses, pnl |-> Current.pnl,
            gain |-> gain, loss |-> 0 - Total(Lost(On(Current.day)))])
    /\ IF Len(days') < Len(rows)
       THEN pc' = "gain" /\ UNCHANGED overall
       ELSE IF Len(reads) = 1
       THEN pc' = "again" /\ overall' = days'
       ELSE pc' = "capital" /\ UNCHANGED overall
    /\ UNCHANGED <<tableVars, rows, gain, curve, stats, reads>>

\* initial_capital is what the last POST /wallet/reset made it.
ReadCapital ==
    /\ pc = "capital"
    /\ \E capital \in Capitals : curve' = CurveOf(days, capital)
    /\ pc' = "tickers"
    /\ UNCHANGED <<tableVars, rows, days, gain, overall, stats, reads>>

ReadStats ==
    /\ \/ pc = "tickers" /\ stats' = <<ByTicker>> /\ pc' = "hours"
       \/ pc = "hours" /\ stats' = Append(stats, ByHour) /\ pc' = "done"
    /\ reads' = Append(reads, Read)
    /\ UNCHANGED <<tableVars, rows, days, gain, overall, curve>>

-------------------------------------------------------------------------------
(* Meanwhile.                                                                *)

\* db.log_trade: the row is dated NOW(), when the INSERT begins, and seen when it
\* commits, in the same unit of time or, if the clock moves on in between, the next.
LogTrade ==
    /\ Len(trades) < MaxTrades
    /\ \E t \in Tickers, percent \in Percents, cost \in Costs, at \in {now, now - 1} \cap Nat :
           trades' = Append(trades, [at |-> at, ticker |-> t, percent |-> percent,
                                     cost |-> cost])
    /\ UNCHANGED <<now, handlerVars>>

Tick ==
    /\ now < MaxTime
    /\ now' = now + 1
    /\ UNCHANGED <<trades, handlerVars>>

ReportNext ==
    \/ ReadDays \/ ReadGain \/ ReadLoss \/ ReadCapital \/ ReadStats
    \/ LogTrade \/ Tick

ReportSpec == ReportInit /\ [][ReportNext]_reportVars

-------------------------------------------------------------------------------
ReportTypeOK ==
    /\ trades \in Seq([at : 0 .. MaxTime, ticker : Tickers, percent : Percents,
                       cost : Costs])
    /\ now \in 0 .. MaxTime
    /\ pc \in {"idle", "gain", "loss", "again", "capital", "tickers", "hours", "done"}
    /\ Len(days) <= Len(rows) /\ Len(rows) <= Limit /\ Len(overall) <= Limit
    /\ gain \in Nat
    /\ curve \in Seq([equity : Int, peak : Nat])
    /\ Len(stats) <= 2
    /\ reads \in Seq([at : 0 .. now, booked : 0 .. Len(trades)])

\* What rounding may take from a day's profit, or add to it, twice.
Slack(day) == SumFunctionOnSet([i \in DOMAIN trades |-> Grain * trades[i].cost], On(day))

(* A day that had ended when its row was read, and longer ago than an INSERT *)
(* takes to commit, is settled: counts, profit and both halves of the profit *)
(* factor, read by three queries, are those of the same trades, and its own  *)
(* page, whenever it is opened, says the same up to what it rounds away.     *)
PastDaysAreSettled ==
    \A list \in {days, overall} : \A i \in DOMAIN list :
        LET row == list[i]  page == Detail(row.day)  slack == Slack(row.day) IN
        row.day < DayOf(reads[1].at - 1) =>
            /\ row.pnl = row.gain - row.loss
            /\ page.total = row.total
            /\ page.wins <= row.wins /\ page.losses <= row.losses
            /\ \A part \in {"pnl", "gain", "loss"} :
                   2 * (page[part] - row[part]) \in (0 - slack) .. slack

(* Parts of one report, read one after the other, differ by the trades that  *)
(* were booked, or left the window, in between and by nothing else: the      *)
(* totals and the end of the curve, which runs from the capital through the  *)
(* days (as long as no day has dropped off the list), and the statistics by  *)
(* ticker and by hour.                                                       *)
PartsDifferByBooked ==
    pc = "done" =>
        LET Left == InWindow(reads[3].at) \ InWindow(reads[4].at)
            Booked(i) == (reads[i].booked + 1) .. reads[i + 1].booked
            reported == SumFunction([i \in DOMAIN overall |-> overall[i].pnl])
        IN  /\ Len(curve) \in 1 .. Limit - 1 => \E capital \in Capitals :
                   Last(curve).equity - capital - reported = Total(Booked(1))
            /\ SumFunction(stats[2]) - SumFunction(stats[1]) =
                   Total(Booked(3) \ Left) - Total(Left \ Booked(3))

===============================================================================
