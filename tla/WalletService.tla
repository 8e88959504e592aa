---------------------------- MODULE WalletService ----------------------------
(***************************************************************************)
(* The wallet inside the memory service: the trade and reset handlers of   *)
(* src/app/router.py, the fire-and-forget saves of wallet.py, statement by *)
(* statement as db.py sends them (each commits on its own, each save on a  *)
(* connection of the pool), process crashes and Postgres outages.          *)
(***************************************************************************)
EXTENDS Wallet

CONSTANTS
    Capital,          \* STRATEGY_INITIAL_CAPITAL
    TableCapital,     \* the 100000 of the row _migrate inserts
    ResetCapitals,    \* amounts /wallet/reset is called with
    Qtys, Prices,     \* quantities and entry prices of reported trades
    Connections,      \* connections of the pool (max_size=5)
    MaxOps,           \* bound: requests served
    FaultKinds,       \* subset of {"crash", "postgres"}
    MaxFaults         \* bound: faults in a behaviour

ASSUME CapitalAssumption ==
    Capital \in Nat /\ TableCapital \in Nat /\ ResetCapitals \subseteq Nat
\* Engine refuses a BUY of nothing (execution.rs:157).
ASSUME QtysAssumption == Qtys \subseteq Nat \ {0}
ASSUME PricesAssumption == Prices \subseteq Nat
ASSUME BoundsAssumption == MaxOps \in Nat /\ MaxFaults \in Nat

VARIABLES
    up,               \* the memory service runs
    mem,              \* router.wallet_instance, as an object
    boot,             \* wallet.wallet, the object strategy.py and the bridges hold
    own,              \* the two are still the same object
    request,          \* the trade whose handler awaits db.log_trade
    saves,            \* what each connection of the pool is saving
    row,              \* row 1 of table wallet
    rows,             \* table positions
    dbUp,             \* Postgres answers
    lost,             \* history: since the last complete save or load, a save died
                      \*          or a load failed
    mixed,            \* history: the save started last ran beside another
    torn,             \* history: mem was loaded from what such saves left
    reset,            \* history: how far the last reset got
    ops, faults       \* counters of the bounds

memory == <<up, mem, boot, own, request>>
tables == <<row, rows>>
vars == <<up, mem, boot, own, request, saves, row, rows, dbUp, lost, mixed, torn,
          reset, ops, faults>>

None == [dir |-> "none"]
Trade == [dir : {"BUY", "SELL"}, ticker : Tickers, qty : Qtys, price : Prices]

Idle == [at |-> "idle"]
Save == [at : {"update", "delete", "insert"}, snap : Wallets,
         left : SUBSET Tickers, resets : BOOLEAN]

Money(w) == [initial |-> w.initial, available |-> w.available,
             invested |-> w.invested, realized |-> w.realized]
Row == [initial : Int, available : Int, invested : Int, realized : Int]

\* load_wallet: what the tables hold, as a wallet.
Stored == [initial |-> row.initial, available |-> row.available,
           invested |-> row.invested, realized |-> row.realized,
           positions |-> rows]

Held(w) == {t \in Tickers : w.positions[t].qty > 0}
Quiet   == \A c \in Connections : saves[c] = Idle

Fault(kind) == kind \in FaultKinds /\ faults < MaxFaults /\ faults' = faults + 1

\* The tables as _migrate leaves them; while the service is down mem and boot
\* are not objects but what was, or would have been, in memory last.
Init ==
    /\ up = FALSE
    /\ mem = Fresh(TableCapital) /\ boot = mem /\ own = TRUE
    /\ request = None
    /\ saves = [c \in Connections |-> Idle]
    /\ row = Money(Fresh(TableCapital))
    /\ rows = [t \in Tickers |-> NoPos]
    /\ dbUp = TRUE
    /\ lost = FALSE /\ mixed = FALSE /\ torn = FALSE /\ reset = "none"
    /\ ops = 0 /\ faults = 0

-------------------------------------------------------------------------------
(* Requests.                                                                 *)

\* A snapshot of w goes to a connection of the pool.
StartSave(w, resets) ==
    \E c \in Connections :
        /\ saves[c] = Idle
        /\ saves' = [saves EXCEPT ![c] = [at |-> "update", snap |-> w,
                                          left |-> Held(w), resets |-> resets]]
        /\ mixed' = ~Quiet

\* POST /dash/trade up to its await; the orchestrator sends one at a time.
TradeArrives ==
    /\ up /\ request = None /\ ops < MaxOps
    /\ request' \in Trade
    /\ ops' = ops + 1
    /\ UNCHANGED <<up, mem, boot, own, saves, tables, dbUp, lost, mixed, torn, reset, faults>>

\* The wallet after the trade; a ValueError leaves it alone.
Traded(w, r) ==
    IF r.dir = "BUY"
    THEN IF CanOpen(w, r.qty, r.price) THEN Opened(w, r.ticker, r.qty, r.price) ELSE w
    ELSE IF CanClose(w, r.ticker) THEN Closed(w, r.ticker, r.qty, r.price) ELSE w

Accepts(w, r) ==
    IF r.dir = "BUY" THEN CanOpen(w, r.qty, r.price) ELSE CanClose(w, r.ticker)

\* The handler after db.log_trade came back, or raised and was caught: the
\* operation with its _save(), or the ValueError and nothing.
LogTrade ==
    /\ up /\ request # None
    /\ mem' = Traded(mem, request)
    /\ boot' = IF own THEN mem' ELSE boot
    /\ IF Accepts(mem, request)
       THEN StartSave(mem', FALSE) /\ reset' = "none"
       ELSE UNCHANGED <<saves, mixed, reset>>
    /\ request' = None
    /\ UNCHANGED <<up, own, tables, dbUp, lost, torn, ops, faults>>

\* POST /wallet/reset: the router's name is bound to a new object, which is saved.
WalletReset ==
    /\ up /\ ops < MaxOps
    /\ ops' = ops + 1
    /\ \E capital \in ResetCapitals : mem' = Fresh(capital)
    /\ own' = FALSE
    /\ StartSave(mem', TRUE)
    /\ torn' = FALSE
    /\ reset' = "saving"
    /\ UNCHANGED <<up, boot, request, tables, dbUp, lost, faults>>

-------------------------------------------------------------------------------
(* save_wallet on connection c, one statement at a time.                     *)

Finished(c) ==
    /\ saves' = [saves EXCEPT ![c] = Idle]
    /\ lost' = FALSE
    /\ reset' = IF saves[c].resets /\ reset = "saving" THEN "saved" ELSE reset

Died(c) ==
    /\ saves' = [saves EXCEPT ![c] = Idle]
    /\ lost' = TRUE
    /\ reset' = IF saves[c].resets /\ reset = "saving" THEN "none" ELSE reset

UpdateRow(c) ==
    /\ dbUp /\ saves[c].at = "update"
    /\ row' = Money(saves[c].snap)
    /\ saves' = [saves EXCEPT ![c].at = "delete"]
    /\ UNCHANGED <<memory, rows, dbUp, lost, mixed, torn, reset, ops, faults>>

\* Mutant of DeleteRows: the old positions stay.
DeleteRowsNot(c) ==
    /\ dbUp /\ saves[c].at = "delete"
    /\ UNCHANGED rows
    /\ IF saves[c].left = {}
       THEN Finished(c)
       ELSE saves' = [saves EXCEPT ![c].at = "insert"] /\ UNCHANGED <<lost, reset>>
    /\ UNCHANGED <<memory, row, dbUp, mixed, torn, ops, faults>>

DeleteRows(c) ==
    /\ dbUp /\ saves[c].at = "delete"
    /\ rows' = [t \in Tickers |-> NoPos]
    /\ IF saves[c].left = {}
       THEN Finished(c)
       ELSE saves' = [saves EXCEPT ![c].at = "insert"] /\ UNCHANGED <<lost, reset>>
    /\ UNCHANGED <<memory, row, dbUp, mixed, torn, ops, faults>>

\* The next row goes in; a ticker already there breaks the primary key and the
\* exception ends the save.  The order of the dict is left open.
InsertRow(c) ==
    /\ dbUp /\ saves[c].at = "insert"
    /\ \E t \in saves[c].left :
          IF rows[t] # NoPos
          THEN Died(c) /\ UNCHANGED rows
          ELSE /\ rows' = [rows EXCEPT ![t] = saves[c].snap.positions[t]]
               /\ IF saves[c].left = {t}
                  THEN Finished(c)
                  ELSE saves' = [saves EXCEPT ![c].left = @ \ {t}]
                       /\ UNCHANGED <<lost, reset>>
    /\ UNCHANGED <<memory, row, dbUp, mixed, torn, ops, faults>>

\* A statement raises; nobody looks at the task again.
SaveFails(c) ==
    /\ ~dbUp /\ saves[c] # Idle
    /\ Died(c)
    /\ UNCHANGED <<memory, tables, dbUp, mixed, torn, ops, faults>>

-------------------------------------------------------------------------------
(* Life of the process and of Postgres.                                      *)

\* Mutant of Start: realized_pnl is not read back.
StartForgetsPnl ==
    /\ ~up
    /\ up' = TRUE
    /\ mem' = IF dbUp THEN [Stored EXCEPT !.realized = 0] ELSE Fresh(Capital)
    /\ boot' = mem' /\ own' = TRUE
    /\ torn' = (dbUp /\ (lost \/ mixed \/ torn))
    /\ lost' = ~dbUp
    /\ mixed' = FALSE
    /\ UNCHANGED <<request, saves, tables, dbUp, reset, ops, faults>>

\* lifespan: load_from_db; on an exception the fresh wallet is kept.
Start ==
    /\ ~up
    /\ up' = TRUE
    /\ mem' = IF dbUp THEN Stored ELSE Fresh(Capital)
    /\ boot' = mem' /\ own' = TRUE
    /\ torn' = (dbUp /\ (lost \/ mixed \/ torn))
    /\ lost' = ~dbUp
    /\ mixed' = FALSE
    /\ UNCHANGED <<request, saves, tables, dbUp, reset, ops, faults>>

\* The process dies and its tasks with it (mem keeps what it held, unread).
Crash ==
    /\ up /\ Fault("crash")
    /\ up' = FALSE
    /\ request' = None
    /\ saves' = [c \in Connections |-> Idle]
    /\ lost' = (lost \/ ~Quiet)
    /\ reset' = IF reset = "saving" THEN "none" ELSE reset
    /\ UNCHANGED <<mem, boot, own, tables, dbUp, mixed, torn, ops>>

PostgresDown ==
    /\ dbUp /\ Fault("postgres")
    /\ dbUp' = FALSE
    /\ UNCHANGED <<memory, saves, tables, lost, mixed, torn, reset, ops>>

PostgresBack ==
    /\ ~dbUp
    /\ dbUp' = TRUE
    /\ UNCHANGED <<memory, saves, tables, lost, mixed, torn, reset, ops, faults>>

-------------------------------------------------------------------------------
SaveStep == \E c \in Connections :
    UpdateRow(c) \/ DeleteRows(c) \/ InsertRow(c) \/ SaveFails(c)

Next ==
    \/ TradeArrives \/ LogTrade \/ WalletReset
    \/ SaveStep
    \/ Start \/ Crash \/ PostgresDown \/ PostgresBack

Spec == Init /\ [][Next]_vars

\* The event loop runs the tasks that are ready, docker restarts the container.
FairSpec == Spec /\ WF_vars(LogTrade) /\ WF_vars(SaveStep) /\ WF_vars(Start)

-------------------------------------------------------------------------------
TypeOK ==
    /\ up \in BOOLEAN /\ own \in BOOLEAN /\ dbUp \in BOOLEAN
    /\ mem \in Wallets /\ boot \in Wallets
    /\ request \in Trade \cup {None}
    /\ saves \in [Connections -> Save \cup {Idle}]
    /\ row \in Row
    /\ rows \in [Tickers -> Position]
    /\ lost \in BOOLEAN /\ mixed \in BOOLEAN /\ torn \in BOOLEAN
    /\ reset \in {"none", "saving", "saved"}
    /\ ops \in 0 .. MaxOps /\ faults \in 0 .. MaxFaults

Accounted(m) == m.available + m.invested = m.initial + m.realized

(* Money is neither made nor lost: in memory and in the table, at every     *)
(* moment and after every restart, however saves overlapped or broke off,   *)
(* equity is the initial capital plus the profit realized.                  *)
EquityAccounted == Accounted(mem) /\ Accounted(boot) /\ Accounted(row)

(* No trade is booked on borrowed money: cash stays at or above zero        *)
(* (wallet.py:39-40), also when a restart loads a wallet whose positions    *)
(* and amounts come from different saves.                                   *)
CashNeverNegative == mem.available >= 0 /\ row.available >= 0

(* The amount invested is what the open positions cost, as long as the      *)
(* wallet was not loaded from a broken-off save.                            *)
InvestedIsCost == up /\ ~torn => mem.invested = CostHeld(mem)

(* Restarting changes nothing: if Postgres answers, every save got through  *)
(* and the last did not overlap with another, the wallet loaded is the      *)
(* wallet that was in memory.                                               *)
RestartKeepsWallet ==
    [][~up /\ up' /\ dbUp /\ ~lost /\ ~mixed => mem' = mem]_vars

(* Once trades stop coming, the tables come to hold the wallet in memory    *)
(* and keep holding it, whatever crashed before, if Postgres stayed up and  *)
(* the last save had the tables to itself.                                  *)
SavedInTheEnd == []dbUp => <>[](up /\ (mixed \/ Stored = mem))

-------------------------------------------------------------------------------
(* Two claims that the code does not keep.                                  *)

(* docs/persistence_report.md:20, "Full round-trip save/load": a restart    *)
(* after saves that all got through loads the wallet that was in memory.    *)
FullRoundTrip == [][~up /\ up' /\ dbUp /\ ~lost => mem' = mem]_vars

(* router.py:336, "Persist reset to DB so restart doesn't reload old        *)
(* state": once the reset is saved and until a trade is booked, the tables  *)
(* hold the reset wallet.                                                   *)
ResetSticks == reset = "saved" /\ Quiet => Stored = mem

===============================================================================
