# StockAI in TLA+

StockAI trades Indian equities: a Python service looks at quotes and publishes
signals, a Rust engine turns them into broker orders, a Go service books the
results. This directory holds TLA+ models of its trading path, the TLC
configurations that check them on small instances, and TLAPS proofs that hold
for every value of their constants. Paths are relative to the repository; line
numbers in the modules' comments refer to the same commit.

## 1. The system

```
 yfinance ──> market_data.py ──feed_quote──> StrategyAgent (strategy.py)
                                              │  ▲ guards (LLM, memory, FGI)
               /halt /resume  ──trading:halt──┤  │
               /forcebuy ──┐                  │  └── trade:result (losses, pause)
                           ▼                  ▼
                 Redis pub/sub  trade:signal ────> engine (Rust, main.rs)
                                                   │ 2FA flag, rate limiter, risk
                                                   │ broker REST, map, engine:positions
                 Redis pub/sub  trade:result <─────┘
                      │
                      ▼
        orchestrator (Go, main.go) ──POST /dash/trade──> router.py ──> wallet.py
              │ post-mortem, Telegram                       │            │ save_wallet
              ▼                                             ▼            ▼
           memory service                              Postgres: trades, wallet, positions
```

`docker-compose.yml` runs Redis without a volume, Postgres with one, and every
service with `restart: unless-stopped`. Nothing in the repository tests these
parts together; there are no unit tests of the trading path.

### Inventory

| Component | State | Operations | What is hard | What makes it correct |
|---|---|---|---|---|
| Order rate limiter, `main.rs:57-86` | `tokens` (float), `last_refill` | `try_acquire` | each call moves `last_refill`, refusals too | no window of time sees more than burst + refill; polling does not starve |
| Execution engine, `main.rs:162-368`, `engine/execution.rs`, `broker/client.rs` | map `positions`, Redis hash `engine:positions`, limiter | receive, 2FA gate, limit, risk check, place, book, publish, restore | a crash or outage at every await; replies lost; the stream ends | map, hash and broker agree; reported profits are real; it keeps listening |
| Wallet, `wallet.py` | capital, cash, invested, realized, positions | `open_position`, `close_position` | partial closes, averaging | money is neither made nor lost; no borrowing |
| Wallet persistence, `wallet.py`, `db.py`, `router.py:294-341` | tables `wallet`, `positions`; saves under way | `log_trade`, `wallet_reset`, `save_wallet`, `load_from_db` | fire-and-forget saves overlap on a pool; each statement commits alone; crash in between | a restart loads the wallet that was; saves settle |
| Trading loop, `strategy.py` | price history, cooldowns, pause, loss counters, daily start | `run`, `_pick_best_trade`, `_listen_trade_results`, `persist_state`, `restore_state` | state read before an await and used after it; two tasks write the same variables; any exception ends the task | keeps scanning; pause, halt and stop loss take effect |
| Orchestrator, `cmd/orchestrator/main.go` | its subscription and channel | `signalLoop`, `runPostMortem`, `pushTradeToDash`, daily report | results wait behind a post-mortem; errors of the posts are swallowed; the channel fills up | every result is booked at most once, in order, and none waits for ever |
| Post-mortem and memory, `router.py:75-97`, `critic.py`, `vector_store.py`, `llm/providers.py` | LanceDB tables of lessons and audit records, rules in Postgres | `run_postmortem`, `generate_json`, `store`, `audit_log` | the LLM call blocks the event loop; any step may raise; two databases | a rule shown is a rule the pre-trade check finds; a failure holds up nobody |
| Operator bot, `devserver/bot/bot.py` | Redis key `trading:halt` | `/halt`, `/resume`, `/forcebuy`, health checks | a halt meets a scan under way; a forced order carries price 0 | a halt is obeyed |
| 2FA relay, `internal/handler`, `internal/token`, `cmd/relay` | session token, Redis key `2fa:active` | submit, get, status, invalidate, expiry | overlapping submissions; token and key are two records with two clocks; the install and deploy scripts write the same key without an expiry | the key of a login lasts as long as the session shown, and never into the next day |
| Scheduler, `internal/scheduler` | last run per task | `checkAndRun` | two ticks fall into a minute; a restart in between forgets the last run | once in its minute, and no more without a restart |
| Settings store, `settings_store.py` | JSON file, the copy the loop runs with | `save`, `load` | partial saves, torn writes, two sets of defaults, one of them from the environment and unchecked | guardrails hold; a restart changes nothing |
| Optimizer, `optimizer.py`, `optimizer_bridge.py`, `router.py:688-796`, `dashboard.html` | list of recommendations, last result, what each page shows | run, approve, reject, approve all | index into a list that was replaced; half a list taken over | what is approved is what was shown |
| Dashboard bridges, `dashboard_bridge.py`, `main.py:264-339` | clients, dirty flags, last payload | add, remove, mark, push | flag cleared before the state is built; builds and endpoints that raise; the list changes under the iterator; time-outs | the last state reaches every client |
| Market data, `market_data.py` | watchlist, failure counts, dropped tickers, clients | poll, discover, add, remove, broadcast | the answer is read with a watchlist that has grown; the client list changes under the iterator | a ticker the source knows is not dropped; the last price reaches strategy and pages |
| Event store, `events.py` | bounded lists | add, load | order of a reload | display only |
| Indicators, `strategy.py:515-776` | none | RSI, MACD, bands, volume, score | floating point | - |
| Guards and LLM agents, `strategy.py:401-445, 778-877`, `llm/`, `devils_advocate.py`, `researcher.py`, `sentiment_agent.py`, `macro_analyst.py` | none | check | errors and silence, each with its own default | a guard that must not fail open blocks |
| Backtest, `backtest.py` | book and curve of a replay | bar, end of a ticker, report | exits and entries on the same close; closes that are missing; the position left at the end | money is neither made, lost nor borrowed; the curve ends in the result |
| Daily report, `router.py:537-575`, `db.py:165-490` | none of its own | five groups of queries, the page of a day | trades are booked and days end between the queries | past days are settled; parts differ by what was booked in between |
| Order book and feed of the engine | book, price map | update | no reader: `signal_loop` ignores both | - |

`PROJECT.json` lists the same parts with what is modelled of each, and, under
`hazards`, everything in the code that a test would hardly reach, at its line.

## 2. The modules

| Module | Models | Code |
|---|---|---|
| `TokenBucket` | abstract: a bucket of whole tokens | the promise of `main.rs:57-86` |
| `RateLimiter` | the arithmetic of `try_acquire` | `main.rs:57-86` |
| `Engine` (INSTANCE `TokenBucket`) | `signal_loop` between its awaits, Redis, the broker | `main.rs:93-368`, `execution.rs:60-178`, `client.rs:21-44` |
| `Wallet` | the wallet record and its two operations, pure | `wallet.py:10-111` |
| `WalletService` (EXTENDS `Wallet`) | handlers, saves statement by statement, restarts | `router.py:294-341`, `db.py:105-150`, `wallet.py:81-135` |
| `Strategy` (EXTENDS `Wallet`) | the trading loop, its listener, its guards, and the pipeline behind it | `strategy.py`, `main.rs:201-362` from outside, `router.py:294-341`, `main.go:362-380`, `bot.py:199-251` |
| `Session` | the 2FA form, token and Redis key, and the scripts that set it; the daily scheduler | `handler.go:42-87`, `token.go`, `scheduler.go`, `install.sh:92-96` |
| `Settings` | settings file, the loop's copy, recommendations, the pages showing them | `settings_store.py`, `router.py:363-373, 688-796`, `optimizer_bridge.py`, `dashboard.html:451-497` |
| `Bridge` | the three push loops and their sockets | `dashboard_bridge.py`, `main.py:264-339` |
| `Journal` | a result's way from the subscription to audit, tables, wallet and lessons | `main.go:148-380`, `router.py:75-97, 294-322`, `providers.py:90-217`, `critic.py`, `vector_store.py` |
| `Execution` | abstract: what the engine promises those who send it signals | the promise of `main.rs:162-368` |
| `Backtest` | the replay bar by bar, the end of a ticker, the report or its failure | `backtest.py:48-229`, `router.py:594-616` |
| `Feed` | polling, dropping, discovery, the hand-out of quotes | `market_data.py:16-134`, `main.py:255-265` |
| `Report` | the queries of the daily report while trades are booked, the page of a day | `router.py:537-575`, `db.py:155-490` |
| `MarketProofs` (EXTENDS `RateLimiter`, `Feed`), `OperatorProofs` (`Session`, `Bridge`), `RouterProofs` (`Settings`, `Report`), `EngineProofs`, `WalletServiceProofs`, `BacktestProofs`, `JournalProofs`, `StrategyProofs` | theorems | |
| `MCSession`, `MCSettings`, `MCFeed`, `MCReport` | symmetry sets and the functions and sequences a `.cfg` cannot write | |

Who meets whom. `RateLimiter` implements `TokenBucket`, and `Engine` takes its
orders through `TokenBucket`. `Engine` implements `Execution`, which says
nothing of maps, hashes and awaits. `Wallet` is the arithmetic that `WalletService`
(one trade after the other, saves and crashes in detail) and `Strategy` (the
trading loop reads it, the pipeline writes it) share. `Journal` looks at the
same pipeline from the side of delivery: there a result is a number, and the
question is where it has been written. `Session` writes the key that `Engine`
reads as its flag (`ToggleTwoFA`); `Settings` writes the parameters that are
CONSTANTS of `Strategy`; `Feed` is where the quotes of `Strategy` come from, and
`Report` reads the table that `Journal` fills.

Three of the proof modules are about two components each, which have nothing to do
with one another but share the lemmas. Of such a pair one has its initial states,
steps and specification named after it (`LimiterSpec`, `BridgeSpec`,
`ReportSpec`), since a module that extends both can have one `Spec`.

Mutants. A definition commented "Mutant of X" stands before `X` and is used by
no specification: it is `X` with a plausible bug. With the body of `X` replaced
by it, TLC finds the property it is paired with in `PROJECT.json` violated,
which is how we know the property can fail.

### How state and actions correspond to the code

**RateLimiter.** Time is counted in ticks, `Unit` to the second, and tokens in
1/`Unit`, so that a tick refills exactly 1 and the float arithmetic becomes exact.
`Acquire` and `Refuse` are the two returns of `try_acquire`. `grants` and
`refusedAt` are history variables.

**Engine.** `pc` is the await at which `signal_loop` stands: `restore` (HGETALL),
`recv` (`stream.next`), `gate` (GET 2fa:active), `limit` (no await; separated
because it decides), `place` (the POST), `book` (HSET/HDEL), `publish`. `ended`
is the state after `signal_loop` has returned: the process lives, nobody
listens. A position is `[qty, entry]`; a ticker that is absent is `NoPos`.
`filled` and `accepted` are the broker's side: `filled` is what the orders on a
ticker add up to (`Ledger`: a second BUY adds to the first, a SELL takes its own
quantity, below zero as well), as a broker's account has it, where the engine
replaces and removes (`After`). The mock broker keeps orders and adds nothing
up. `unmatched` is history: the tickers whose last order did not open a position
where there was none or close just what there was; `cut` the tickers whose last
order fell into a window the code leaves open. `RecordsAgree` says these are the only
ways for the records to differ. `late` counts the orders let through, since the
flag was last there, on an answer of Redis: one that could not be asked is
waved through (`TwoFASeen` is about those). `linked` says the pub/sub
connections opened at start are alive: the client does not reopen them. The
connection for the hash and the flag is opened anew for each use and depends
on `redisUp` only.

**Execution.** Three variables, which are three of `Engine`'s: what the broker
has accepted, how often it has, and what was published. `Execute` asks for an
order later than all accepted before, `Send` for a result later than all sent
before, `ReportSell` for a purchase whose price the profit is reckoned against.
`Engine!ImplementsExecution` maps the variables to those of the same names. A
reply lost by the broker is an `Execute` whose report never comes; a SELL
without a position is one too.

**WalletService.** `mem` is `router.wallet_instance`, `boot` the object that
`strategy.py` and the bridges imported; `/wallet/reset` separates the two
(`own`). `saves[c]` is what connection `c` of the pool is executing: the
snapshot taken by `_save`, at one of the three statements of `save_wallet`,
each of which commits. A trade whose save would have to wait for a connection
waits with it in the model: in the code `db.log_trade` has just given one back.
`lost` (a save died or a load failed), `mixed` (the save started last ran
beside another) and `torn` (memory was loaded from what such saves left) make
precise after which histories a property holds.

**Strategy.** `pc` is the await at which `run` stands; at `scan`, and only there,
the loop is between two awaits, so no other task of the Python process runs
(`Awaiting`): not the listener, not the HTTP handlers, not the market bridge. The
engine, the operator and the clocks run at any time. Locals that are computed once
and used across awaits are variables of their own (`openCount`, `low`, `cur`,
`tries`). Clocks are replaced by whether a deadline lies ahead. RSI, MACD, bands,
volume and scores may say anything; exits that depend on the average price alone are
computed (`MustExit`). Each guard gets a verdict, an error status or nothing from
its service, and `Blocks` says what each makes of that. Of the engine there is what
its callers can see: `held` is its map, `stored` the hash it restores; a write of
the hash may fail (`Record`), the loop may end after the broker took an order, in a
PUBLISH or between two signals (`LoopEnds`), and starts again with the hash or, if
that cannot be read, without (`EngineStarts`). `wallet` is the object the strategy
decides on, `books` the router's, in which results are booked: one object until
`/wallet/reset` (`split`); `disk` is the wallet in the database, which a stop may
leave half written (`CutShort`) and a start may fail to read (`LoadWallet`).
`toListen` and `toBook` are the two subscriptions of `trade:result`. `missed` is
history: the tickers of which, since the engine last sold them, a BUY was recorded
and not reported, or was refused by the wallet or lost by the orchestrator, or of
which the HDEL failed, or the wallet was loaded with another position than it had.
`PauseTakesHold` follows a pause over steps: once the listener has called it, the
loop publishes at most the BUY whose guards were being awaited.

**Session.** Time is in half minutes, the period of the scheduler's ticker, and
a day is short. `req[r]` is where a request of the form stands: `auth` (the call
of the broker, after `Invalidate`) or `key` (the `SET`, after `tokenMgr.Set`);
two requests may stand anywhere. `token` is the token manager's record, `keyUntil` when
`2fa:active` expires (the engine is unlocked before that), `paper` that it is the
`"paper-mode"` of the scripts, which does not expire: any value unlocks, and the next
login replaces it. `keyMissed` is history: the last `SET` failed or Redis has lost
the key. `fires` counts how often a task fired in each minute, and `started` how
often the process was restarted in it, through all its lives.

**Settings.** The handlers have no await between reading and writing, so each is
one action. `file` holds the keys of `settings.json` (`None`: missing) and
`fileIs` whether it is absent, JSON, or torn by a write that broke off;
`running` is what the strategy last loaded. Of the defaults, which come from the
environment, nothing is assumed. `recs` is `_recommendations`,
`lastResult` the optimizer's stored result, `mail[b]` what is on its way to page
`b` and `shown[b]` its rows. Pages name a suggestion by its index. `garbled` is
history: `_run_optimizer` raised in the middle of a list.

**Bridge.** One module for three loops, told apart by `kind`. `pc` is where `run`
stands: `sleep`, `build` (the await of the database or of a thread; the wallet's
build has none), `send` (no await: between two sends) and `await` (in a send).
`next` is the list iterator, `initial` what `send_initial` has read and not yet
sent. A socket is `open` until its browser goes; its endpoint is `listening` once it
has come to `receive_text`, and removes the client when that says so (`Leave`). It
does not if anything else is raised, which leaves the client among the
`unremoved`, listed until a push has tried it. `behind` is history: the clients
that one of five windows has left with an older state than they could have: (1)
the build or the send of `send_initial` raises, or sends what was read before the loop
showed something newer, (2) a client that leaves moves the next one
under the iterator, (3) a payload equal to the last is not sent although a
client was shown another in between, (4) the wallet's build raises with the flag
cleared, (5) a send is cut off after a second and the client dropped although
its socket is open.

**Journal.** `socket` and `chan` are the two stages of `pubsub.Channel()`, the
second of bounded size; `opc` is where `signalLoop` stands. `requests` are posts
that have reached the memory service: they outlive the orchestrator. `llm` is
the post-mortem that blocks the event loop, so that nothing else in the service
runs (`Free`) but Postgres and the processes outside; `trades[r]` is where the
handler of `/dash/trade` for `r` awaits. `lost`, `orphans` and `unaudited` are
history: what died before or at the memory service, whose sender died before
the answer, and whose audit record could not be written.

**Backtest.** `book` is `wallet`, `invested`, `positions[ticker]` and the sum of
`trades`, whose profits are kept exact; prices are whole numbers and percentages
thousandths, so every comparison is made by multiplying out. A close may be zero
or NaN: such a bar is passed over (`MissingBar`), but it is what a position left
at the end is sold at. The RSI of the whole history and the drop from its first
price are computed, the RSI of three time frames and the MACD answer anything.
The properties hold for exits at the stop loss, the take profit and, once 5 %
were gained, the trailing stop 3 % below the highest close.

**Feed.** `pc` says whether the thread sleeps or downloads, or the loop hands out
quotes or is in a send. `asked` is the list the request was made with and `watch`
the one its answer is read with; discovery may come between. `next` is the list
iterator, `sending` the client whose send is awaited. `refused` and `streak` are
history: how often, and how often in a row, answers lacked a ticker.

**Report.** `pc` is the query that is due: `rows` of the days, then for each day
`gain` and `loss`, all of it a second time for the curve, the capital, the
statistics by ticker and by hour. Between any two, trades are booked and time
passes. A trade is `[at, ticker, percent, cost]`; its date is `NOW()` when the INSERT
began, which may be one unit of time before it is seen (`LogTrade`). `reads` is
history: when each part was read and what had been booked by then. `Detail(day)`
is the page of a day, which rounds each percentage (`Grain`), counts wins and
losses by what is left and multiplies by the cost; its rounding of entry prices to
two decimals is left out.

## 3. What is checked

`tlc -config <cfg> <module>`; every `.cfg` says `CHECK_DEADLOCK FALSE` because
the bounds (`MaxTime`, `MaxSignals`, `MaxOps`, `MaxEvents`, `MaxResults`,
`MaxFaults`, `MaxBars`, `MaxTrades`) stop the model where the program would go on.

| Run | Module, configuration | Shows |
|---|---|---|
| limiter | `RateLimiter`, `MCRateLimiter` | `WindowBound`, `PollingIsNotStarved`, and `ImplementsBucket`: it refines `TokenBucket` |
| engine | `Engine`, `MCEngine` | `RecordsAgree`, `EntryWasPaid`, `OneAfterExpiry` under crashes, Redis outages (hash kept or lost), failing calls and lost replies; `ListensAgain` while Redis stays up, unless the broker never answers or a PUBLISH fails; `ImplementsExecution`: it refines `Execution` |
| wallet | `WalletService`, `MCWallet` | `EquityAccounted`, `CashNeverNegative` with overlapping saves, crashes and outages; `RestartKeepsWallet` and `SavedInTheEnd` where the last save did not overlap |
| strategy_safety | `Strategy`, `MCStrategySafety` | `WalletIsBacked` (neither wallet, nor the database's, holds more shares than the engine bought), `EngineIsCovered` (with results booked, the wallet never holds fewer than the engine holds or would restore, but for `missed`), `PauseTakesHold`; with failed writes and restarts of the engine, `/wallet/reset`, saves cut short, `/forcebuy` |
| strategy_live | `Strategy`, `MCStrategyLive` | `ScansAgain`: but for a Redis that does not answer and three named exceptions; `HaltTakesEffect`: if Redis can be asked; `StopLossFires`: unless the ticker's entry signals come first, trading is halted or the daily limit is reached |
| session | `MCSession`, `MCSession` | `UnlockedSameDay` but for the paper-mode key, `KeyCoversToken`, `FiredOnceADay`: once in its minute, and at most once more for each restart in it |
| settings | `MCSettings`, `MCSettings` | `WithinGuardrails`: a bounded parameter leaves its bounds only by the environment's value; `RunningIsStored`, `ShownIsListed` |
| dashboard | `Bridge`, `MCBridge` | `ListIsOpen`, and `EventuallyShown`: but for the five windows, every open page comes to show the current state |
| journal | `Journal`, `MCJournal` | `CountedOnce`, `AuditedFirst`, `BookedInOrder`, `RuleIsRemembered`, `ReceivedIsSettled` |
| backtest | `Backtest`, `MCBacktest` | `Accounted`, `NeverBorrows`, `HeldInBand`, `CurveEndsInResult` |
| feed | `MCFeed`, `MCFeed` | `DroppedForCause`; `FedInTheEnd` and `ShownInTheEnd`: the last price of every ticker not dropped reaches the strategy and the pages that stay |
| report | `MCReport`, `MCReport` | `PastDaysAreSettled`, `PartsDifferByBooked` |

The type invariants (`TypeOK` of each module) are not among the runs'
properties: most are theorems (section 4; what the theorems need of the types of
`Feed` and `Settings` is in the invariants there), and each holds if it is added
to the module's configuration.

### Further disagreements

A document or a comment says something the code does not do. Each has a
configuration that reproduces it (TLC ends with a counterexample):

| Module, configuration | Property | Who says it | What happens |
|---|---|---|---|
| `RateLimiter`, `RateLimiterSebi` | `FewerThanBurstPerSecond` | `main.rs:254` "<10 orders/sec" | ten orders in one second |
| `Engine`, `EngineClaims` (`-continue`) | `OrphanSellStopped` | `README.md:91` | the orphaned SELL is placed; only its result is withheld |
| | `TwoFASeen` | `main.rs:241` | no connection to Redis, no check |
| | `SurvivesRestart` | `main.rs:175` | a crash before HSET loses the position |
| `Engine`, `EngineDeaf` | `AwaitsSignals` | `main.rs:151` | after a Redis outage `signal_loop` returns, the process and its `/health` stay up |
| `WalletService`, `WalletReload` | `FullRoundTrip` | `docs/persistence_report.md:20` "Full round-trip save/load" | two saves interleave, the tables hold a wallet that never was |
| `WalletService`, `WalletResets` | `ResetSticks` | `router.py:336` | an older save overtakes the reset |
| `Strategy`, `StrategyOverrun` | `PositionsAreLimited` | `optimizer.py:19` | `open_count` is read once per scan |
| `Strategy`, `StrategyLimit` | `LimitHalts` | `README.md:88` "2% of capital — auto-halts" | `log_trade` closes at the entry price, so losses never reach the equity that is compared |
| `Strategy`, `StrategyPause` | `PauseIsKept` | `README.md:89` | the pause is called while guards are awaited |
| `Strategy`, `StrategyHalt` | `HaltStopsTrading` | `bot.py:208` | a scan under way publishes |
| `Strategy`, `StrategyBrakes` | `BrakesSurvive` | `docs/persistence_report.md:47` | saved every five minutes only |
| `Strategy`, `StrategyRestart` | `NeverEnds` | `main.py:109`, `docs/persistence_report.md:34` | the date is restored, `_daily_start_equity` is not: AttributeError at `strategy.py:334` ends `run` |
| `Strategy`, `StrategyDiscover` | `NeverEnds` | `README.md:76-77` | the dict iterated over grows during an await |
| `Strategy`, `StrategyForceBuy` | `NeverEnds` | `bot.py:249` | position booked at price 0, division by it |
| `Strategy`, `StrategyStopLoss` | `StopLossComesFirst` | `README.md:90` "0.5% per trade" | an entry signal hides the stop loss |
| `MCSession`, `SessionClaims` (`-continue`) | `DailyTwoFA` | `README.md:118` "Daily manual 2FA" | `install.sh:95` and `aws-deploy.sh:121` set `2fa:active` without an expiry, and any value unlocks |
| | `FiredThisMinute` | `scheduler.go:84` "already fired this minute" | a restart within the minute forgets it |
| | `UnlockedUntilClose` | `handler.go:81` "unlocked until 15:30 IST" | eight hours from an early login end before the close |
| `MCSettings`, `SettingsClaims` (`-continue`) | `GuardrailsHold` | `settings_store.py:62` "Risk Guardrails" | the defaults come from the environment unchecked; `.env.example:73` has a stop loss of 3.0, the bounds are 0.5 to 2.0 |
| | `SuggestionsSurvive` | `docs/persistence_report.md:18` | the file has the result, but the list approvals work on is empty after a restart |
| `Bridge`, `BridgeRealTime` | `AlwaysCatchesUp` | `README.md:55` | windows 1 to 5 above |
| `MCFeed`, `FeedForgives` | `DroppedInARow` | `market_data.py:120` "3 consecutive failures" | a success in between takes no failure back |
| `Journal`, `JournalAudit` | `AllAudited` | `vector_store.py:118` | a result dropped on its way is in no log |

Read and not modelled, for whoever works on the code next: the audit middleware
imports a name `vector_store` does not define (`main.py:167`); price history is
stored as sorted-set scores, so a restart restores it sorted by price
(`strategy.py:64, 80`); `_check_macro` lets a trade pass on an error status
though it blocks when there is no answer; the rows restored by `events.py:36-40`
come in reverse order; `rejectAll` in the page tells the server nothing;
`Invalidate` leaves `2fa:active` in Redis; `cmd/relay` runs the form without
Redis; after `/wallet/reset` the dashboards go on showing the old object. The
health check of the bot looks for containers under names compose does not give
them, so it finds and restarts nothing (`devserver/README.md:79`). The dashboards count
results with no profit, openings included, as losses (`<= 0`), the table's
queries do not (`< 0`); the orchestrator's daily report counts the last ten
results it has in memory. In a backtest growth, drawdown and Sharpe ratio are
those of the first ticker, a last close that is NaN fails the request, one that
is zero sells at zero, and `min_drop_pct` of the request is not passed on. Sends
of the market socket have no time-out. The list of days in a report is cut by
days with trades, its statistics by a window of hours, and the drawdown's peak
starts at zero, not at the initial capital.

### Bounds, and why they are enough

* `RateLimiter`: burst 3, 3 ticks to the second, 9 ticks: the bucket empties,
  refills past a whole second from every fraction, and fills again. The proofs
  remove the bounds.
* `Engine`: one ticker, three signals, two faults. The shortest ways for the
  records to differ take a BUY, a fault, a restart and a SELL, and a second BUY
  may replace the first; positions of different tickers do not meet, and the
  proofs are for any set of them. Prices {0, 2}: 0 is the price of `/forcebuy`
  and makes the profit NaN or infinite. Quantity 0 is refused by `risk_check`,
  and "HOLD" is an unknown direction.
* `WalletService`: two tickers, two quantities and prices, three requests, two
  connections, one fault. Partial closes with rounding, averaging, a refused
  BUY, a reset in between and three saves fit. The pool has 5 connections; two
  saves overlapping already tear the tables, and `EquityAccounted` and
  `CashNeverNegative` are proved for any number.
* `Strategy`: prices a move of 100 % or 200 % apart, past every threshold.
  `LossesToPause` and `LossesToBlock` are 3 in the code and 1 here: what matters is
  the step that reaches the threshold. The safety run has one ticker, for its
  invariants speak of one at a time, two signals (a BUY and its SELL, or two BUYs)
  and one event (shutdown, `/forcebuy` or reset) among any number of failed writes,
  ends and starts of the engine. The liveness run has two tickers, one of them
  discovered, room for two positions, so that an entry signal may come before a stop
  loss, and up to three signals, or one and an event (`MaxTogether` counts events
  twice): a BUY, its loss and a SELL fit, and a BUY and a halt, a crash, a new day
  or a discovery.
* `Session`: a day of five minutes (ten half minutes) with the market open in
  two of its half minutes, a session of four, two requests, two faults and a bit
  more than two days, in which a task fires twice and the process restarts within its
  minute. As in the code the session ends before the market opens on the next day,
  whenever it began; that is what `UnlockedSameDay` rests on.
* `Settings`: a bounded and an unbounded parameter, values below, inside and above
  the bounds, a default outside them, unconvertible and missing ones, three lists
  (one of two items), two pages, five operations: an analysis, an approval on each
  page, a newer analysis and a restart fit.
* `Bridge`: three sockets, each used once (a page that reconnects has a new
  one), two states, five events: join, join, change, leave and a time-out or a build
  that raises.
* `Journal`: three results on a channel of one (100 in the code), so that one is
  handled, one waits and one finds no room; two attempts of the LLM (3 in the
  code); two faults, so that a process may die while another is coming back.

* `Backtest`: two tickers of up to five bars with a shortened history of four,
  closes that rise and fall past take profit, stop loss and both trailing stops,
  and the two kinds of missing ones; a ticker may be left out. Two results are
  what aggregation needs. The proofs are for any series.
* `Feed`: one ticker on the list and one to discover, two pages, three failures
  as in the code, two answers that lack something (and the failure discovery
  adds), four events: a page joins and leaves while another stays and a price
  moves.
* `Report`: days of two units, Indian time one ahead, so that a trade's day
  differs by clock; a window of two days and a limit of two, so that a day drops
  off the list and a trade out of the window; three trades, percentages that round
  to more and to less than they are.

### Fairness

* `Engine!FairSpec`: weak fairness of the steps of the process and of its start
  (tokio runs a ready task; docker restarts the container; the `redis` crate 1.2 gives up
  on a connection or an answer by itself) and of Redis coming back (also restarted).
  Nothing makes the broker answer, whose client has no time-out (`client.rs:17`), signals
  arrive, faults happen or the limiter refill.
* `WalletService!FairSpec`: weak fairness of the handler after its await, of the
  statements of saves (a statement succeeds or raises), and of the start.
* `Strategy!FairSpec`: weak fairness of what the loop does by itself or in a guard (its
  `httpx` client gives up after 45 seconds), and that no pause or cooldown lasts for
  ever. None of its calls to Redis, whose client is made without `socket_timeout`
  (`strategy.py:53`), of the engine, the orchestrator, the listener or the quotes.
* `Bridge!BridgeFairSpec`: weak fairness of the loop (its sleeps end, a build answers or
  raises, though not for ever, a send is cut off after a second), of `send_initial` and of
  `receive_text` noticing that its socket has closed. None of clients or changes.
* `Journal!FairSpec`: weak fairness of both processes and of their restart, of the
  subscription's reader, and of each handler. The attempts of the LLM are one
  group: one of its outcomes happens (the clients have time-outs, but for Gemini's,
  `providers.py:226`, of which it is assumed), and
  `ReceivedIsSettled` holds whichever it is.

* `Feed!FairSpec`: weak fairness of the loop as a whole (its sleep ends, a
  download answers or raises, a send ends, for the server closes connections
  that do not answer its pings). None of pages, discovery or prices.

`Session`, `Settings`, `Backtest` and `Report` state safety only: in each, either
nothing must happen or (`Backtest`) the steps are bounded by the input.

## 4. What is proved

TLAPS checks these for every value of the constants that satisfies the named
assumptions of the modules (positive burst and unit; naturals for prices,
quantities, capitals and bounds; quantities of booked trades not zero; finitely
many tickers where something is added up over them). Every invariant that a run
checks is stated by one of the theorems, and so are the action properties and
both refinements.

* **MarketProofs.** Of the limiter: `LimiterTypeCorrect`; `WindowIsBounded` from the
  inductive invariant `Potential`: what was granted since the i-th grant plus what
  is left was there at that grant or refilled since. `WindowBound` itself is not
  inductive: it says nothing of the tokens left. `NoStarvation` from `FractionKept`:
  while calls are refused, the fraction held is at least the time waited.
  `RefinesBucket`: `Tick` maps to `Refill` or a stutter, `Acquire` to `Take`,
  `Refuse` to a stutter. Of the feed: `DropsHaveCause` (`DroppedForCause`). A
  ticker's failures exceed its refusals by one at most: only its discovery counts a
  failure without a request, and it is asked for ever after.
* **EngineProofs.** `TypeCorrect`; `RecordsStayTrue` (`RecordsAgree`), whose
  invariant adds what `pc` implies of the map while the process is down, and
  that an order at `book` which matched what the broker held has left there what the
  engine is about to write; `EntriesWerePaid`
  (`EntryWasPaid`), whose invariant follows a paid price from `accepted`
  through map, hash and `out` to `published`, so that a restored position is
  as good as one in memory; `OneOrderAfterExpiry` (`OneAfterExpiry`): past its look
  at the flag stands one signal at most, and while the flag is there none is late.
  `EngineKeepsPromise` is the refinement of `Execution`: each step of the
  engine maps to one of its actions or a stutter, given that signals wait in
  the order of publication behind everything accepted or sent.
* **WalletServiceProofs.** `TypeCorrect`, `MoneyIsAccounted`
  (`EquityAccounted`), `CashStaysPositive` (`CashNeverNegative`). The
  invariant says of every snapshot under way in a save what it says of memory
  and row: each is a sound wallet's money, so that whichever save writes last,
  the row is sound. The lemmas on `Opened`, `Closed` and `Returned` bound the
  rounded return of a partial close by the cost of the position.
  `RestartsKeepWallet` (`RestartKeepsWallet`) rests on `TablesFollow`: unless saves
  have run side by side, one is being written, and then by a connection whose
  snapshot is the memory, with as much of it in the tables as its statement says,
  or the tables hold what memory holds.
* **StrategyProofs.** `TypeCorrect`, which needs that an order at the guards is
  there (`OrderIsThere`). `PausesHold` (`PauseTakesHold`, an action property) goes
  through every await of the loop. `WalletCoversEngine` (`EngineIsCovered`): the
  property speaks of tickers whose results are booked, so the invariant says of the
  others what the last result on its way will make of them (`LastTells`): a BUY
  brings the wallet at least what the engine holds and would restore, a SELL finds
  map and hash empty of the ticker. Ends of the engine, failed writes, resets and
  reloads leave it or put the ticker among the `missed`. `WalletHoldsWhatWasBought`
  (`WalletIsBacked`): the shares in the results waiting to be booked (`SharesIn`)
  are a recursive function of the queue; the lemmas say what a result put behind it
  or taken from its head does to it.
* **BacktestProofs.** `TypeCorrect`, `ProfitsAreAccounted` (`Accounted`),
  `NothingIsBorrowed` (`NeverBorrows`), `ExitsComeFirst` (`HeldInBand`),
  `CurvesEndInResults` (`CurveEndsInResult`). The invariant says that what is
  invested is the cost of the position, that one held was within its limits, the trailing
  stop included, at the last close, and that the curve's last point is the equity at
  that close.
* **OperatorProofs.** Of the session: `TypeCorrect`, `KeyLastsLongEnough`
  (`KeyCoversToken`), `SessionsEndOvernight` (`UnlockedSameDay`), `TasksFireOnce`
  (`FiredOnceADay`). The invariant says that neither token nor key was wound up
  further than one session from now, and what `lastRun` and the restarts say of the
  counts of firings. The assumption is that a session begun at the close has ended
  when the market opens again. Of the bridges: `BridgeTypeCorrect` and
  `ListsAreOpen` (`ListIsOpen`). The invariant says that nobody is listed twice, so
  that what leaves the list once is gone, that whoever is open has an endpoint which
  is still to come to its `remove`, and that a send under way is to someone listed
  for as long as the socket is open (`SendIsToListed`).
* **RouterProofs.** Of the settings: `StaysWithinGuardrails` (`WithinGuardrails`),
  `RestartsChangeNothing` (`RunningIsStored`), `ClicksNameWhatIsShown`
  (`ShownIsListed`). File and loop are bounded together, whatever is saved
  (`SaveIsSound`), but for a default that was out of bounds before. For the pages
  the invariant is about all that is on its way: the last list in the mail of a page
  that is not empty is the server's, and without one the list shown is. Clicks
  change only the status of rows (`RelabelPages`). Of the report:
  `ReportTypeCorrect`, `PastDaysSettled` (`PastDaysAreSettled`), `PartsDiffer`
  (`PartsDifferByBooked`). A trade is dated at most one unit of time before it is
  booked, so a day over for longer when its row was read gets no more
  (`LogTradeStays`), and the invariant (`SettledInv`) says of every row read so far,
  in whatever list it is, that it is still what the table says; each query of a past
  day therefore sees the same trades, and rounding moves each of them by half a
  grain times its cost (`PageAgrees`). What has been added up, by day, by ticker or
  by hour, is the total of the trades booked when it was read (`SumsInv`): the
  groups of a query divide the table (`GroupsAddUp`, `DayRowsAddUp`), unless the
  limit has cut some off, and the loop of the curve adds what the rows say
  (`CurveEnds`).
* **JournalProofs.** `NothingIsCountedTwice` (`CountedOnce`), `AuditComesFirst`
  (`AuditedFirst`), `OrderIsKept` (`BookedInOrder`), `RulesHaveLessons`
  (`RuleIsRemembered`). The invariant has three parts: what waits is in order and
  behind everything taken from the channel (`QueueInv`), so that a result taken
  is new to every store; a post is the current sender's or an orphan's, and each
  handler is ahead of what it has not written yet (`PostsInv`); the stores
  (`StoresInv`). From it, `NothingVanishes`: a published result is waiting, posted,
  being handled, booked, lost or an orphan's. It is the safety side of
  `ReceivedIsSettled`: what a step could do wrong without breaking any of the
  other properties is to let a result drop out of sight, and none does. It needs
  `PostsInv`: when the memory service dies with its posts, each is the current
  sender's, which gives it up, or an orphan's. `TypeCorrect` (`TypeOK`) adds the
  bound of the channel.

Induction over data. The library's induction rules take an operator as a
parameter, which no installed prover can instantiate. Where a theorem needs what a
recursive function computes (`SharesIn`, `Without`, sums over sets, the curve's
loop), the lemmas take a least counterexample instead: the set of the lengths, or
of the parts of a finite set, for which the claim fails is a set like any other,
and by `WFMin` it has a least member unless it is empty (`LeastOf`, `SmallestOf`,
`FiniteInduction`). That such a function exists at all is proved the same way
(`SumExists`, `RestExists`, `LoopExists`): what it is `CHOOSE`n from is not empty.

Only model-checked: the liveness properties (`ListensAgain`, `SavedInTheEnd`,
`ScansAgain`, `HaltTakesEffect`, `StopLossFires`, `EventuallyShown`,
`ReceivedIsSettled`, `FedInTheEnd`, `ShownInTheEnd`), for which the provers lack
ENABLED.

## 5. What is not modelled

Indicators and scores (floating point, answered by anything), prompts and
providers, the similarity search, Telegram, page layout, the order book and feed
(nothing reads them), short selling (off by default; the router would book it as
a long position), market hours in `Strategy` (the model is about the open
market), the Telegram report of the orchestrator (it reads and sends), the
news and options pollers (they fetch and keep the last answer), the bot's
commands that only show something and its health check, the bounded display
lists of `events.py`, the rates and ratios of the backtest's and the report's
answers and their rounding, the statistics by signal and by week, the saved
price history (`Strategy` starts with what it knows), Terraform, CloudFormation and
what the scripts do besides setting the paper-mode key.

Simplifications. `Strategy` sees the engine as "dropped, filled, or filled
without a result", with restarts and failed writes as they look from outside, and
saves of the wallet as whole or cut short; `Engine` and `WalletService` have the steps in
between. `WalletService` handles one trade at a time,
which holds while one orchestrator posts; `Journal` shows that a post that
outlives its orchestrator may run beside the next one's. In `Strategy` all that
is known of a ticker is its last price: every ticker in `known` has the history
the indicators need. In `Settings` suggestions name known parameters or unknown
ones and carry a value or none; anything that is no object at all is
`RunOptimizerRaises`.

## 6. Plan

Done: the modules above. What could follow, in this order:

1. `PriceHistory`: the saved history and the persisted clocks, across a restart.
2. `Events`: the bounded lists for display and the order a restart fills them in.
3. `Pipeline`: `Execution` in the place of the engine in `Strategy`, so that what
   `Strategy` shows rests on the promise that `Engine` is proved to keep.
4. The repair of truncated JSON in `llm/providers.py`, as a pure function.
5. Proofs: `Strategy` over `Execution`, once there is a `Pipeline`.

The number of runs is kept small: a run per module, and the configurations of
settled disagreements stay in their table.
