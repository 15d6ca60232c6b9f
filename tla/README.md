# Formal model of the paper trading system

TLA+ modules for the core of this repository: the long-running paper trading
process, the risk gate in front of it, the market data it consumes, and the
health, reconciliation and pipeline components around it; the backtest engine
with the strategies it runs and the reports drawn from its runs; and the path of
a candle from the exchange through RAW and DDS to its indicators, with the
programs that update and attest it. TLC checks small instances; TLAPS proves
the central properties for every value of the constants. `PROJECT.json` lists runs, the source lines behind each definition,
findings, hazards and theorems.

    tlc -workers 2 -config PaperRuntimeCrash.cfg MCPaperRuntime
    tlapm PaperRuntimeProofs.tla

## 1. Inventory of the system

| Component | State it keeps | Operations | Talks to |
|---|---|---|---|
| `execution/paper_trading_runtime.py`, `exchange/paper_execution_engine.py`, `database/paper_state_repository_pg.py` | sequence, orders, fills, positions; the same in PostgreSQL; pending write tasks | process candle, execute, scheduled writes, checkpoint, restore, stop | feed, risk adapter, database, heartbeat |
| `runtime/paper_application.py`, `lifecycle.py`, `preflight.py`, `session_manager.py`, `scheduler.py`, `monitoring/heartbeat.py` | life cycle state, runtime task, session timer, heartbeat sequence | start, stop, run, session close, signal | everything below it |
| `risk/risk_engine.py`, `risk/persistence.py`, `runtime/dependencies.py` (adapter) | losses, equity, error count, emergency stop (persisted); operational flags (not persisted) | check_trade and the updates | execution engine, health, reconciliation |
| `exchange/bybit_paper_market_data.py` | last emitted open time per symbol, readiness | bootstrap, poll, emit, restore boundary | exchange, candle table, engine |
| `monitoring/health_coordinator.py`, `risk/emergency_stop.py`, monitors, notifier | last status, emergency flag | periodic check, transition, activate | risk engine, notifier, runtime |
| `pipeline/market_pipeline.py`, `pipeline_state.py` | state, readiness, sequence guards | process event, stop, restore | injected stages |
| `reconciliation/paper_reconciler.py` | last result, fatal streak | reconcile | engine, database, risk engine |
| `backtest/backtest_engine.py`, `portfolio.py`, cost models | cash, positions, closed trades, pending signal | execute at the open, intrabar exits, evaluate, end policy | strategies, risk engine |
| `backtest/walk_forward.py`, `repository.py` | windows; stored runs | run, save | engine, database |
| `strategies/trend_dca*.py` | safety-order level, trailing high, down streak per symbol | should_enter, should_exit, on_fill | backtest, runtime |
| other `strategies/*` (breakout, pullback, slope) | setup, watch and cooldown state | should_enter, should_exit, on_fill | backtest |
| `collectors/*`, `database/migrations/005_*` and the scripts around them | RAW, journal, DDS, quality events, ETL checkpoint, indicators | load pages, copy, calculate, update the holdout, verify | exchange, database |
| `exchange/bybit_client.py` | none | request, retry | exchange |
| `exchange/paper_exchange.py`, `fill_simulator.py` | balances, open orders | place, cancel, match | tests, older runtime |
| `reporting/*` | none (reports over finished data), except the holdout seal | aggregate | database |
| `indicators/*` | none | numeric functions | collectors, strategies |

What is hard here is concurrency inside one asyncio process (the runtime task,
persistence tasks, the application's own coroutine, the session timer, the
health loop), one database connection shared by several of them, kills between
writes that are not in one transaction, restarts that rebuild memory from what
became durable, and error paths of start-up and shutdown. The hazards in
`PROJECT.json` name the lines.

## 2. Plan

Done in the modules below: the runtime and its persistence, the risk gate, the
feed, the application life cycle, health and emergency stop, the managed
pipeline, the reconciler, the backtest engine with the TrendDCA strategies, the
setup strategies and the research reports over their runs, and the market data
from collection to the holdout gate. How the modules build on each other:

    TrendDCA <- Backtest
    TrendDCA <- SetupStrategies <- Research <- TradeReports <- ResearchReports
    CandleStore, Indicators <- DerivedStore <- DataOps ; AppendOnly is what DataOps implements

The other component modules stand alone and abstract their neighbours as their
sections say.

Next, in this order:

1. Proofs: the tables of the reports against each other (`ReportsFit`), which need
   facts about filtered and sorted sequences.
2. An abstract ledger of what a restart promises, implemented by `PaperRuntime`
   up to the work that its history variables name as lost.
3. `PaperPnl`: average-cost accounting against a sum over fills; walk-forward
   windows; the simulated exchange; health monitors and soak runner.

## 3. Modules

Each component module has an `MC` module with the instance definitions. Lines
marked `Mutant` in a module are variants of the following definition with a
plausible error; they are not part of `Next` and show that a property can fail.

### PaperRuntime

State: the engine's memory (sequence, orders, fills, position), the database
tables, the set of persistence tasks with the statement each is at, the one
connection and who uses it, where the candle loop stands, and counters for kills
and faults. One action per
stretch of code between two awaits: a candle arrives and is traded on
(`OnMarketEvent`, `Execute`, `PassOver`), its checkpoint flushes and saves
(`FlushDone`, `CheckpointSaved`), a task issues, commits or fails a statement
(`BeginSave` ... `PersistDone`), the process is killed and started again
(`Boot`, `RestoreState`). The composition root gives the repository a single
asyncpg connection (`dependencies.py:88`), on which a second call raises while one
is in progress: `BusySave` and `BusyPersist` are the task whose call raises, and
nobody but a flush under way notices.

Work is lost in this code, and no property pretends otherwise. Three history
variables, which no action reads, name it: `raised` has the fills whose task ended
with an exception, `unsaved` the candles whose state write raised or was taken
back by the checkpoint of an engine that could not restore, `torn` the symbols of
which an execution was cut off (by an exception, a kill, or a start that finds
no state row) before its order, fill and position were written together. The
properties say that nothing else is lost.

Prices, fees and the text of identifiers are abstracted: an order is identified
by session day, candle and request, which is what `client_order_id` encodes. The
model takes the repository's upsert contract as stated by its methods; the
mapping of columns to dataclass fields and the partial unique index of
migration 049 are outside of it.

### RiskEngine

State: the book that approved orders build, the persisted risk record, the
operational flags, the stored row. `Buy` and `Sell` guard the engine's booking
by `Approved`, the whole of `check_trade` as far as the adapter reaches it; every update operation of the
class is an action that writes the store before it returns, and the store may
fail. Amounts are integers, limits thousandths of the capital.

### MarketFeed

State: the clock in hours, the valid candles stored per symbol, what was last
emitted, the rows of the poll in progress, the engine's replay guard, and what
was saved. A poll loads any subset of the closed candles that the exchange may
return. Restart goes through `RestoreBoundary`.

### PaperApplication

State: the life cycle, the await at which `run()` stands, the runtime task
reduced to its phases, switches (`trading_enabled`, shutdown event, stopped
source), the session timer, sequences in memory, in the database and in the
heartbeat. A candle is admitted once (`Candle`, `paper_trading_runtime.py:226`) and
then awaits the strategy (`StrategyAnswers`) and the verdict on each request
(`RequestAnswered`), where `stop()`, the timer and the rest of `start()` can go on;
`admitted` and `trades` record the life cycle state at the check and at each
order. Whether these awaits really suspend depends on the strategy and the risk
manager given to the runtime, which the code leaves open: the adapter of the
composition root does not suspend, another one may. `Faults` is the set of awaited operations that may raise. Bootstrap
and reconciliation always have both outcomes. stop() appears as `BeginStop` (up
to its first wait) and one action per later await.

### HealthEmergency

State: what the checks would meet, the gate of the risk engine, the last
settled status, and the emergency stop with its lock, current step and attempts.
Two activators run `activate()` concurrently: the coordinator's loop and an
operator. The composition root does not wire an `EmergencyStop`; the module
covers the class as its tests and its own documentation use it.

### MarketPipeline

State: tracker state, readiness facts, sequence guard, durable checkpoints, the
event under way and its stage. Every awaited stage can raise; the process can
be killed between any two; events come in any order, any number of times.

### Reconciler

State: books of the engine, tables, the write under way, the four loads of the
cycle and the verdict. `rows`, chosen in `Init`, is the type of the rows the
database reader returns: the reconciler's interface and its unit tests use
dictionaries, the PostgreSQL repository returns dataclass objects, for which
`reconcile()` raises as soon as one order is durable.

### TrendDCA and Backtest

`TrendDCA` holds the decisions of both strategies as operators over a candle and
the position the engine shows them: the baseline leaves at the first TREND_DOWN
candle, the experiment at the third in a row, which is the variable `confirm`.

`Backtest` is `BacktestEngine.run()` for one symbol. State: the configuration of
the run (chosen in `Init`), the candle and the phase it is in, the pending
signal, the portfolio, the strategy's memory, and two history variables (`buys`,
`age`) that only the properties read. A candle is opened by one of
`NothingPending`, `FillBuy`, `RefuseBuy`, `FillClose`; then `LevelExit` or
`NoLevelHit`; then the strategy's decision, one action per way out of
`should_enter` and `should_exit` in their order; `Liquidate` and `Finish` are
the end of the run, possible after any candle.

The size of an order is any member of `Quantities`, and the risk engine may
refuse or cut a purchase. It approves every sale worth at most twice the last
mark; `NoDoubling` and the bound `high <= 2 * low` on candles keep prices where
that is the case. Slippage is a number of hundredths of a percent and stands for
the sum of its fixed, volume and random parts. The portfolio keeps the cost of a
position where the code keeps the average price, so that integers suffice.
Drawdown, win rate and the other statistics are left out.

### SetupStrategies, Research and the reports

`SetupStrategies` holds the decisions of the breakout strategy and its second
version, of the pullback strategy, and of TrendDCA with and without the slope
gate. A decision is the strategy's next state with the signal it returns; every
early return of `should_enter`, `should_exit` and `on_fill` is a conjunct or a
case. The comparisons with ATR are one field of the candle (`calm`), and the
slope is the set of its known values.

`Research` runs the strategies of `Books` side by side over the same candles: a
step is one candle through `BacktestEngine.run` (pending order at the open,
levels, strategy) for every book, and for the pullback also through the
instrumented subclass that records the funnel. Every order buys one unit and a
fill costs `Fee`; sizes, slippage and cash are the subject of `Backtest`.

`TradeReports` and `ResearchReports` are the reports as operators over the
fills of a finished run and its candles: the replay of fills into trades, groups
and percentiles, snapshots, the counterfactual exits, exit paths, TREND_DOWN
exits, the slope filter, the entry funnel, and the fingerprint of the
reproduction gate. They have no state; they are checked against the run that
produced their input, which keeps its own count of trades and PnL, and against
each other.

### CandleStore, DerivedStore, DataOps and AppendOnly

`CandleStore`: RAW as a function from open times to rows, the journal, DDS in
the order of its ids, quality events, the ETL checkpoint, and a record per
collector. A row says whether it was fetched after its candle had closed
(`final`); a page is fetched, then stored in one transaction that carries the
time it began. `LoadRawCandles` is the SQL function, one transaction with its
two cutoffs. A failed request, an invalid answer and a killed process all end in
`LoadFails`; retries of a GET are not visible beyond that.

`DerivedStore`: for every stored indicator the history of candles it was computed
from, and the work a calculation has read and not yet written. Full and
incremental calculation differ in the candles they read. The
holdout update keeps its own work, so its calculation overlaps with the others. The
others (full, incremental, batch) share one `todo` and never overlap each other,
although nothing in the code prevents two of them from running at once.

`DataOps`: the programs an operator or a scheduler starts, any of which can run
while the others do, the holdout update step by step, and the verdicts of the
checks as predicates of the tables. A readiness check that is not about the
tables (migrations, CI) is an input.

`AppendOnly` is the abstract specification: rows are only added, never change,
and the copy holds only rows of the source. `DataOps` instantiates it with RAW as
the source and DDS as the copy.

### Indicators

EMA, RSI, ATR, returns, slope and regime in two forms: over a prefix with the
last value taken (`IndicatorCollector`) and over the whole series with an index
(`BatchIndicatorCollector`). Values are exact fractions; the rounding of
`Decimal`, logarithm and square root are left out, and the test on volatility is
a predicate of the returns.

## 4. Runs

Bounds are in the cfg files; each is named in its module. They are chosen so
that every action occurs and that kills, failures, redeliveries and restarts
combine with at least two candles, orders or checks, which is where the
interesting orders of events lie.

| Run | Instance | Shows |
|---|---|---|
| `paper_crash` | 2 candles, 2 requests each, 3 lives, 2 kills, a day change, a busy connection raises | checkpoints cover all work whose task did not raise, the position is the net of the fills after any restore but where an execution was torn, a durable fill always has its order, sequence never back |
| `paper_faults` | a busy connection raises; a failing write, a failing load and a kill | an order beyond the saved sequence, or a double fill, only for a candle whose state was not saved; a requested stop completes |
| `risk_book` | 3 symbols (symmetric), 2 prices, losses, errors, operator, a failing store, a restart | limits hold over sequences of orders; the stop is durable and only the operator lifts it; neither a stop nor a loss beyond a limit lets a position grow |
| `feed_one_symbol` | 5 hours, partial and failed polls, 2 kills | no candle passed over, every candle arrives |
| `app_faults` | 3 candles, any awaited operation may raise | STOPPED and closed connections mean saved, only a candle admitted while RUNNING trades and only until `stop()` has joined the task, heartbeats in order, a signal ends the process |
| `health_races` | 4 changes of the environment, cancellation at any await | steps at most once and in order; gate, activation and completion follow |
| `pipeline_crash` | 2 symbols, 2 candles each, a failing stage, a kill | completed events never repeat, other repeats need a fault, READY is earned by all symbols |
| `reconcile_races` | 3 purchases, 2 cycles, failing writes, 2 restarts, both kinds of rows | a process that lost orders is not trusted; a clean verdict is right about the position; agreeing books are trusted when rows are of the declared kind |
| `backtest_run` | 5 candles of 8 shapes, both strategies, 2 holding limits, both end policies | cash and ledger, a signal meets the position it was made for, strategy memory agrees with the portfolio across every exit, stops bind, holding limit |
| `research_run` | 8 candles of 9 shapes, 5 strategies, refused purchases | entries rest on their setup, the watch is all V2 adds and follows the position, reports agree with the runs and with each other |
| `data_load` | 4 hours, pages of 2, two collectors, a flawed candle, 3 pages in all; indicator samples of up to 5 candles | append-only refinement, no row left behind by the copy, indicators without look-ahead and independent of the collector, attested data stays attested, an update ends |
| `feed_two_symbols` | violation | the second symbol of an hour is dropped |

The violation run states what a test of the repository says and is quoted under
"findings" in `PROJECT.json`. Several properties are conjunctions of named
parts, each with its own comment: `LifecycleIsTruthful`,
`HeartbeatsInOrder`, `StepsOnceAndInOrder`, `CriticalIsHandled`, `ExecutesOnce`,
`VerdictsAreSound`, `BooksHold`, `MemoryFollowsPosition`, `ExitsBind`,
`WatchFollowsPosition`, `ReportsFit`. The type invariants of `PaperRuntime`,
`Backtest` and `RiskEngine` are proved and not repeated as runs.

Why the bounds are enough: in `research_run` two quiet candles fill the look-back
window, so a setup can begin on the third; five more let it be tested, filled,
watched, closed in each way and followed by a second one. One of the shapes of the
fourth candle has some indicators and not all of them. In `data_load` three
pages of two candles let two collectors overlap, the copy run between fetch and
commit, a candle be deferred while it forms, and a history load arrive behind
the holdout.

### Premises that mark known divergences

Some properties hold only under a premise, because the code does not keep what
its documentation says without it. Dropping the premise gives a counterexample:

- `CheckpointCovers` leaves out the fills in `raised`: on one asyncpg connection a
  second concurrent write raises, its task is discarded
  (`paper_execution_engine.py:129`), and the checkpoint records the candle
  although its order is lost.
- `PositionsMatchFills` leaves out the symbols in `torn`: order, fill and position
  are not written in one transaction and restore compares fills with orders only,
  so a kill between fill and position leaves the engine on a position that its
  fills do not add up to.
- `SequenceCoversOrders` and `DurableFillUnique` leave out the candles in
  `unsaved`: without a state row restore skips the durable orders
  (`paper_trading_runtime.py:131`), so the candle is delivered and filled again.
- `OrdersEndWithStop` (in `LifecycleIsTruthful`) allows orders after `stop()` has
  begun: the runtime looks at `trading_enabled` once for a candle and awaits the
  strategy and each verdict afterwards (`paper_trading_runtime.py:226` to `:233`).
- `StoppedCoversWork` says nothing about a process whose final checkpoint
  raised: `stop()` then skips the PnL checkpoint and `close()`
  (`paper_application.py:173`), contrary to `README.md:125`.
- `HeardCriticalActivates` and `ActivationIsComplete` need a working notifier:
  the alert is awaited before the emergency stop, and the notification inside
  `activate()` is not guarded.
- `RepeatsNeedFaults` counts failures: a stage that raises after the execution
  leaves the sequence guard in memory behind, so a redelivered event executes
  again (`market_pipeline.py:182`).
- `EqualBooksAreTrusted` needs `rows = "dict"`: with the dataclass rows of
  `paper_state_repository_pg.py`, `reconcile()` calls `get` on them
  (`paper_reconciler.py:182`) and raises, and trading is blocked.
- `DurableSeqMonotone` needs loads that do not fail: when restore raises,
  `stop()` still writes a checkpoint of the empty engine
  (`paper_application.py:175`) and the saved sequence goes back to 0. Without
  `loadFailures = 0` in its formula `PaperRuntimeFaults.cfg` shows it;
  `plan/OPERATIONAL_RUNBOOK.md:121` asks for a monotone sequence.
- `HeartbeatsInOrder` is checked and proved for a checkpoint with every candle,
  the default of the runtime (`paper_trading_runtime.py:68`), which no caller
  changes. With a larger interval
  the candle's heartbeat runs ahead of the last checkpoint, and the report of
  `start()` or `stop()`, which carries the latter, is refused by `beat()`.
- `StoppedNeverGrows`, `StopIsLatched` and `LossesNeverGrow` need a store that has
  not failed (`saveFailures = 0`): an update that raises in the store stays in
  memory only.
- No run says that a stop leaves positions for sale. `PositionsNeverTrapped` is what
  the comment at `risk_engine.py:153` says ("must not trap an existing spot
  position"), and the code does not keep it: positions are valued at cost and
  orders at market, so a complete sale at more than twice the average price counts
  as new exposure and is rejected. In `RiskEngineBook.cfg`, with `Prices = {20, 60}`
  and this invariant, TLC shows a position bought for 20 that cannot be sold for
  60 under an emergency stop.
- `RawIsSettled` and `GatesHold` leave out rows marked `late`: a page whose
  transaction began before a copy and committed after it has a `loaded_at`
  behind the checkpoint, and is copied only if it closes later.
- `DerivedLooksBack` is stated while ids ascend with time: after a backfill the
  incremental calculation skips candles and takes later ones for its past.
- `CalculatorsAgree` is stated for positive prices, which DDS guarantees: with
  others the two volatility functions differ.
- `CounterfactualsFit` (in `ReportsFit`) leaves out trades with a PnL of exactly zero, on which the
  false-positive report raises, and needs indicators at every snapshot.
- `ReportsReconcile`: the reproduction gate fails whenever the engine itself
  closed a position, because the signals of levels and liquidation carry the
  random `run_id` into the fingerprint.
- `FunnelAccounts` allows the event RSI_CROSS_CONFIRMATION_BLOCK_UNKNOWN on a
  candle that has an RSI and an EMA20 but not all indicators: the funnel calls
  the branch unreachable under the frozen rules (`v2_entry_funnel.py:235`), and
  on such a candle it is not.

The data model also shows, without a property of its own: a candle that was
fetched while it formed is never replaced, and is copied to DDS as a closed one
once its hour is over (`candle_collector.py:140`, against the comment of
migration 005); and the journal, a maximum, does not know gaps.

Two things the backtest model shows without a property of their own: an exit by
a level leaves the down streak of the experiment as it was
(`trend_dca_confirm3.py:17`), and a safety order counts as a holding period
(`trading.py:119`), so that the counter runs ahead of the candles it is named
for (`trend_dca.py:32`). `HeldAtMost` states the side that holds.

Other behaviours that are part of the models and that nothing in the repository
states the opposite of, so that no property is about them:

- the session window is read twice, with a reconciliation in between; when it
  closes there, no timer is created (`session_manager.py:45`);
- without a state row the first reconciliation of a fresh system is FATAL
  (`paper_reconciler.py:188`), and a lost order write is classified like a
  pending one (`paper_reconciler.py:213`);
- a level that closes a position hides its candle from the strategy, whose high
  is then missing from the resistance window (`backtest_engine.py:210`), and
  leaves a watch of V2 without a resolution event (`breakout_retest_v2.py:101`);
- levels are computed from the close and bought at the next open, so that a
  take-profit can be a loss (`trend_dca.py:120`);
- a warm-up of 200 candles is too short for the slope of the 200 average, so the
  incremental regime can be UNKNOWN (`indicator_collector.py:181`).

Deadlock is checked except where the process really ends: in the PaperRuntime
runs (the last permitted life is over), in `health_races` (the coordinator was
stopped and the operator is done), in `backtest_run` and in `research_run` (the
run is over).

### Fairness

- PaperRuntime: weak fairness of the candle loop and of every persistence task,
  because the event loop resumes a coroutine whose awaited statement has
  returned, and the database answers. Candles, kills and faults are not fair.
- MarketFeed: the poll loop runs for ever, and an exchange that keeps answering
  eventually returns each closed candle.
- PaperApplication: weak fairness of main coroutine, task and timer; none for
  candles, clock, signal and faults in the loop.
- HealthEmergency: the periodic loop and an activation under way proceed; strong
  fairness of taking the lock, since `asyncio.Lock` serves waiters in order.
- DataOps: weak fairness of the steps of a holdout update that has begun;
  requests have a timeout and a bounded number of attempts, statements end. Other
  programs, failures and the clock are not fair.

## 5. Proofs

Eight modules of proofs, each beside the component module it extends:
`PaperRuntimeProofs`, `PaperApplicationProofs`, `RiskEngineProofs`,
`MarketPipelineProofs`, `ReconcilerProofs`, `BacktestProofs`, `DataOpsProofs`,
`ResearchProofs`. The theorems hold for every value of the
constants under the named assumptions of the modules (`ConstantsAssumption` and
the like: sets are finite, bounds are numbers); a further premise is named
with its theorem. Each rests on an inductive invariant, of which a comment in
the module says what it adds and why.

### PaperRuntime

- `TypeCorrect`: `Spec => []TypeOK`. Inductive invariant `TypeInv`, the type
  invariant with `Counted`, which bounds the number of tasks and lives.
- `FillsAlwaysHaveOrders`: `Spec => []FillsHaveOrders`, with all faults allowed.
  A fill is written by a task that has written its order, so the invariant
  `FillInv` adds what each task has already made durable.
- `SavedSequenceMonotone` (`DurableSeqMonotone`, as long as no load has failed):
  `SeqInv` adds that the engine's sequence is never behind the saved one once it is
  restored, and that a state write in progress carries a sequence no smaller
  than the saved one. Section 4 says what a failing load does.

None of the seven has a premise: the connection raises on concurrent use, writes
and loads may fail, and the process may be killed anywhere. The remaining four are
about what the history variables leave over, so the invariants have to follow the
lost work too.

- `SavedSequenceCoversOrders`: `CoverInv` adds that tasks are issued in creation
  order, so a task that has begun its order finds the state of its candle
  saved or lost (`Saved`), and one that waits finds it pending at worst.
- `FilledAtMostOnce` (`DurableFillUnique`): `UniqueInv` adds that every order of
  the candle being traded has an earlier index than the next request, and that
  what is durable belongs to the book of the engine, so that a restored engine
  starts behind everything it could fill again (`Passed`), but for candles in
  `unsaved` of an earlier life.
- `CheckpointAlwaysCovers` (`CheckpointCovers`): four writes for each fill are
  under way at the same time as those of other fills, and the position table is
  overwritten by each. `TurnInv` says that an earlier task is never behind a later
  one (`Rank`), and that the connection belongs to a task that is still there;
  `WrittenInv` that a fill of the book which did not raise is in the table or its
  task is pending (`BooksWritten`), and where the loop is when no task is left
  (`Flushed`). For the positions it needs the net below.
- `PositionsAlwaysMatchFills` (`PositionsMatchFills`): `NetInv` states, for every
  symbol outside `torn`, that the position in the table is the net of the fills
  whose position has been written (`Settled`), that a pending position is the net
  of the fills up to its own (`Upto`), and that the one in memory is the net of
  the book. An exception or a kill that would break this puts the symbol into
  `torn`, and a kill that does not leaves every fill of the table settled, so the
  restored engine starts from an exact position.

### PaperApplication

- `LifecycleAlwaysTruthful` and `StoppedHeartbeatStays`: `LifeInv` relates the
  place of `run()`, the life cycle state, the phase of the task and the switches.
  The point is that beyond the join of `stop()` the task is over or never began,
  that trading is enabled only at the places where the state is RUNNING, and that
  a task which awaits its strategy or a verdict was admitted there (`Admission`)
  and is still joined by `stop()` (`LifecyclePlace`).
- `HeartbeatsAlwaysInOrder`: for `CheckpointInterval = 1` (section 4). `BeatInv`
  adds that no heartbeat was sent before the restored checkpoint is known.

### RiskEngine

- `TypeCorrect`, and `BookStaysWithinLimits` for sequences of orders at changing
  prices. An approval looks at one order and sums over the symbols with an entry;
  `BookInv` adds that symbols without one hold nothing, and that at most
  `MaxOpenPositions` have one.
- `StopStaysLatched`, `StoppedPositionsNeverGrow` and
  `LossesKeepPositionsFromGrowing`: `StopInv`, as long as no save failed the
  stored record is the one in memory, so a restart reads the stop, the losses
  and the peak back. That the stop and the losses reach only purchases, and
  that a sale leaves no more cost than there was, is in the lemmas before.

### HealthEmergency

In `RiskEngineProofs` too, as the instance `Stop`, because its activation is what
sets the flag of the risk engine.

- `StopsOnceAndInOrder`: `StepsInv` says that whoever works on the steps holds
  the lock, that exactly the steps before the current one were attempted, and
  none before the flag is set; an activator that waited for the lock then finds the
  flag.

### MarketPipeline

- `EventsExecuteOnce`: `Spec => ExecutesOnce`. `GuardInv`: completed events are
  at or below the guard in memory and the durable checkpoint; the event under way
  is above the guard; the guard moves only after its checkpoint is durable. That
  gives `CompletedEventsNeverRepeat`. `Paid` adds that every execution is
  matched by a failure or a kill, except the one of an event that is under way
  past its execution, or completed.
- `ReadyIsEarned`: `ReadyMeansAllReady` is inductive by itself, because the state
  is decided after the symbol of the event is counted.

### MarketFeed

In `MarketPipelineProofs` too, as the instance `Feed`.

- `NoCandleIsSkipped`: `Spec => []NoCandleSkipped` for `SymbolCount = 1`, which
  is where the property holds: `feed_two_symbols` refutes it for two. Bootstrap
  can fill a gap at any time, so the danger is a candle that appears behind the
  boundary. `FeedInv` says that once the boundary has left the start of the stream,
  the table is `Solid` up to it, from its first candle on; that a poll which
  emits has read all later candles; and that what the engine remembers or has
  saved is a stored candle between the start and the boundary, so a restart
  goes back to a solid part and nothing new is taken for a replay.

### Reconciler

- `BlindRestartAlwaysCaught`: the loads see the tables at different times.
  `BlindInv` says that the process stores only what it has booked, and books only
  numbers that were never used; so a durable row it does not know was there,
  and unknown, at the load (`LoadedUnknown`).
- `VerdictsAlwaysSound`: with `PositionsGrow`, that a loaded position is at most
  the one in the table and this at most the one in the books, a clean comparison
  squeezes all three together.

### Backtest

For any set of candles, quantities, slippages below the whole price, fees and
number of candles:

- `TypeCorrect` and `BooksAlwaysHold` (cash and ledger) from `BooksInv`:
  the type invariant, cash and ledger with `WaitsBetweenCandles` (nothing is
  pending while a candle is worked on) and `HeldOnCandle` (a held position has
  seen a candle, which the liquidation sells at).
- `PendingAlwaysMatches` and `MemoryAlwaysFollows` (level and trailing high) from
  `MemoryInv`: these with `BooksInv` and `Numbered`. They need each other:
  `on_fill` sets the level from the signal, so the level counts the fills only
  because a base order meets a flat portfolio and a pending safety order carries
  the next number, and the trailing high is cleared only by a base order.
- `ExitsAlwaysBind` (holding limit and stop) from `ExitInv`, which adds
  `WithinLimit`: the position's own counter runs at least as fast as the candles,
  and while no exit is queued the limit is still ahead.

### The data: CandleStore, DerivedStore, DataOps

For every set of hours and collectors, any page size and any programs side by
side. A step of a program is classified by what it does to the tables
(`TablesStep`: nothing, store one page, one run of the ETL; `DerivedStep`), so
that the arguments are about three cases and not about the programs.

- `LedgerImplemented`: `Spec => RawToDds`, the refinement of `AppendOnly` step
  by step. `Copied`: each row of DDS is a row of RAW with its values.
- `AlwaysSettled` (`RawIsSettled`): `DataInv` holds it together with `Copied` and
  the types of the tables; a row is passed over by the two cutoffs only when
  it was copied or its flaws recorded, and a page stored later carries a
  transaction number above the cutoff, or is `late`.
- `GatesAlwaysHold`: from `DataInv` before and after the step; what is attested
  is a set of rows that no step takes away.
- `DerivedAlwaysLooksBack` (`DerivedLooksBack`): `LookInv` says that, while ids
  ascend with time, every history that is stored, or was read and is waiting to be
  written, is a `Stretch` of DDS, ascending and without a hole. A page that
  arrives in between cannot break one: its ids are larger, so its hours are later.

### SetupStrategies, Research and the reports

For any set of strategies, shapes of candles and lengths of the windows. The
first half of `ResearchProofs` says what each operator of the strategies returns
and leaves alone (`BreakoutEnterFacts`, `ManageFacts`, ...), and splits a candle
into its cases (`OpenedCases`, `SteppedCases`): how it opens, by a sale, a purchase or
nothing, and how it ends, by a level, with a position or with a flat book. The
invariants are proved about these cases, each on top of the one before.

- `RunsAreSound`: `Sound`, the candles are numbered and every book is `Well`: a
  sale is pending only with a position, a setup of the breakouts and the
  pullback only without one, and what finds the book flat is an entry.
- `EntriesAreFounded` (`EntriesFollowSetups`): `SetupsKnown` says of every setup
  that waits what the property says of the entry, for the candles so far:
  the level, the close that broke it, no doubt since, the age; for the pullback
  the complete candles and the last RSI.
- `ReportsAreReconciled` (`ReportsReconcile`): `AllBooked`: the replay of the
  fills so far has the open position of the engine (quantity, cost, fees), its
  trades are as many as the portfolio counts, with the same sum, and each lies
  on the candles it names. The pending order and the position decide what the
  next fill is, so it needs `Sound`.
- `TrendDownEnds` (`FirstTrendDownEnds`): from `AllBooked`, which also says that
  a position has sat through no TREND_DOWN candle but the one of its pending sale.
- `WatchIsOfThePosition` (`WatchFollowsPosition`): `AllFollowed` has, for V2, the
  order of the audit events, the STARTED that belongs to the open position
  (`Anchored`), its counters (`Counted`), and that a position below its structure
  at the age of detection was watched on that candle (`Noticed`). That V2 trades
  as V1 until a watch expires is a simulation: `Twins` says that the two books and
  strategies agree in all but the watch, or V2 has just signalled the expiry.
- `TheFilterIsExact` (`FilterIsExact`): a second simulation, of the gated run by its
  baseline. `GatedRuns` says that the two are equal, or the baseline has just
  ordered what the gate held back (`Missed`), or an entry of the baseline is one that
  the report filters (`Passed`): from that moment on the property asks nothing.
- `TheFunnelAccounts` (`FunnelAccounts`): `FunnelRun` relates the diagnostics to the
  run they follow. `Accounts`: what was armed is confirmed, cancelled, open, or the
  setup armed now, and fills with the pending entry are at most the confirmations.
  `TraceOk`: a trace that is blocked by volume or confirmed crossed above the EMA, and
  one blocked as unknown has an incomplete candle. `Explained`: every candle has a
  trace or lies within a closed trade or the open position.

### Lemmas about data

Cardinalities, sums and sorted sequences need induction. The library's induction
theorems take an operator, so the proofs use a form over sets: a set of
numbers that has 0 and every successor, or of subsets that has each one whose
smaller parts it has, is everything (`SetInduction`, `SubsetInduction`, from the
well-foundedness of `<`). With that the recursion of `TotalCost` and of the net
of fills, the largest element of a finite set and the rows of a copy in order are
proved once and cited. The folds of the reports over fills and trades
(`Replayed`, `TotalPnl`) are functions that CHOOSE finds: one exists for every
sequence and two agree on the prefixes, so that each takes one element at a time
(`ReplayedAppend`, `TotalPnlAppend`).

### Only model-checked

- Liveness (`StopCompletes`, `CandlesReachEngine`, `SignalEndsProcess`,
  `GateFollowsDatabase`, `CriticalIsHandled`, `UpdateEnds`): out of the provers'
  reach.
- `CalculatorsAgree`: it compares recursive averages, and what a recursive
  function computes for every input needs induction over data.
- `ReportsFit`: the tables of the reports against each other, through filtered
  and sorted sequences (`SelectSeq`, `SortSeq`), which are recursive.
- The violation `feed_two_symbols`.

## 6. Not modelled

- The older loading path (`load_historical_bars.py`, `etl_raw_to_dds.py`) and
  `collectors/bybit_market_data.py`, a wrapper around an external trading node.
- Submission of orders by `bybit_client.py`: no program calls it.
- `paper_pnl.py`, `paper_metrics.py`, the simulated exchange, walk-forward
  windows, persistence of backtests, health monitors and the soak runner: planned
  (section 2). The coordinator accepts the market and pipeline monitors and never
  calls them.
- Aggregation of reports over several windows, leave-one-out tables and output
  formats; preflight and accumulation of the breakout validation, which compare
  files and fingerprints.
- External commands that `diagnose_readiness.py` runs: their outcomes are inputs
  of `ActiveStatus`.
- The mart, configuration, migrations other than the copy function, and argument
  parsing: SQL or I/O without interacting state.
- Rounding of `Decimal`, and indicators no collector calls.
