# Plutus: a TLA+ development of the trading system

Plutus is a crypto trading system: it scans markets for anomalies, asks a panel
of LLM personas to vote on them, sizes a trade, asks a risk guard for
permission, and routes orders to Binance; a backtest engine (Chronos) runs the
same pipeline over history and a meta-learning loop evolves its parameters.
This directory holds TLA+ models of the system's parts, their model-checking
configurations, and proofs.

`PROJECT.json` lists the components, the runs, the source lines every definition
stands for, the hazards of the code and the properties that cover them, and the
theorems.

Source files are named below without their common prefix `src/src/`.

## Inventory of the system

| Component (source) | State it keeps | Operations | Hard behaviour | What makes it correct |
|---|---|---|---|---|
| RiskGuard (`execution/risk_limits.py`) | equity and two high-water marks, session, kill switch (flag, time, latch), exposure book, stop counter | session start, equity updates, fills, nine checks, `check_all`, resets | fields written by many checks in any order; cooldown against wall clock; shared singleton | the switch holds its cooldown, the latch holds for ever, exposure is never negative |
| BinanceExecutor, test mode (`execution/exchanges/binance_executor.py`) | tracked orders, mock fills, balances | place, cancel, background fill loop | no lock between callers and the fill thread | orders fill exactly, RiskGuard hears of every fill, every order settles |
| BinanceExecutor, live mode (same file) | tracked orders | place with idempotency key and retries, cancel, `update_order_status` | lost answers, retries, two updates at once | one order per intent, no invented closings |
| LimitOrderQueue (`execution/order_router.py`) | open orders with prices and tags, history, reconciliation thread and its flag | place, `cancel_all`, reconciliation in both modes | snapshots compared with later state, a join that gives up, pops that race | closed orders leave, none vanishes without a record |
| TWAP, VWAP, market executors, SmartRouter (same file) | schedules, remaining quantity, fill histories, session | route an intent, record fills, report | exceptions halfway through a schedule, histories reported again | what is left is what was not booked, and no booked fill stays unreported |
| Binance connector, stream workers, listener (`engine/realtime_pipeline.py`, `engine/scanner_worker.py`) | Redis stream, consumer group, pending list, pub/sub channel | XADD, XREADGROUP, classify, publish, XACK, listen | reordering, trimming, crash with pending messages, partial failure in a batch, two readings of one book | each message is processed or still pending; listeners get no mixed signals |
| PlutusEngine server (`engine/server.py`) | subscriptions, reader thread | subscribe, publish | registration during reading | cannot be imported as written |
| MemoryBank (`data/memory.py`) | SQLite: lessons, weights, evolved configs | save, retrieve, checkpoint, close | crash between statements, two processes | one active configuration, and one that stays; rehearsals stay out of prompts |
| Rate limiters (`data/binance_client.py`) | semaphore, timer, lock | wait, replenish | lock taken twice | callers do not wait for ever |
| Candles (`backtest/data_client.py`, `backtest/simple_fetch.py`, `data/binance_client.py`, `data/okx_client.py`) | disk cache, CSV lake | paged fetch, retries, cache | a page lost, short or repeated while the market goes on | a series has no duplicates, and no holes but rows that cannot be read |
| Websocket feed (`data/streams/binance_websocket.py`) | bounded queue, newest messages | connect, receive, drain, reconnect | reconnects, a full queue, a drain that gives up | ticks come in order |
| On-chain metrics (`data/streams/glassnode.py`) | cache of limited size and age | get, set | request between get and set without the lock | what is dropped is the oldest |
| LLM client and personas (`data/llm_client.py`, `data/personas.py`) | breaker, answer cache | chat with retries, parse | breaker shared by callers, answers of every shape | an open breaker closes, an answer nobody can trade is no trade |
| Scanner (`data/scanner.py`) | parameters | scan, update_config | rescans of a growing series, validation | what fired stays fired; stricter settings fire less |
| Decision engine (`execution/decision_engine.py`, SHOCKPhase) | phase per trader, one shared engine | decide, tick | three phases, a cascade of tests on every tick | entries face the confirmed shock |
| Chronos engine (`backtest/chronos_engine.py`) | equity, trades, weights, guard | run, process an event, simulate a trade, reflexion | state left over between events and runs | equity is capital plus closed PnL; blocked trades change nothing |
| Allocator (`backtest/portfolio_manager.py`) | returns and positions per persona | record, fitness, weights | windows against totals, ranks at ties | only who earns outweighs the rest |
| Meta-learning (`models/meta_learning.py`) | population, weights, active config | cycle, score, apply, lessons | persistence order | what is applied is what was validated |
| Portfolio matrix (`execution/portfolio_matrix.py`) | rolling returns, book, spreads | correlate, assess, add, open and close spreads | estimates from short windows, two divisors, caps together | sizes are cut and raised only for a correlation there is, caps hold together |
| Market context, workflow analyzer, indicators, position sizer, trade plan (`analysis/`, `data/workflow_analyzer.py`, `execution/position_sizer.py`, `execution/trade_plan.py`, `cli/`) | candles read at another time than the price | analyze, plan | two versions of the same rules, stale levels | both versions agree, plans face their target |
| Legacy backtests (`backtest/engine.py`, `strategy.py`, `volume_profile_backtest.py`) | open trades, capital, curve | step, enter, exit, liquidate | order of stop, target, liquidation and time; an engine nobody has reset | books agree with trades, nothing overstays |
| Market impact model, other data sources, storage, dashboard | none, files | formulas, HTTP, output | none that is a protocol | out of scope |

How they interact. The strategy thread calls RiskGuard's `check_all`, then the
router, which calls a TWAP, VWAP, market or limit executor, each of which calls
BinanceExecutor. The executor calls back into RiskGuard with every fill
(`_push_position_update`). Two kinds of background thread run beside it: the
mock fill loop in test mode and the queue's reconciliation loop in live mode.
Both share dictionaries with the callers, almost always without a lock. The
scanner side talks to the strategy side through Redis. Chronos drives scanner,
personas, allocator, guard and meta-learning in one process; what it learns
comes back through the tables of MemoryBank.

## The modules

| Module | What it is |
|---|---|
| `TradingGate` | abstract specification: a gate that is open, cooling or latched |
| `TickQueue` | abstract specification: a queue that gives up its oldest message when one arrives over its capacity |
| `TradeLedger` | abstract specification: a trading record, each trade entered once and settled for good |
| `RiskGuard` | the risk guard, one action per operation |
| `MockExecutor` | BinanceExecutor in test mode: callers against the fill thread |
| `LiveOrders` | LimitOrderQueue on BinanceExecutor in live mode, with an unreliable exchange |
| `LiveOrders_proofs` | its theorems |
| `LimitQueue` | LimitOrderQueue in test mode: placing, cancelling and reconciling threads |
| `OrderRouting` | SmartRouter, the TWAP, VWAP and market executors, the session report |
| `OrderRouter_proofs` | the theorems about `LimitQueue` and `OrderRouting` |
| `SignalStream` | websocket connector, capped Redis stream, consumer group and both classes of scanner worker |
| `Signals` | which anomalies either worker sees in a book, and the listener of the channel |
| `ThreePhase` | the decision in three phases, shared by the traders of several symbols |
| `MetaLearning` | MetaLearningRunner, GeneticOptimizer and the MemoryBank tables they write, in several processes |
| `Lessons` | the lessons of MemoryBank: who writes, filters and quotes them |
| `Chronos` | the backtest engine: vote, overrides, gates, RiskGuard, outcome and books, with the allocator's records |
| `Chronos_proofs` | its theorems |
| `Allocator` | the allocator's fitness and the order of its weights |
| `PortfolioMatrix`, `PairsTrading` | the two halves of `portfolio_matrix.py` |
| `Analyst`, `TradePlan` | what may be traded, in both versions; the `trade` command |
| `Backtest` | both legacy backtest loops with engine, strategy and sizer |
| `Scanner` | the three triggers over a growing series |
| `RateLimiter` | the two rate limiters |
| `CandleHistory` | the paged fetches with cache, lake and retries |
| `MarketFeed` | the websocket feed's threads and queue |
| `MetricCache` | the on-chain metric cache |
| `LlmClient` | the LLM client's breaker, retries and cache, and its callers' reading of answers |
| `Selection` | the subsequence that a Python comprehension keeps, as an operator that can be proved about |
| `Streams_proofs` | the theorems about `SignalStream`, `MarketFeed`, `MetricCache`, `Signals`, `CandleHistory`, `LlmClient` and `RateLimiter` |
| `Learning_proofs` | those about `MetaLearning`, `Lessons` and `Scanner` |
| `Portfolio_proofs` | those about `RiskGuard`, `Allocator`, `Analyst`, `TradePlan`, `ThreePhase` and `PortfolioMatrix` |
| `Rehearsal_proofs` | those about `MockExecutor`, `Backtest` and `PairsTrading` |
| `DataTheorems` | what they share: sums, recursions, subsequences, extremes, covariances, integers |
| `MC*` | instances for TLC; those of `MCOrderRouting`, `MCPortfolio`, `MCHistory` and `MCClients` hold several modules that share no state, each explored with the others as they started; `no_caller_blocks` runs on `RateLimiter` itself |

### RiskGuard

Each variable is a field of the class, named after it in a comment. `killAge` is
the whole minutes since `_kill_switch_time`, saturating at the cooldown, since
`_check_cooldown` compares it with nothing else; `dayOver` is the outcome of the
86400 s test of `update_equity`. `quiet` is the one observer: minutes since a
check last engaged the switch. Each public method that changes state is an
action. `SwitchAfter` is the composition of what `check_kill_switch`,
`check_session_loss`, `check_absolute_equity` and the black-swan check do to the
switch, in that order; `check_all` uses it because it evaluates all its checks
before the first failure raises. `Breaches(p, e)` is the set of limits a
proposal breaches, one disjunct per check. `GetInstance` leaves the overwritten
`initial_capital` out: nothing in the sources calls `get_instance`.

`TradingGate` is what the switch promises without its flags and timestamps, and
`GateImplemented` is the refinement, with the gate `latched` under the permanent
latch, `cooling` under the flag alone, and `open` otherwise.

### MockExecutor

One fill thread and one caller inside `cancel_order`, with the other operations
atomic. Each read of a tracked order's state and each write of `state` and
`filled_qty` is a step of its own, since nothing locks them: `Look` reads the
state, `Fill` the quantity, `SettlePartial` and `MarkPartial` write one field
each, `SettleFull`/`Finish`/`FinishCount`/`FinishTell` are the four steps of
`update_order_status` in the fill thread and `CancelUpdate`/`CancelWrite`/
`CancelCount`/`CancelTell` the same four in the canceller. `Fill` is one step
though it reads `filled_qty` twice: a cancel between the two reads yields the
same `new_filled` as one before both. Quantities are slices of an order, the
fifth that the loop fills at a time.

### LiveOrders

Actors have a program counter and locals in `act`; a network call, or a read
that a later write relies on, ends a step. An order id is its idempotency key:
`<<intent, attempt>>`, so that drawing a fresh key for each attempt would be
visible. `Send`'s three booleans say whether the request arrived, whether the
answer came back, and whether the error is one `_is_retriable_error` retries.
The retries of a cancel are merged: what matters is whether the cancel happened
and whether an answer saying so returned. The exchange (`exch`) is external: it
fills resting orders one unit at a time and may cancel or expire them.
`update_order_status` is `Check`, `Write`, `Tell`; the two fields `Write` sets
are set together. Reconciliation threads are separate actors because
`stop_reconciliation` waits 5 s for a thread that sleeps 30 s, so a new thread
may start while the old one is asleep, and the old one goes on when it wakes and
finds the flag set again. The loop tests the flag twice: at its top, after a cycle
(`NextCycle`), and after its sleep (`Wake`).

The executor reads the answer to a placement as `orderId` or `order_id`, the queue as
`order_id` alone: with Binance's own answer the order is tracked and `_submit_limit`
raises KeyError (`NoOrderId`), with a client that renames the field it enters the queue
(`Register`). What the module says of the queue is about the second. The exchange is
assumed to know a repeated key for as long as a placement is retried (`Send`). Binance
compares keys with open orders only, so a first attempt that was filled between two
retries would be repeated; that is outside the model.

### SignalStream

`BinanceConnector` and the two worker classes never meet except through Redis,
so the state is Redis's (`added`, `trimmed`, the group's `cursor`, `pending`),
the tables and channels written to (`stored`, `announced`), and each worker's
place and locals: `todo` is the rest of its batch, `done` is `acked_ids`. Both
classes run the same loop over a stream of their own; `kind` says which. They
differ inside it. `IdempotentScannerWorker` wraps each message in its own `try`:
`Process` or `ProcessFails`. `ScannerWorker` stores, then publishes
(`Persist`, `Announce`), acknowledges what it cannot parse (`Unparsable`), and
an exception it did not foresee leaves the whole batch (`AbandonBatch`).
`Persist`'s booleans say whether the row was written and whether the database
said so; several anomalies of one snapshot are announced in one step. A Redis
call that fails is the call having happened or not: `ReadLost` is a read whose
answer did not arrive. `NewEntries` and `Deliver` are XREADGROUP and are
external. `attempts`, `failed`, `unparsed` and `acked` are observers: no guard
reads them.

### MetaLearning

One cycle of `run_meta_learning_cycle` is the steps of `runner[p].pc`:
`RunCycle` scores the population, `Evolve` is one generation and its scoring,
`ValidateWalkForward` is the whole of `validate_walk_forward` (which scores the
population and evolves it once more before it validates), and `DeactivateAll`,
`InsertConfig`, `SaveWeights` are `_apply_config`. The connection is in
autocommit mode, so UPDATE and INSERT of `save_evolved_config` are two steps: a
`Crash`, another process or a lock timeout (`DatabaseLocked`) may come between
them. A backtest runs on data of its own and is not interleaved with anything
but other processes' writes, so it is one step.

A configuration is a number, its fingerprint; 1 .. `MaxGene` are those within
the hard bounds that `ScannerParams.validate` checks and `_clip` restores. The
default configuration is `Seed` = 0, outside them: its `sweep_threshold_pct` is
below the floor. What a backtest of a configuration yields on the training and
on the held-out data is a function `world`, fixed at the start: the cycle sees
nothing of a backtest but its curve's length, Sharpe ratio and drawdown, or the
exception it raises. `Children` is what two tournaments, the blend crossover
and the clipped mutation can produce; which random numbers were drawn is the
choice of `Evolved`. `ScoreLiveTrades` is `score_live_trades`, which nothing in
the sources calls; it is a public operation, and the one that stores
unvalidated configurations. `validate_walk_forward` scores with the default limit and
weights of `compute_fitness` whatever the runner's are; the model is of a runner with the
defaults, where the two agree.

### Chronos

One `ChronosBacktester` over several calls of `run_backtest`. `ProcessEvent` is
the whole of `_process_event`; its disjuncts are the places where that function
returns: `SkipAgainstTrend`, `SkipLowWinRate`, `SkipUnsure`, `SkipWithoutStop`,
`SkipRefused` and `Trade`, each with the guard of everything before it.
`Aligned` is the two overrides of votes against the trigger, `AfterVeto` the
return that the lead's veto alone records. `samples` is how many returns a
persona's window holds, up to the number from which `MoEWeighter` reads its
Sharpe ratio; with fewer a persona weighs nothing once another has enough.
What the Sharpe ratios and the softmax make of the rest is any division of
`Share` among the personas that have enough (`Weights`), so that the
properties hold whatever the weights are. `tally` is the
allocator's record per persona, which only the win-rate gate reads, and which
`run_backtest` does not reset.

The risk guard is the operators of `RiskGuard` itself, instantiated: `Guard`
is the guard of dry-run mode with the equity that `update_equity` has just given
it, `GuardAllows` is what `check_all` finds nothing against, and `ConsultGuard`
what its checks leave of the switch. Its cooldown runs on the wall clock while
the engine goes through history, hence `MinutePasses`.

Prices are distances from the entry in basis points, money is whole dollars:
`PnL` is gain or loss at the first close beyond target or stop, `gap` beyond it,
less both fees, of which the exit's is taken on the entry's notional. A trade
that ends neither way is worth nothing, not even its fees. `Trade` keeps the order
of the code: the three sums, the weighters, the weights saved (which may fail,
`saved`), the allocator, the reflexion. `PhaseAfter` is where an exception
leaves the run; it is not caught, the run returns nothing, and the same object
may be run again. One of these is certain rather than possible: after a loss
of more than 1 %, `recalibrate_scanner` at ordinary volatility hands the default
configuration to `update_config`, which rejects it (`RecalibrationFails`).

Spread trades are not in the module because none is ever made: `PairsTrader`
reads an entry price from the latest signals, and a blended vote has none.

### OrderRouting

SmartRouter works in one thread that sleeps between child orders, so a VWAP
route is a sequence of steps (`RouteVwap`, one `SendChild` per bucket,
`EndVwap`) between which only the exchange acts. `Outcomes` is all that
`place_order` can come to: refused, accepted with the answer lost, answered with
nothing, part or all executed, with or without a price; whatever raises in the
code ends the route (`Raises`). A route of the TWAP executor sends one slice and
then always raises, since `result.get` is called with three arguments;
`DriveTwap` is the executor driven slice by slice, as its own self-test does.
One fill is one record, shared by the executor's history and the session, and `gen` tells the histories of re-registered executors apart.

### LimitQueue

The queue over the mock executor, at the grain of its single reads and writes:
`placing` is the thread inside `place_at_fvg_zone` or `place_at_retracement`
(submit, enter in the queue, tag), `cancelling` the one inside `cancel_all`,
which works on a copy of the ids, and `pass` every reconciler with its own copy.
The history is a set: two passes may record an order twice, and no property
depends on how often. Its records carry the id of their order, which tells them apart
in the model; in the code they are anonymous. `status` and `filling` are the executor's side, as
MockExecutor has it.

### PortfolioMatrix and PairsTrading

`Update` adds a return to an asset's window and `AddPosition` a position to the
book; what the code asks of them (`Rho`, `Beta`, `Heat`, `Assess`) are
operators.
A correlation (`Correlation`: the covariance over n, the variances over n − 1) is
compared with a threshold by squaring numerator and denominator (`Grade`), so nothing is
rounded. Where the code's value lies on a threshold, its floats may fall on either
side: two identical series of five are at 4/5 and come out as 0.8000000000000002. No
property depends on which, since `CutsAreWarranted` compares with the coefficient of
Pearson, which is 1 there. In `PairsTrading` a spread is made and sized by
two caps, the second of which rescales what the first computed (`Evaluate`,
`Sizing`), and settled, perhaps more than once (`SimulateOutcome`); a leg is
kept as its notional. The stop of
the second leg of a same-direction spread lies on the winning side, as in the
code.

### Allocator

What DynamicAllocator does at the end of an epoch, and the weights made of it.
The softmax is monotone, so a weight is its rank; a fitness, a product with one
square root, is kept as a signed square. The win rate counts all epochs while
returns and turnover are windowed, as in the code.

### Analyst and TradePlan

`Analyst` puts both versions of the rules side by side: those `analyze` prints
and those by which WorkflowAnalyzer chooses. `TradePlan` is the command `trade`:
the price is read first, the market moves, the candles are read, the volume
profile's nodes are found, the plan is made (`ReadPrice`, `MarketMoves`,
`ReadCandles`, from the exchange or from stale local files).

### ThreePhase

Traders of several symbols, each with a `SHOCKPhase` of its own. `engine` is the one
`decision_engine` of its module; its `current_phase` decides nothing, since
`make_decision` takes the phase from its caller. A trader asks the gate with criteria
and a least reward/risk ratio of its own (`least`), and `EntriesKeepFaith` says that
whoever executed met all four checks with that ratio. `slumped` is an observer: symbols
whose price, in the shock, lost more than one and a half triggers against the entry.

### Backtest

Both legacy loops over `BacktestEngine`. The constructor makes no list of equity
snapshots; `reset` does (`recording`), and nothing in the repository calls it. So the
workflow loop raises AttributeError at its first snapshot (`SnapshotRaises`), and the
volume profile loop, which takes none, trades to the end, closes what is open and raises
in `get_results`. `Reset` is the call of an owner who makes an engine, resets it and
hands it to `MultiCoinBacktester`, which takes one as an argument (`run_is_reported`
shows what becomes of everybody else's run). What is said of
workflow trades and of reported metrics (`StoppedWithinRisk`, `DrawdownCoversLoss`) is
about such an owner's runs; `NothingOverstays` and `KeepsLedger` also hold of the volume
profile loop as it is shipped.

A timestamp is the check of all stops, then each symbol's turn (`WorkflowTurn` or `ProfileTurn`). What an indicator
says of the candles is a choice; prices are 1h closes. The order of the checks
in a turn is the code's, stop before target before time. A size is computed with one
division, rounded down once (`RiskOverDistance`), so that what a stop may cost can be
stated exactly.

`TradeLedger` is what is left when indicators, sizing and the three kinds of exit are
forgotten. In the refinement `Record` its capital is the engine's equity, and its
ledger (`LedgerOf`) is `trades` with everything that is fixed at the entry as the
terms.

### Scanner

Exact arithmetic: an exponential average of weight 1/p is a numerator over a
power of p, the Bollinger width is squared. A scan goes over the whole series;
`NewCandle` rescans, `UpdateConfig` validates and replaces the parameters.

### RateLimiter

`RateLimiter` and `WriteRateLimiter` are the same code. `wait` takes the class
lock, finds no timer yet and calls `_start_replenisher`, which takes the same
non-reentrant lock.

### CandleHistory

A candle is the number of its period and `now` is the open one. One module
holds four paged loops (`DataClient` with Binance and with OKX, `simple_fetch`,
`fetch_klines` with its retries), the CSV lake and the two disk caches, page by
page while the market goes on; a page may be lost, empty, an error object or an
exception, each with the reaction of its loop. `simple_fetch` and `fetch_klines` pass
over single rows they cannot read (`Readable`); `unread` remembers which. A stretch of
candles is `Run(a, b)`, those from `a` to `b`: what the exchange shows of a range
(`Served`) and what the lake holds are such runs, and the theorem is that what a fetch
returns is one but for the unread.

`before` means what `OKXClient` and the exchange say, newer. `_fetch_okx` takes it for
older: it asks for what follows the end of the range, drops it, finds that it has not
moved back and stops with nothing (`OkxPage`). `SeriesIsWhole` therefore claims
no completeness of OKX, only that nothing wrong is returned.

### LlmClient

The breaker, the retries and the cache, shared by callers of four kinds. What
each kind makes of an answer (`PersonaSignal`, `MacroContext`, `Advice`,
`Reflexion`) is an operator of its own; an answer is what can be told of the
model's text. `outage` is an observer: the ticks since the breaker opened, counted to
one more than the bound `LongestOutage` it is compared with.

### MarketFeed and MetricCache

`MarketFeed`: reader threads, the newest message of each kind, the bounded queue
with drop-oldest in three steps (`Put`, `MakeSpace`, `PutAgain`), the caller's
drain, and a reconnect that may leave the thread of the connection before
alive. That the library looks at the socket and opens it in one step (`RunForever`) is an
assumption, and the handler's hand holds one message: two reader threads inside the
handler at once, and the `queue.Full` raised again when the other has taken the space,
are not modelled. `TickQueue` is that queue with its dropping as one step; in the refinement
`Ticks` what waits is the buffer followed by the message in the handler's hand, one
message is owed once the handler has found the queue full, and what is handed over
is what calls have returned plus what the drain under way has taken. `MetricCache`: get and set are atomic, the request between them is not.

### Signals

What the two workers announce of one book: each has its own reading of
imbalance and severity (`DepthSeverity` with literals, `SnapshotSeverity` with
named thresholds), and the pub/sub channel forgets what is published while the
listener is away.

### Lessons

The two tables of lessons, the reflexion that writes them and the prompts that
quote them, for engines in live and in rehearsal mode on the same database. A
lesson is what its text is: a rule, an injected-looking rule, an excuse (an
error or an empty answer, saved like a rule), the note of a dry run.

## The runs

| Run | Instance | What it shows |
|---|---|---|
| `mock_executor` | one BUY and one SELL order of five slices, one MARKET order | exact fills, RiskGuard behind by at most one slice, orders settle |
| `live_orders` | two intents, two attempts, quantity two, two threads | no duplicates, honest tracker, closed orders leave, queued orders are watched by a live thread |
| `order_routing` | TWAP of 4 in two slices, VWAP of 50 over two buckets, four calls; two queue orders with two reconcilers | what is left is what was not booked, no booked fill stays unreported, no order vanishes from the queue |
| `signal_stream` | three entries, at most two kept, batches of two, two runs of a worker | nothing processed twice; the group reads on |
| `meta_learning` | two processes, three configurations, population three, two generations, three data sets, two cycles and two starts | elites never regress, only validated configurations are stored by cycles, one active row per process |
| `config_stays_active` (violated) | one process, no live scoring | applying the same elite again leaves no configuration active |
| `chronos` | three personas with three answers each, five events on two pairs, two runs, three events, gate after two trades, cooldown one minute | books agree with trades, no trade against its trigger, wins are gains after fees, no trade in a drawdown |
| `portfolio` | the risk guard with one beta coin, one alt, three equities, cooldown 2, three proposals; two assets, windows of four, two positions; spreads over three prices and three ATRs; two voters, four epochs; the thresholds of both analyses; four ticks; two symbols, four quotes, two setups, two least ratios | no approval while shut, refinement of `TradingGate`; sizes are cut or raised only for a correlation there is, spread verdicts and caps are right, only earners stand out, both analyses agree, plans face their target, entries keep faith with the shock |
| `history` | two coins, five prices, two or three bars, engines that were reset and engines that were not; six candles of five shapes, two configurations | refinement of `TradeLedger`, the drawdown of a reported run is right, nothing overstays its stop, stops hold the risk of the workflow on an engine that was reset; events are final, stricter settings find fewer |
| `clients` | four candles in pages of two; two callers of the model; four market messages on a queue of two; two users of a cache of two; two books; two engines | series are whole but for rows that cannot be read, the feed refines `TickQueue`, the cache keeps what was used last, no mixed signals, rehearsals stay out, an open breaker closes, after at most one cooldown per caller |
| `run_is_reported` (violated) | as `history` | a backtest on an engine nobody has reset ends in an exception, not in results |
| `no_caller_blocks` (violated) | two callers | the first caller of the rate limiter waits for itself for ever, and all others for it |

Why the bounds are enough. Equities 900, 9500 and 10400 USD put an update below
the survival floor, at the start and at a peak from which falling back exceeds
every drawdown limit; a cooldown of two minutes tells "just engaged", "halfway"
and "over" apart. Five slices is the code's own number, and the last one is the
one that completes. Two intents are what the orphan race and the restart of the
reconciliation need (an earlier order to keep it running, a later one to
restart it); two attempts are one retry; quantity two has a partial fill. Two
threads are what a stop and a start within one sleep can leave behind; more need
more stops and starts in the same 30 s. Three entries in batches
of two give a full batch and a partial one, and with `MaxLen` two an entry that
is trimmed before it is read; two runs of a worker are a crash and its
successor, or two workers side by side; one XADD in flight, since what a
message says is not modelled and two in flight differ only in their order. Two
of a population of three are the elite and one is a child, so that a child can
displace the elite and a stale score can let it; two generations are the fewest
in which the scores of the first can go stale; the three data sets have a
configuration that improves on the elite, one over the drawdown cap, one whose
backtest raises and one that does not trade, on either side of validation. Two
processes and two cycles are a duplicate and a race. In `chronos`, a gap
of 1100 basis points beyond the stop is a loss past every limit of the guard, so
that one trade can halt the run and the next event meets the halt; three events
are two to reach a state and one to be decided in it, also across two runs, of
which the first may have ended in an exception. The stop of one basis
point is where fees exceed the target.

In `order_routing` a volume of 3000 asks for more than is left and one of 0
takes the branch without an estimate; rates 5 and 40 lie on either side of the
floor of 10; four calls are a route that raises, a re-registration, a route that ends
and one more. The two zones are a gap whose middle is rounded and no gap.
In `portfolio`, four common observations are beyond the three that halving or raising a
size takes: the code's coefficient is then at most 3/4. A quarter is out of the code's
reach with fewer than six, so there the run shows that no size is quartered where it
should not be, as with the two divisors swapped (the mutant of `CutsAreWarranted`), and
the theorem covers longer windows; two
positions fill the book; spread prices are a missing one and two, and the
ATRs none, one and four, whose sizes meet the minimum, the margin cap and the risk
cap; four epochs with a window of
three let one roll out; the changes are one on either side of each threshold; the
quotes are the entry of 1000, one short of the trigger of 5, one beyond it and one
that loses more than one and a half triggers; a reward of 15 tenths meets the first of
the two least ratios and not the second. In `history` the
five prices lie on either side of the supports, the resistance and the stops and
targets derived from them, so that a close can meet a stop or gap beyond it; six candles are more than the longest warm-up of three plus an event
and a later candle. In `clients`, pages of two over four candles give a full
page, a short one and one that grows while it is read; two failures open the
breaker and two callers are one under way when it opens; a queue of two and four
messages overflow twice; three metrics are one more than the cache holds.

The guards that bound a run are `LastEntry`, `MaxFlying`, the condition in `Crash`
(a successor can be started), `MaxCycles`, `MaxStarts`, `Noise`,
`MaxRuns`, `MaxEvents`, `MaxOpen`, `MaxStops`, `MaxMarket`, `contested` (one
effective cancel per order), `Intents` (each placed once), `dead # {}` (thread
identities), `MaxOps`, `MaxUpdates`, `MaxSpreads`, `MaxClosings`, `MaxEpochs`,
`MaxTicks`, `MaxBars`, `MaxCandles`, `MaxFetches`, `MaxPages`, `LastCandle`,
`MaxMessages`, `MaxAsked`, `MaxBooks`, `MaxBreaks` and `MaxLosses`.

Fairness. `MockExecutor`: the fill thread runs `while True` on a daemon thread
and a call to `cancel_order` that has begun returns (weak fairness on both);
callers need never call. `LiveOrders`: threads are scheduled and calls return
(weak fairness), and GET requests do not fail for ever (strong fairness on
`Fetch` and `Get`), without which a thread could be refused every answer.
Nothing is assumed of placing, cancelling, fills, or the answers to orders.
`SignalStream`: a stopped container is started again (`restart: unless-stopped`
in `docker/docker-compose.yml`) and a running loop goes on (weak fairness on
`Start` and on each worker's steps). Nothing is assumed of the connector, of
crashes, or of which calls fail. `RateLimiter`: the timer fires and restarts
(weak), and every caller that again and again could take its step takes it
(strong: locks and semaphores are not held against one thread for ever); the
violation needs none of it to be weaker. That an open breaker of `LlmClient` closes needs
no fairness, since `OutageIsBounded` counts ticks of the clock: it assumes nothing of
the provider.

## What is proved

With TLAPS, for every value of the constants that the modules' named assumptions
allow. Most say only that a constant is a set of numbers or a positive bound.
Those that say more state what the code gives: no volume profile bin is ever split
unevenly by the model's unit of volume, and the recent range has at least two
candles (`DeskAssumption`); a stop's distance is positive after rounding, and there
is at least one symbol (`BacktestAssumption`); the callers of the model are finitely
many (`LlmAssumption`); the periods of a scanner's
configuration are positive, and a candle's close lies between its low and its high
(`ScannerAssumption`); a page holds at least two candles (`CandleAssumption`; it is
1000 or 100, and with one the first page of `_fetch_binance` would be taken for no
progress); in dry-run mode fees cannot exceed the loss at a stop, since exposure
is capped and the stop a percentage of it (`LimitsFit` of `Chronos`, which the
code's 4 basis points and 500 % satisfy with room to spare).

Every theorem rests on an inductive invariant, named below, which the steps
are shown to preserve one action at a time. 37 of the 40 properties that the passing
runs check are theorems.

### Streams_proofs

* `SignalStream`. The invariant says what a worker may hold
  (`HoldsRightly`: its batch has been processed by no one and is pending, its
  ids to acknowledge were processed and did not raise, the entry it has just
  stored is in the database), that no entry is in two batches (`Apart`), and what
  may have become of an entry (`Accounted`: nothing beyond the cursor was
  touched). `ProcessedOnce` alone is not inductive: it is `Apart` and the
  cursor that keep a second worker from an entry the first still has. From it
  follow `TypeCorrect`, `AtMostOnce`, `AcksAreEarned` and `StoredFirst`.
* `MarketFeed`. `FeedInv` finds a mark between 0 and the last message sent: what
  was returned and what a drain has taken so far lie at or before it in ascending
  order (`Handed`), the queue and the message in the handler's hand beyond it,
  ascending as well (`OnTheWay`). Taking a message raises the mark, dropping the
  oldest leaves it; the message put after making space is still newer than all of
  the queue, because one message is handled at a time. Hence `TicksInOrder`. For the refinement
  (`GivesUpOldestHolds`) the invariant is joined by `Roomy`: a handler that is past
  its test for room finds at most a full queue, so the message it drops is the first
  of the line, of which buffer and hand are two parts (`JoinsLine`, `PutKeepsLine`,
  `TakeFromLine`, `LosesLine`).
* `MetricCache`. `LeastRecentFirst`: of two entries the one that lies first was used
  first. The observer `recent` is the order of last use as a set of pairs, so
  that a use changes it by a union. `set` of a key that another thread has
  stored meanwhile moves the entry to the end, as `get` does; the invariant
  survives because both take the entry out first (`Without`).
* `Signals`. `Sound` says that announcements so far agree with the book they are
  about; it needs that a worker still looking has announced nothing (`Silent`) and
  that what is left to announce is of the present book (`LeftToAnnounce`). The rest
  is arithmetic on two texts of the thresholds (`ThresholdOrder`).
* `CandleHistory`. `Part(s, a, b, u)` says that the series `s` ascends within `a .. b`
  and that what it leaves out there is in `u`, the rows that could not be read. While
  pages come in, `Climbs` says of the three loops over Binance that the candles so far
  are such a part, from the first that was asked for and exists up to just before the
  cursor. What the exchange answers is a run (`AnswerIsRun`), its readable rows a part
  (`ReadableIsPart`), and two parts that follow each other make one (`PartsJoin`,
  `PageJoins`: the cursor neither skips nor repeats a candle, also when the page was cut
  at the size of a page, at the open candle or at a row that raises). Sorting leaves a
  part as it is (`PartSorted`), and its last so many candles are one (`LastOfPart`). Of
  OKX nothing is ever kept (`Pages`, `OkxPageStep`). Saved series are parts within the
  dates of their key (`SavedWhole`), and a fetch without a fault, a cut or a local file
  (`Clean`) has reached the end or the market's end (`NothingMore`), so that nothing it
  was asked for (`AskedFor`) is missing. From this `SeriesIsWhole` follows
  (`PartIsWhole`).
* `LlmClient`. Every call under way when the breaker opens may fail once more and
  open it anew, and none starts while it is open. So what has passed of an outage,
  what remains of the deadline and one cooldown for each call still under way add up
  to no more than one per caller: each tick moves one unit from the second to the
  first, each renewal costs a call. That sum is the invariant behind
  `OutageIsBounded`.
* `RateLimiter`. The run's counterexample is one behaviour with two callers;
  `NobodyGetsThroughHolds` says there is no other kind: once a semaphore exists, the
  lock belongs to the caller who made it and who waits for it (`Seized`), so that
  no step but a further call is left. Its hypothesis is that the two names for what
  is not a caller are not callers.

### Learning_proofs

* `MetaLearning`. The invariant is types, the three safety properties and
  `Consistent`: between generations a runner's scores are those of its current
  population, and an elite waiting to be stored by a cycle has been accepted.
  The first half is what FIX #67 re-establishes after each generation, and with
  lemma `EvolvedElite` (the first successor scores no less than the
  first individual) it gives `EliteIsKept`; the second half gives
  `ValidatedIsStored`. `OneActiveEach` needs that whoever is at its INSERT has no
  active row of its own: its UPDATE cleared them and only it writes rows in its
  name. `AppliedSurvives` needs that no row is ever deleted.
* `Lessons`. `Faithful` says of the lessons last told to a persona what
  `RehearsalStaysOut` says, and `About` that they are on one anomaly;
  `PromptIsFaithful` derives both from the filters of the query. For
  `OneRulePerEngine` the invariant adds that an engine about to store, having loaded
  no rules, has stored none.
* `Scanner`. `ScannerInv` says that the events are those of a scan of the whole
  series. An exponential average of the longer series agrees with that of the
  shorter (`AveragedPrefix`), so the three triggers fire on the same candles past the
  warm-up (`SweepsSettle`, `SqueezesSettle`, `DeviationsSettle`): `EventsAreFinal`.
  `StricterFindsFewer` compares the triggers one threshold at a time
  (`SweepsFewer`, `SqueezesFewer`, `DeviationsFewer`); that a smaller share of a width
  is no more of it takes the squared width, a sum of products, not to be negative.

### Portfolio_proofs

* `RiskGuard`. The invariant is types plus `CoolingHolds`: the flag is up
  exactly when the stored time is that of the last alarm, and down only when no
  alarm rang for a cooldown. It is what excludes an elapsed cooldown while
  `quiet < Cooldown`, so that `check_kill_switch` refuses
  (`ShutMeansNoApproval`), and that lets `Lapse` of the gate be enabled when the
  flag drops (`ImplementsGate`: the initial state maps to the gate's, and every
  step to one of its steps or to a stutter).
* `Allocator`. `OnlyEarnersStandOut` is about steps: a window that sums to no
  gain has a ratio of at most nothing (`LosersRatio`), and shrinkage and penalty
  only scale it (`FitnessOfHistory`). All windows have the same length.
* `Analyst`. `AnalystsAgree`, by cases on both texts of the rules.
* `TradePlan`. `DeskInv` bounds the price that was read by the range of the last two
  candles when the market has moved since, which is what keeps a level next to the
  price of the profile on the right side of the older price (`LevelsSound`,
  `PlanFaces`): `PlansFaceTheirTarget`.
* `ThreePhase`. `PhaseInv` relates each symbol's shock to what its trader was told, asked
  the gate and decided, whoever last wrote the shared engine: a trader acts on what its
  own shock came to, with the criteria and the least ratio it asked for
  (`FollowsItsShock`), and a shock that lost too much has ended (`EndsWhenLost`).
  `LostIsAdverse`: a price that lost too much against the entry fails the adverse check,
  although that check measures from another price. It gives `EntriesKeepFaith`.
* `PortfolioMatrix`. The coefficient of the code is a covariance over n divided by
  deviations over n − 1, so it is (n − 1)/n times Pearson's, and above no threshold that
  Pearson's is not above (`Shrunk`, `RhoIsWarranted`). What `assess_trade` makes of a book
  is a fold over its positions, and each change of the size has a position that
  warrants it (`WeighKeeps`, `AssessHasEvidence`): `CutsAreWarranted`. The converse is
  not true, and not claimed: a short window hides correlations there are.
  `CorrelationInRangeHolds` is the promise of the docstring, that the coefficient is
  in [−1, 1], by the inequality of Cauchy and Schwarz (`CauchySchwarz` of
  `DataTheorems`, `SpreadBounds`).

### Rehearsal_proofs

* `MockExecutor`. The invariant (`MockInv`, which TLC also finds to hold
  of the run's instance) says what the fill thread and the canceller may hold in
  hand at each of their steps: an order nobody cancels shows exactly the fills
  in the ledger except while the thread is between its two writes
  (`Undisturbed`), and RiskGuard has been told of every slice but the one in
  hand, or the last one of an order a cancel caught (`Told`). `FillsAddUp` alone
  is not inductive, because the thread reads a state in one step and writes the
  quantity in a later one. From it follow `TypeCorrect`, `ExactFills` and
  `GuardIsTold`, for any number of orders and slices.
* `Backtest`. `engine \in Sound` says that open trades, book and equity agree;
  opening and closing preserve it whatever closes a position (`OpenedSound`,
  `ClosedSound`), which is `BooksMatchTrades`. `CheckedAreAway` says that positions
  of symbols whose turn is over are away from stop and target, which the turns
  of the other symbols do not disturb (`KeptAreAway`); when no turn is left it is
  `NothingOverstays`. The fall over the closed trades counts from the initial equity
  and its last term is the final one (`RealisedFallCovers`), and snapshots can only
  deepen it (`MetricsCover`): `DrawdownCoversLoss`, whichever snapshots are left out, of
  every run that is reported. An engine nobody has reset reports none.
  `StoppedWithinRisk` says that a trade closed at its stop loses no more than its risk, its
  fees and what slippage to the stop makes of its size, in the runs of an owner who has
  reset the engine; the sizes rounded down make
  two units, `Rounding`, enough for every equity and stop distance. `KeepsLedgerHolds` is the
  refinement: every close is the settling of an open trade and every entry comes
  after it, for a symbol without one, so a bar's stops, a turn's exit and a turn's
  entry are together one step of the record, and the equity moves by the sum
  of the gains.
* `PairsTrading`. `VerdictIsSign` compares the cascade of tests with the sign of the
  booked sum. `BothCapsHold`: the margin cap shrinks both legs in proportion and the
  risk cap shrinks what that left, so that the second cannot undo the first, and a
  leg that the floor has raised goes through both.

### The others

* `LiveOrders_proofs`. Only first keys are used, a resting order is not full
  (`ExchangeOK`), and every actor inside `update_order_status` with FILLED or
  CANCELLED in hand is about an order the exchange has closed that way
  (`ActorOK`). That conjunct survives steps of others because the exchange does
  not reopen what it closed (`ClosedStays`, lemma `OneMoves`). From it follow
  `TypeCorrect`, `AtMostOneOrder` and `HonestTracker`. `QueueIsWatched` has an
  invariant of its own, `Watch`: the flag is set exactly while the queue holds a
  handle on a thread, and that thread is not dead. A thread ends only when it
  finds the flag cleared, and then it is no longer the handle's; only the trader adds
  to the queue, always on its way to the start, and it stops the reconciliation only
  when nothing is queued.
* `OrderRouter_proofs`. For the queue, the invariant is types, what each thread
  may have in hand (`HandsOK`), and that whoever is about to remove an order has
  recorded it (`EndsOK`): that is what a concurrent pass cannot take away, since
  records are never deleted, and it gives `NothingVanishes`. For the router, it
  is one account per executor: what is left is the total less what was booked or
  dropped, and the booked is at most the executed. Each booking moves both
  sides by the same amount (`TotalGrows`, a fact about the sum over a sequence that
  grows) and every step of the exchange moves only the right one
  (`SentGrows`). `NoFillEscapes` is inductive as it stands: the only step that
  makes its left side true appends the whole history. From these
  `AccountsAgree` and `EveryFillReported`.
* `Chronos_proofs`. The invariant is types, `CurveMatchesEquity`,
  `TradesAreBacked` and, in a compounding run, `MarkIsHighest`: the guard's peak,
  once it is told of the current equity, is the highest point of the curve so far.
  The engine reports its equity only when it is about to trade, so the peak
  itself lags behind; what is inductive is the peak as the next report would
  leave it. Since the session loss is measured from the initial equity, it is
  the drawdown check from that peak, which no cooldown clears, that gives
  `DrawdownHalts`. `AllTradesBacked` rests on `BlendedIsBacked`: a side that
  wins the vote has a positive score, and so a persona with weight and
  confidence on that side, which the overrides left there.
  `ResultsMatch` follows the two ways a trade ends through the sizing: `StopsAreWide`
  and `TargetIsFar` bound the move from below, `GuardSums` the exposure the guard lets
  through from above, and with `LimitsFit` what the price moved outweighs the fees, so a
  win gains and a loss loses (`TradePays`).
* `DataTheorems`. Votes, curves and fills are sums over sets, defined by a fold that
  takes its elements in an order nobody knows. That such a sum exists, is an
  integer, and is any one term plus the rest (`SumRemove`) is proved from the
  least-element principle: the set of counterexamples would have a smallest one.
  It takes `WFMin` and `NatLessThanWellFounded`, neither of which has an operator
  for a parameter, and so works where the induction theorems cannot be used.
  The same principle shows that a recursive function over an interval has a
  solution, which is what makes its defining equation usable (`RecursionExists`), and
  what `Picked` of `Selection` keeps, in which order (`PickedType`, `PickedLength`,
  `PickedOrder`). It serves for facts about the recursions that occur, each with
  a fixed body; a general induction rule cannot be stated.

Type correctness of RiskGuard, LiveOrders, SignalStream, MetaLearning, Chronos
and MockExecutor, `CoolingHolds`, `AckedSucceeded`, `StoredBeforeAnnounced` and
`AppliedIsStored` are proved and, being proved, have no run of their own. Nor have
`TicksInOrder`, whose order of ticks also follows from `GivesUpOldest`;
`BooksMatchTrades`, of which `KeepsLedger` is the part about equity and entries;
and `OneRulePerEngine`. `CorrelationInRange` is proved only.

Only model-checked:

* Liveness (`EveryOrderSettles`, `ClosedOrdersLeave`, `EveryEntryIsRead`
  and the violated `NoCallerBlocksForever`), which the prover does not handle, and the
  violated `SomeConfigStaysActive` and `RunsAreReported`.

## Disagreements between code and documents

Three have a run that shows them.

* `_apply_config` promises a persisted configuration that survives restarts;
  applying again the elite that an earlier cycle stored deactivates every row
  and then fails on the unique fingerprint, so that none is active
  (`config_stays_active`).
* `record_equity_snapshot` is to be called at each timestep (`engine.py:283`) and
  `get_results` to return the results (`engine.py:436`). The list both use is created by
  `reset` alone, which nothing calls: the workflow raises AttributeError at its first
  timestamp, the volume profile loop after its last (`run_is_reported`).
* README.md:84 lists a "Non-blocking RateLimiter". `wait` holds `cls._lock` when it
  calls `_start_replenisher`, which takes it again; the lock is a plain
  `threading.Lock` (`no_caller_blocks`; running the class confirms it). REST
  fetches and live orders (`binance_executor.py` 396–397) call `wait` first, so
  `LiveOrders`, `fetch_klines` and the `trade` command describe the code behind
  a limiter that, as written, lets nobody through.

The others were met while modelling.

Risk and orders. `place_order` documents a "dict with keys: order_id"
(`binance_executor.py:270`) and returns the answer of Binance, which has `orderId`, so
that `_submit_limit` raises KeyError (`order_router.py:1018`) with the order placed and
tracked. README.md:233 calls the kill switch a permanent halt and
`risk_limits.py:767` asks for a manual reset; `_check_cooldown` lifts it. The
header of `binance_executor.py` (24–29) says both systems stay in sync; LIMIT
fills are pushed to RiskGuard slice by slice and again whole. LimitOrderQueue
describes orphans as orders placed externally (`order_router.py:665`); an order
of its own that is being placed is cancelled as one. In test mode `cancel_order`
reports success even when `update_order_status` refused because the order was
filled meanwhile, so the history calls it cancelled; `cancel_all` may append an
anonymous record when the reconciliation popped the order first; `place_at_*` tags
the entry after submitting and raises KeyError when it is gone, so the caller
never learns its order's id; the average distance is always −1.0 although the comment
of `update_with_mid_price` says the new price is reflected. TWAP slices carry the
limits of the first schedule, though the comment at `order_router.py:1378`
says otherwise; a TWAP or VWAP route ignores the intent's symbol and quantity; a
TWAP route raises TypeError after its first child was sent; `record_fill` with an
expected price of 0 reduces what is left, raises, and books nothing; a base
rate below 1 % is raised by the "reducing" adjustment; every VWAP route reports
the whole history again; fills of the queue never reach the session.

Streams. Both workers' comments say a failed or unacknowledged message is retried
or reclaimed (`realtime_pipeline.py:379`, `scanner_worker.py:18`); both read new
entries only. The scanner's header says a message is acknowledged after successful
processing; one whose snapshot could not be stored is acknowledged too. The
connector's default channel is `depth20`, whose messages have other keys than
the handler reads; an empty bid side is a "high" spread anomaly, an empty ask side
none. SHOCKPhase's constructor asks for the low of a LONG and the high of a
SHORT, and the adverse check reads the other one; a move beyond the trigger confirms
before the retreat from its peak is looked at; the gate takes `min_rr` while
the anti-avoidance check hard-codes 1.5; `decision_engine` is one object for all
symbols, and what it remembers of one is overwritten by the next.

Portfolio. `get_correlation` promises Pearson's r (`portfolio_matrix.py:82`) and the
table a quarter of the size above 0.8 (239); with its covariance over n and its variances
over n − 1 two identical series of four are at 0.75 and the size is halved, and two
observations, the documented least, never change a size. The portfolio delta multiplies
an already signed value (822) by its direction again (855), so that a short counts as
long where 847 calls a value near 0 neutral; `rebalance_hedge`, which only the
self-test calls, makes a long book with positive beta LONG the hedge although
docs/V4_PORTFOLIO_MATRIX.md says SHORT; a spread both of whose legs lost can be a
WIN, though the docstring says LOSS; BTC's outcome is applied to the long leg even
when that is ETH; the PnL of a spread ignores its size. The allocator documents a
ratio of 0 without negative returns (`portfolio_manager.py:109`) and takes a
Sharpe-like proxy; events skipped for low confidence book every persona as
holding the whole equity, other skips book nothing.

Analysis and plans. The analyzer documents BUY and SELL (`workflow_analyzer.py:13`)
and returns LONG and SHORT; a real symbol never matches "ALT LONG" in its forbidden
list, harmless because such a market is not risk-on; `trade`'s stop is always 1 %,
which lies inside the buffer of every coin that is not a major, so it can plan BTC
and ETH only; the largest leverage is the inverse of stop less buffer and so
liquidates before the stop; the third tranche can lie beyond the stop; a reward
ratio below 1.5 is a warning; the tests call `generate_tranche_plan` and
`apply_gates` with signatures they do not have.

Legacy backtests. Slippage on exit is in the trade's favour; `run` hands over no final
prices, so open positions are closed at their entry; the buffer of a LONG makes
liquidation harder, where `engine.py` says easier; a gapped stop fills at its own
price; the "1% of equity per trade"
of `volume_profile_backtest.py:174` is a notional handed over as a number of units, so
that a stopped trade may cost many times the equity; its long stop can lie
beyond liquidation, contrary to TRADING_WORKFLOW.md:556; HybridWorkflowStrategy
always aborts.

Scanner. The default `ScannerParams` fails its own validation; a flat market has
RSI 100; deviations inside the warm-up repaint, which is why `EventsAreFinal`
begins after it; a squeeze compares the width of two candles ago with a window that
contains it (`scanner.py:704`); Chronos uses BTC's scanner for every symbol.

Candles. `_save_to_cache` cannot serialise the `datetime` of its rows, swallows the
TypeError and leaves a torn file, so the cache promised at `data_client.py:58` never
serves, and `SeriesIsWhole` holds of it only because of that; the end of a range is
inclusive, so the open candle is returned, contrary to `data_client.py:34` and :164;
failures give silent partial data; the CSV lake is preferred however stale;
`before` is newer in `okx_client.py:46` and older in `data_client.py:292`, so that
`_fetch_okx` asks for what follows the end, drops it and returns nothing;
`OKXClient.fetch_history` with an end never advances. The cache of `simple_fetch.py`
does work and is never invalidated: a series broken off by an error object, or one up
to "now", is served for ever.

Clients. A success resets the breaker's count but not its deadline, and closing does
not reset the count, so that one more failure trips it again; API errors and
timeouts never count; cached answers are refused while it is open; `analyze_market`
without `multi_tf` raises an AttributeError and its `except` misses the exception
`chat` raises. `get_tick_trades` documents the most recent trades and returns the
oldest, dropping those of other symbols. The metric cache promises no thundering
herd (41–43) and two threads may both ask; an older answer may overwrite a newer one.

Learning. Two processes between UPDATE and INSERT of `save_evolved_config` leave
two active configurations where its comment says one, which is why
`OneActivePerProcess` speaks of one process; `validate_walk_forward` documents
acceptance as validation Sharpe at least the baseline's and compares the
composite fitness with the baseline's Sharpe, as `Accepts` does; `_apply_config`
says the configuration is applied to the scanner and only stores it. "[Reflexion
failed …]" and "[Empty reflexion — no lesson saved]" are saved as lessons and quoted
as such; ReflexionEvolver's template contains what it takes for a contradiction, so
every lesson after the first is discarded; the evolver is handed the side where it
expects a persona; `_inject` keeps the last of a list that begins with the newest; a
second backtest over the same history reads the lessons of its future.

Chronos. The comment over `run_backtest`'s resets says a second run on one
object starts from a clean slate, and the allocator keeps its records, so that
its win-rate gate may be shut from the first event; the comment on the lead's
veto says the other personas are skipped, and they are called and may still
trade; `_simulate_trade_outcome` documents a loss when the lookahead is
exhausted and returns a HOLD without fees; `MoEWeighter` documents uniform
weights below its minimum of samples and gives such a persona none when
another has enough.

## Hazards no property covers

`PROJECT.json` lists the hazards with their properties, or with the reason there is
none. Besides those: `flatten_all_positions` clears the exposure book even
when closing orders failed (`risk_limits.py:600`); an order the exchange accepted at
a last failed attempt is tracked by no one (`binance_executor.py:425`); a
PARTIALLY_FILLED order leaves the live queue and a REJECTED one stays in it
(`order_router.py:918`); events are deduplicated by candle index across symbols
(`chronos_engine.py:406`); a stale or truncated file of `simple_fetch.py` (line 149) is
served for ever. In each the code plainly does what a property would exclude. What
ReflexionEvolver keeps depends on which of two engines loaded the rules first
(`meta_learning.py:961`), of which the theorem `OneRulePerEngineHolds` is all there is to say.

## Not modelled

PlutusEngine (`engine/server.py`) raises on import. LiveExecutionNode
(`execution/__main__.py`) constructs a TWAP of quantity 0.0, which raises ValueError,
and its gate could never pass, since its analysis carries no reward ratio.
MarketImpactModel, dashboard, reports and command-line output are formulas and text
without protocol. `rebalance_hedge`, `enforce_max_leverage`, `MarketExecutor.execute`,
the default slice executor and `publish_orderbook_snapshot` have no caller but
self-tests. Also left out: commissions and mock balances (an unlocked
read-modify-write that can lose an update); `reset_mock_state`, whose join of 2 s on a
thread that sleeps 2 s can leave the old one running; alerts and logging;
floating-point rounding (quantities and money are integers, the tests on them exact);
exchange rejections after acceptance; MARKET orders in live mode; the reading fields
of the queue (`get_queue_status` iterates the live dictionary unlocked); a Redis that
itself loses what it had acknowledged; the several genes of a configuration; a
validation call without data; the summary metrics of the backtests; the events
dropped as repeated; the HTTP fetches of news, macro data and other sources, which
keep no state; MemoryBank's `close` and `checkpoint` (which refer to a closed
connection and to an undefined logger). Components listed `not_modelled` in
`PROJECT.json` carry their reason there.

## Plan

1. Chronos on its real allocator: compose `Chronos` with `Allocator`, so that the
   win-rate gate and the weights are those of the records.
2. The summary metrics of both backtests as operators checked against reference
   definitions over bounded inputs.
3. `LimitQueue` and `MockExecutor` as one specification, with the push to RiskGuard,
   and a refinement of an abstract order book.
4. A refinement of `OrderRouting` to an account of quantities, and of `LiveOrders` to a
   book in which an order is opened once and closed once.
