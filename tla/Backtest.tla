-------------------------------- MODULE Backtest --------------------------------
(***************************************************************************)
(* The legacy backtests: BacktestEngine and MultiCoinBacktester            *)
(* (src/backtest/engine.py) driven by WorkflowStrategy (src/backtest/      *)
(* strategy.py) or by the volume profile loop (src/backtest/               *)
(* volume_profile_backtest.py), with the sizing of src/execution/          *)
(* position_sizer.py.                                                      *)
(*                                                                         *)
(* A step is one symbol's turn at one bar.  What the indicators would say  *)
(* of the candles is a choice; prices are the closes of the 1h candles.    *)
(* Prices and money are integers, a size is in units times SizeScale,      *)
(* fractions of a price in basis points; divisions round down.             *)
(***************************************************************************)
EXTENDS Integers, Sequences, FiniteSets, Functions

CONSTANTS
    SymbolList,            \* the symbols in the order of the run, BTC first
    Majors,                \* BTCUSDT and ETHUSDT
    Prices, Supports, Resistances, ATRs,
    InitialEquity, FeeBps, SlipBps,
    MaxBars                \* bound: timestamps in the data, for each loop

Runners == {"workflow", "profile"}

\* The stop of the volume profile loop: 2 ATR away, or 2 %.
StopGap(price, atr) == IF atr > 0 THEN 2 * atr ELSE (price * 2) \div 100

\* The unit of prices is fine enough for two percent of a price not to vanish.
BacktestAssumption ==
    /\ SymbolList \in Seq(Range(SymbolList)) \ {<<>>}
    /\ \A p \in Prices, atr \in ATRs : StopGap(p, atr) > 0
    /\ Prices \subseteq Nat \ {0} /\ Supports \subseteq Nat \ {0}
    /\ Resistances \subseteq Nat \ {0} /\ ATRs \subseteq Nat
    /\ InitialEquity \in Nat \ {0} /\ {FeeBps, SlipBps} \subseteq Nat
    /\ MaxBars \in [Runners -> Nat \ {0}]

ASSUME BacktestAssumption

VARIABLES
    engine,       \* BacktestEngine: [equity, trades, open]; open maps a symbol to
                  \*   the index of its trade in trades, 0 for none
    runner,       \* which of the two loops runs: "workflow" or "profile"
    bar,          \* how many timestamps have begun
    todo,         \* symbols whose turn at this timestamp is still to come
    prices,       \* the last 1h close of each symbol, 0 before the first
    previous,     \* the close before it
    macro,        \* WorkflowStrategy.market_context: "risk_on" or "risk_off"
    strength,     \*   and btc_strength
    recording,    \* whether the engine has an attribute equity_snapshots at all
    snapshots,    \* equity_snapshots, the equity only
    report        \* BacktestResult once get_results has run; Raised after an error

backtestVars == <<engine, runner, bar, todo, prices, previous, macro, strength,
                  recording, snapshots, report>>

Symbols == Range(SymbolList)
Directions == {"LONG", "SHORT"}
SizeScale == 100
Magnitude(x) == IF x < 0 THEN -x ELSE x
Toward(direction) == IF direction = "LONG" THEN 1 ELSE -1
Lesser(x, y) == IF x < y THEN x ELSE y
Greater(x, y) == IF x < y THEN y ELSE x
NoReport == [total |-> -1]
Raised == [total |-> -2]
FreshEngine == [equity |-> InitialEquity, trades |-> <<>>, open |-> [s \in Symbols |-> 0]]

\* BacktestEngine.__init__ makes no equity_snapshots.
BacktestInit ==
    /\ engine = FreshEngine /\ recording = FALSE
    /\ runner \in Runners
    /\ bar = 0 /\ todo = <<>>
    /\ prices = [s \in Symbols |-> 0] /\ previous = prices
    /\ macro = "risk_on" /\ strength = "neutral"
    /\ snapshots = <<>>
    /\ report = NoReport

-----------------------------------------------------------------------------
(* BacktestEngine.  Its methods are operators from one value of engine to  *)
(* the next.                                                               *)

\* apply_slippage: always in the trade's direction, on the way out too, where it
\* is in the trade's favour.
Slipped(price, direction) == price + Toward(direction) * ((price * SlipBps) \div 10000)

Fees(size, price) == (((size * FeeBps) \div SizeScale) * price) \div 10000

\* The price below (above) which a long (short) has lost its margin, given the
\* margin in basis points; a tenth of a percent is subtracted in both cases.
LiquidationPrice(t) ==
    (t.entry * (10000 - Toward(t.direction) * t.margin - 10)) \div 10000

Opened(e, symbol, setup) ==
    LET entry == Slipped(setup.entry, setup.direction) IN
    [e EXCEPT
       !.trades = Append(@, [symbol |-> symbol, direction |-> setup.direction,
            entry |-> entry, size |-> setup.size, margin |-> setup.margin,
            stop |-> setup.stop, take |-> setup.target,
            fees |-> Fees(setup.size, entry), bar |-> bar, risk |-> setup.risk,
            closedAt |-> 0, status |-> "OPEN", reason |-> "NONE", pnl |-> 0]),
       !.open[symbol] = Len(e.trades) + 1]

\* The position stays on the book of its symbol.
KeepsPosition(e, symbol, price, reason, at) ==
    IF e.open[symbol] = 0 THEN e
    ELSE LET k == e.open[symbol]
             t == e.trades[k]
             exit == Slipped(price, t.direction)
             fees == t.fees + Fees(t.size, exit)
             pnl == (Toward(t.direction) * (exit - t.entry) * t.size) \div SizeScale - fees
         IN  [e EXCEPT !.equity = @ + pnl,
                       !.trades[k] = [t EXCEPT !.pnl = pnl, !.fees = fees,
                                      !.status = "CLOSED", !.reason = reason,
                                      !.closedAt = at]]

\* close_trade and Trade.close; nothing happens without an open trade.
Closed(e, symbol, price, reason, at) ==
    IF e.open[symbol] = 0 THEN e
    ELSE LET k == e.open[symbol]
             t == e.trades[k]
             exit == Slipped(price, t.direction)
             fees == t.fees + Fees(t.size, exit)
             pnl == (Toward(t.direction) * (exit - t.entry) * t.size) \div SizeScale - fees
         IN  [e EXCEPT !.equity = @ + pnl,
                       !.trades[k] = [t EXCEPT !.pnl = pnl, !.fees = fees,
                                      !.status = "CLOSED", !.reason = reason,
                                      !.closedAt = at],
                       !.open[symbol] = 0]

\* Which exit check_stop_take would take at this price: liquidation before the
\* stop, the stop before the target.
TargetOnlyWithoutStop(t, price) ==
    LET beyond(level) == Toward(t.direction) * (price - level) IN
    IF beyond(LiquidationPrice(t)) <= 0 THEN "LIQUIDATION"
    ELSE IF t.stop # 0 THEN (IF beyond(t.stop) <= 0 THEN "STOP_LOSS" ELSE "NONE")
    ELSE IF t.take # 0 /\ beyond(t.take) >= 0 THEN "TAKE_PROFIT"
    ELSE "NONE"

ExitReason(t, price) ==
    LET beyond(level) == Toward(t.direction) * (price - level) IN
    IF beyond(LiquidationPrice(t)) <= 0 THEN "LIQUIDATION"
    ELSE IF t.stop # 0 /\ beyond(t.stop) <= 0 THEN "STOP_LOSS"
    ELSE IF t.take # 0 /\ beyond(t.take) >= 0 THEN "TAKE_PROFIT"
    ELSE "NONE"

\* check_stop_take: a stop or a target is filled at its own price however far
\* the market has gone, a liquidation at the market.
CheckStopTake(e, symbol, price, at) ==
    IF e.open[symbol] = 0 \/ price = 0 THEN e
    ELSE LET t == e.trades[e.open[symbol]]
             why == ExitReason(t, price)
         IN  CASE why = "NONE" -> e
               [] why = "LIQUIDATION" -> Closed(e, symbol, price, why, at)
               [] why = "STOP_LOSS" -> Closed(e, symbol, t.stop, why, at)
               [] why = "TAKE_PROFIT" -> Closed(e, symbol, t.take, why, at)

\* The engine after f has been done for every symbol of a list, in its order.
InTurn(e, list, f(_, _)) ==
    LET after[k \in 0 .. Len(list)] == IF k = 0 THEN e ELSE f(after[k - 1], list[k])
    IN  after[Len(list)]

CheckAll(e, market, at) ==
    InTurn(e, SymbolList, LAMBDA x, s : CheckStopTake(x, s, market[s], at))

\* get_unrealized_pnl and record_equity_snapshot.
Unrealized(e, market) ==
    LET held == {s \in Symbols : e.open[s] # 0}
        gain[s \in held] ==
          LET t == e.trades[e.open[s]]
              price == IF market[s] = 0 THEN t.entry ELSE market[s]
          IN  (Toward(t.direction) * (price - t.entry) * t.size) \div SizeScale - t.fees
    IN  SumFunctionOnSet(gain, held)

-----------------------------------------------------------------------------
(* Sizing, position_sizer.calculate_position_size in training mode.        *)

Buffer(symbol) == IF symbol \in Majors THEN 50 ELSE 150
LeverageCap(symbol) == IF symbol \in Majors THEN 125 ELSE 50
MaxLeverage == 50       \* StrategyConfig.max_leverage

\* One over the leverage of the trade, in basis points: 0.8 of the maximum
\* 1/(stop - buffer), under the caps of the coin and of the strategy.
Margin(symbol, distance) ==
    LET usable == distance - Buffer(symbol)
        least == Greater(usable, 10000 \div LeverageCap(symbol))
        recommended == IF least > 10000 THEN least ELSE Lesser((5 * least) \div 4, 10000)
    IN  Greater(recommended, 10000 \div MaxLeverage)

\* One percent of equity over the stop distance, which is gap \div price.
RiskOverDistance(equity, gap, price) == (equity * price) \div (100 * gap)

IgnoresStopDistance(equity, gap, price) == equity

\* At most the equity: the position cap of training mode is 1.
MaxPosition(equity, gap, price) == Lesser(RiskOverDistance(equity, gap, price), equity)

SizingIsValid(symbol, equity, distance) == equity > 0 /\ distance > Buffer(symbol)

-----------------------------------------------------------------------------
(* WorkflowStrategy.                                                       *)

\* What analyze_symbol draws from the candles: how far the short average is from
\* the long one (in percent, 0 without a long one), and the range of the last
\* candles, which the last close lies in.  Too few candles, or an indicator that
\* raises, give no analysis.
Analysis(price) ==
    [averages : {-3, -2, 0, 2, 3}, support : {x \in Supports : x <= price},
     resistance : {x \in Resistances : price <= x}]

Trend(a) == IF Magnitude(a.averages) < 1 THEN "SIDEWAYS"
            ELSE IF a.averages > 0 THEN "UPTREND" ELSE "DOWNTREND"

CrossSignal(a) == IF a.averages > 2 THEN "BUY" ELSE IF a.averages < -2 THEN "SELL" ELSE "NONE"

\* assess_btc_strength, from the trend, the signal and the change over 24 hours.
Changes == {-4, -1, 0, 1, 4}
One(b) == IF b THEN 1 ELSE 0

BtcStrength(a, change) ==
    LET weak == One(Trend(a) = "DOWNTREND") + One(CrossSignal(a) = "SELL")
                + One(change < 0) + One(change < -3)
        strong == One(Trend(a) = "UPTREND") + One(CrossSignal(a) = "BUY")
                  + One(change > 0) + One(change > 3)
    IN  IF weak >= 2 THEN "weakness" ELSE IF strong >= 2 THEN "strength" ELSE "neutral"

\* update_market_context.
MacroAfter(symbol, a) ==
    IF symbol # Head(SymbolList) THEN macro
    ELSE IF Trend(a) = "DOWNTREND" THEN "risk_off" ELSE "risk_on"

\* check_entry for a symbol without a position.  An alternative coin is left
\* alone in risk-off unless BTC is strong, in both directions.
EntryIsOpen(symbol, regime, vsBtc) ==
    symbol \in Majors \/ regime # "risk_off" \/ vsBtc = "strength"

EntrySetup(symbol, a, price) ==
    LET direction == IF Trend(a) = "UPTREND" THEN "LONG" ELSE "SHORT"
        stop == IF direction = "LONG"
                THEN Lesser((a.support * 99) \div 100, (price * 98) \div 100)
                ELSE Greater((a.resistance * 101) \div 100, (price * 102) \div 100)
        target == IF direction = "LONG" THEN (a.resistance * 102) \div 100
                  ELSE (a.support * 98) \div 100
        gap == Magnitude(price - stop)
        distance == (gap * 10000) \div price
        notional == MaxPosition(engine.equity, gap, price)
    IN  [direction |-> direction, entry |-> price, stop |-> stop, target |-> target,
         distance |-> distance, margin |-> Margin(symbol, distance),
         size |-> (notional * SizeScale) \div price, risk |-> engine.equity \div 100]

Enters(symbol, a, price, regime, vsBtc) ==
    LET setup == EntrySetup(symbol, a, price) IN
    /\ EntryIsOpen(symbol, regime, vsBtc)
    /\ \/ Trend(a) = "UPTREND" /\ price < a.resistance
       \/ Trend(a) = "DOWNTREND" /\ price > a.support
    /\ setup.distance >= 50
    /\ SizingIsValid(symbol, engine.equity, setup.distance)
    /\ 2 * Magnitude(setup.target - price) >= 3 * Magnitude(price - setup.stop)

\* execute, with an open position: the stop again, then the signal against it.
Manage(e, symbol, a, price) ==
    LET t == e.trades[e.open[symbol]]
        checked == CheckStopTake(e, symbol, price, bar)
    IN  IF CrossSignal(a) = (IF t.direction = "LONG" THEN "SELL" ELSE "BUY")
        THEN Closed(checked, symbol, price, "SIGNAL", bar) ELSE checked

\* A symbol's turn with an analysis: first BTC sets the market context, then the
\* position is managed, or one may be opened if the timeframes resonate.
Execute(symbol) ==
    \E a \in Analysis(prices[symbol]), resonance \in BOOLEAN,
       change \in (IF symbol = Head(SymbolList) THEN Changes ELSE {0}) :
      LET regime == MacroAfter(symbol, a)
          vsBtc == IF symbol = Head(SymbolList) THEN BtcStrength(a, change) ELSE strength
          price == prices[symbol]
      IN  /\ macro' = regime /\ strength' = vsBtc
          /\ engine' =
               IF engine.open[symbol] # 0 THEN Manage(engine, symbol, a, price)
               ELSE IF resonance /\ Enters(symbol, a, price, regime, vsBtc)
               THEN Opened(engine, symbol, EntrySetup(symbol, a, price))
               ELSE engine

WorkflowTurn ==
    /\ runner = "workflow" /\ todo # <<>>
    /\ todo' = Tail(todo)
    /\ \/ Execute(Head(todo))
       \/ UNCHANGED <<engine, macro, strength>>        \* no analysis
    /\ UNCHANGED <<runner, bar, prices, previous, recording, snapshots, report>>

-----------------------------------------------------------------------------
(* volume_profile_strategy and its loop.                                   *)

\* The entry of the volume profile strategy: the target is twice as far as the
\* stop.  The notional it computes is handed on as a size.
ProfileSetup(equity, direction, price, atr) ==
    LET gap == StopGap(price, atr)
        stop == price - Toward(direction) * gap
    IN  [direction |-> direction, entry |-> price, stop |-> stop,
         target |-> price + Toward(direction) * 2 * gap, margin |-> 1000,
         size |-> RiskOverDistance(equity, gap, price) * SizeScale,
         risk |-> equity \div 100]

\* A symbol's turn: exits first, then at most one entry if it has no position,
\* at the close of the candle before the current one.
ProfileTurn ==
    LET symbol == Head(todo)
        checked == CheckStopTake(engine, symbol, prices[symbol], bar)
    IN  /\ runner = "profile" /\ todo # <<>>
        /\ todo' = Tail(todo)
        /\ \/ engine' = checked
           \/ \E d \in Directions, atr \in ATRs :
                 /\ checked.open[symbol] = 0 /\ previous[symbol] > 0
                 /\ engine' = Opened(checked, symbol,
                       ProfileSetup(checked.equity, d, previous[symbol], atr))
        /\ UNCHANGED <<runner, bar, prices, previous, macro, strength, recording, snapshots, report>>

-----------------------------------------------------------------------------
(* The loops over the timestamps, and the result.                          *)

\* reset, by the owner of an engine who will hand it to MultiCoinBacktester: it
\* alone makes the list of snapshots.  Nobody in the repository calls it, and the
\* volume profile loop makes its engine itself.
Reset ==
    /\ runner = "workflow" /\ bar = 0 /\ report = NoReport
    /\ engine' = FreshEngine /\ recording' = TRUE /\ snapshots' = <<>>
    /\ UNCHANGED <<runner, bar, todo, prices, previous, macro, strength, report>>

MoreBars == todo = <<>> /\ bar < MaxBars[runner] /\ report = NoReport

\* A timestamp begins: new closes; in MultiCoinBacktester.run the snapshot is
\* taken at the new closes and every position is checked against its stop before
\* any symbol has its turn.
NextBar ==
    /\ MoreBars /\ (runner = "workflow" => recording)
    /\ bar' = bar + 1 /\ todo' = SymbolList /\ previous' = prices
    /\ prices' \in [Symbols -> Prices]
    /\ IF runner = "workflow"
       THEN /\ snapshots' = Append(snapshots, engine.equity + Unrealized(engine, prices'))
            /\ engine' = CheckAll(engine, prices', bar')
       ELSE UNCHANGED <<engine, snapshots>>
    /\ UNCHANGED <<runner, macro, strength, recording, report>>

\* record_equity_snapshot of an engine never reset: AttributeError, at the first
\* timestamp of MultiCoinBacktester.run.
SnapshotRaises ==
    /\ MoreBars /\ runner = "workflow" /\ ~recording
    /\ report' = Raised
    /\ UNCHANGED <<engine, runner, bar, todo, prices, previous, macro, strength,
                   recording, snapshots>>

\* One more point of an equity curve: its peak so far and deepest fall, in percent.
Deeper(f, equity) ==
    LET peak == Greater(f.peak, equity) IN
    [peak |-> peak,
     worst |-> IF peak <= 0 THEN f.worst
               ELSE Greater(f.worst, ((peak - equity) * 100) \div peak)]

\* calculate_metrics: the drawdown runs over the closed trades in the order they
\* were opened, then over the snapshots, from the peak the trades ended on;
\* a snapshot of a timestamp at which a trade closed is left out.
StartsPeakAtFirstTrade(trades) ==
    LET after[k \in 0 .. Len(trades)] ==
          IF k = 0 THEN InitialEquity ELSE after[k - 1] + trades[k].pnl
        fall[k \in 0 .. Len(trades)] ==
          IF k = 0 THEN [peak |-> 0, worst |-> 0]
          ELSE Deeper(fall[k - 1], after[k])
    IN  fall[Len(trades)]

RealisedFall(trades) ==
    LET after[k \in 0 .. Len(trades)] ==
          IF k = 0 THEN InitialEquity ELSE after[k - 1] + trades[k].pnl
        fall[k \in 0 .. Len(trades)] ==
          IF k = 0 THEN [peak |-> InitialEquity, worst |-> 0]
          ELSE Deeper(fall[k - 1], after[k])
    IN  fall[Len(trades)]

Metrics(trades, snaps) ==
    LET won == {k \in DOMAIN trades : trades[k].pnl > 0}
        fall[k \in 0 .. Len(snaps)] ==
          IF k = 0 THEN RealisedFall(trades)
          ELSE IF \E j \in DOMAIN trades : trades[j].closedAt = k THEN fall[k - 1]
          ELSE Deeper(fall[k - 1], snaps[k])
    IN  IF trades = <<>> THEN [total |-> 0, winning |-> 0, losing |-> 0, pnl |-> 0, drawdown |-> 0]
        ELSE [total |-> Len(trades), winning |-> Cardinality(won),
              losing |-> Len(trades) - Cardinality(won),
              pnl |-> SumFunctionOnSet([k \in DOMAIN trades |-> trades[k].pnl], DOMAIN trades),
              drawdown |-> fall[Len(snaps)].worst]

\* get_results: what is still open is closed, at the last close in the volume
\* profile backtest, at the entry price in MultiCoinBacktester.run, which hands
\* on no final prices.  The closing time is the wall clock's.  Without a list of
\* snapshots the positions are closed and then AttributeError ends the run.
FinalPrice(symbol) ==
    IF runner = "profile" THEN prices[symbol] ELSE engine.trades[engine.open[symbol]].entry

AllClosed ==
    InTurn(engine, SymbolList, LAMBDA e, s :
        IF e.open[s] = 0 THEN e ELSE Closed(e, s, FinalPrice(s), "END_OF_BACKTEST", 0))

GetResults ==
    /\ todo = <<>> /\ bar > 0 /\ report = NoReport
    /\ engine' = AllClosed
    /\ report' = IF recording THEN Metrics(AllClosed.trades, snapshots) ELSE Raised
    /\ UNCHANGED <<runner, bar, todo, prices, previous, macro, strength, recording, snapshots>>

BacktestNext ==
    Reset \/ NextBar \/ SnapshotRaises \/ WorkflowTurn \/ ProfileTurn \/ GetResults
BacktestSpec == BacktestInit /\ [][BacktestNext]_backtestVars

-----------------------------------------------------------------------------
(* Properties.                                                             *)

\* The book of open positions and the trade list tell the same story: a trade is
\* OPEN if and only if the book holds it for its symbol.  An entry over an open
\* position, or an exit that leaves its entry behind, would break it.
\* And equity is what the run began with plus the PnL of the trades closed since,
\* net of the fees of both sides; nothing is booked twice although a stop is
\* checked at the start of a timestamp and again in the symbol's turn.
BooksMatchTrades ==
    /\ \A k \in DOMAIN engine.trades :
          engine.trades[k].status = "OPEN" <=> engine.open[engine.trades[k].symbol] = k
    /\ engine.equity = InitialEquity
       + SumFunctionOnSet([k \in DOMAIN engine.trades |-> engine.trades[k].pnl],
                          DOMAIN engine.trades)

\* When a timestamp is over, no position entered before it stands at or beyond
\* its stop or its target: in the volume profile loop, which checks each symbol
\* before its entry, and in the workflow on an engine that was reset.
NothingOverstays ==
    todo = <<>> /\ report = NoReport =>
       \A s \in Symbols :
          engine.open[s] # 0 =>
             LET t == engine.trades[engine.open[s]] IN
             t.bar < bar => /\ Toward(t.direction) * (prices[s] - t.stop) > 0
                            /\ Toward(t.direction) * (prices[s] - t.take) < 0

\* What a trade may cost that was stopped out: the one percent of equity it was
\* sized for, its fees, and the slippage over the way to the stop; Rounding covers
\* the divisions.
Rounding == 2
SlippageToStop(t) ==
    (t.size * ((Magnitude(t.entry - t.stop) * SlipBps) \div 10000 + 1)) \div SizeScale

CostsItsRisk(t) == -t.pnl <= t.risk + t.fees + SlippageToStop(t) + Rounding

\* A workflow trade that was stopped out lost no more than it was sized for.
\* Like every property of the workflow's trades this is about an engine its owner
\* has reset: a fresh one fails before the first trade (RunsAreReported).
StoppedWithinRisk ==
    runner = "workflow" =>
       \A k \in DOMAIN engine.trades :
          engine.trades[k].reason = "STOP_LOSS" => CostsItsRisk(engine.trades[k])

\* "Get backtest results." of get_results, and "Call this at each backtest timestep"
\* of record_equity_snapshot: a run over the data ends with its results.
RunsAreReported == report # Raised

\* The terms of a trade are set when it is entered: what happened at its exit is
\* not among them.
Terms(t) == [t EXCEPT !.pnl = 0, !.fees = 0, !.status = "OPEN", !.reason = "NONE", !.closedAt = 0]

LedgerOf(trades) ==
    [k \in DOMAIN trades |->
        [symbol |-> trades[k].symbol, terms |-> Terms(trades[k]),
         status |-> trades[k].status, gain |-> trades[k].pnl]]

Record == INSTANCE TradeLedger WITH
    InitialCapital <- InitialEquity, capital <- engine.equity, ledger <- LedgerOf(engine.trades)

\* The engine keeps a trading record (module TradeLedger): in whatever order a
\* stop at the start of a timestamp, one in the symbol's turn, a signal and the
\* end of the data meet, and whether or not the results then fail, no trade is
\* settled twice or changed once settled, no entry is made over an open position,
\* and equity moves by what is settled.
KeepsLedger == Record!LedgerSpec

\* The metrics of a run that is reported, by an engine its owner has reset (any
\* other raises before them): unless the account went below zero, the drawdown is at
\* least the loss the run ended with, whatever the order in which trades were
\* opened and closed and whichever snapshots were left out.
DrawdownCoversLoss ==
    report \notin {NoReport, Raised} /\ engine.equity >= 0 =>
       report.drawdown >= ((InitialEquity - engine.equity) * 100) \div InitialEquity
=============================================================================
