-------------------------------- MODULE MCHistory --------------------------------
(* Two programs that go through a price history: the legacy backtests on a    *)
(* major and an alternative coin, and the scanner with periods of two and     *)
(* three candles.                                                             *)
EXTENDS Backtest, Scanner

CONSTANTS btc, alt

BtcThenAlt == <<btc, alt>>
TwoOrThreeBars == [workflow |-> 2, profile |-> 3]

\* Quiet candles, one that breaks out upwards and downwards, and a long wick on
\* either side.
Shapes ==
    {[high |-> 101, low |-> 99, close |-> 100], [high |-> 100, low |-> 100, close |-> 100],
     [high |-> 120, low |-> 100, close |-> 120], [high |-> 100, low |-> 80, close |-> 81],
     [high |-> 103, low |-> 90, close |-> 101]}

Default ==
    [sweep_lookback |-> 2, sweep_threshold |-> 2, deviation |-> 1, rsi_oversold |-> 40,
     rsi_overbought |-> 60, bb_period |-> 2, squeeze_lookback |-> 2,
     squeeze_threshold |-> 10, atr_period |-> 3, ema_period |-> 3, rsi_period |-> 2]

Strict == [Default EXCEPT !.sweep_threshold = 20, !.deviation = 2, !.rsi_oversold = 25,
                          !.rsi_overbought = 75, !.squeeze_threshold = 0]

Proposals == {Default, Strict}

\* The default threshold of a sweep is itself below the schema's minimum.
Bounds ==
    [f \in DOMAIN Default |->
       IF f = "sweep_threshold" THEN 5 .. 50 ELSE 0 .. 100]

\* The two share no state, so each is explored with the other as it started.
Init == BacktestInit /\ ScannerInit
Next == \/ candles = <<>> /\ config = Default /\ BacktestNext /\ UNCHANGED scannerVars
        \/ bar = 0 /\ runner = "workflow" /\ ~recording /\ report = NoReport /\ ScannerNext /\ UNCHANGED backtestVars
Spec == Init /\ [][Next]_<<backtestVars, scannerVars>>
=============================================================================
