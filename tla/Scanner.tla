-------------------------------- MODULE Scanner --------------------------------
(***************************************************************************)
(* VanguardScanner (src/data/scanner.py): three triggers over a series of  *)
(* candles - liquidity sweep, extreme deviation, volatility squeeze.  A    *)
(* scan goes over the whole series and reports every candle that fired; a  *)
(* backtest scans a full history once, a live caller rescans as candles    *)
(* arrive, and the two must agree on what happened.                        *)
(*                                                                         *)
(* Candle k is index k - 1 of the code.  All metrics are exact: an         *)
(* exponential average with weight 1/p is kept as a numerator over         *)
(* p^(k - 1), the Bollinger width is compared by its square.  Metrics that *)
(* only end up in the context handed to the personas are left out.         *)
(***************************************************************************)
EXTENDS Integers, Sequences, FiniteSetsExt, Functions

CONSTANTS
    Candles,           \* candles that may arrive: [high, low, close]
    Configs,           \* configurations the optimizer may propose
    DefaultConfig,     \* ScannerParams()
    Schema,            \* SCANNER_PARAM_SCHEMAS: allowed values of each field
    MaxCandles         \* bound: length of the series

Periods == {"sweep_lookback", "bb_period", "squeeze_lookback", "atr_period", "ema_period",
            "rsi_period"}
Thresholds == {"sweep_threshold", "deviation", "rsi_oversold", "rsi_overbought",
               "squeeze_threshold"}

\* Every period in the schema is at least one.
ScannerAssumption ==
    /\ \A c \in Candles : {c.high, c.low, c.close} \subseteq Nat /\ c.low <= c.close
                          /\ c.close <= c.high
    /\ DefaultConfig \in Configs /\ MaxCandles \in Nat
    /\ Configs \subseteq [Periods \cup Thresholds -> Nat]
    /\ \A g \in Configs, f \in Periods : g[f] > 0
    /\ Periods \cup Thresholds \subseteq DOMAIN Schema

ASSUME ScannerAssumption

VARIABLES
    candles,     \* the data frame
    config,      \* VanguardScanner.config
    events,      \* what the last scan reported: a set of [at, kind, direction]
    scanned      \* observer: the configuration of the last scan

scannerVars == <<candles, config, events, scanned>>

Longer(x, y) == IF x < y THEN y ELSE x
Distance(x) == IF x < 0 THEN -x ELSE x

ScannerInit ==
    /\ candles = <<>>
    /\ config = DefaultConfig
    /\ events = {} /\ scanned = DefaultConfig

-----------------------------------------------------------------------------
(* _compute_metrics.                                                       *)

Power(b, n) ==
    LET power[k \in 0 .. n] == IF k = 0 THEN 1 ELSE b * power[k - 1] IN power[n]

\* Numerator of an exponential average of x[from], x[from + 1], ..., with weight
\* a/b, over b^(k - from).
Averaged(x, from, a, b) ==
    LET avg[k \in from .. Len(x)] ==
          IF k = from THEN x[k] ELSE (b - a) * avg[k - 1] + a * Power(b, k - 1 - from) * x[k]
    IN  avg

Closes(s) == [k \in DOMAIN s |-> s[k].close]

TrueRange(s) ==
    [k \in DOMAIN s |->
       IF k = 1 THEN s[k].high - s[k].low
       ELSE Longer(s[k].high - s[k].low, Longer(Distance(s[k].high - s[k - 1].close),
                                                Distance(s[k].low - s[k - 1].close)))]

\* The average true range is missing until atr_period candles are there; the
\* first value is copied back to the candles before (bfill).
AtrIndex(g, k) == Longer(k, g.atr_period)

\* Wilder's RSI against a level: no loss at all counts as 100, and before the
\* average has rsi_period changes it is 50.
Change(s, sign) ==
    [k \in DOMAIN s |-> IF k = 1 THEN 0 ELSE Longer(0, sign * (s[k].close - s[k - 1].close))]

RsiBelow(g, gains, losses, k, level) ==
    IF k <= g.rsi_period THEN 50 < level
    ELSE IF losses[k] = 0 THEN 100 < level
    ELSE 100 * gains[k] < level * (gains[k] + losses[k])

RsiAbove(g, gains, losses, k, level) ==
    IF k <= g.rsi_period THEN 50 > level
    ELSE IF losses[k] = 0 THEN 100 > level
    ELSE 100 * gains[k] > level * (gains[k] + losses[k])

\* The square of the Bollinger width, up to a constant factor.
SquaredWidth(g, s, k) ==
    LET window == k - g.bb_period + 1 .. k
        sum == SumFunction([j \in window |-> s[j].close])
    IN  g.bb_period * SumFunction([j \in window |-> s[j].close * s[j].close]) - sum * sum

-----------------------------------------------------------------------------
(* The triggers: the candles of s at which they fire.                      *)

\* _detect_liquidity_sweep_all: the wick goes beyond the extreme of the
\* sweep_lookback candles before this one, the close comes back.  A candle that
\* does so on both sides is reported as BULLISH.
LowestOfAll(g, s, k) == Min({s[j].low : j \in DOMAIN s \ {k}})

LowestBefore(g, s, k) == Min({s[j].low : j \in k - g.sweep_lookback .. k - 1})

HighestBefore(g, s, k) == Max({s[j].high : j \in k - g.sweep_lookback .. k - 1})

BullishSweep(g, s, k) ==
    /\ 1000 * s[k].low < LowestBefore(g, s, k) * (1000 - g.sweep_threshold)
    /\ s[k].close > LowestBefore(g, s, k)

ThresholdInward(g, s, k) ==
    /\ 1000 * s[k].high > HighestBefore(g, s, k) * (1000 - g.sweep_threshold)
    /\ 1000 * s[k].close < HighestBefore(g, s, k) * (1000 - g.sweep_threshold)

BearishSweep(g, s, k) ==
    /\ 1000 * s[k].high > HighestBefore(g, s, k) * (1000 + g.sweep_threshold)
    /\ s[k].close < HighestBefore(g, s, k)

Sweeps(g, s) ==
    {[at |-> k, kind |-> "LIQUIDITY_SWEEP",
      direction |-> IF BullishSweep(g, s, k) THEN "BULLISH" ELSE "BEARISH"] :
        k \in {j \in g.sweep_lookback + 1 .. Len(s) :
                 BullishSweep(g, s, j) \/ BearishSweep(g, s, j)}}

\* _detect_extreme_deviation_all: more than the multiple of the true range away
\* from the moving average, with an exhausted RSI.
Deviations(g, s) ==
    LET ema == Averaged(Closes(s), 1, 2, g.ema_period + 1)
        atr == Averaged(TrueRange(s), 1, 1, g.atr_period)
        gains == Averaged(Change(s, 1), 2, 1, g.rsi_period)
        losses == Averaged(Change(s, -1), 2, 1, g.rsi_period)
        distance(k) ==            \* close - ema, in units of 1/(unit(k))
          s[k].close * Power(g.ema_period + 1, k - 1) - ema[k]
        \* the distance in units of the multiple of the range
        beyond(k, sign) ==
          sign * distance(k) * Power(g.atr_period, AtrIndex(g, k) - 1)
            > g.deviation * atr[AtrIndex(g, k)] * Power(g.ema_period + 1, k - 1)
        bullish(k) == beyond(k, -1) /\ RsiBelow(g, gains, losses, k, g.rsi_oversold)
        bearish(k) == beyond(k, 1) /\ RsiAbove(g, gains, losses, k, g.rsi_overbought)
    IN  IF Len(s) < Longer(g.ema_period, g.rsi_period) + 1 \/ Len(s) < g.atr_period THEN {}
        ELSE {[at |-> k, kind |-> "EXTREME_DEVIATION",
               direction |-> IF bullish(k) THEN "BULLISH" ELSE "BEARISH"] :
                 k \in {j \in DOMAIN s : bullish(j) \/ bearish(j)}}

\* _detect_volatility_squeeze_all: the width of two candles ago against the
\* smallest of the squeeze_lookback widths up to the previous candle, which the
\* former is one of.
Squeezes(g, s) ==
    LET first == g.bb_period + g.squeeze_lookback
        floor(k) == Min({SquaredWidth(g, s, j) : j \in k - g.squeeze_lookback .. k - 1})
    IN  {[at |-> k, kind |-> "VOLATILITY_SQUEEZE", direction |-> "NONE"] :
            k \in {j \in first .. Len(s) :
                     /\ j - 2 >= g.bb_period
                     /\ SquaredWidth(g, s, j - 2) * 10000
                          <= floor(j) * (100 + g.squeeze_threshold) * (100 + g.squeeze_threshold)}}

Scan(g, s) == Sweeps(g, s) \cup Deviations(g, s) \cup Squeezes(g, s)

-----------------------------------------------------------------------------
\* A candle arrives and the whole series is scanned.  The annotation that a BTC
\* sell-off puts on an alternative coin's events is left out: no caller hands the
\* scanner what it needs for it.
NewCandle(c) ==
    /\ Len(candles) < MaxCandles
    /\ candles' = Append(candles, c)
    /\ events' = Scan(config, candles')
    /\ scanned' = config
    /\ UNCHANGED config

\* update_config: ValueError if any field is outside its schema, and nothing is
\* changed then; the next scan uses the new values.
Valid(g) == \A f \in DOMAIN g : g[f] \in Schema[f]

UpdateConfig(g) ==
    /\ Valid(g) /\ g # config
    /\ config' = g
    /\ UNCHANGED <<candles, events, scanned>>

ScannerNext ==
    \/ \E c \in Candles : NewCandle(c)
    \/ \E g \in Configs : UpdateConfig(g)

ScannerSpec == ScannerInit /\ [][ScannerNext]_scannerVars

-----------------------------------------------------------------------------
(* Properties.                                                             *)

\* Once the longest warm-up is over, what was reported of a candle stays so: no
\* event appears at a past candle, vanishes or turns when later candles arrive,
\* so that a scan of a full history sees what a live scan saw.  (Within the
\* warm-up it does not hold: deviations wait for the series to be ema_period
\* long and then appear at older candles, with a range copied back from the
\* future.)
WarmUp(g) == Longer(Longer(g.ema_period, g.rsi_period), g.atr_period)

Settled(es, g) == {e \in es : e.at > WarmUp(g) /\ e.at <= Len(candles)}

EventsAreFinal ==
    [][candles' # candles /\ scanned = config
         => Settled(events', config) = Settled(events, config)]_scannerVars

\* params.py: a higher deviation multiple makes signals rarer, a tighter squeeze
\* or sweep threshold stricter.  Of two configurations with the same periods, the
\* stricter one fires only where the other one does, on either side of the range.
Stricter(g, h) ==
    /\ \A f \in Periods : g[f] = h[f]
    /\ g.sweep_threshold >= h.sweep_threshold /\ g.deviation >= h.deviation
    /\ g.rsi_oversold <= h.rsi_oversold /\ g.rsi_overbought >= h.rsi_overbought
    /\ g.squeeze_threshold <= h.squeeze_threshold

FiredAt(es) == {[at |-> e.at, kind |-> e.kind] : e \in es}

StricterFindsFewer ==
    \A g, h \in Configs :
       g # h /\ Stricter(g, h) => FiredAt(Scan(g, candles)) \subseteq FiredAt(Scan(h, candles))
=============================================================================
