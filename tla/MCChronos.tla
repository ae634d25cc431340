------------------------------- MODULE MCChronos -------------------------------
(* A small instance of Chronos: three personas, two trading pairs.           *)
EXTENDS Chronos

CONSTANTS btc, eth, smc, flow, macro

MCPersonas == <<smc, flow, macro>>
Vote(d) == [direction |-> d, confidence |-> 80]
MCVotes == {Vote("LONG"), Vote("SHORT"), [direction |-> "NEUTRAL", confidence |-> 40]}

Event(s, trigger, trend, anomaly, atr) ==
    [symbol |-> s, trigger |-> trigger, trend |-> trend, anomaly |-> anomaly,
     atr |-> atr, stretched |-> anomaly = "extreme"]

\* Ordinary events in both directions, one without a direction in a rising
\* market, volatile enough for a loss to make the recalibration fail, and two
\* with hardly any volatility: none, and one that leaves a stop of one basis
\* point.
MCEvents ==
    {Event(btc, "BULLISH", "SIDEWAYS", "sweep", 120),
     Event(eth, "BEARISH", "SIDEWAYS", "extreme", 120),
     Event(btc, "NEUTRAL", "UP", "squeeze", 200),
     Event(btc, "BULLISH", "SIDEWAYS", "sweep", 0),
     Event(btc, "BULLISH", "SIDEWAYS", "sweep", 1)}

MCTotalCapPct == [t \in BOOLEAN |-> IF t THEN 500 ELSE 1000]
MCMaxLeverage == [low_risk |-> 20, moderate_risk |-> 20, high_risk |-> 20]
=============================================================================
