----------------------------- MODULE PairsTrading -----------------------------
(***************************************************************************)
(* SpreadTrader (src/execution/portfolio_matrix.py, PairsTrader in Chronos)*)
(* turns a pair of signals for BTC and ETH into a spread of two legs, sizes*)
(* it under a margin and a risk cap, and later closes it with an outcome   *)
(* for each leg.                                                           *)
(*                                                                         *)
(* Prices and amounts are integers and notionals round down.  The size of  *)
(* a leg is kept as its notional; its coins are notional / entry. What the *)
(* legs may lose is kept exactly, as a multiple of 1 / (entry * entry).    *)
(***************************************************************************)
EXTENDS Integers, Sequences, FiniteSets

CONSTANTS
    Entries, Atrs,        \* entry prices and ATRs a signal may carry, 0 for none
    Threshold,            \* CONFIDENCE_THRESHOLD
    Confidences,
    SpreadEquity,         \* initial_equity
    RiskPct, MinLegNotional,
    Moves,                \* exit price less entry price
    MaxSpreads, MaxClosings     \* bounds

PairsTradingAssumption ==
    /\ Entries \subseteq Nat /\ Atrs \subseteq Nat /\ Moves \subseteq Int
    /\ Confidences \subseteq Nat /\ Threshold \in Nat
    /\ {SpreadEquity, RiskPct, MinLegNotional} \subseteq Nat \ {0}
    /\ {MaxSpreads, MaxClosings} \subseteq Nat

ASSUME PairsTradingAssumption

VARIABLES
    spreads,      \* every SpreadTrade made, in order
    active,       \* SpreadTrader.active_spreads, as indices
    closed        \* SpreadTrader.closed_spreads, as indices

pairsVars == <<spreads, active, closed>>

Legs == {"long", "short"}
Outcomes == {"WIN", "LOSS", "HOLD"}
Signal == [direction : {"LONG", "SHORT"}, confidence : Confidences,
           entry : Entries, atr : Atrs]
Gap(x, y) == IF x < y THEN y - x ELSE x - y

PairsInit == spreads = <<>> /\ active = {} /\ closed = <<>>

-----------------------------------------------------------------------------
(* Sizing, _compute_sizing.                                                *)

\* Half the risk budget over the stop distance, half a percent of the price
\* standing in for a stop at the entry, but never below the minimum.
LegNotional(entry, stop, budget) ==
    LET raw == IF Gap(entry, stop) = 0 THEN 100 * budget
               ELSE (budget * entry) \div (2 * Gap(entry, stop))
    IN  IF raw < MinLegNotional THEN MinLegNotional ELSE raw

\* What the legs lose at their stops, times both entry prices.
Exposure(notional, entry, stop) ==
    notional["long"] * (Gap(entry["long"], stop["long"]) * entry["short"])
    + notional["short"] * (Gap(entry["short"], stop["short"]) * entry["long"])

Unit(entry) == entry["long"] * entry["short"]

\* The notionals under the margin cap, which scales both legs.
UnderMarginCap(entry, stop, equity) ==
    LET budget == (equity * RiskPct) \div 100
        n == [l \in Legs |-> LegNotional(entry[l], stop[l], budget)]
        sum == n["long"] + n["short"]
    IN  [notional |-> IF sum > equity THEN [l \in Legs |-> (n[l] * equity) \div sum] ELSE n,
         margin |-> IF sum > equity THEN equity ELSE sum]

SkipsRiskCap(entry, stop, equity) ==
    LET m == UnderMarginCap(entry, stop, equity)
    IN  [notional |-> m.notional, margin |-> m.margin, risk |-> Exposure(m.notional, entry, stop)]

\* Then the risk cap scales both again; the margin that is reported is the one
\* before that.
Sizing(entry, stop, equity) ==
    LET m == UnderMarginCap(entry, stop, equity)
        most == ((equity * RiskPct) \div 100) * Unit(entry)
        exposed == Exposure(m.notional, entry, stop)
    IN  [notional |-> IF exposed > most
                      THEN [l \in Legs |-> (m.notional[l] * most) \div exposed] ELSE m.notional,
         margin |-> m.margin,
         risk |-> IF exposed > most THEN most ELSE exposed]

-----------------------------------------------------------------------------
(* evaluate.                                                               *)

\* Which symbol is on the long leg: the one signalled LONG; with two LONGs it
\* is BTC, with two SHORTs ETH.
LongSymbol(btc, eth) ==
    IF btc.direction = "LONG" THEN "BTC" ELSE "ETH"

\* The stop of each leg, 2 ATR away, on the side that fits a spread whose legs
\* go opposite ways.
Stops(direction, entry, atr) ==
    [l \in Legs |-> IF (l = "long") = (direction = "LONG")
                    THEN entry[l] - 2 * atr[l] ELSE entry[l] + 2 * atr[l]]

\* Two confident signals with prices make a spread, at half the equity when
\* both go the same way.
Evaluate(btc, eth) ==
    LET long == LongSymbol(btc, eth)
        leg == [long |-> IF long = "BTC" THEN btc ELSE eth,
                short |-> IF long = "BTC" THEN eth ELSE btc]
        entry == [l \in Legs |-> leg[l].entry]
        stop == Stops(leg["long"].direction, entry, [l \in Legs |-> leg[l].atr])
        equity == IF btc.direction = eth.direction THEN SpreadEquity \div 2
                  ELSE SpreadEquity
        size == Sizing(entry, stop, equity)
    IN  /\ Len(spreads) < MaxSpreads
        /\ btc.confidence >= Threshold /\ eth.confidence >= Threshold
        /\ btc.entry > 0 /\ eth.entry > 0
        /\ spreads' = Append(spreads,
             [long |-> long, direction |-> [l \in Legs |-> leg[l].direction],
              entry |-> entry, stop |-> stop, notional |-> size.notional,
              margin |-> size.margin, risk |-> size.risk, equity |-> equity,
              result |-> "OPEN", pnl |-> 0])
        /\ active' = active \union {Len(spreads) + 1}
        /\ UNCHANGED closed

-----------------------------------------------------------------------------
(* simulate_outcome.                                                       *)

\* _leg_pnl: the exit decides a WIN, the stop a LOSS.
LegPnL(s, l, outcome, exit) ==
    LET sign == IF s.direction[l] = "LONG" THEN 1 ELSE -1 IN
    CASE outcome = "WIN" -> sign * (exit - s.entry[l])
      [] outcome = "LOSS" -> -(sign * (s.entry[l] - s.stop[l]))
      [] OTHER -> 0

\* The cascade on the signs of the two legs' PnL.
WinsOnEitherLeg(a, b) ==
    CASE a > 0 \/ b > 0 -> "WIN"
      [] a < 0 \/ b < 0 -> "LOSS"
      [] OTHER -> "HOLD"

Verdict(a, b) ==
    IF (a > 0 /\ b >= 0) \/ (a >= 0 /\ b > 0) THEN "WIN"
    ELSE IF (a < 0 /\ b <= 0) \/ (a <= 0 /\ b < 0) THEN "LOSS"
    ELSE IF a + b > 0 THEN "WIN"
    ELSE IF a + b < 0 THEN "LOSS"
    ELSE "HOLD"

\* The outcome given for BTC goes to the long leg and the one for ETH to the
\* short leg, whichever symbols they hold.  The spread leaves active_spreads if
\* it is there, and is appended to closed_spreads in any case.
SimulateOutcome(k, btcOutcome, btcMove, ethOutcome, ethMove) ==
    LET s == spreads[k]
        first == LegPnL(s, "long", btcOutcome, s.entry["long"] + btcMove)
        second == LegPnL(s, "short", ethOutcome, s.entry["short"] + ethMove)
    IN  /\ Len(closed) < MaxClosings
        /\ spreads' = [spreads EXCEPT ![k].result = Verdict(first, second),
                                      ![k].pnl = first + second]
        /\ active' = active \ {k}
        /\ closed' = Append(closed, k)

PairsNext ==
    \/ \E btc, eth \in Signal : Evaluate(btc, eth)
    \/ \E k \in DOMAIN spreads, bo, eo \in Outcomes, bm, em \in Moves :
          SimulateOutcome(k, bo, bm, eo, em)

PairsSpec == PairsInit /\ [][PairsNext]_pairsVars

-----------------------------------------------------------------------------
(* Properties.                                                             *)

\* The verdict on a closed spread is the sign of the PnL booked for it, through
\* all the cases of the cascade and however often the spread is settled again;
\* and a spread still active has none.
ResultIsSignOfPnL ==
    \A k \in DOMAIN spreads :
       /\ spreads[k].result = "WIN" <=> spreads[k].pnl > 0
       /\ spreads[k].result = "LOSS" <=> spreads[k].pnl < 0
       /\ k \in active <=> spreads[k].result = "OPEN"

\* The two caps hold together: what the legs cost stays within the reported
\* margin and that within the equity used, and what the legs lose at their
\* stops stays within the reported risk and that within RiskPct of the equity,
\* although each cap rescales what the other computed.
CapsHoldTogether ==
    \A k \in DOMAIN spreads :
       LET s == spreads[k] IN
       /\ s.notional["long"] + s.notional["short"] <= s.margin /\ s.margin <= s.equity
       /\ Exposure(s.notional, s.entry, s.stop) <= s.risk
       /\ s.risk * 100 <= s.equity * RiskPct * Unit(s.entry)
=============================================================================
