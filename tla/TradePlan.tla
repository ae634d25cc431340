------------------------------- MODULE TradePlan -------------------------------
(***************************************************************************)
(* The command "trade": it reads a price, then the candles, finds levels of *)
(* low and of high volume in them, and makes a plan out of the levels next  *)
(* to the price.                                                            *)
(***************************************************************************)
EXTENDS Integers, Sequences, Functions, FiniteSetsExt

CONSTANTS
    Ticks,         \* prices of the market
    Bins,          \* VOLUME_PROFILE_BINS
    Lot,           \* volume of a tick, a multiple of every number up to Bins
    Nodes,         \* num_nodes
    RecentWindow,  \* candles of the recent high and low (50)
    MaxCandles,    \* candles of an instance: a bound, below the window of the profile (200)
    MaxTicks,      \* ticks of an instance: a bound
    DeskEquity     \* --equity

DeskAssumption ==
    /\ Ticks \subseteq Nat \ {0} /\ Bins \in Nat \ {0} /\ Nodes \in Nat
    /\ Lot \in Nat /\ \A n \in 1 .. Bins : Lot % n = 0
    /\ RecentWindow \in Nat \ {0, 1} /\ MaxCandles \in Nat /\ MaxTicks \in Nat
    /\ DeskEquity \in Nat
ASSUME DeskAssumption

VARIABLES
    chart,    \* 1h candles of the symbol so far, the last one open
    ticks,    \* how many ticks there were
    order,    \* the command: its step, its options, the price it read
    plan      \* the plan it printed

deskVars == <<chart, ticks, order, plan>>

NoPlan == [made |-> FALSE, live |-> FALSE, direction |-> "BUY", price |-> 0, entry |-> 0,
           target |-> 0, low |-> 0, high |-> 0, size |-> 0, leverage |-> 0, poor |-> FALSE]
NoOrder == [step |-> "none", direction |-> "BUY", coin |-> "major", risk |-> "LOW",
            price |-> 0, since |-> 0]

Candle(p) == [low |-> p, high |-> p, close |-> p, volume |-> Lot]
With(c, p) == [low |-> Min({c.low, p}), high |-> Max({c.high, p}), close |-> p,
               volume |-> c.volume + Lot]

DeskInit ==
    /\ \E p \in Ticks : chart = <<Candle(p)>>
    /\ ticks = 1
    /\ order = NoOrder
    /\ plan = NoPlan

\* The two requests of the command follow each other closely, and with the plan
\* its process ends.
MarketMoves(p, closes) ==
    /\ order.step # "done"
    /\ ticks < MaxTicks /\ ticks' = ticks + 1
    /\ order.step = "priced" => ticks = order.since
    /\ IF closes THEN Len(chart) < MaxCandles /\ chart' = Append(chart, Candle(p))
       ELSE chart' = [chart EXCEPT ![Len(chart)] = With(@, p)]
    /\ UNCHANGED <<order, plan>>

(***************************************************************************)
(* volume_profile.py. Levels are prices times Bins.                        *)
(***************************************************************************)

LowOf(cs) == Min({c.low : c \in Range(cs)})
HighOf(cs) == Max({c.high : c \in Range(cs)})

BinOf(p, cs) ==
    Min({Bins - 1, ((p - LowOf(cs)) * Bins) \div (HighOf(cs) - LowOf(cs))})

\* What of a candle's volume goes to a bin: the bins its range touches share it.
Share(c, b, cs) ==
    LET touched == IF c.low = c.high THEN {BinOf(c.close, cs)}
                   ELSE BinOf(c.low, cs) .. BinOf(c.high, cs)
    IN  IF b \in touched THEN c.volume \div Cardinality(touched) ELSE 0

\* calculate_volume_profile: the bins from the lowest to the highest price.
Profile(cs) ==
    LET low == LowOf(cs)
        high == HighOf(cs)
        VolumeIn(b) == MapThenSumSet(LAMBDA i : Share(cs[i], b, cs), DOMAIN cs)
    IN  IF low = high
        THEN <<[price |-> low * Bins,
                volume |-> MapThenSumSet(LAMBDA i : cs[i].volume, DOMAIN cs)]>>
        ELSE [b \in 1 .. Bins |-> [price |-> low * Bins + (b - 1) * (high - low),
                                   volume |-> VolumeIn(b - 1)]]

\* The volume at a percentile of the sorted volumes.
VolumeThreshold(profile, percentile) ==
    LET at == Min({Len(profile) - 1, (Len(profile) * percentile) \div 100})
        Smaller(v) == {i \in DOMAIN profile : profile[i].volume < v}
    IN  Max({v \in {profile[i].volume : i \in DOMAIN profile} : Cardinality(Smaller(v)) <= at})

\* The prices of the first of some bins in an order of their volumes, of bins as
\* full the lower one first.
FirstNodes(profile, bins, Before(_, _)) ==
    LET Ahead(k) == {i \in bins : \/ Before(profile[i].volume, profile[k].volume)
                                  \/ profile[i].volume = profile[k].volume /\ i < k}
    IN  {profile[k].price : k \in {i \in bins : Cardinality(Ahead(i)) < Nodes}}

\* find_lvn and find_hvn: the emptiest and the fullest bins.
Lvn(profile) ==
    FirstNodes(profile, {i \in DOMAIN profile :
                            profile[i].volume <= VolumeThreshold(profile, 20)}, <)
Hvn(profile) ==
    FirstNodes(profile, {i \in DOMAIN profile :
                            profile[i].volume >= VolumeThreshold(profile, 80)}, >)

\* get_key_levels.
KeyLevels(cs) ==
    LET recent == SubSeq(cs, Max({1, Len(cs) - RecentWindow + 1}), Len(cs))
        profile == Profile(cs)
    IN  [low |-> LowOf(recent) * Bins, high |-> HighOf(recent) * Bins,
         lvn |-> Lvn(profile), hvn |-> Hvn(profile)]

\* A node at the price counts as one above it.
NextOrSame(nodes, p, otherwise) ==
    LET above == {n \in nodes : n >= p} IN IF above = {} THEN otherwise ELSE Min(above)

NextAbove(nodes, p, otherwise) ==
    LET above == {n \in nodes : n > p} IN IF above = {} THEN otherwise ELSE Min(above)

NextBelow(nodes, p, otherwise) ==
    LET below == {n \in nodes : n < p} IN IF below = {} THEN otherwise ELSE Max(below)

\* find_entry_target. The stop is one percent from the entry.
EntryOf(direction, price, levels) ==
    IF direction = "BUY" THEN NextBelow(levels.lvn, price, levels.low)
    ELSE NextAbove(levels.hvn, price, levels.high)
TargetOf(direction, entry, levels) ==
    IF direction = "BUY" THEN NextAbove(levels.hvn, entry, levels.high)
    ELSE NextBelow(levels.lvn, entry, levels.low)
StopBps == 100

(***************************************************************************)
(* position_sizer.py and trade_plan.py                                     *)
(***************************************************************************)

\* get_position_multiplier, in percent, and the buffer and cap of leverage.
PosMult(risk) == CASE risk = "LOW" -> 110 [] risk = "MODERATE" -> 85 [] risk = "HIGH" -> 40
BufferBps(coin) == IF coin = "major" THEN 50 ELSE 150
LeverageLimit(coin) == IF coin = "major" THEN 125 ELSE 50

\* calculate_position_size with one percent at risk and the cap of training.
SizeIsValid(coin) == StopBps > BufferBps(coin)
SizeFor(risk) == Min({DeskEquity, (DeskEquity * PosMult(risk)) \div StopBps})
RecommendedLeverage(coin) ==
    (4 * Min({LeverageLimit(coin), 10000 \div (StopBps - BufferBps(coin))})) \div 5

\* calculate_rr: less than one and a half after fees of 2 bps each way. It takes
\* the distance to the target whichever side that is on.
IsPoor(entry, target, direction) ==
    LET reward == IF target < entry THEN entry - target ELSE target - entry
        stop == 10000 + (IF direction = "BUY" THEN -StopBps ELSE StopBps)
        profit == 10000 * reward - 2 * (entry + target)
    IN  2 * profit < 3 * (StopBps * entry + 2 * entry + (2 * entry * stop) \div 10000)

(***************************************************************************)
(* The commands                                                            *)
(***************************************************************************)

\* trade: the price first.
ReadPrice(direction, coin, risk) ==
    /\ order.step = "none"
    /\ order' = [step |-> "priced", direction |-> direction, coin |-> coin, risk |-> risk,
                 price |-> chart[Len(chart)].close, since |-> ticks]
    /\ UNCHANGED <<chart, ticks, plan>>

\* Then the candles, from the exchange, or as the local files hold them.
MakePlan(live, cs) ==
    LET levels == KeyLevels(cs)
        entry == EntryOf(order.direction, order.price * Bins, levels)
        target == TargetOf(order.direction, entry, levels)
    IN  plan' = IF ~SizeIsValid(order.coin) THEN NoPlan
                ELSE [made |-> TRUE, live |-> live, direction |-> order.direction,
                      price |-> order.price * Bins, entry |-> entry, target |-> target,
                      low |-> levels.low, high |-> levels.high,
                      size |-> SizeFor(order.risk),
                      leverage |-> RecommendedLeverage(order.coin),
                      poor |-> IsPoor(entry, target, order.direction)]

ReadCandles ==
    /\ order.step = "priced" /\ order' = [order EXCEPT !.step = "done"]
    /\ \/ MakePlan(TRUE, chart)
       \/ \E k \in 1 .. Len(chart) - 1 : MakePlan(FALSE, SubSeq(chart, 1, k))
    /\ UNCHANGED <<chart, ticks>>

FetchFails ==
    /\ order.step = "priced" /\ order' = [order EXCEPT !.step = "done"]
    /\ UNCHANGED <<chart, ticks, plan>>

DeskNext ==
    \/ \E p \in Ticks, closes \in BOOLEAN : MarketMoves(p, closes)
    \/ \E direction \in {"BUY", "SELL"}, coin \in {"major", "small"},
          risk \in {"LOW", "MODERATE", "HIGH"} : ReadPrice(direction, coin, risk)
    \/ ReadCandles \/ FetchFails

DeskSpec == DeskInit /\ [][DeskNext]_deskVars

(***************************************************************************)
(* Properties                                                              *)
(***************************************************************************)

\* A plan made from the exchange's candles enters at the market or better and
\* has its target on the winning side, whatever the bins of the profile and
\* however the market moved between the two requests, unless the recent market
\* did not move at all.
PlansFaceTheirTarget ==
    plan.made /\ plan.live /\ plan.low < plan.high =>
        IF plan.direction = "BUY" THEN plan.entry <= plan.price /\ plan.entry < plan.target
        ELSE plan.price <= plan.entry /\ plan.target < plan.entry
=============================================================================
