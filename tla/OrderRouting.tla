----------------------------- MODULE OrderRouting -----------------------------
(***************************************************************************)
(* SmartRouter and the executors it drives (src/execution/order_router.py):*)
(* TWAPExecutor and VWAPExecutor cut a parent order into child orders and  *)
(* book the fills, MARKET orders go out in one piece, resting orders go to *)
(* LimitOrderQueue (module LiveOrders).  Everything runs in one thread,    *)
(* which sleeps between child orders; what can come between two steps is   *)
(* the exchange: it may refuse an order, accept it and lose the answer, or *)
(* answer with nothing executed yet or without a price.                    *)
(*                                                                         *)
(* The TWAP executor is also driven by hand, slice by slice, as its public *)
(* interface and the module's self-test do.  Timestamps and slippage are   *)
(* left out; quantities are counted in the smallest unit, rates in tenths  *)
(* of a percent, and a price is one of a few numbers, 0 for an answer      *)
(* without one.                                                            *)
(***************************************************************************)
EXTENDS Integers, Sequences, FiniteSets, Functions

CONSTANTS
    TwapTotal, Slices,     \* a TWAP order and the slices it is cut into
    VwapTotal,             \* a VWAP order
    Curve,                 \* VOLUME_CURVE_30M: bucket weights
    BaseRates,             \* participation rates an executor is built with
    FloorRate, RateStep,   \* 1 % and 0.5 %
    Volumes,               \* market volume estimates, 0 for none
    Prices,                \* positive prices
    MarketQty,             \* quantity of a MARKET order
    MaxOps                 \* bound: calls made

Buckets == DOMAIN Curve
SliceQty == TwapTotal \div Slices

OrderRoutingAssumption ==
    /\ TwapTotal \in Nat \ {0} /\ Slices \in Nat \ {0} /\ SliceQty \in Nat \ {0}
    /\ VwapTotal \in Nat \ {0} /\ MarketQty \in Nat \ {0}
    /\ Curve \in Seq(Nat \ {0}) /\ Curve # <<>>
    /\ BaseRates \subseteq 1 .. 1000
    /\ FloorRate \in Nat \ {0} /\ RateStep \in Nat \ {0}
    /\ Volumes \subseteq Nat /\ Prices \subseteq Nat \ {0}
    /\ MaxOps \in Nat

ASSUME OrderRoutingAssumption

VARIABLES
    twap,      \* TWAPExecutor: left, next slice, price limits, fills
    vwap,      \* VWAPExecutor: left, base and current rate, fills
    registered,\* names in SmartRouter._executors
    session,   \* SmartRouter._session_fills
    call,      \* the VWAP route in progress: quantities still to send
    sent,      \* external: child orders the exchange took, what they executed
    failed,    \* observer: routes of each executor that raised, and whether
               \* the last one did
    dropped,   \* observer: quantity subtracted from twap.left but not booked
    ops        \* bound: calls made so far

vars == <<twap, vwap, registered, session, call, sent, failed, dropped, ops>>

Executors == {"TWAPExecutor", "VWAPExecutor", "LimitOrderQueue", "MarketExecutor"}
Scheduled == {"TWAPExecutor", "VWAPExecutor"}

NoPrice == 0
Lesser(a, b) == IF a < b THEN a ELSE b
Greater(a, b) == IF a > b THEN a ELSE b

\* One fill is one record, shared by the executor's history and the session:
\* the nth of the executor registered as its gen-th.
Fill(e, gen, n, qty, price) ==
    [executor |-> e, gen |-> gen, n |-> n, qty |-> qty, price |-> price]
Book(x, e, qty, price) == Append(x.fills, Fill(e, x.gen, Len(x.fills) + 1, qty, price))

\* get_stats: total_filled.
QtyOf(fills) == [k \in DOMAIN fills |-> fills[k].qty]
TotalFilled(fills) == SumFunctionOnSet(QtyOf(fills), DOMAIN fills)

\* _build_schedule: one more full set of slices, all with the same limit.
BuildSchedule(limits, ref) == limits \o [k \in 1 .. Slices |-> ref]

FreshTwap(gen, ref) == [gen |-> gen, left |-> TwapTotal, next |-> 1, fills |-> <<>>,
                        limits |-> BuildSchedule(<<>>, ref)]
FreshVwap(gen, base) ==
    [gen |-> gen, left |-> VwapTotal, base |-> base, rate |-> base, fills |-> <<>>]
NoCall == [todo |-> <<>>, open |-> FALSE]

Init ==
    /\ \E ref \in Prices \union {NoPrice} : twap = FreshTwap(1, ref)
    /\ \E base \in BaseRates : vwap = FreshVwap(1, base)
    /\ registered \in {Executors, Executors \ {"VWAPExecutor"}}
    /\ session = <<>>
    /\ call = NoCall
    /\ sent = [e \in Executors |-> [orders |-> 0, executed |-> 0]]
    /\ failed = [e \in Scheduled |-> [routes |-> 0, last |-> FALSE]]
    /\ dropped = 0
    /\ ops = 0

\* A call from outside: only between routes.
Called == ~call.open /\ ops < MaxOps /\ ops' = ops + 1

-----------------------------------------------------------------------------
(* The exchange's side of place_order.                                     *)

\* Nothing sent, or sent with the answer lost, or answered.
Outcomes(qty) ==
    [kind : {"refused", "lost"}, executed : {0}, price : {NoPrice}]
    \union [kind : {"answered"}, executed : {0, 1, qty} \cap 0 .. qty,
            price : Prices \union {NoPrice}]

PlaceOrder(e, outcome) ==
    sent' = IF outcome.kind = "refused" THEN sent
            ELSE [sent EXCEPT ![e] = [orders |-> @.orders + 1,
                                      executed |-> @.executed + outcome.executed]]

Raises(e) == failed' = [failed EXCEPT ![e] = [routes |-> @.routes + 1, last |-> TRUE]]
Succeeds(e) == failed' = [failed EXCEPT ![e].last = FALSE]

-----------------------------------------------------------------------------
(* TWAPExecutor.                                                           *)

IsComplete(x) == x.left = 0

\* record_fill: the remaining quantity goes down first; an expected price of 0
\* then raises before the fill is booked.
TwapRecordFill(qty, price, expected) ==
    /\ twap' = [twap EXCEPT !.next = @ + 1, !.left = Greater(0, @ - qty),
          !.fills = IF expected = NoPrice THEN @ ELSE Book(twap, "TWAPExecutor", qty, price)]
    /\ dropped' = IF expected = NoPrice THEN dropped + Lesser(qty, twap.left) ELSE dropped

\* A caller takes the next slice (IndexError past the schedule), sends it
\* itself and books what was executed, if anything.
DriveTwap(executed, price, expected) ==
    /\ Called
    /\ ~IsComplete(twap) /\ twap.next <= Len(twap.limits)
    /\ executed <= SliceQty
    /\ sent' = [sent EXCEPT !["TWAPExecutor"].executed = @ + executed]
    /\ IF executed > 0 THEN TwapRecordFill(executed, price, expected)
       ELSE twap' = [twap EXCEPT !.next = @ + 1] /\ UNCHANGED dropped
    /\ UNCHANGED <<vwap, registered, session, call, failed>>

-----------------------------------------------------------------------------
(* VWAPExecutor.                                                           *)

TotalWeight == SumFunctionOnSet(Curve, Buckets)

Rounded(a, b) == (2 * a + b) \div (2 * b)

\* get_intraday_schedule: the bucket quantities, all computed from the same
\* remaining quantity; buckets that round to nothing are left out.
BucketQty(volume, w) ==
    IF volume > 0
    THEN Lesser(Rounded(volume * w * vwap.rate, TotalWeight * 1000), vwap.left)
    ELSE Rounded(VwapTotal * w * vwap.rate, TotalWeight * 1000)

Schedule(volume) ==
    SelectSeq([b \in Buckets |-> BucketQty(volume, Curve[b])], LAMBDA q : q > 0)

\* adjust_for_momentum: a busy market takes a fifth off the rate, down to the
\* floor; a quiet one gives half a percent back, up to the base rate.
AdjustedRate(x, busy) ==
    IF busy THEN Greater((x.rate * 8) \div 10, FloorRate)
    ELSE IF x.rate < x.base THEN Lesser(x.rate + RateStep, x.base) ELSE x.rate

AdjustForMomentum(busy) ==
    /\ Called
    /\ vwap' = [vwap EXCEPT !.rate = AdjustedRate(vwap, busy)]
    /\ UNCHANGED <<twap, registered, session, call, sent, failed, dropped>>

VwapRecordFill(qty, price) ==
    vwap' = [vwap EXCEPT !.left = Greater(0, @ - qty),
                         !.fills = Book(vwap, "VWAPExecutor", qty, price)]

-----------------------------------------------------------------------------
(* SmartRouter.route.                                                      *)

IntentMap == [aggressive_fill |-> "MarketExecutor", vwap_anchor |-> "VWAPExecutor",
              twap_sniper |-> "TWAPExecutor", passive_fvg |-> "LimitOrderQueue"]

\* select_executor: an unknown intent is a TWAP; an executor that is not
\* registered raises KeyError before anything is touched.
SelectExecutor(intent) ==
    IF intent \in DOMAIN IntentMap THEN IntentMap[intent] ELSE "TWAPExecutor"

Routes(e, intents) ==
    /\ Called
    /\ \E intent \in intents : SelectExecutor(intent) = e
    /\ e \in registered

\* TWAP: the schedule is appended to, the next slice goes out with the limit of
\* whichever schedule it belongs to, and reading the answer's price raises
\* TypeError.  A complete executor sends nothing and is reported once more.
RouteTwap(ref, outcome) ==
    /\ Routes("TWAPExecutor", {"twap_sniper", "unknown"})
    /\ LET limits == BuildSchedule(twap.limits, ref) IN
       IF IsComplete(twap)
       THEN /\ twap' = [twap EXCEPT !.limits = limits]
            /\ session' = session \o twap.fills
            /\ Succeeds("TWAPExecutor")
            /\ UNCHANGED sent
       ELSE /\ twap' = [twap EXCEPT !.limits = limits, !.next = @ + 1]
            /\ PlaceOrder("TWAPExecutor", outcome)
            /\ Raises("TWAPExecutor")
            /\ UNCHANGED session
    /\ UNCHANGED <<vwap, registered, call, dropped>>

\* VWAP: the whole schedule first, then one child order after the other.
RouteVwap(volume) ==
    /\ Routes("VWAPExecutor", {"vwap_anchor"})
    /\ call' = [todo |-> Schedule(volume), open |-> TRUE]
    /\ UNCHANGED <<twap, vwap, registered, session, sent, failed, dropped>>

BooksAskedQuantity(outcome) ==
    /\ call.open /\ call.todo # <<>>
    /\ outcome.executed <= Head(call.todo)
    /\ PlaceOrder("VWAPExecutor", outcome)
    /\ IF outcome.kind = "answered" /\ outcome.price > 0
       THEN /\ VwapRecordFill(Head(call.todo), outcome.price)
            /\ call' = [call EXCEPT !.todo = Tail(@)]
            /\ UNCHANGED failed
       ELSE Raises("VWAPExecutor") /\ call' = NoCall /\ UNCHANGED vwap
    /\ UNCHANGED <<twap, registered, session, dropped, ops>>

\* A child that is refused, lost, not executed or answered without a price
\* raises out of the route; any other is booked.
SendChild(outcome) ==
    /\ call.open /\ call.todo # <<>>
    /\ outcome.executed <= Head(call.todo)
    /\ PlaceOrder("VWAPExecutor", outcome)
    /\ IF outcome.kind = "answered" /\ outcome.executed > 0 /\ outcome.price > 0
       THEN /\ VwapRecordFill(outcome.executed, outcome.price)
            /\ call' = [call EXCEPT !.todo = Tail(@)]
            /\ UNCHANGED failed
       ELSE /\ Raises("VWAPExecutor")
            /\ call' = NoCall
            /\ UNCHANGED vwap
    /\ UNCHANGED <<twap, registered, session, dropped, ops>>

ReportsThisRouteOnly ==
    /\ call.open /\ call.todo = <<>>
    /\ session' = IF vwap.fills = <<>> THEN session
                  ELSE Append(session, vwap.fills[Len(vwap.fills)])
    /\ Succeeds("VWAPExecutor")
    /\ call' = NoCall
    /\ UNCHANGED <<twap, vwap, registered, sent, dropped, ops>>

\* Once the last child is booked the whole history, not only this route's
\* share of it, joins the session.
EndVwap ==
    /\ call.open /\ call.todo = <<>>
    /\ session' = session \o vwap.fills
    /\ Succeeds("VWAPExecutor")
    /\ call' = NoCall
    /\ UNCHANGED <<twap, vwap, registered, sent, dropped, ops>>

\* MARKET: one order; the answer is booked in the session alone, whatever its
\* price.
RouteMarket(outcome) ==
    /\ Routes("MarketExecutor", {"aggressive_fill"})
    /\ PlaceOrder("MarketExecutor", outcome)
    /\ IF outcome.kind = "answered"
       THEN session' = Append(session,
                         Fill("MarketExecutor", 0, 0, outcome.executed, outcome.price))
       ELSE UNCHANGED session
    /\ UNCHANGED <<twap, vwap, registered, call, failed, dropped>>

\* A resting order: the queue places it, or raises for want of a zone or a
\* retracement.  Its fills never reach the session.
RouteQueue(placed) ==
    /\ Routes("LimitOrderQueue", {"passive_fvg"})
    /\ sent' = IF placed THEN [sent EXCEPT !["LimitOrderQueue"].orders = @ + 1] ELSE sent
    /\ UNCHANGED <<twap, vwap, registered, session, call, failed, dropped>>

\* register_executor: a fresh executor takes the name; the session stays.
Register(e, base) ==
    /\ Called
    /\ e \in Scheduled
    /\ registered' = registered \union {e}
    /\ twap' = IF e = "TWAPExecutor" THEN FreshTwap(twap.gen + 1, NoPrice) ELSE twap
    /\ vwap' = IF e = "VWAPExecutor" THEN FreshVwap(vwap.gen + 1, base) ELSE vwap
    /\ sent' = [sent EXCEPT ![e] = [orders |-> 0, executed |-> 0]]
    /\ failed' = [failed EXCEPT ![e] = [routes |-> 0, last |-> FALSE]]
    /\ dropped' = IF e = "TWAPExecutor" THEN 0 ELSE dropped
    /\ UNCHANGED <<session, call>>

Next ==
    \/ \E executed \in {0, 1, SliceQty}, price \in Prices,
          expected \in Prices \union {NoPrice} : DriveTwap(executed, price, expected)
    \/ \E busy \in BOOLEAN : AdjustForMomentum(busy)
    \/ \E ref \in Prices \union {NoPrice}, outcome \in Outcomes(SliceQty) :
          RouteTwap(ref, outcome)
    \/ \E volume \in Volumes : RouteVwap(volume)
    \/ \E outcome \in Outcomes(IF call.todo = <<>> THEN 0 ELSE Head(call.todo)) :
          SendChild(outcome)
    \/ EndVwap
    \/ \E outcome \in Outcomes(MarketQty) : RouteMarket(outcome)
    \/ \E placed \in BOOLEAN : RouteQueue(placed)
    \/ \E e \in Scheduled, base \in BaseRates : Register(e, base)

Spec == Init /\ [][Next]_vars

-----------------------------------------------------------------------------
(* Properties.                                                             *)

TypeOK ==
    /\ twap.left \in 0 .. TwapTotal /\ twap.next \in Nat \ {0}
    /\ vwap.left \in 0 .. VwapTotal
    /\ registered \subseteq Executors
    /\ dropped \in Nat
    /\ \A e \in Executors : sent[e].orders \in Nat /\ sent[e].executed \in Nat

\* What an executor has left is its total less what its history holds, never
\* below 0 (and, for TWAP, less what record_fill dropped); and no history holds
\* more than the exchange executed.  Over-filled last slices, partial fills,
\* raising record_fill calls and routes that stop half way all have to agree.
Booked(e) == TotalFilled(IF e = "TWAPExecutor" THEN twap.fills ELSE vwap.fills)
             + (IF e = "TWAPExecutor" THEN dropped ELSE 0)

RemainingIsAccounted ==
    /\ TwapTotal - twap.left = Lesser(TwapTotal, Booked("TWAPExecutor"))
    /\ VwapTotal - vwap.left = Lesser(VwapTotal, Booked("VWAPExecutor"))
    /\ \A e \in Scheduled : Booked(e) <= sent[e].executed

\* Whenever the last VWAP route came to its end, every fill the executor ever
\* booked is in the session report, those of earlier routes that raised before
\* reporting included.
NoFillEscapes ==
    ~call.open /\ ~failed["VWAPExecutor"].last => Range(vwap.fills) \subseteq Range(session)
=============================================================================
