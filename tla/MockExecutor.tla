------------------------------ MODULE MockExecutor -----------------------------
(***************************************************************************)
(* BinanceExecutor in test mode (src/execution/exchanges/                  *)
(* binance_executor.py): MARKET orders fill at once, LIMIT orders are      *)
(* filled a fifth at a time by the background thread of _mock_fill_loop    *)
(* while callers place and cancel.  There is no lock: every read of a      *)
(* tracked order and every write to it that follows are steps of their own.*)
(*                                                                         *)
(* Quantities are counted in slices, Slices to an order, at price one.     *)
(* Mock balances, commissions and slippage are left out: no operation      *)
(* reads them back.                                                        *)
(***************************************************************************)
EXTENDS Integers, FiniteSets

CONSTANTS
    LastOrder,     \* LIMIT orders are numbered 1 .. LastOrder as placed
    Side,          \* [order -> "BUY" or "SELL"]
    Slices,        \* a mock fill takes 1/Slices of the original quantity
    MaxMarket      \* bound: MARKET orders placed

Orders == 1 .. LastOrder

ASSUME MockExecutorAssumption ==
    /\ LastOrder \in Nat /\ MaxMarket \in Nat
    /\ Slices \in Nat \ {0}
    /\ Side \in [Orders -> {"BUY", "SELL"}]

VARIABLES
    orders,      \* _live_orders: state ("none" when absent) and filled_qty
    ledger,      \* _mock_fills: slices filled per LIMIT order
    markets,     \* how many MARKET orders were filled, per side
    long,        \* RiskGuard's long exposure to the symbol
    pushed,      \* observer: slices handed to RiskGuard per LIMIT order
    filler,      \* the fill thread: where it is and its local variables
    canceller,   \* a caller inside cancel_order
    contested    \* observer: orders some cancel_order call found open

vars == <<orders, ledger, markets, long, pushed, filler, canceller, contested>>

Open == {"PENDING", "PARTIAL"}
Terminal == {"FILLED", "CANCELLED", "REJECTED"}

Least(S) == CHOOSE o \in S : \A p \in S : o <= p

Idle == [pc |-> "idle", order |-> 0, filled |-> 0]

\* _push_position_update: BUY records exposure, SELL closes it, never below 0.
Push(side, q) ==
    long' = IF side = "BUY" THEN long + q ELSE IF q < long THEN long - q ELSE 0

PushFill(o, q) ==
    /\ Push(Side[o], q)
    /\ pushed' = [pushed EXCEPT ![o] = @ + q]

Init ==
    /\ orders = [o \in Orders |-> [state |-> "none", filled |-> 0]]
    /\ ledger = [o \in Orders |-> 0]
    /\ markets = [s \in {"BUY", "SELL"} |-> 0]
    /\ long = 0
    /\ pushed = [o \in Orders |-> 0]
    /\ filler = [pc |-> "off", todo |-> {}, order |-> 0, filled |-> 0]
    /\ canceller = Idle
    /\ contested = {}

-----------------------------------------------------------------------------
(* Placing orders.                                                         *)

\* A LIMIT order is tracked as PENDING and the fill thread is made to run.
PlaceLimit(o) ==
    /\ orders[o].state = "none"
    /\ \A p \in Orders : p < o => orders[p].state # "none"
    /\ orders' = [orders EXCEPT ![o] = [state |-> "PENDING", filled |-> 0]]
    /\ filler' = IF filler.pc = "off" THEN [filler EXCEPT !.pc = "sleep"] ELSE filler
    /\ UNCHANGED <<ledger, markets, long, pushed, canceller, contested>>

\* A MARKET order of one slice fills and reaches the guard within the call.
PlaceMarket(side) ==
    /\ markets["BUY"] + markets["SELL"] < MaxMarket
    /\ markets' = [markets EXCEPT ![side] = @ + 1]
    /\ Push(side, 1)
    /\ UNCHANGED <<orders, ledger, pushed, filler, canceller, contested>>

-----------------------------------------------------------------------------
(* The fill thread.                                                        *)

\* After its sleep the thread snapshots the tracked ids.
Wake ==
    /\ filler.pc = "sleep"
    /\ filler' = [filler EXCEPT !.pc = "scan",
                    !.todo = {o \in Orders : orders[o].state # "none"}]
    /\ UNCHANGED <<orders, ledger, markets, long, pushed, canceller, contested>>

\* It looks at each id in turn and passes over the terminal ones.
SkipsPartial ==
    /\ filler.pc = "scan"
    /\ filler' =
         IF filler.todo = {} THEN [filler EXCEPT !.pc = "sleep"]
         ELSE LET o == Least(filler.todo)
                  rest == [filler EXCEPT !.todo = @ \ {o}]
              IN  IF orders[o].state = "PENDING"
                  THEN [rest EXCEPT !.pc = "fill", !.order = o] ELSE rest
    /\ UNCHANGED <<orders, ledger, markets, long, pushed, canceller, contested>>

Look ==
    /\ filler.pc = "scan"
    /\ filler' =
         IF filler.todo = {} THEN [filler EXCEPT !.pc = "sleep"]
         ELSE LET o == Least(filler.todo)
                  rest == [filler EXCEPT !.todo = @ \ {o}]
              IN  IF orders[o].state \in Open
                  THEN [rest EXCEPT !.pc = "fill", !.order = o] ELSE rest
    /\ UNCHANGED <<orders, ledger, markets, long, pushed, canceller, contested>>

\* It books one more slice, if any remains, and computes new_filled.
Fill ==
    /\ filler.pc = "fill"
    /\ LET o == filler.order
           remains == orders[o].filled < Slices
           new == IF remains THEN orders[o].filled + 1 ELSE Slices
       IN  /\ ledger' = IF remains THEN [ledger EXCEPT ![o] = @ + 1] ELSE ledger
           /\ filler' = [filler EXCEPT !.pc = "settle", !.filled = new]
    /\ UNCHANGED <<orders, markets, long, pushed, canceller, contested>>

\* A partial fill is written whatever became of the order meanwhile: first
\* filled_qty, ...
ForgetsFilledQty ==
    /\ filler.pc = "settle" /\ filler.filled < Slices
    /\ filler' = [filler EXCEPT !.pc = "mark"]
    /\ UNCHANGED <<orders, ledger, markets, long, pushed, canceller, contested>>

SettlePartial ==
    /\ filler.pc = "settle" /\ filler.filled < Slices
    /\ orders' = [orders EXCEPT ![filler.order].filled = filler.filled]
    /\ filler' = [filler EXCEPT !.pc = "mark"]
    /\ UNCHANGED <<ledger, markets, long, pushed, canceller, contested>>

\* ... then PARTIAL; and the slice is pushed.
PartialNotPushed ==
    /\ filler.pc = "mark"
    /\ orders' = [orders EXCEPT ![filler.order].state = "PARTIAL"]
    /\ filler' = [filler EXCEPT !.pc = "scan"]
    /\ UNCHANGED <<ledger, markets, long, pushed, canceller, contested>>

MarkPartial ==
    /\ filler.pc = "mark"
    /\ orders' = [orders EXCEPT ![filler.order].state = "PARTIAL"]
    /\ PushFill(filler.order, 1)
    /\ filler' = [filler EXCEPT !.pc = "scan"]
    /\ UNCHANGED <<ledger, markets, canceller, contested>>

\* The last slice goes through update_order_status, which ignores an order
\* already terminal, ...
SettleFull ==
    /\ filler.pc = "settle" /\ filler.filled >= Slices
    /\ filler' = [filler EXCEPT
                    !.pc = IF orders[filler.order].state \in Terminal THEN "scan" ELSE "finish"]
    /\ UNCHANGED <<orders, ledger, markets, long, pushed, canceller, contested>>

\* ... and otherwise writes FILLED, then filled_qty.
Finish ==
    /\ filler.pc = "finish"
    /\ orders' = [orders EXCEPT ![filler.order].state = "FILLED"]
    /\ filler' = [filler EXCEPT !.pc = "count"]
    /\ UNCHANGED <<ledger, markets, long, pushed, canceller, contested>>

FinishCount ==
    /\ filler.pc = "count"
    /\ orders' = [orders EXCEPT ![filler.order].filled = filler.filled]
    /\ filler' = [filler EXCEPT !.pc = "tell"]
    /\ UNCHANGED <<ledger, markets, long, pushed, canceller, contested>>

\* _on_order_terminal looks at the order again, and pushes all it finds filled
\* if it finds it FILLED.
OnOrderTerminal(o) ==
    IF orders[o].state = "FILLED" /\ orders[o].filled > 0
    THEN PushFill(o, orders[o].filled) ELSE UNCHANGED <<long, pushed>>

FinishTell ==
    /\ filler.pc = "tell"
    /\ OnOrderTerminal(filler.order)
    /\ filler' = [filler EXCEPT !.pc = "scan"]
    /\ UNCHANGED <<orders, ledger, markets, canceller, contested>>

-----------------------------------------------------------------------------
(* cancel_order.                                                           *)

\* A terminal order is refused; else filled_qty is read as an argument.
CancelLook(o) ==
    /\ canceller.pc = "idle"
    /\ orders[o].state \in Open
    /\ o \notin contested        \* bound: one cancel that gets this far per order
    /\ canceller' = [pc |-> "update", order |-> o, filled |-> orders[o].filled]
    /\ contested' = contested \union {o}
    /\ UNCHANGED <<orders, ledger, markets, long, pushed, filler>>

\* update_order_status tests for a terminal state again ...
CancelUpdate ==
    /\ canceller.pc = "update"
    /\ canceller' = IF orders[canceller.order].state \in Terminal
                    THEN Idle ELSE [canceller EXCEPT !.pc = "write"]
    /\ UNCHANGED <<orders, ledger, markets, long, pushed, filler, contested>>

\* ... and writes the state, then the filled quantity read at the beginning.
CancelWrite ==
    /\ canceller.pc = "write"
    /\ orders' = [orders EXCEPT ![canceller.order].state = "CANCELLED"]
    /\ canceller' = [canceller EXCEPT !.pc = "count"]
    /\ UNCHANGED <<ledger, markets, long, pushed, filler, contested>>

CancelCount ==
    /\ canceller.pc = "count"
    /\ orders' = [orders EXCEPT ![canceller.order].filled = canceller.filled]
    /\ canceller' = [canceller EXCEPT !.pc = "tell"]
    /\ UNCHANGED <<ledger, markets, long, pushed, filler, contested>>

CancelTell ==
    /\ canceller.pc = "tell"
    /\ OnOrderTerminal(canceller.order)
    /\ canceller' = Idle
    /\ UNCHANGED <<orders, ledger, markets, filler, contested>>

-----------------------------------------------------------------------------

Filler ==
    \/ Wake \/ Look \/ Fill \/ SettlePartial \/ MarkPartial
    \/ SettleFull \/ Finish \/ FinishCount \/ FinishTell

Canceller == CancelUpdate \/ CancelWrite \/ CancelCount \/ CancelTell

Caller ==
    \/ \E o \in Orders : PlaceLimit(o) \/ CancelLook(o)
    \/ \E side \in {"BUY", "SELL"} : PlaceMarket(side)

Next == Filler \/ Caller \/ Canceller

\* The thread loops for ever, and a call once begun returns; callers need not
\* call.
Fairness == WF_vars(Filler) /\ WF_vars(Canceller)

Spec == Init /\ [][Next]_vars /\ Fairness

-----------------------------------------------------------------------------
(* Properties.                                                             *)

\* Types; RiskGuard's exposure never goes below zero.
TypeOK ==
    /\ orders \in [Orders -> [state : Open \union Terminal \union {"none"},
                              filled : 0 .. Slices]]
    /\ ledger \in [Orders -> Nat]
    /\ markets \in [{"BUY", "SELL"} -> 0 .. MaxMarket]
    /\ long \in Nat
    /\ pushed \in [Orders -> Nat]
    /\ filler \in [pc : {"off", "sleep", "scan", "fill", "settle", "mark",
                         "finish", "count", "tell"},
                   todo : SUBSET Orders, order : 0 .. LastOrder, filled : 0 .. Slices]
    /\ canceller \in [pc : {"idle", "update", "write", "count", "tell"},
                      order : 0 .. LastOrder, filled : 0 .. Slices]
    /\ contested \subseteq Orders

\* An order nobody tried to cancel is filled slice by slice up to exactly its
\* quantity: never more, and FILLED means all of it.
FillsAddUp ==
    \A o \in Orders \ contested :
        /\ ledger[o] <= Slices
        /\ orders[o].state = "FILLED" => ledger[o] = Slices

\* RiskGuard is never behind the fills by more than the slice in the fill
\* thread's hands; an order caught by a cancel may stay one slice behind.
Behind(o) ==
    LET inHand == filler.order = o /\ filler.pc \notin {"off", "sleep", "scan", "fill"}
    IN  IF inHand \/ o \in contested THEN 1 ELSE 0

GuardKeepsUp == \A o \in Orders : pushed[o] + Behind(o) >= ledger[o]

\* Every LIMIT order placed reaches a terminal state, whatever races it.
EveryOrderSettles ==
    \A o \in Orders : orders[o].state \in Open ~> orders[o].state \in Terminal
=============================================================================
