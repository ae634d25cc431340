--------------------------- MODULE Rehearsal_proofs ---------------------------
(***************************************************************************)
(* Proofs about the components that rehearse trading: MockExecutor,        *)
(* Backtest and PairsTrading.                                              *)
(***************************************************************************)
EXTENDS MockExecutor, Backtest, PairsTrading, DataTheorems

(***************************************************************************)
(* MockExecutor                                                            *)
(***************************************************************************)

InPost(o) == filler.order = o /\ filler.pc \in {"settle", "mark", "finish", "count", "tell"}

\* Whoever works on an order works on one that was placed, and the fill thread
\* has ended it before it counts and tells; cancel_order is only ever inside
\* orders it contested.
ThreadsOK ==
    /\ filler.pc \in {"fill", "settle", "mark", "finish", "count", "tell"} =>
         filler.order \in Orders /\ orders[filler.order].state # "none"
    /\ filler.pc \in {"count", "tell"} => orders[filler.order].state \in Terminal
    /\ filler.todo \subseteq Orders
    /\ canceller.pc # "idle" => canceller.order \in contested

\* What the fill thread has done so far with an order nobody cancels: the slices
\* booked are those the order shows, but for the one in hand.
Undisturbed(o) ==
    LET s == orders[o].state
        f == orders[o].filled
    IN  /\ s \in {"none", "PENDING", "PARTIAL", "FILLED"}
        /\ s = "none" => f = 0
        /\ IF InPost(o)
           THEN /\ ledger[o] = filler.filled
                /\ filler.pc \in {"settle", "mark"} => s \in Open
                /\ filler.pc = "mark" => f = filler.filled /\ f < Slices
                /\ filler.pc \in {"finish", "count", "tell"} => filler.filled = Slices
                /\ filler.pc = "finish" => s \in Open
                /\ filler.pc \in {"count", "tell"} => s = "FILLED"
                /\ filler.pc = "tell" => f = Slices
           ELSE /\ ledger[o] = f
                /\ s \in Open => f < Slices
                /\ s = "FILLED" => f = Slices
        /\ filler.pc = "fill" /\ filler.order = o => s \in Open

\* The guard knows every slice, but for the one in hand or, once a cancel has
\* ended the order before the fill thread was done with it, the last one.
Told(o) ==
    /\ orders[o].state = "none" => ledger[o] = 0
    /\ pushed[o] + 1 >= ledger[o]
    /\ filler.pc = "fill" /\ filler.order = o => pushed[o] >= ledger[o]
    /\ ~InPost(o) /\ (orders[o].state \notin Terminal \/ o \notin contested) =>
         pushed[o] >= ledger[o]

MockInv ==
    /\ TypeOK /\ ThreadsOK
    /\ \A o \in Orders \ contested : Undisturbed(o)
    /\ \A o \in Orders : Told(o)

-----------------------------------------------------------------------------
(* Helpers.                                                                *)

LEMMA LeastIsIn ==
  ASSUME NEW S \in SUBSET Orders, S # {}
  PROVE  Least(S) \in S
<1>1. \E m \in S : \A k \in S : m <= k
  BY MockExecutorAssumption, LeastElement DEF Orders
<1> QED BY <1>1 DEF Least

\* What the guard holds stays a natural number.
LEMMA PushType ==
  ASSUME NEW side, NEW q \in Nat, long \in Nat, Push(side, q)
  PROVE  long' \in Nat
BY DEF Push

LEMMA PushFillType ==
  ASSUME TypeOK, NEW o \in Orders, NEW q \in Nat, PushFill(o, q)
  PROVE  /\ long' \in Nat /\ pushed' \in [Orders -> Nat]
         /\ pushed'[o] = pushed[o] + q
         /\ \A p \in Orders : p # o => pushed'[p] = pushed[p]
BY PushType DEF PushFill, TypeOK

\* _on_order_terminal only ever adds to what was pushed.
LEMMA TerminalPushes ==
  ASSUME TypeOK, NEW o \in Orders, OnOrderTerminal(o)
  PROVE  /\ long' \in Nat /\ pushed' \in [Orders -> Nat]
         /\ \A p \in Orders : pushed'[p] >= pushed[p]
         /\ orders[o].state = "FILLED" => pushed'[o] = pushed[o] + orders[o].filled
<1>1. orders[o].filled \in Nat
  BY MockExecutorAssumption DEF TypeOK
<1>2. CASE orders[o].state = "FILLED" /\ orders[o].filled > 0
  BY <1>1, <1>2, PushFillType DEF OnOrderTerminal, TypeOK
<1>3. CASE ~(orders[o].state = "FILLED" /\ orders[o].filled > 0)
  BY <1>1, <1>3 DEF OnOrderTerminal, TypeOK
<1> QED BY <1>2, <1>3

-----------------------------------------------------------------------------
(* The steps of callers.                                                   *)

LEMMA InitHolds ==
  ASSUME Init
  PROVE  MockInv
<1>1. TypeOK
  BY MockExecutorAssumption DEF Init, TypeOK, Idle, Open, Terminal, Orders
<1>2. ThreadsOK
  BY DEF Init, ThreadsOK, Idle
<1>3. ASSUME NEW o \in Orders PROVE Undisturbed(o) /\ Told(o)
  BY MockExecutorAssumption DEF Init, Undisturbed, Told, InPost, Open
<1> QED BY <1>1, <1>2, <1>3 DEF MockInv

LEMMA PlaceLimitKeeps ==
  ASSUME MockInv, NEW q \in Orders, PlaceLimit(q)
  PROVE  MockInv'
<1> USE DEF MockInv
<1>1. TypeOK'
  BY MockExecutorAssumption, SMTT(30) DEF PlaceLimit, TypeOK, Open
<1>2. ThreadsOK'
  BY DEF PlaceLimit, ThreadsOK, TypeOK
<1>3. ASSUME NEW o \in Orders PROVE Told(o)'
  BY DEF PlaceLimit, Told, InPost, TypeOK, ThreadsOK, Terminal
<1>4. ASSUME NEW o \in Orders \ contested' PROVE Undisturbed(o)'
  <2>1. Undisturbed(o) /\ (orders[o].state = "none" => ~InPost(o))
    BY <1>4 DEF PlaceLimit, ThreadsOK, InPost
  <2>2. InPost(o)' <=> InPost(o)
    BY DEF PlaceLimit, InPost, TypeOK
  <2>3. CASE o = q
    BY <2>1, <2>2, <2>3, MockExecutorAssumption
       DEF PlaceLimit, Undisturbed, TypeOK, Open, ThreadsOK
  <2>4. CASE o # q
    BY <2>1, <2>2, <2>4 DEF PlaceLimit, Undisturbed, TypeOK
  <2> QED BY <2>3, <2>4
<1> QED BY <1>1, <1>2, <1>3, <1>4

LEMMA PlaceMarketKeeps ==
  ASSUME MockInv, NEW side \in {"BUY", "SELL"}, PlaceMarket(side)
  PROVE  MockInv'
<1> USE DEF MockInv
<1>1. TypeOK'
  <2>1. long' \in Nat
    BY PushType DEF PlaceMarket, TypeOK
  <2>2. markets' \in [{"BUY", "SELL"} -> 0 .. MaxMarket]
    BY MockExecutorAssumption DEF PlaceMarket, TypeOK
  <2> QED BY <2>1, <2>2 DEF PlaceMarket, TypeOK
<1>2. ThreadsOK'
  BY DEF PlaceMarket, ThreadsOK
<1>3. ASSUME NEW o \in Orders PROVE Told(o)'
  BY DEF PlaceMarket, Told, InPost
<1>4. ASSUME NEW o \in Orders \ contested' PROVE Undisturbed(o)'
  BY <1>4 DEF PlaceMarket, Undisturbed, InPost
<1> QED BY <1>1, <1>2, <1>3, <1>4

-----------------------------------------------------------------------------
(* The steps of the fill thread.                                           *)

LEMMA WakeKeeps ==
  ASSUME MockInv, Wake
  PROVE  MockInv'
<1> USE DEF MockInv
<1>1. TypeOK'
  BY DEF Wake, TypeOK
<1>2. ThreadsOK'
  BY DEF Wake, ThreadsOK, TypeOK
<1>3. ASSUME NEW o \in Orders PROVE Told(o)'
  BY DEF Wake, Told, InPost, TypeOK
<1>4. ASSUME NEW o \in Orders \ contested' PROVE Undisturbed(o)'
  BY <1>4 DEF Wake, Undisturbed, InPost, TypeOK
<1> QED BY <1>1, <1>2, <1>3, <1>4

LEMMA LookKeeps ==
  ASSUME MockInv, Look
  PROVE  MockInv'
<1> USE DEF MockInv
<1>1. TypeOK'
  <2>1. CASE filler.todo = {}
    BY <2>1 DEF Look, TypeOK
  <2>2. CASE filler.todo # {}
    <3>1. Least(filler.todo) \in filler.todo /\ Least(filler.todo) \in 0 .. LastOrder
      <4>1. Least(filler.todo) \in filler.todo /\ filler.todo \subseteq Orders
        BY <2>2, LeastIsIn DEF TypeOK
      <4> QED BY <4>1, MockExecutorAssumption DEF Orders
    <3> QED BY <2>2, <3>1 DEF Look, TypeOK
  <2> QED BY <2>1, <2>2
<1>2. ThreadsOK'
  <2>1. CASE filler.todo = {}
    BY <2>1 DEF Look, ThreadsOK, TypeOK
  <2>2. CASE filler.todo # {}
    BY <2>2, LeastIsIn DEF Look, ThreadsOK, TypeOK, Open
  <2> QED BY <2>1, <2>2
<1>3. ASSUME NEW o \in Orders PROVE Told(o)'
  <2>1. filler.pc = "scan" /\ filler'.pc \in {"sleep", "scan", "fill"}
        /\ UNCHANGED <<orders, ledger, pushed, contested>>
        /\ (filler'.pc = "fill" => orders[filler'.order].state \in Open)
    BY DEF Look, TypeOK
  <2> QED BY <2>1 DEF Told, InPost, Open, Terminal
<1>4. ASSUME NEW o \in Orders \ contested' PROVE Undisturbed(o)'
  <2>1. filler.pc = "scan" /\ filler'.pc \in {"sleep", "scan", "fill"}
        /\ UNCHANGED <<orders, ledger, contested>>
        /\ (filler'.pc = "fill" => orders[filler'.order].state \in Open)
    BY DEF Look, TypeOK
  <2> QED BY <1>4, <2>1 DEF Undisturbed, InPost
<1> QED BY <1>1, <1>2, <1>3, <1>4

LEMMA FillKeeps ==
  ASSUME MockInv, Fill
  PROVE  MockInv'
<1> USE DEF MockInv
<1>1. TypeOK'
  <2> DEFINE o == filler.order
             remains == orders[o].filled < Slices
             new == IF remains THEN orders[o].filled + 1 ELSE Slices
  <2>1. o \in Orders /\ orders[o].filled \in 0 .. Slices /\ ledger[o] \in Nat
    BY DEF Fill, TypeOK, ThreadsOK
  <2>2. new \in 0 .. Slices
    BY <2>1, MockExecutorAssumption
  <2>3. ledger' \in [Orders -> Nat]
    BY <2>1 DEF Fill, TypeOK
  <2>4. filler' = [filler EXCEPT !.pc = "settle", !.filled = new]
    BY DEF Fill
  <2> HIDE DEF new
  <2> QED BY <2>2, <2>3, <2>4 DEF Fill, TypeOK
<1>2. ThreadsOK'
  BY DEF Fill, ThreadsOK, TypeOK
<1>3. ASSUME NEW o \in Orders PROVE Told(o)'
  BY DEF Fill, Told, InPost, TypeOK, ThreadsOK
<1>4. ASSUME NEW o \in Orders \ contested' PROVE Undisturbed(o)'
  BY <1>4, MockExecutorAssumption DEF Fill, Undisturbed, InPost, TypeOK, ThreadsOK, Open
<1> QED BY <1>1, <1>2, <1>3, <1>4

LEMMA SettlePartialKeeps ==
  ASSUME MockInv, SettlePartial
  PROVE  MockInv'
<1> USE DEF MockInv
<1>1. TypeOK'
  BY DEF SettlePartial, TypeOK, ThreadsOK
<1>2. ThreadsOK'
  BY DEF SettlePartial, ThreadsOK, TypeOK
<1>3. ASSUME NEW o \in Orders PROVE Told(o)'
  BY DEF SettlePartial, Told, InPost, TypeOK, ThreadsOK
<1>4. ASSUME NEW o \in Orders \ contested' PROVE Undisturbed(o)'
  BY <1>4, MockExecutorAssumption DEF SettlePartial, Undisturbed, InPost, TypeOK, ThreadsOK, Open
<1> QED BY <1>1, <1>2, <1>3, <1>4

LEMMA MarkPartialKeeps ==
  ASSUME MockInv, MarkPartial
  PROVE  MockInv'
<1> USE DEF MockInv
<1>1. TypeOK'
  BY PushFillType DEF MarkPartial, TypeOK, ThreadsOK, Open
<1>2. ThreadsOK'
  BY DEF MarkPartial, ThreadsOK, TypeOK
<1>3. ASSUME NEW o \in Orders PROVE Told(o)'
  BY PushFillType, SMTT(30) DEF MarkPartial, Told, InPost, TypeOK, ThreadsOK, Terminal
<1>4. ASSUME NEW o \in Orders \ contested' PROVE Undisturbed(o)'
  BY <1>4, MockExecutorAssumption DEF MarkPartial, Undisturbed, InPost, TypeOK, ThreadsOK, Open
<1> QED BY <1>1, <1>2, <1>3, <1>4

LEMMA SettleFullKeeps ==
  ASSUME MockInv, SettleFull
  PROVE  MockInv'
<1> USE DEF MockInv
<1>1. TypeOK'
  BY DEF SettleFull, TypeOK
<1>2. ThreadsOK'
  BY DEF SettleFull, ThreadsOK, TypeOK
<1>3. ASSUME NEW o \in Orders PROVE Told(o)'
  <2>1. o \notin contested /\ InPost(o) => orders[o].state \in Open
    BY DEF SettleFull, Undisturbed, InPost
  <2> QED BY <2>1 DEF SettleFull, Told, InPost, TypeOK, ThreadsOK, Open, Terminal
<1>4. ASSUME NEW o \in Orders \ contested' PROVE Undisturbed(o)'
  BY <1>4, MockExecutorAssumption DEF SettleFull, Undisturbed, InPost, TypeOK, ThreadsOK, Open, Terminal
<1> QED BY <1>1, <1>2, <1>3, <1>4

LEMMA FinishKeeps ==
  ASSUME MockInv, Finish
  PROVE  MockInv'
<1> USE DEF MockInv
<1>1. TypeOK'
  BY DEF Finish, TypeOK, Terminal
<1>2. ThreadsOK'
  BY DEF Finish, ThreadsOK, TypeOK, Terminal
<1>3. ASSUME NEW o \in Orders PROVE Told(o)'
  BY DEF Finish, Told, InPost, TypeOK, ThreadsOK, Terminal
<1>4. ASSUME NEW o \in Orders \ contested' PROVE Undisturbed(o)'
  BY <1>4, MockExecutorAssumption DEF Finish, Undisturbed, InPost, TypeOK, ThreadsOK, Open
<1> QED BY <1>1, <1>2, <1>3, <1>4

LEMMA FinishCountKeeps ==
  ASSUME MockInv, FinishCount
  PROVE  MockInv'
<1> USE DEF MockInv
<1>1. TypeOK'
  BY DEF FinishCount, TypeOK
<1>2. ThreadsOK'
  BY DEF FinishCount, ThreadsOK, TypeOK
<1>3. ASSUME NEW o \in Orders PROVE Told(o)'
  BY DEF FinishCount, Told, InPost, TypeOK, ThreadsOK
<1>4. ASSUME NEW o \in Orders \ contested' PROVE Undisturbed(o)'
  BY <1>4, MockExecutorAssumption DEF FinishCount, Undisturbed, InPost, TypeOK, ThreadsOK, Open
<1> QED BY <1>1, <1>2, <1>3, <1>4

LEMMA FinishTellKeeps ==
  ASSUME MockInv, FinishTell
  PROVE  MockInv'
<1> USE DEF MockInv
<1>1. TypeOK'
  BY TerminalPushes DEF FinishTell, TypeOK, ThreadsOK
<1>2. ThreadsOK'
  BY DEF FinishTell, ThreadsOK, TypeOK
<1>3. ASSUME NEW o \in Orders PROVE Told(o)'
  <2> DEFINE p == filler.order
  <2>1. p \in Orders /\ pushed' \in [Orders -> Nat] /\ pushed'[o] >= pushed[o]
        /\ (orders[p].state = "FILLED" => pushed'[p] = pushed[p] + orders[p].filled)
    BY TerminalPushes DEF FinishTell, ThreadsOK
  <2>2. p \notin contested => orders[p].state = "FILLED" /\ orders[p].filled = Slices
    BY <2>1 DEF FinishTell, Undisturbed, InPost
  <2>3. InPost(p) /\ filler'.pc = "scan" /\ filler'.order = p
        /\ UNCHANGED <<orders, ledger, contested>>
    BY DEF FinishTell, InPost, TypeOK
  <2>4. orders[p].state \in Terminal
    BY DEF FinishTell, ThreadsOK
  <2>5. ledger[o] \in Nat /\ pushed[o] \in Nat /\ pushed'[o] \in Nat
    BY <2>1 DEF TypeOK
  <2>6. CASE o = p
    <3>1. o \notin contested => pushed'[o] >= ledger[o]
      BY <2>1, <2>2, <2>5, <2>6, MockExecutorAssumption DEF Told
    <3> QED BY <2>1, <2>3, <2>4, <2>5, <2>6, <3>1 DEF Told, InPost
  <2>7. CASE o # p
    BY <2>1, <2>3, <2>5, <2>7 DEF Told, InPost
  <2> QED BY <2>6, <2>7
<1>4. ASSUME NEW o \in Orders \ contested' PROVE Undisturbed(o)'
  BY <1>4, MockExecutorAssumption DEF FinishTell, Undisturbed, InPost, TypeOK, ThreadsOK, Open
<1> QED BY <1>1, <1>2, <1>3, <1>4

-----------------------------------------------------------------------------
(* The steps of cancel_order.                                              *)

LEMMA CancelLookKeeps ==
  ASSUME MockInv, NEW q \in Orders, CancelLook(q)
  PROVE  MockInv'
<1> USE DEF MockInv
<1>1. TypeOK'
  BY DEF CancelLook, TypeOK, Orders
<1>2. ThreadsOK'
  BY DEF CancelLook, ThreadsOK, TypeOK
<1>3. ASSUME NEW o \in Orders PROVE Told(o)'
  BY DEF CancelLook, Told, InPost, Open, Terminal
<1>4. ASSUME NEW o \in Orders \ contested' PROVE Undisturbed(o)'
  BY <1>4 DEF CancelLook, Undisturbed, InPost
<1> QED BY <1>1, <1>2, <1>3, <1>4

LEMMA CancelUpdateKeeps ==
  ASSUME MockInv, CancelUpdate
  PROVE  MockInv'
<1> USE DEF MockInv
<1>1. TypeOK'
  BY MockExecutorAssumption DEF CancelUpdate, TypeOK, Idle
<1>2. ThreadsOK'
  BY DEF CancelUpdate, ThreadsOK, TypeOK, Idle
<1>3. ASSUME NEW o \in Orders PROVE Told(o)'
  BY DEF CancelUpdate, Told, InPost
<1>4. ASSUME NEW o \in Orders \ contested' PROVE Undisturbed(o)'
  BY <1>4 DEF CancelUpdate, Undisturbed, InPost
<1> QED BY <1>1, <1>2, <1>3, <1>4

LEMMA CancelWriteKeeps ==
  ASSUME MockInv, CancelWrite
  PROVE  MockInv'
<1> USE DEF MockInv
<1>1. TypeOK'
  BY DEF CancelWrite, TypeOK, ThreadsOK, Terminal
<1>2. ThreadsOK'
  BY DEF CancelWrite, ThreadsOK, TypeOK, Terminal
<1>3. ASSUME NEW o \in Orders PROVE Told(o)'
  BY DEF CancelWrite, Told, InPost, TypeOK, ThreadsOK, Terminal
<1>4. ASSUME NEW o \in Orders \ contested' PROVE Undisturbed(o)'
  BY <1>4 DEF CancelWrite, Undisturbed, InPost, TypeOK, ThreadsOK
<1> QED BY <1>1, <1>2, <1>3, <1>4

LEMMA CancelCountKeeps ==
  ASSUME MockInv, CancelCount
  PROVE  MockInv'
<1> USE DEF MockInv
<1>1. TypeOK'
  BY DEF CancelCount, TypeOK, ThreadsOK
<1>2. ThreadsOK'
  BY DEF CancelCount, ThreadsOK, TypeOK
<1>3. ASSUME NEW o \in Orders PROVE Told(o)'
  BY DEF CancelCount, Told, InPost, TypeOK, ThreadsOK
<1>4. ASSUME NEW o \in Orders \ contested' PROVE Undisturbed(o)'
  BY <1>4 DEF CancelCount, Undisturbed, InPost, TypeOK, ThreadsOK
<1> QED BY <1>1, <1>2, <1>3, <1>4

LEMMA CancelTellKeeps ==
  ASSUME MockInv, CancelTell
  PROVE  MockInv'
<1> USE DEF MockInv
<1>1. TypeOK'
  <2>1. canceller' \in [pc : {"idle", "update", "write", "count", "tell"},
                         order : 0 .. LastOrder, filled : 0 .. Slices]
    BY MockExecutorAssumption DEF CancelTell, Idle
  <2>2. canceller.order \in Orders
    BY DEF CancelTell, ThreadsOK, TypeOK
  <2>3. long' \in Nat /\ pushed' \in [Orders -> Nat]
    BY <2>2, TerminalPushes DEF CancelTell
  <2> QED BY <2>1, <2>3 DEF CancelTell, TypeOK
<1>2. ThreadsOK'
  BY DEF CancelTell, ThreadsOK, TypeOK, Idle
<1>3. ASSUME NEW o \in Orders PROVE Told(o)'
  <2>1. canceller.order \in Orders
    BY DEF CancelTell, ThreadsOK, TypeOK
  <2>2. pushed' \in [Orders -> Nat] /\ pushed'[o] >= pushed[o]
    BY <2>1, TerminalPushes DEF CancelTell
  <2> QED BY <2>2 DEF CancelTell, Told, InPost, TypeOK
<1>4. ASSUME NEW o \in Orders \ contested' PROVE Undisturbed(o)'
  BY <1>4 DEF CancelTell, Undisturbed, InPost
<1> QED BY <1>1, <1>2, <1>3, <1>4

LEMMA StepKeeps ==
  ASSUME MockInv, [Next]_vars
  PROVE  MockInv'
<1>1. CASE UNCHANGED vars
  BY <1>1 DEF vars, MockInv, TypeOK, ThreadsOK, Undisturbed, Told, InPost
<1>2. CASE Filler
  BY <1>2, WakeKeeps, LookKeeps, FillKeeps, SettlePartialKeeps, MarkPartialKeeps,
     SettleFullKeeps, FinishKeeps, FinishCountKeeps, FinishTellKeeps DEF Filler
<1>3. CASE Caller
  BY <1>3, PlaceLimitKeeps, PlaceMarketKeeps, CancelLookKeeps DEF Caller
<1>4. CASE Canceller
  BY <1>4, CancelUpdateKeeps, CancelWriteKeeps, CancelCountKeeps, CancelTellKeeps
     DEF Canceller
<1> QED BY <1>1, <1>2, <1>3, <1>4 DEF Next

-----------------------------------------------------------------------------
(* Theorems.                                                               *)

\* The invariant, from which the rest follows.
THEOREM MockInvariant == Spec => []MockInv
<1>1. Init => MockInv
  BY InitHolds
<1>2. MockInv /\ [Next]_vars => MockInv'
  BY StepKeeps
<1> QED BY <1>1, <1>2, PTL DEF Spec

\* Tracked orders, fills and the guard's exposure keep their types: no thread
\* ever shows more filled than the order's quantity (binance_executor.py,
\* _mock_fill_loop and update_order_status).
THEOREM TypeCorrect == Spec => []TypeOK
<1>1. MockInv => TypeOK
  BY DEF MockInv
<1> QED BY <1>1, MockInvariant, PTL

\* However the fill thread of binance_executor.py is interleaved with cancels
\* of other orders, an order nobody cancels is filled to exactly its quantity.
THEOREM ExactFills == Spec => []FillsAddUp
<1>1. MockInv => FillsAddUp
  <2> SUFFICES ASSUME MockInv, NEW o \in Orders \ contested
               PROVE  ledger[o] <= Slices /\ (orders[o].state = "FILLED" => ledger[o] = Slices)
    BY DEF FillsAddUp
  <2> QED BY MockExecutorAssumption DEF MockInv, Undisturbed, TypeOK, InPost, Open
<1> QED BY <1>1, MockInvariant, PTL

\* RiskGuard hears of every slice the fill thread books, with at most the one in
\* hand or the last one of a cancelled order missing (_push_position_update).
THEOREM GuardIsTold == Spec => []GuardKeepsUp
<1>1. MockInv => GuardKeepsUp
  <2> SUFFICES ASSUME MockInv, NEW o \in Orders
               PROVE  pushed[o] + Behind(o) >= ledger[o]
    BY DEF GuardKeepsUp
  <2> QED BY DEF MockInv, Told, TypeOK, InPost, Behind
<1> QED BY <1>1, MockInvariant, PTL

(***************************************************************************)
(* Backtest                                                                *)
(***************************************************************************)

Reasons == {"NONE", "LIQUIDATION", "STOP_LOSS", "TAKE_PROFIT", "SIGNAL", "END_OF_BACKTEST"}

PastTrade == [symbol : Symbols, direction : Directions, entry : Int, size : Int, margin : Int,
              stop : Int, take : Int, fees : Int, bar : Nat, risk : Int, closedAt : Nat,
              status : {"OPEN", "CLOSED"}, reason : Reasons, pnl : Int]
Engines == [equity : Int, trades : Seq(PastTrade), open : [Symbols -> Nat]]

Booked(trades) == SumFunctionOnSet([k \in DOMAIN trades |-> trades[k].pnl], DOMAIN trades)

\* What the properties need of a trade's levels.
Levelled(t) == IF t.direction = "LONG" THEN t.take > 0 ELSE t.stop > 0

\* Books in order.
InOrder(e) ==
    /\ \A k \in 1 .. Len(e.trades) :
          /\ e.trades[k].status = "OPEN" <=> e.open[e.trades[k].symbol] = k
          /\ e.trades[k].status = "OPEN" => e.trades[k].pnl = 0
          /\ Levelled(e.trades[k])
    /\ \A s \in Symbols : e.open[s] # 0 =>
          e.open[s] \in 1 .. Len(e.trades) /\ e.trades[e.open[s]].symbol = s
    /\ e.equity = InitialEquity + Booked(e.trades)

Sound == {e \in Engines : InOrder(e)}

\* The position of a symbol and its trade are the same in two engines.
SameFor(e, x, s) ==
    x.open[s] = e.open[s] /\ (e.open[s] # 0 => x.trades[x.open[s]] = e.trades[e.open[s]])

LEMMA IntegerProducts == \A x, y \in Int : x * y \in Int
OBVIOUS

LEMMA BookedType ==
    ASSUME NEW tr \in Seq(PastTrade)
    PROVE  Booked(tr) \in Int
<1> DEFINE f == [k \in DOMAIN tr |-> tr[k].pnl]
<1>1. \A k \in DOMAIN tr : f[k] \in Int
  <2> TAKE k \in DOMAIN tr
  <2>1. tr[k] \in PastTrade
    OBVIOUS
  <2> QED BY <2>1 DEF PastTrade
<1>2. IsFiniteSet(DOMAIN tr)
  <2>1. DOMAIN tr = 1 .. Len(tr) /\ Len(tr) \in Nat
    OBVIOUS
  <2> QED BY <2>1, FS_Interval
<1> HIDE DEF f
<1>3. SumFunctionOnSet(f, DOMAIN tr) \in Int
  BY <1>1, <1>2, SumType
<1> QED BY <1>3 DEF Booked, f

\* A new trade adds its own profit to what is booked.
LEMMA BookedAppend ==
    ASSUME NEW tr \in Seq(PastTrade), NEW t \in PastTrade
    PROVE  Booked(Append(tr, t)) = Booked(tr) + t.pnl
<1> DEFINE n == Len(tr)
           u == Append(tr, t)
           f == [k \in 1 .. n |-> tr[k].pnl]
           g == [k \in 1 .. n + 1 |-> u[k].pnl]
<1>1. n \in Nat /\ DOMAIN tr = 1 .. n
  OBVIOUS
<1>2. /\ u \in Seq(PastTrade) /\ Len(u) = n + 1 /\ DOMAIN u = 1 .. n + 1
      /\ u[n + 1] = t /\ \A k \in 1 .. n : u[k] = tr[k]
  OBVIOUS
<1> HIDE DEF u, n
<1>3. \A k \in 1 .. n + 1 : u[k] \in PastTrade
  BY <1>1, <1>2
<1>4. \A k \in 1 .. n + 1 : g[k] \in Int
  BY <1>3 DEF PastTrade
<1>5. \A k \in 1 .. n : k \in 1 .. n + 1 /\ f[k] = g[k]
  BY <1>1, <1>2
<1>6. n + 1 \in 1 .. n + 1 /\ (1 .. n + 1) \ {n + 1} = 1 .. n /\ g[n + 1] = t.pnl
  BY <1>1, <1>2
<1>7. IsFiniteSet(1 .. n + 1) /\ IsFiniteSet(1 .. n)
  BY <1>1, FS_Interval
<1>8. Booked(tr) = SumFunctionOnSet(f, 1 .. n) /\ Booked(u) = SumFunctionOnSet(g, 1 .. n + 1)
  BY <1>1, <1>2 DEF Booked
<1> HIDE DEF f, g
<1>9. SumFunctionOnSet(g, 1 .. n + 1) = g[n + 1] + SumFunctionOnSet(g, 1 .. n)
  <2> DEFINE N == 1 .. n + 1
             m == n + 1
  <2>1. IsFiniteSet(N) /\ m \in N /\ \A k \in N : g[k] \in Int
    BY <1>4, <1>6, <1>7
  <2>2. N \ {m} = 1 .. n
    BY <1>6
  <2> HIDE DEF N, m
  <2>3. SumFunctionOnSet(g, N) = g[m] + SumFunctionOnSet(g, N \ {m})
    BY <2>1, SumRemove
  <2> QED BY <2>2, <2>3 DEF N, m
<1>10. SumFunctionOnSet(f, 1 .. n) = SumFunctionOnSet(g, 1 .. n)
  <2>1. \A k \in 1 .. n : g[k] \in Int /\ f[k] = g[k]
    BY <1>4, <1>5
  <2> QED BY <1>7, <2>1, SumOfEquals
<1>11. SumFunctionOnSet(g, 1 .. n) \in Int /\ g[n + 1] \in Int
  <2>1. \A k \in 1 .. n : g[k] \in Int
    BY <1>4, <1>5
  <2> QED BY <1>4, <1>6, <1>7, <2>1, SumType
<1> QED BY <1>6, <1>8, <1>9, <1>10, <1>11 DEF u

\* Writing a profit into a trade changes what is booked by the difference.
LEMMA BookedExcept ==
    ASSUME NEW tr \in Seq(PastTrade), NEW i \in 1 .. Len(tr), NEW t \in PastTrade
    PROVE  Booked([tr EXCEPT ![i] = t]) = Booked(tr) - tr[i].pnl + t.pnl
<1> DEFINE S == 1 .. Len(tr)
           u == [tr EXCEPT ![i] = t]
           f == [k \in S |-> tr[k].pnl]
           g == [k \in S |-> u[k].pnl]
<1>1. IsFiniteSet(S) /\ IsFiniteSet(S \ {i}) /\ DOMAIN tr = S
  <2>1. Len(tr) \in Nat
    OBVIOUS
  <2>2. IsFiniteSet(S)
    BY <2>1, FS_Interval
  <2> QED BY <2>2, FS_Subset
<1>2. DOMAIN u = S /\ u[i] = t /\ \A k \in S : k # i => u[k] = tr[k]
  OBVIOUS
<1>3. \A k \in S : tr[k] \in PastTrade /\ u[k] \in PastTrade
  BY <1>2
<1> HIDE DEF u
<1>4. \A k \in S : f[k] \in Int /\ g[k] \in Int
  BY <1>3 DEF PastTrade
<1>5. f[i] = tr[i].pnl /\ g[i] = t.pnl /\ \A k \in S \ {i} : f[k] = g[k]
  BY <1>2
<1>6. Booked(tr) = SumFunctionOnSet(f, S) /\ Booked(u) = SumFunctionOnSet(g, S)
  BY <1>1, <1>2 DEF Booked
<1> HIDE DEF f, g, S
<1>7. i \in S
  BY DEF S
<1>8. /\ SumFunctionOnSet(f, S) = f[i] + SumFunctionOnSet(f, S \ {i})
      /\ SumFunctionOnSet(g, S) = g[i] + SumFunctionOnSet(g, S \ {i})
  <2>1. IsFiniteSet(S) /\ (\A k \in S : f[k] \in Int) /\ (\A k \in S : g[k] \in Int)
    BY <1>1, <1>4
  <2>2. SumFunctionOnSet(f, S) = f[i] + SumFunctionOnSet(f, S \ {i})
    BY <1>7, <2>1, SumRemove
  <2>3. SumFunctionOnSet(g, S) = g[i] + SumFunctionOnSet(g, S \ {i})
    BY <1>7, <2>1, SumRemove
  <2> QED BY <2>2, <2>3
<1>9. SumFunctionOnSet(g, S \ {i}) = SumFunctionOnSet(f, S \ {i})
  <2>1. \A k \in S \ {i} : f[k] \in Int /\ g[k] = f[k]
    BY <1>4, <1>5
  <2> QED BY <1>1, <2>1, SumOfEquals
<1>10. SumFunctionOnSet(f, S \ {i}) \in Int /\ f[i] \in Int /\ g[i] \in Int
  <2>1. \A k \in S \ {i} : f[k] \in Int
    BY <1>4
  <2> QED BY <1>1, <1>4, <1>7, <2>1, SumType
<1> QED BY <1>5, <1>6, <1>8, <1>9, <1>10 DEF u

LEMMA TowardType == ASSUME NEW d PROVE Toward(d) \in Int
BY DEF Toward

LEMMA SlippedType ==
    ASSUME BacktestAssumption, NEW price \in Int, NEW d
    PROVE  Slipped(price, d) \in Int
<1>1. SlipBps \in Int
  BY DEF BacktestAssumption
<1>2. (price * SlipBps) \div 10000 \in Int
  <2>1. price * SlipBps \in Int
    BY <1>1, IntegerProducts
  <2> QED BY <2>1
<1> QED BY <1>2, TowardType, IntegerProducts DEF Slipped

LEMMA FeesType ==
    ASSUME BacktestAssumption, NEW size \in Int, NEW price \in Int
    PROVE  Fees(size, price) \in Int
<1>1. FeeBps \in Int
  BY DEF BacktestAssumption
<1> DEFINE a == size * FeeBps
           b == a \div SizeScale
<1>2. a \in Int
  BY <1>1, IntegerProducts
<1> HIDE DEF a
<1>3. b \in Int
  BY <1>2 DEF SizeScale
<1> HIDE DEF b
<1>4. b * price \in Int
  BY <1>3, IntegerProducts
<1> QED BY <1>4 DEF Fees, a, b

LEMMA ProfitType ==
    ASSUME NEW d, NEW x \in Int, NEW size \in Int
    PROVE  (Toward(d) * x * size) \div SizeScale \in Int
<1>1. Toward(d) * x \in Int
  BY TowardType, IntegerProducts
<1>2. Toward(d) * x * size \in Int
  BY <1>1, IntegerProducts
<1> QED BY <1>2 DEF SizeScale

\* Opening a trade for a symbol without a position keeps the books in order.
LEMMA OpenedSound ==
    ASSUME BacktestAssumption, bar \in Nat, NEW e \in Sound, NEW s \in Symbols, e.open[s] = 0,
           NEW setup, setup.direction \in Directions, setup.entry \in Int, setup.size \in Int,
           setup.margin \in Int, setup.stop \in Int, setup.target \in Int, setup.risk \in Int,
           setup.direction = "LONG" => setup.target > 0,
           setup.direction = "SHORT" => setup.stop > 0
    PROVE  /\ Opened(e, s, setup) \in Sound
           /\ \A r \in Symbols \ {s} : SameFor(e, Opened(e, s, setup), r)
           /\ Opened(e, s, setup).open[s] # 0
           /\ Opened(e, s, setup).trades[Opened(e, s, setup).open[s]].bar = bar
<1> DEFINE entry == Slipped(setup.entry, setup.direction)
           n == Len(e.trades)
           t == [symbol |-> s, direction |-> setup.direction,
                 entry |-> entry, size |-> setup.size, margin |-> setup.margin,
                 stop |-> setup.stop, take |-> setup.target,
                 fees |-> Fees(setup.size, entry), bar |-> bar, risk |-> setup.risk,
                 closedAt |-> 0, status |-> "OPEN", reason |-> "NONE", pnl |-> 0]
           x == Opened(e, s, setup)
<1>1. entry \in Int /\ Fees(setup.size, entry) \in Int
  BY SlippedType, FeesType
<1>2. t \in PastTrade /\ t.pnl = 0 /\ t.status = "OPEN" /\ t.symbol = s /\ t.bar = bar
  <2> HIDE DEF entry
  <2> QED BY <1>1 DEF PastTrade, Reasons
<1>3. Levelled(t)
  BY DEF Levelled, Directions
<1>4. e \in Engines /\ InOrder(e)
  BY DEF Sound
<1>5. /\ e.trades \in Seq(PastTrade) /\ n \in Nat /\ e.equity \in Int
      /\ e.open \in [Symbols -> Nat]
  BY <1>4 DEF Engines
<1>6. /\ x = [e EXCEPT !.trades = Append(@, t), !.open[s] = n + 1]
  BY DEF Opened
<1> HIDE DEF t, x
<1>7. /\ x.trades = Append(e.trades, t) /\ x.equity = e.equity
      /\ x.open = [e.open EXCEPT ![s] = n + 1]
  BY <1>4, <1>6 DEF Engines
<1>8. x \in Engines
  <2>1. /\ Append(e.trades, t) \in Seq(PastTrade)
        /\ [e.open EXCEPT ![s] = n + 1] \in [Symbols -> Nat]
    BY <1>2, <1>5
  <2> QED BY <1>4, <1>6, <2>1 DEF Engines
<1>9. /\ Len(x.trades) = n + 1 /\ x.trades[n + 1] = t
      /\ \A k \in 1 .. n : x.trades[k] = e.trades[k]
  BY <1>2, <1>5, <1>7
<1>10. x.open[s] = n + 1 /\ \A r \in Symbols \ {s} : x.open[r] = e.open[r]
  BY <1>5, <1>7
<1>11. \A r \in Symbols : e.open[r] # 0 => e.open[r] \in 1 .. n /\ e.trades[e.open[r]].symbol = r
  BY <1>4 DEF InOrder
<1>12. \A r \in Symbols \ {s} : SameFor(e, x, r)
  BY <1>9, <1>10, <1>11 DEF SameFor
<1>13. ASSUME NEW k \in 1 .. Len(x.trades)
       PROVE  /\ x.trades[k].status = "OPEN" <=> x.open[x.trades[k].symbol] = k
              /\ x.trades[k].status = "OPEN" => x.trades[k].pnl = 0
              /\ Levelled(x.trades[k])
  <2>1. CASE k = n + 1
    BY <1>2, <1>3, <1>9, <1>10, <2>1
  <2>2. CASE k # n + 1
    <3>1. k \in 1 .. n /\ x.trades[k] = e.trades[k]
      BY <1>5, <1>9, <2>2
    <3>2. e.trades[k] \in PastTrade
      BY <1>5, <3>1
    <3>3. e.trades[k].symbol \in Symbols
      BY <3>2 DEF PastTrade
    <3>4. /\ e.trades[k].status = "OPEN" <=> e.open[e.trades[k].symbol] = k
          /\ e.trades[k].status = "OPEN" => e.trades[k].pnl = 0
          /\ Levelled(e.trades[k])
      BY <1>4, <3>1 DEF InOrder
    <3>5. CASE e.trades[k].symbol = s
      <4>1. e.open[s] # k /\ x.open[s] # k
        BY <1>5, <1>10, <3>1
      <4> QED BY <3>1, <3>4, <3>5, <4>1
    <3>6. CASE e.trades[k].symbol # s
      <4>1. x.open[e.trades[k].symbol] = e.open[e.trades[k].symbol]
        BY <1>10, <3>3, <3>6
      <4> QED BY <3>1, <3>4, <4>1
    <3> QED BY <3>5, <3>6
  <2> QED BY <2>1, <2>2
<1>14. ASSUME NEW r \in Symbols, x.open[r] # 0
       PROVE  x.open[r] \in 1 .. Len(x.trades) /\ x.trades[x.open[r]].symbol = r
  <2>1. CASE r = s
    BY <1>2, <1>5, <1>9, <1>10, <2>1
  <2>2. CASE r # s
    <3>1. x.open[r] = e.open[r]
      BY <1>10, <2>2
    <3>2. x.open[r] \in 1 .. n /\ e.trades[x.open[r]].symbol = r
      BY <1>11, <1>14, <3>1
    <3> QED BY <1>5, <1>9, <3>2, SMTT(30)
  <2> QED BY <2>1, <2>2
<1>15. x.equity = InitialEquity + Booked(x.trades)
  <2>1. Booked(x.trades) = Booked(e.trades) + 0
    BY <1>2, <1>5, <1>7, BookedAppend
  <2>2. Booked(e.trades) \in Int
    BY <1>5, BookedType
  <2> QED BY <1>4, <1>7, <2>1, <2>2 DEF InOrder
<1>16. x \in Sound
  BY <1>8, <1>13, <1>14, <1>15 DEF Sound, InOrder
<1>17. x.open[s] # 0 /\ x.trades[x.open[s]].bar = bar
  BY <1>2, <1>5, <1>9, <1>10
<1> QED BY <1>12, <1>16, <1>17 DEF x

\* Closing a symbol's trade, or doing nothing without one, does too.
LEMMA ClosedSound ==
    ASSUME BacktestAssumption, NEW e \in Sound, NEW s \in Symbols, NEW price \in Int,
           NEW why \in Reasons, NEW at \in Nat
    PROVE  /\ Closed(e, s, price, why, at) \in Sound
           /\ \A r \in Symbols \ {s} : SameFor(e, Closed(e, s, price, why, at), r)
           /\ Closed(e, s, price, why, at).open[s] = 0
<1> DEFINE x == Closed(e, s, price, why, at)
<1>1. e \in Engines /\ InOrder(e)
  BY DEF Sound
<1>2. /\ e.trades \in Seq(PastTrade) /\ e.equity \in Int /\ e.open \in [Symbols -> Nat]
  BY <1>1 DEF Engines
<1>3. CASE e.open[s] = 0
  <2>1. x = e
    BY <1>3 DEF Closed
  <2> QED BY <1>3, <2>1 DEF SameFor
<1>4. CASE e.open[s] # 0
  <2> DEFINE k == e.open[s]
             t == e.trades[k]
             exit == Slipped(price, t.direction)
             fees == t.fees + Fees(t.size, exit)
             pnl == (Toward(t.direction) * (exit - t.entry) * t.size) \div SizeScale - fees
             u == [t EXCEPT !.pnl = pnl, !.fees = fees, !.status = "CLOSED", !.reason = why,
                            !.closedAt = at]
  <2>1. /\ k \in 1 .. Len(e.trades) /\ t.symbol = s /\ t \in PastTrade
        /\ t.status = "OPEN" /\ t.pnl = 0 /\ Levelled(t)
    <3>1. k \in 1 .. Len(e.trades) /\ t.symbol = s
      BY <1>1, <1>4 DEF InOrder
    <3>2. t.status = "OPEN" /\ t.pnl = 0 /\ Levelled(t)
      BY <1>1, <3>1 DEF InOrder
    <3>3. t \in PastTrade
      BY <1>2, <3>1
    <3> QED BY <3>1, <3>2, <3>3
  <2>2. x = [e EXCEPT !.equity = @ + pnl, !.trades[k] = u, !.open[s] = 0]
    BY <1>4 DEF Closed
  <2> HIDE DEF t
  <2>3. t.fees \in Int /\ t.size \in Int /\ t.entry \in Int
    BY <2>1 DEF PastTrade
  <2>4. exit \in Int
    BY SlippedType
  <2> HIDE DEF exit
  <2>5. Fees(t.size, exit) \in Int
    BY <2>3, <2>4, FeesType
  <2>6. fees \in Int
    BY <2>3, <2>5
  <2>7. (Toward(t.direction) * (exit - t.entry) * t.size) \div SizeScale \in Int
    <3>1. exit - t.entry \in Int
      BY <2>3, <2>4
    <3> QED BY <2>3, <3>1, ProfitType
  <2>8. pnl \in Int
    <3> HIDE DEF fees
    <3> QED BY <2>6, <2>7
  <2> HIDE DEF fees, pnl
  <2>9. /\ u \in PastTrade /\ u.pnl = pnl /\ u.status = "CLOSED" /\ u.symbol = s /\ Levelled(u)
    <3>1. u \in PastTrade
      BY <2>1, <2>6, <2>8 DEF PastTrade, Reasons
    <3>2. /\ u.pnl = pnl /\ u.status = "CLOSED" /\ u.symbol = t.symbol
          /\ u.direction = t.direction /\ u.take = t.take /\ u.stop = t.stop
      BY <2>1 DEF PastTrade
    <3> QED BY <2>1, <3>1, <3>2 DEF Levelled
  <2> HIDE DEF u
  <2>10. /\ x.equity = e.equity + pnl /\ x.trades = [e.trades EXCEPT ![k] = u]
         /\ x.open = [e.open EXCEPT ![s] = 0]
    BY <1>1, <2>2 DEF Engines
  <2>11. x \in Engines
    <3>1. /\ [e.trades EXCEPT ![k] = u] \in Seq(PastTrade)
          /\ [e.open EXCEPT ![s] = 0] \in [Symbols -> Nat]
          /\ e.equity + pnl \in Int
      BY <1>2, <2>1, <2>8, <2>9
    <3> QED BY <1>1, <2>2, <3>1 DEF Engines
  <2> HIDE DEF x
  <2>12. /\ Len(x.trades) = Len(e.trades) /\ x.trades[k] = u
         /\ \A j \in 1 .. Len(e.trades) : j # k => x.trades[j] = e.trades[j]
    BY <1>2, <2>1, <2>9, <2>10
  <2>13. x.open[s] = 0 /\ \A r \in Symbols \ {s} : x.open[r] = e.open[r]
    BY <1>2, <2>10
  <2>14. \A r \in Symbols \ {s} : e.open[r] # 0 =>
            e.open[r] \in 1 .. Len(e.trades) /\ e.trades[e.open[r]].symbol = r /\ e.open[r] # k
    BY <1>1, <2>1 DEF InOrder, t
  <2>15. \A r \in Symbols \ {s} : SameFor(e, x, r)
    BY <2>12, <2>13, <2>14 DEF SameFor
  <2>16. ASSUME NEW j \in 1 .. Len(x.trades)
         PROVE  /\ x.trades[j].status = "OPEN" <=> x.open[x.trades[j].symbol] = j
                /\ x.trades[j].status = "OPEN" => x.trades[j].pnl = 0
                /\ Levelled(x.trades[j])
    <3>1. CASE j = k
      <4>1. x.trades[j] = u /\ x.open[u.symbol] # j
        BY <2>9, <2>12, <2>13, <3>1
      <4> QED BY <2>9, <4>1
    <3>2. CASE j # k
      <4>1. j \in 1 .. Len(e.trades) /\ x.trades[j] = e.trades[j]
        BY <2>12, <3>2
      <4>2. e.trades[j] \in PastTrade
        BY <1>2, <4>1
      <4>3. e.trades[j].symbol \in Symbols
        BY <4>2 DEF PastTrade
      <4>4. /\ e.trades[j].status = "OPEN" <=> e.open[e.trades[j].symbol] = j
            /\ e.trades[j].status = "OPEN" => e.trades[j].pnl = 0
            /\ Levelled(e.trades[j])
        BY <1>1, <4>1 DEF InOrder
      <4>5. CASE e.trades[j].symbol = s
        <5>1. e.open[s] # j /\ x.open[s] # j
          BY <2>13, <3>2, <4>1
        <5> QED BY <4>1, <4>4, <4>5, <5>1
      <4>6. CASE e.trades[j].symbol # s
        <5>1. x.open[e.trades[j].symbol] = e.open[e.trades[j].symbol]
          BY <2>13, <4>3, <4>6
        <5> QED BY <4>1, <4>4, <5>1
      <4> QED BY <4>5, <4>6
    <3> QED BY <3>1, <3>2
  <2>17. ASSUME NEW r \in Symbols, x.open[r] # 0
         PROVE  x.open[r] \in 1 .. Len(x.trades) /\ x.trades[x.open[r]].symbol = r
    <3>1. r # s /\ x.open[r] = e.open[r]
      BY <2>13, <2>17
    <3> QED BY <2>12, <2>14, <2>17, <3>1
  <2>18. x.equity = InitialEquity + Booked(x.trades)
    <3>1. Booked(x.trades) = Booked(e.trades) - 0 + pnl
      <4>1. Booked([e.trades EXCEPT ![k] = u]) = Booked(e.trades) - e.trades[k].pnl + u.pnl
        BY <1>2, <2>1, <2>9, BookedExcept
      <4>2. e.trades[k].pnl = 0
        BY <2>1 DEF t
      <4> QED BY <2>9, <2>10, <4>1, <4>2
    <3>2. Booked(e.trades) \in Int /\ InitialEquity \in Int
      BY <1>2, BookedType DEF BacktestAssumption
    <3>3. e.equity = InitialEquity + Booked(e.trades)
      BY <1>1 DEF InOrder
    <3> QED BY <2>8, <2>10, <3>1, <3>2, <3>3
  <2>19. x \in Sound
    BY <2>11, <2>16, <2>17, <2>18 DEF Sound, InOrder
  <2> QED BY <2>13, <2>15, <2>19 DEF x
<1> QED BY <1>3, <1>4

\* A price inside a trade's stop and target.
Away(t, price) == /\ Toward(t.direction) * (price - t.stop) > 0
                  /\ Toward(t.direction) * (price - t.take) < 0

LEMMA NoReasonMeansAway ==
    ASSUME NEW t \in PastTrade, Levelled(t), NEW price \in Nat \ {0}, ExitReason(t, price) = "NONE"
    PROVE  Away(t, price)
<1>1. t.stop \in Int /\ t.take \in Int /\ t.direction \in {"LONG", "SHORT"}
  BY DEF PastTrade, Directions
<1>2. /\ ~(t.stop # 0 /\ Toward(t.direction) * (price - t.stop) <= 0)
      /\ ~(t.take # 0 /\ Toward(t.direction) * (price - t.take) >= 0)
  BY DEF ExitReason
<1>3. CASE t.direction = "LONG"
  <2>1. Toward(t.direction) = 1 /\ t.take > 0
    BY <1>3 DEF Toward, Levelled
  <2>2. /\ ~(t.stop # 0 /\ price - t.stop <= 0)
        /\ ~(t.take # 0 /\ price - t.take >= 0)
    BY <1>1, <1>2, <2>1
  <2>3. price - t.stop > 0 /\ price - t.take < 0
    BY <1>1, <2>1, <2>2
  <2> QED BY <1>1, <2>1, <2>3 DEF Away
<1>4. CASE t.direction = "SHORT"
  <2>1. Toward(t.direction) = -1 /\ t.stop > 0
    BY <1>4 DEF Toward, Levelled
  <2>2. /\ ~(t.stop # 0 /\ -(price - t.stop) <= 0)
        /\ ~(t.take # 0 /\ -(price - t.take) >= 0)
    BY <1>1, <1>2, <2>1
  <2>3. -(price - t.stop) > 0 /\ -(price - t.take) < 0
    BY <1>1, <2>1, <2>2
  <2> QED BY <1>1, <2>1, <2>3 DEF Away
<1> QED BY <1>1, <1>3, <1>4

\* A check leaves the other symbols alone, and its own without a position or
\* with the one it had, its levels not reached.
LEMMA CheckSound ==
    ASSUME BacktestAssumption, NEW e \in Sound, NEW s \in Symbols, NEW price \in Nat \ {0},
           NEW at \in Nat
    PROVE  /\ CheckStopTake(e, s, price, at) \in Sound
           /\ \A r \in Symbols \ {s} : SameFor(e, CheckStopTake(e, s, price, at), r)
           /\ CheckStopTake(e, s, price, at).open[s] # 0 =>
                /\ CheckStopTake(e, s, price, at) = e
                /\ Away(e.trades[e.open[s]], price)
<1> DEFINE x == CheckStopTake(e, s, price, at)
           t == e.trades[e.open[s]]
           why == ExitReason(t, price)
<1>1. CASE e.open[s] = 0
  <2>1. x = e
    BY <1>1 DEF CheckStopTake
  <2> QED BY <1>1, <2>1 DEF SameFor
<1>2. CASE e.open[s] # 0
  <2>1. /\ x = CASE why = "NONE" -> e
                 [] why = "LIQUIDATION" -> Closed(e, s, price, why, at)
                 [] why = "STOP_LOSS" -> Closed(e, s, t.stop, why, at)
                 [] why = "TAKE_PROFIT" -> Closed(e, s, t.take, why, at)
    BY <1>2 DEF CheckStopTake
  <2>2. e.open[s] \in 1 .. Len(e.trades) /\ e.trades \in Seq(PastTrade) /\ InOrder(e)
    BY <1>2 DEF Sound, Engines, InOrder
  <2>3. t \in PastTrade /\ Levelled(t)
    BY <2>2 DEF InOrder
  <2>4. t.stop \in Int /\ t.take \in Int /\ price \in Int
    BY <2>3 DEF PastTrade
  <2>5. why \in {"NONE", "LIQUIDATION", "STOP_LOSS", "TAKE_PROFIT"}
    BY DEF ExitReason
  <2>6. why \in Reasons
    BY <2>5 DEF Reasons
  <2>7. CASE why = "NONE"
    <3>1. x = e
      BY <2>1, <2>7
    <3>2. Away(t, price)
      BY <2>3, <2>7, NoReasonMeansAway
    <3> QED BY <3>1, <3>2 DEF SameFor
  <2>8. CASE why # "NONE"
    <3>1. PICK q \in Int : x = Closed(e, s, q, why, at)
      BY <2>1, <2>4, <2>5, <2>8
    <3> HIDE DEF x, why
    <3>2. x \in Sound /\ x.open[s] = 0 /\ \A r \in Symbols \ {s} : SameFor(e, x, r)
      BY <2>6, <3>1, ClosedSound
    <3>3. x \in Sound /\ (\A r \in Symbols \ {s} : SameFor(e, x, r))
          /\ (x.open[s] # 0 => x = e /\ Away(t, price))
      BY <3>2
    <3> QED BY <3>3 DEF x
  <2> QED BY <2>7, <2>8
<1> QED BY <1>1, <1>2

\* From one engine to a later one: a position held was held before, the same
\* trade, or is one of this timestamp.
Kept(e, x) ==
    \A s \in Symbols : x.open[s] # 0 =>
        \/ e.open[s] # 0 /\ x.trades[x.open[s]] = e.trades[e.open[s]]
        \/ x.trades[x.open[s]].bar = bar

LEMMA SymbolsListed ==
    ASSUME BacktestAssumption
    PROVE  /\ SymbolList \in Seq(Symbols) /\ Len(SymbolList) \in Nat
           /\ DOMAIN SymbolList = 1 .. Len(SymbolList)
           /\ \A k \in 1 .. Len(SymbolList) : SymbolList[k] \in Symbols
           /\ \A s \in Symbols : \E k \in 1 .. Len(SymbolList) : SymbolList[k] = s
<1>1. SymbolList \in Seq(Symbols)
  BY DEF BacktestAssumption, Symbols
<1>2. Len(SymbolList) \in Nat /\ DOMAIN SymbolList = 1 .. Len(SymbolList)
  BY <1>1
<1>3. Symbols = {SymbolList[k] : k \in DOMAIN SymbolList}
  BY DEF Symbols, Range
<1> QED BY <1>1, <1>2, <1>3

\* The checks of a timestamp leave no position at or beyond its levels, and keep
\* what every check keeps.
LEMMA AllChecked ==
    ASSUME BacktestAssumption, NEW S, S \subseteq Sound, NEW e \in S,
           NEW market \in [Symbols -> Prices], NEW at \in Nat,
           \A x \in S, s \in Symbols, price \in Nat \ {0} : CheckStopTake(x, s, price, at) \in S
    PROVE  /\ CheckAll(e, market, at) \in S
           /\ \A s \in Symbols : CheckAll(e, market, at).open[s] # 0 =>
                Away(CheckAll(e, market, at).trades[CheckAll(e, market, at).open[s]], market[s])
<1> DEFINE n == Len(SymbolList)
           Do(k, x) == CheckStopTake(x, SymbolList[k], market[SymbolList[k]], at)
           IsRun(g) == g = [k \in 0 .. n |-> IF k = 0 THEN e ELSE Do(k, g[k - 1])]
           run == CHOOSE g : IsRun(g)
<1>1. /\ n \in Nat /\ \A k \in 1 .. n : SymbolList[k] \in Symbols
      /\ \A s \in Symbols : \E k \in 1 .. n : SymbolList[k] = s
  BY SymbolsListed
<1>2. \A s \in Symbols : market[s] \in Nat \ {0}
  <2>1. Prices \subseteq Nat \ {0}
    BY DEF BacktestAssumption
  <2> QED BY <2>1
<1>3. \A k \in 1 .. n, x \in S : Do(k, x) \in S
  <2> TAKE k \in 1 .. n, x \in S
  <2> DEFINE s == SymbolList[k]
  <2>1. s \in Symbols /\ market[s] \in Nat \ {0}
    BY <1>1, <1>2
  <2> HIDE DEF s
  <2>2. CheckStopTake(x, s, market[s], at) \in S
    BY <2>1
  <2> QED BY <2>2 DEF s
<1>4. CheckAll(e, market, at) = run[n]
  BY DEF CheckAll, InTurn
<1> HIDE DEF n
<1>5. \E g : IsRun(g)
  <2> DEFINE step == [kx \in (1 .. n) \X S |-> Do(kx[1], kx[2])]
  <2>1. step \in [(1 .. n) \X S -> S]
    <3> HIDE DEF Do
    <3> QED BY <1>3
  <2>2. \A k \in 1 .. n, x \in S : step[<<k, x>>] = Do(k, x)
    <3> HIDE DEF Do
    <3> QED OBVIOUS
  <2> HIDE DEF step, Do
  <2>3. PICK f \in [0 .. n -> S] : Follows(f, n, e, step)
    BY <1>1, <2>1, RecursionExists
  <2>4. \A k \in 0 .. n : f[k] = IF k = 0 THEN e ELSE Do(k, f[k - 1])
    <3> TAKE k \in 0 .. n
    <3>1. CASE k = 0
      BY <2>3, <3>1 DEF Follows
    <3>2. CASE k # 0
      <4>1. k \in 1 .. n /\ k - 1 \in 0 .. n
        BY <1>1, <3>2
      <4>2. f[k - 1] \in S
        BY <4>1
      <4> QED BY <2>2, <2>3, <3>2, <4>1, <4>2 DEF Follows
    <3> QED BY <3>1, <3>2
  <2>5. IsRun(f)
    BY <2>4
  <2> QED BY <2>5
<1>6. IsRun(run)
  <2> HIDE DEF IsRun
  <2> QED BY <1>5
<1>7. run[0] = e /\ \A k \in 1 .. n : run[k] = Do(k, run[k - 1])
  <2> HIDE DEF run, Do
  <2>1. \A k \in 0 .. n : run[k] = IF k = 0 THEN e ELSE Do(k, run[k - 1])
    BY <1>6
  <2>2. 0 \in 0 .. n /\ \A k \in 1 .. n : k \in 0 .. n /\ k # 0
    BY <1>1
  <2> QED BY <2>1, <2>2
<1> HIDE DEF run, IsRun
<1> DEFINE Clear(x, s) == x.open[s] # 0 => Away(x.trades[x.open[s]], market[s])
           P == {k \in 0 .. n : run[k] \in S /\ \A j \in 1 .. k : Clear(run[k], SymbolList[j])}
<1>8. \A k \in 0 .. n : k \in P
  <2>1. 0 \in P
    BY <1>1, <1>7
  <2>2. ASSUME NEW k \in 0 .. n - 1, k \in P PROVE k + 1 \in P
    <3> DEFINE m == k + 1
               s == SymbolList[m]
               x == run[k]
               y == run[m]
    <3>1. /\ m \in 1 .. n /\ m \in 0 .. n /\ m - 1 = k /\ s \in Symbols /\ x \in S
          /\ market[s] \in Nat \ {0} /\ \A j \in 1 .. k : Clear(x, SymbolList[j])
      <4>1. m \in 1 .. n /\ m \in 0 .. n /\ m - 1 = k
        BY <1>1
      <4>2. s \in Symbols
        BY <1>1, <4>1
      <4> QED BY <1>2, <2>2, <4>1, <4>2
    <3>2. y = CheckStopTake(x, s, market[s], at)
      BY <1>7, <3>1
    <3>3. \A j \in 1 .. m : SymbolList[j] \in Symbols /\ (j # m => j \in 1 .. k)
      BY <1>1, <3>1
    <3> HIDE DEF m, s, x, y, P
    <3>4. /\ y \in S
          /\ \A r \in Symbols \ {s} : SameFor(x, y, r)
          /\ y.open[s] # 0 => y = x /\ Away(x.trades[x.open[s]], market[s])
      BY <3>1, <3>2, CheckSound
    <3>5. ASSUME NEW j \in 1 .. m PROVE Clear(y, SymbolList[j])
      <4>1. CASE SymbolList[j] = s
        BY <3>4, <4>1
      <4>2. CASE SymbolList[j] # s
        <5>1. SymbolList[j] \in Symbols \ {s} /\ j \in 1 .. k
          BY <3>3, <4>2 DEF s
        <5>2. SameFor(x, y, SymbolList[j]) /\ Clear(x, SymbolList[j])
          BY <3>1, <3>4, <5>1
        <5> QED BY <5>2 DEF SameFor
      <4> QED BY <4>1, <4>2
    <3> HIDE DEF Clear
    <3>6. m \in P
      BY <3>1, <3>4, <3>5 DEF P, y
    <3> QED BY <3>6 DEF m
  <2> HIDE DEF P
  <2> QED BY <1>1, <2>1, <2>2, Upto
<1>9. n \in 0 .. n
  BY <1>1
<1>10. run[n] \in S /\ \A j \in 1 .. n : Clear(run[n], SymbolList[j])
  BY <1>8, <1>9
<1>11. \A s \in Symbols : Clear(run[n], s)
  <2> HIDE DEF Clear
  <2> QED BY <1>1, <1>10
<1> QED BY <1>4, <1>10, <1>11

\* Closing what is open when the data end keeps what every closing keeps.
LEMMA AllClosedSound ==
    ASSUME BacktestAssumption, NEW S, S \subseteq Sound, engine \in S,
           prices \in [Symbols -> Prices],
           \A x \in S, s \in Symbols, price \in Int :
              Closed(x, s, price, "END_OF_BACKTEST", 0) \in S
    PROVE  AllClosed \in S
<1> DEFINE n == Len(SymbolList)
           End(x, s) == IF x.open[s] = 0 THEN x
                        ELSE Closed(x, s, FinalPrice(s), "END_OF_BACKTEST", 0)
           Do(k, x) == End(x, SymbolList[k])
           IsRun(g) == g = [k \in 0 .. n |-> IF k = 0 THEN engine ELSE Do(k, g[k - 1])]
           run == CHOOSE g : IsRun(g)
           Fewer == {x \in S : \A s \in Symbols : engine.open[s] = 0 => x.open[s] = 0}
<1>1. n \in Nat /\ \A k \in 1 .. n : SymbolList[k] \in Symbols
  BY SymbolsListed
<1>2. \A s \in Symbols : engine.open[s] # 0 => FinalPrice(s) \in Int
  <2> TAKE s \in Symbols
  <2> HAVE engine.open[s] # 0
  <2>1. prices[s] \in Int
    <3>1. Prices \subseteq Int
      BY DEF BacktestAssumption
    <3> QED BY <3>1
  <2>2. engine.trades[engine.open[s]].entry \in Int
    <3>1. engine \in Sound
      OBVIOUS
    <3>2. engine.trades[engine.open[s]] \in PastTrade
      <4>1. engine.trades \in Seq(PastTrade) /\ engine.open[s] \in 1 .. Len(engine.trades)
        BY <3>1 DEF Sound, Engines, InOrder
      <4> QED BY <4>1, ElementOfSeq
    <3> QED BY <3>2 DEF PastTrade
  <2> QED BY <2>1, <2>2 DEF FinalPrice
<1>3. \A s \in Symbols, x \in Fewer : End(x, s) \in Fewer
  <2> TAKE s \in Symbols, x \in Fewer
  <2>1. CASE x.open[s] = 0
    BY <2>1
  <2>2. CASE x.open[s] # 0
    <3>1. FinalPrice(s) \in Int
      BY <1>2, <2>2
    <3> DEFINE y == Closed(x, s, FinalPrice(s), "END_OF_BACKTEST", 0)
    <3>2. y \in S /\ y.open[s] = 0 /\ \A r \in Symbols \ {s} : SameFor(x, y, r)
      <4>1. "END_OF_BACKTEST" \in Reasons /\ 0 \in Nat
        BY DEF Reasons
      <4> QED BY <3>1, <4>1, ClosedSound
    <3>3. End(x, s) = y
      BY <2>2
    <3> HIDE DEF y, End
    <3>4. y \in Fewer
      BY <3>2 DEF SameFor
    <3> QED BY <3>3, <3>4
  <2> QED BY <2>1, <2>2
<1>4. AllClosed = run[n]
  BY DEF AllClosed, InTurn
<1> HIDE DEF n, End
<1>5. engine \in Fewer
  OBVIOUS
<1> HIDE DEF Fewer
<1>6. \E g : IsRun(g)
  <2> DEFINE step == [kx \in (1 .. n) \X Fewer |-> Do(kx[1], kx[2])]
  <2>1. \A k \in 1 .. n, x \in Fewer : Do(k, x) \in Fewer
    BY <1>1, <1>3
  <2> HIDE DEF Do
  <2>2. step \in [(1 .. n) \X Fewer -> Fewer]
    BY <2>1
  <2>3. \A k \in 1 .. n, x \in Fewer : step[<<k, x>>] = Do(k, x)
    OBVIOUS
  <2> HIDE DEF step
  <2>4. PICK f \in [0 .. n -> Fewer] : Follows(f, n, engine, step)
    BY <1>1, <1>5, <2>2, RecursionExists
  <2>5. \A k \in 0 .. n : f[k] = IF k = 0 THEN engine ELSE Do(k, f[k - 1])
    <3> TAKE k \in 0 .. n
    <3>1. CASE k = 0
      BY <2>4, <3>1 DEF Follows
    <3>2. CASE k # 0
      <4>1. k \in 1 .. n /\ k - 1 \in 0 .. n
        BY <1>1, <3>2
      <4>2. f[k - 1] \in Fewer
        BY <4>1
      <4> QED BY <2>3, <2>4, <3>2, <4>1, <4>2 DEF Follows
    <3> QED BY <3>1, <3>2
  <2>6. IsRun(f)
    BY <2>5
  <2> QED BY <2>6
<1>7. IsRun(run)
  <2> HIDE DEF IsRun
  <2> QED BY <1>6
<1>8. run[0] = engine /\ \A k \in 1 .. n : run[k] = Do(k, run[k - 1])
  <2> HIDE DEF run, Do
  <2>1. \A k \in 0 .. n : run[k] = IF k = 0 THEN engine ELSE Do(k, run[k - 1])
    BY <1>7
  <2>2. 0 \in 0 .. n /\ \A k \in 1 .. n : k \in 0 .. n /\ k # 0
    BY <1>1
  <2> QED BY <2>1, <2>2
<1> HIDE DEF run, IsRun
<1> DEFINE P == {k \in 0 .. n : run[k] \in Fewer}
<1>9. \A k \in 0 .. n : k \in P
  <2>1. 0 \in P
    BY <1>1, <1>5, <1>8
  <2>2. ASSUME NEW k \in 0 .. n - 1, k \in P PROVE k + 1 \in P
    <3>1. k + 1 \in 1 .. n /\ k + 1 \in 0 .. n /\ (k + 1) - 1 = k
      BY <1>1
    <3>2. run[k + 1] = Do(k + 1, run[k])
      BY <1>8, <3>1
    <3>3. Do(k + 1, run[k]) \in Fewer
      BY <1>1, <1>3, <2>2, <3>1
    <3> QED BY <3>1, <3>2, <3>3
  <2> HIDE DEF P
  <2> QED BY <1>1, <2>1, <2>2, Upto
<1>10. n \in P
  BY <1>1, <1>9
<1> QED BY <1>4, <1>10 DEF Fewer

LEMMA AllClosedInOrder ==
    ASSUME BacktestAssumption, engine \in Sound, prices \in [Symbols -> Prices]
    PROVE  AllClosed \in Sound
<1>1. \A x \in Sound, s \in Symbols, price \in Int :
         Closed(x, s, price, "END_OF_BACKTEST", 0) \in Sound
  BY ClosedSound DEF Reasons
<1> QED BY <1>1, AllClosedSound

LEMMA MarginType == ASSUME NEW s, NEW d \in Int PROVE Margin(s, d) \in Int
<1> DEFINE cap == 10000 \div LeverageCap(s)
           usable == d - Buffer(s)
           least == Greater(usable, cap)
           r == IF least > 10000 THEN least ELSE Lesser((5 * least) \div 4, 10000)
<1>1. cap \in Int
  BY DEF LeverageCap
<1>2. usable \in Int
  BY DEF Buffer
<1> HIDE DEF cap, usable
<1>3. least \in Int
  BY <1>1, <1>2 DEF Greater
<1> HIDE DEF least
<1>4. (5 * least) \div 4 \in Int
  BY <1>3
<1>5. r \in Int
  BY <1>3, <1>4 DEF Lesser
<1> HIDE DEF r
<1>6. Greater(r, 10000 \div MaxLeverage) \in Int
  <2>1. 10000 \div MaxLeverage \in Int
    BY DEF MaxLeverage
  <2> QED BY <1>5, <2>1 DEF Greater
<1> QED BY <1>6 DEF Margin, r, least, usable, cap

\* What is asked of an entry that the strategies make.
Proper(setup) ==
    /\ setup.direction \in Directions /\ setup.entry \in Int /\ setup.size \in Int
    /\ setup.margin \in Int /\ setup.stop \in Int /\ setup.target \in Int /\ setup.risk \in Int
    /\ setup.direction = "LONG" => setup.target > 0
    /\ setup.direction = "SHORT" => setup.stop > 0

LEMMA WorkflowSetupProper ==
    ASSUME BacktestAssumption, engine.equity \in Int, NEW s \in Symbols, NEW price \in Prices,
           NEW a \in Analysis(price), EntrySetup(s, a, price).distance >= 50
    PROVE  Proper(EntrySetup(s, a, price))
<1> DEFINE setup == EntrySetup(s, a, price)
           direction == IF Trend(a) = "UPTREND" THEN "LONG" ELSE "SHORT"
           stop == IF direction = "LONG"
                   THEN Lesser((a.support * 99) \div 100, (price * 98) \div 100)
                   ELSE Greater((a.resistance * 101) \div 100, (price * 102) \div 100)
           target == IF direction = "LONG" THEN (a.resistance * 102) \div 100
                     ELSE (a.support * 98) \div 100
           gap == Magnitude(price - stop)
           distance == (gap * 10000) \div price
           notional == MaxPosition(engine.equity, gap, price)
<1>1. price \in Nat \ {0} /\ a.support \in Nat \ {0} /\ a.resistance \in Nat \ {0}
  <2>1. Prices \subseteq Nat \ {0} /\ Supports \subseteq Nat \ {0} /\ Resistances \subseteq Nat \ {0}
    BY DEF BacktestAssumption
  <2> QED BY <2>1 DEF Analysis
<1>2. setup = [direction |-> direction, entry |-> price, stop |-> stop, target |-> target,
               distance |-> distance, margin |-> Margin(s, distance),
               size |-> (notional * SizeScale) \div price, risk |-> engine.equity \div 100]
  BY DEF EntrySetup
<1>3. direction \in Directions
  BY DEF Directions
<1>4. /\ (price * 98) \div 100 \in Int /\ (price * 102) \div 100 \in Int
      /\ (a.support * 99) \div 100 \in Int /\ (a.support * 98) \div 100 \in Int
      /\ (a.resistance * 101) \div 100 \in Int /\ (a.resistance * 102) \div 100 \in Int
      /\ (price * 102) \div 100 > 0 /\ (a.resistance * 102) \div 100 > 0
  BY <1>1
<1>5. /\ stop \in Int /\ target \in Int
      /\ direction = "LONG" => target > 0
      /\ direction = "SHORT" => stop > 0
  BY <1>4 DEF Lesser, Greater
<1> HIDE DEF stop, target, direction
<1>6. gap \in Nat /\ (gap * 10000) \div price >= 50
  <2>1. gap \in Nat
    BY <1>1, <1>5 DEF Magnitude
  <2> QED BY <1>2, <2>1
<1> HIDE DEF gap
<1>7. distance \in Int /\ gap # 0
  BY <1>1, <1>6
<1> HIDE DEF distance
<1>8. notional \in Int
  <2>1. engine.equity * price \in Int /\ 100 * gap \in Nat \ {0}
    BY <1>1, <1>6, <1>7, IntegerProducts
  <2>2. RiskOverDistance(engine.equity, gap, price) \in Int
    BY <2>1, DivFacts DEF RiskOverDistance
  <2> QED BY <2>2 DEF MaxPosition, Lesser
<1> HIDE DEF notional
<1>9. (notional * SizeScale) \div price \in Int
  <2>1. notional * SizeScale \in Int
    BY <1>8 DEF SizeScale
  <2> QED BY <1>1, <2>1
<1>10. Margin(s, distance) \in Int
  BY <1>7, MarginType
<1>11. price \in Int /\ engine.equity \div 100 \in Int
  BY <1>1
<1> HIDE DEF setup
<1> QED BY <1>2, <1>3, <1>5, <1>9, <1>10, <1>11 DEF Proper, setup

LEMMA ProfileSetupProper ==
    ASSUME BacktestAssumption, NEW equity \in Int, NEW d \in Directions, NEW price \in Prices,
           NEW atr \in ATRs
    PROVE  Proper(ProfileSetup(equity, d, price, atr))
<1> DEFINE setup == ProfileSetup(equity, d, price, atr)
           gap == StopGap(price, atr)
           stop == price - Toward(d) * gap
<1>1. price \in Nat \ {0} /\ atr \in Nat
  BY DEF BacktestAssumption
<1>2. gap > 0
  BY DEF BacktestAssumption
<1>3. gap \in Nat
  BY <1>1 DEF StopGap
<1> HIDE DEF gap
<1>4. RiskOverDistance(equity, gap, price) \in Int
  <2>1. equity * price \in Int /\ 100 * gap \in Nat \ {0}
    BY <1>1, <1>2, <1>3, IntegerProducts
  <2> QED BY <2>1, DivFacts DEF RiskOverDistance
<1>5. setup = [direction |-> d, entry |-> price, stop |-> stop,
               target |-> price + Toward(d) * 2 * gap, margin |-> 1000,
               size |-> RiskOverDistance(equity, gap, price) * SizeScale,
               risk |-> equity \div 100]
  BY DEF ProfileSetup, gap
<1>6. /\ stop \in Int /\ price + Toward(d) * 2 * gap \in Int
      /\ d = "LONG" => price + Toward(d) * 2 * gap > 0
      /\ d = "SHORT" => stop > 0
  <2>1. CASE d = "LONG"
    <3>1. Toward(d) = 1
      BY <2>1 DEF Toward
    <3>2. 1 * gap = gap /\ 1 * 2 * gap = 2 * gap
      BY <1>3
    <3> QED BY <1>1, <1>3, <2>1, <3>1, <3>2
  <2>2. CASE d = "SHORT"
    <3>1. Toward(d) = -1
      BY <2>2 DEF Toward
    <3>2. -1 * gap = -gap /\ -1 * 2 * gap = -(2 * gap)
      BY <1>3
    <3> QED BY <1>1, <1>3, <2>2, <3>1, <3>2
  <2> QED BY <2>1, <2>2 DEF Directions
<1> HIDE DEF stop
<1>7. RiskOverDistance(equity, gap, price) * SizeScale \in Int
  BY <1>4 DEF SizeScale
<1>8. price \in Int /\ equity \div 100 \in Int /\ 1000 \in Int
  BY <1>1
<1> HIDE DEF setup
<1> QED BY <1>5, <1>6, <1>7, <1>8 DEF Proper, setup

\* The positions that were open before this timestamp stand inside their levels,
\* for every symbol that has been checked since the timestamp began.
CheckedAreAway ==
    \A s \in Symbols :
        (runner = "workflow" \/ s \notin Range(todo)) /\ engine.open[s] # 0
            /\ engine.trades[engine.open[s]].bar < bar
        => Away(engine.trades[engine.open[s]], prices[s])

\* What every step keeps.
BacktestInv ==
    /\ engine \in Sound
    /\ bar \in Nat /\ todo \in Seq(Symbols) /\ (todo # <<>> => bar > 0)
    /\ bar = 0 /\ report = NoReport => engine = FreshEngine
    /\ prices \in [Symbols -> Prices \union {0}]
    /\ previous \in [Symbols -> Prices \union {0}]
    /\ bar > 0 => prices \in [Symbols -> Prices]
    /\ report = NoReport => CheckedAreAway
    /\ report # NoReport => todo = <<>>

\* A turn that closes the symbol's position, or keeps it or opens one, disturbs
\* none of it if the symbol has been checked.
LEMMA KeptAreAway ==
    ASSUME CheckedAreAway, Kept(engine, engine'), NEW h \in Symbols, todo # <<>>,
           todo \in Seq(Symbols), h = Head(todo), todo' = Tail(todo),
           bar \in Nat, engine \in Sound, engine' \in Sound,
           UNCHANGED <<bar, runner, prices>>,
           runner = "workflow" \/ (engine'.open[h] # 0 /\ engine'.trades[engine'.open[h]].bar < bar
                                     => Away(engine'.trades[engine'.open[h]], prices[h]))
    PROVE  CheckedAreAway'
<1> DEFINE x == engine'
<1>1. SUFFICES ASSUME NEW s \in Symbols, runner = "workflow" \/ s \notin Range(Tail(todo)),
                      x.open[s] # 0, x.trades[x.open[s]].bar < bar
               PROVE  Away(x.trades[x.open[s]], prices[s])
  BY DEF CheckedAreAway
<1>2. s \in Range(todo) => s = h \/ s \in Range(Tail(todo))
  <2>1. ASSUME NEW i \in DOMAIN todo, s = todo[i], i # 1 PROVE s \in Range(Tail(todo))
    <3>1. i - 1 \in DOMAIN Tail(todo) /\ Tail(todo)[i - 1] = todo[i]
      BY <2>1
    <3> QED BY <2>1, <3>1 DEF Range
  <2> QED BY <2>1 DEF Range
<1>3. x.trades[x.open[s]].bar # bar
  <2>1. x.open[s] \in 1 .. Len(x.trades) /\ x.trades \in Seq(PastTrade)
    BY <1>1 DEF Sound, Engines, InOrder
  <2>2. x.trades[x.open[s]] \in PastTrade
    BY <2>1
  <2>3. x.trades[x.open[s]].bar \in Nat
    BY <2>2 DEF PastTrade
  <2> QED BY <1>1, <2>3
<1>4. engine.open[s] # 0 /\ x.trades[x.open[s]] = engine.trades[engine.open[s]]
  BY <1>1, <1>3 DEF Kept
<1>5. CASE runner = "workflow" \/ s \notin Range(todo)
  BY <1>1, <1>4, <1>5 DEF CheckedAreAway
<1>6. CASE runner # "workflow" /\ s \in Range(todo)
  <2>1. s = h
    BY <1>1, <1>2, <1>6
  <2> QED BY <1>1, <1>6, <2>1
<1> QED BY <1>5, <1>6

LEMMA HeadOfTodo ==
    ASSUME todo \in Seq(Symbols), todo # <<>>
    PROVE  Head(todo) \in Symbols /\ Tail(todo) \in Seq(Symbols)
OBVIOUS

LEMMA TradesDated ==
    ASSUME NEW x \in Sound, NEW s \in Symbols, x.open[s] # 0
    PROVE  /\ x.open[s] \in 1 .. Len(x.trades) /\ x.trades[x.open[s]] \in PastTrade
           /\ x.trades[x.open[s]].bar \in Nat
<1>1. x.open[s] \in 1 .. Len(x.trades) /\ x.trades \in Seq(PastTrade)
  BY DEF Sound, Engines, InOrder
<1>2. x.trades[x.open[s]] \in PastTrade
  BY <1>1
<1> QED BY <1>1, <1>2 DEF PastTrade

\* An engine that leaves the other symbols alone keeps what is held, if it has
\* nothing for the symbol, the same as before, or a trade of this timestamp.
LEMMA KeptByOne ==
    ASSUME NEW e \in Sound, NEW x \in Sound, NEW s \in Symbols,
           \A r \in Symbols \ {s} : SameFor(e, x, r),
           \/ x.open[s] = 0
           \/ e.open[s] # 0 /\ x.trades[x.open[s]] = e.trades[e.open[s]]
           \/ x.trades[x.open[s]].bar = bar
    PROVE  Kept(e, x)
<1> SUFFICES ASSUME NEW r \in Symbols, x.open[r] # 0
             PROVE  \/ e.open[r] # 0 /\ x.trades[x.open[r]] = e.trades[e.open[r]]
                    \/ x.trades[x.open[r]].bar = bar
  BY DEF Kept
<1>1. CASE r = s
  BY <1>1
<1>2. CASE r # s
  BY <1>2 DEF SameFor
<1> QED BY <1>1, <1>2

LEMMA ManageSound ==
    ASSUME BacktestAssumption, bar \in Nat, NEW e \in Sound, NEW s \in Symbols, e.open[s] # 0,
           NEW a, NEW price \in Nat \ {0}
    PROVE  Manage(e, s, a, price) \in Sound /\ Kept(e, Manage(e, s, a, price))
<1> DEFINE checked == CheckStopTake(e, s, price, bar)
           x == Closed(checked, s, price, "SIGNAL", bar)
<1>1. /\ checked \in Sound /\ \A r \in Symbols \ {s} : SameFor(e, checked, r)
      /\ checked.open[s] # 0 => checked = e
  BY CheckSound
<1>2. Manage(e, s, a, price) = x \/ Manage(e, s, a, price) = checked
  BY DEF Manage
<1> HIDE DEF checked
<1>3. /\ x \in Sound /\ x.open[s] = 0 /\ \A r \in Symbols \ {s} : SameFor(checked, x, r)
  <2>1. "SIGNAL" \in Reasons
    BY DEF Reasons
  <2> QED BY <1>1, <2>1, ClosedSound
<1> HIDE DEF x
<1>4. Kept(e, checked)
  BY <1>1, KeptByOne
<1>5. \A r \in Symbols \ {s} : SameFor(e, x, r)
  BY <1>1, <1>3 DEF SameFor
<1>6. Kept(e, x)
  BY <1>3, <1>5, KeptByOne
<1> QED BY <1>1, <1>2, <1>3, <1>4, <1>6

LEMMA OpeningKeeps ==
    ASSUME BacktestAssumption, bar \in Nat, NEW e \in Sound, NEW s \in Symbols, e.open[s] = 0,
           NEW setup, Proper(setup)
    PROVE  /\ Opened(e, s, setup) \in Sound /\ Kept(e, Opened(e, s, setup))
           /\ Opened(e, s, setup).trades[Opened(e, s, setup).open[s]].bar = bar
<1> DEFINE x == Opened(e, s, setup)
<1>1. /\ x \in Sound /\ \A r \in Symbols \ {s} : SameFor(e, x, r)
      /\ x.trades[x.open[s]].bar = bar
  BY OpenedSound DEF Proper
<1> HIDE DEF x
<1>2. Kept(e, x)
  BY <1>1, KeptByOne
<1> QED BY <1>1, <1>2 DEF x

LEMMA ExecuteKeeps ==
    ASSUME BacktestAssumption, BacktestInv, todo # <<>>, Execute(Head(todo))
    PROVE  engine' \in Sound /\ Kept(engine, engine')
<1> DEFINE s == Head(todo)
           price == prices[s]
<1>1. s \in Symbols /\ engine \in Sound /\ bar \in Nat /\ price \in Prices
  BY HeadOfTodo DEF BacktestInv
<1>2. price \in Nat \ {0} /\ engine.equity \in Int
  <2>1. Prices \subseteq Nat \ {0}
    BY DEF BacktestAssumption
  <2> QED BY <1>1, <2>1 DEF Sound, Engines
<1>3. PICK a \in Analysis(price) : \E regime, vsBtc :
          \/ engine.open[s] # 0 /\ engine' = Manage(engine, s, a, price)
          \/ /\ engine.open[s] = 0 /\ Enters(s, a, price, regime, vsBtc)
             /\ engine' = Opened(engine, s, EntrySetup(s, a, price))
          \/ engine' = engine
  BY DEF Execute
<1> HIDE DEF s, price
<1>4. CASE engine.open[s] # 0 /\ engine' = Manage(engine, s, a, price)
  BY <1>1, <1>2, <1>4, ManageSound
<1>5. CASE /\ engine.open[s] = 0 /\ \E regime, vsBtc : Enters(s, a, price, regime, vsBtc)
           /\ engine' = Opened(engine, s, EntrySetup(s, a, price))
  <2>1. EntrySetup(s, a, price).distance >= 50
    BY <1>5 DEF Enters
  <2>2. Proper(EntrySetup(s, a, price))
    BY <1>1, <1>2, <2>1, WorkflowSetupProper
  <2> QED BY <1>1, <1>5, <2>2, OpeningKeeps
<1>6. CASE engine' = engine
  BY <1>1, <1>6 DEF Kept
<1> QED BY <1>3, <1>4, <1>5, <1>6

LEMMA WorkflowTurnKeeps ==
    ASSUME BacktestAssumption, BacktestInv, WorkflowTurn
    PROVE  BacktestInv'
<1>1. /\ runner = "workflow" /\ todo # <<>> /\ todo' = Tail(todo)
      /\ UNCHANGED <<runner, bar, prices, previous, snapshots, report>>
  BY DEF WorkflowTurn
<1>2. engine' \in Sound /\ Kept(engine, engine')
  <2>1. CASE Execute(Head(todo))
    BY <1>1, <2>1, ExecuteKeeps
  <2>2. CASE UNCHANGED <<engine, macro, strength>>
    BY <2>2 DEF BacktestInv, Kept
  <2> QED BY <2>1, <2>2 DEF WorkflowTurn
<1>3. Head(todo) \in Symbols /\ Tail(todo) \in Seq(Symbols)
  BY <1>1, HeadOfTodo DEF BacktestInv
<1>4. report = NoReport /\ CheckedAreAway
  BY <1>1 DEF BacktestInv
<1>5. CheckedAreAway'
  BY <1>1, <1>2, <1>3, <1>4, KeptAreAway DEF BacktestInv
<1> QED BY <1>1, <1>2, <1>3, <1>4, <1>5 DEF BacktestInv

LEMMA ProfileTurnKeeps ==
    ASSUME BacktestAssumption, BacktestInv, ProfileTurn
    PROVE  BacktestInv'
<1> DEFINE s == Head(todo)
           checked == CheckStopTake(engine, s, prices[s], bar)
<1>1. /\ runner = "profile" /\ todo # <<>> /\ todo' = Tail(todo)
      /\ UNCHANGED <<runner, bar, prices, previous, snapshots, report>>
  BY DEF ProfileTurn
<1>2. s \in Symbols /\ Tail(todo) \in Seq(Symbols) /\ engine \in Sound /\ bar \in Nat
  BY <1>1, HeadOfTodo DEF BacktestInv
<1>3. prices[s] \in Nat \ {0}
  <2>1. Prices \subseteq Nat \ {0}
    BY DEF BacktestAssumption
  <2>2. prices[s] \in Prices
    BY <1>1, <1>2 DEF BacktestInv
  <2> QED BY <2>1, <2>2
<1>4. \/ engine' = checked
      \/ \E d \in Directions, atr \in ATRs :
            /\ checked.open[s] = 0 /\ previous[s] > 0
            /\ engine' = Opened(checked, s, ProfileSetup(checked.equity, d, previous[s], atr))
  BY DEF ProfileTurn
<1> HIDE DEF s
<1>5. /\ checked \in Sound /\ \A r \in Symbols \ {s} : SameFor(engine, checked, r)
      /\ checked.open[s] # 0 => /\ checked = engine
                                /\ Away(engine.trades[engine.open[s]], prices[s])
  BY <1>2, <1>3, CheckSound
<1> HIDE DEF checked
<1>6. Kept(engine, checked)
  BY <1>2, <1>5, KeptByOne
<1>7. /\ engine' \in Sound /\ Kept(engine, engine')
      /\ engine'.open[s] # 0 /\ engine'.trades[engine'.open[s]].bar < bar
            => Away(engine'.trades[engine'.open[s]], prices[s])
  <2>1. CASE engine' = checked
    BY <1>5, <1>6, <2>1
  <2>2. CASE \E d \in Directions, atr \in ATRs :
            /\ checked.open[s] = 0 /\ previous[s] > 0
            /\ engine' = Opened(checked, s, ProfileSetup(checked.equity, d, previous[s], atr))
    <3>1. PICK d \in Directions, atr \in ATRs :
            /\ checked.open[s] = 0 /\ previous[s] > 0
            /\ engine' = Opened(checked, s, ProfileSetup(checked.equity, d, previous[s], atr))
      BY <2>2
    <3>2. previous[s] \in Prices /\ checked.equity \in Int
      BY <1>2, <1>5, <3>1 DEF BacktestInv, Sound, Engines
    <3>3. Proper(ProfileSetup(checked.equity, d, previous[s], atr))
      BY <3>2, ProfileSetupProper
    <3>4. engine' \in Sound /\ Kept(checked, engine') /\ engine'.trades[engine'.open[s]].bar = bar
      BY <1>2, <1>5, <3>1, <3>3, OpeningKeeps
    <3>5. Kept(engine, engine')
      <4> SUFFICES ASSUME NEW r \in Symbols, engine'.open[r] # 0,
                          engine'.trades[engine'.open[r]].bar # bar
                   PROVE  /\ engine.open[r] # 0
                          /\ engine'.trades[engine'.open[r]] = engine.trades[engine.open[r]]
        BY DEF Kept
      <4>1. checked.open[r] # 0 /\ engine'.trades[engine'.open[r]] = checked.trades[checked.open[r]]
        BY <3>4 DEF Kept
      <4>2. checked.trades[checked.open[r]].bar # bar
        BY <4>1
      <4> QED BY <1>6, <4>1, <4>2 DEF Kept
    <3>6. ~(bar < bar)
      BY <1>2
    <3> QED BY <3>4, <3>5, <3>6
  <2> QED BY <1>4, <2>1, <2>2
<1>8. report = NoReport /\ CheckedAreAway
  BY <1>1 DEF BacktestInv
<1>9. CheckedAreAway'
  BY <1>1, <1>2, <1>7, <1>8, KeptAreAway DEF BacktestInv, s
<1> QED BY <1>1, <1>2, <1>7, <1>8, <1>9 DEF BacktestInv

LEMMA NextBarKeeps ==
    ASSUME BacktestAssumption, BacktestInv, NextBar
    PROVE  BacktestInv'
<1>1. /\ todo = <<>> /\ report = NoReport /\ bar' = bar + 1 /\ todo' = SymbolList
      /\ previous' = prices /\ prices' \in [Symbols -> Prices] /\ UNCHANGED <<runner, report>>
  BY DEF NextBar, MoreBars
<1>2. /\ bar' \in Nat /\ bar' > 0 /\ todo' \in Seq(Symbols)
      /\ previous' \in [Symbols -> Prices \union {0}] /\ prices' \in [Symbols -> Prices \union {0}]
  BY <1>1, SymbolsListed DEF BacktestInv
<1>3. CASE runner = "workflow"
  <2>1. engine' = CheckAll(engine, prices', bar')
    BY <1>3 DEF NextBar
  <2>2. /\ engine' \in Sound
        /\ \A s \in Symbols : engine'.open[s] # 0 =>
              Away(engine'.trades[engine'.open[s]], prices'[s])
    <3> DEFINE market == prices'
               at == bar'
               e == engine
    <3>1. market \in [Symbols -> Prices] /\ at \in Nat /\ e \in Sound
      BY <1>1, <1>2 DEF BacktestInv
    <3>2. engine' = CheckAll(e, market, at)
      BY <2>1
    <3> HIDE DEF market, at, e
    <3>3. /\ engine' \in Sound
          /\ \A s \in Symbols : engine'.open[s] # 0 =>
                Away(engine'.trades[engine'.open[s]], market[s])
      <4>1. \A x \in Sound, s \in Symbols, price \in Nat \ {0} :
               CheckStopTake(x, s, price, at) \in Sound
        BY <3>1, CheckSound
      <4> QED BY <3>1, <3>2, <4>1, AllChecked
    <3> QED BY <3>3 DEF market
  <2>3. CheckedAreAway'
    BY <2>2 DEF CheckedAreAway
  <2> QED BY <1>1, <1>2, <2>2, <2>3 DEF BacktestInv
<1>4. CASE runner # "workflow"
  <2>1. engine' = engine
    BY <1>4 DEF NextBar
  <2>2. CheckedAreAway'
    <3>1. Range(SymbolList) = Symbols
      BY DEF Symbols
    <3> QED BY <1>1, <1>4, <3>1 DEF CheckedAreAway
  <2> QED BY <1>1, <1>2, <2>1, <2>2 DEF BacktestInv
<1> QED BY <1>3, <1>4

LEMMA GetResultsKeeps ==
    ASSUME BacktestAssumption, BacktestInv, GetResults
    PROVE  BacktestInv'
<1>1. /\ todo = <<>> /\ bar > 0 /\ engine' = AllClosed
      /\ report' = IF recording THEN Metrics(AllClosed.trades, snapshots) ELSE Raised
      /\ UNCHANGED <<runner, bar, todo, prices, previous, macro, strength, snapshots>>
  BY DEF GetResults
<1>2. AllClosed \in Sound
  BY <1>1, AllClosedInOrder DEF BacktestInv
<1>3. report' # NoReport
  <2>1. Metrics(AllClosed.trades, snapshots).total \in Nat
    <3>1. AllClosed.trades \in Seq(PastTrade)
      BY <1>2 DEF Sound, Engines
    <3>2. Len(AllClosed.trades) \in Nat
      BY <3>1
    <3> HIDE DEF AllClosed
    <3> QED BY <3>2 DEF Metrics
  <2>2. NoReport.total = -1 /\ Raised.total = -2
    BY DEF NoReport, Raised
  <2> QED BY <1>1, <2>1, <2>2
<1> QED BY <1>1, <1>2, <1>3 DEF BacktestInv

LEMMA BacktestInitially == ASSUME BacktestAssumption, BacktestInit PROVE BacktestInv
<1>1. engine = [equity |-> InitialEquity, trades |-> <<>>, open |-> [s \in Symbols |-> 0]]
  BY DEF BacktestInit, FreshEngine
<1>2. InitialEquity \in Int
  BY DEF BacktestAssumption
<1>3. engine \in Engines
  BY <1>1, <1>2 DEF Engines
<1>4. Booked(<<>>) = 0
  <2>1. DOMAIN (<<>>) = {}
    OBVIOUS
  <2> QED BY <2>1, SumOfNothing DEF Booked
<1>5. InOrder(engine)
  BY <1>1, <1>2, <1>4 DEF InOrder
<1>6. /\ bar = 0 /\ todo = <<>> /\ prices = [s \in Symbols |-> 0] /\ previous = prices
      /\ report = NoReport
  BY DEF BacktestInit
<1>7. CheckedAreAway
  BY <1>1 DEF CheckedAreAway
<1> QED BY <1>1, <1>3, <1>5, <1>6, <1>7 DEF BacktestInv, Sound, FreshEngine

LEMMA BacktestStepKeeps ==
    ASSUME BacktestAssumption, BacktestInv, [BacktestNext]_backtestVars
    PROVE  BacktestInv'
<1>1. CASE NextBar
  BY <1>1, NextBarKeeps
<1>2. CASE WorkflowTurn
  BY <1>2, WorkflowTurnKeeps
<1>3. CASE ProfileTurn
  BY <1>3, ProfileTurnKeeps
<1>4. CASE GetResults
  BY <1>4, GetResultsKeeps
<1>5. CASE Reset
  <2>1. /\ engine' = engine
        /\ UNCHANGED <<runner, bar, todo, prices, previous, report>>
    BY <1>5 DEF Reset, BacktestInv
  <2> QED BY <2>1 DEF BacktestInv, CheckedAreAway
<1>6. CASE SnapshotRaises
  <2>1. Raised # NoReport
    <3>1. Raised.total = -2 /\ NoReport.total = -1
      BY DEF Raised, NoReport
    <3> QED BY <3>1
  <2>2. todo = <<>> /\ report' # NoReport /\ UNCHANGED <<engine, runner, bar, todo, prices, previous>>
    BY <1>6, <2>1 DEF SnapshotRaises, MoreBars
  <2> QED BY <2>2 DEF BacktestInv
<1>7. CASE UNCHANGED backtestVars
  BY <1>7 DEF backtestVars, BacktestInv, CheckedAreAway
<1> QED BY <1>1, <1>2, <1>3, <1>4, <1>5, <1>6, <1>7 DEF BacktestNext

\* For any symbols, prices, ranges and strategies, however stops, liquidations,
\* signal exits and the final closing of BacktestEngine follow one another: the
\* equity is the initial one plus what the closed trades booked, and the book of
\* open positions holds exactly the trades still open, one per symbol.
THEOREM BooksMatchTradesHolds == BacktestSpec => []BooksMatchTrades
<1>1. BacktestInit => BacktestInv
  BY BacktestInitially, BacktestAssumption
<1>2. BacktestInv /\ [BacktestNext]_backtestVars => BacktestInv'
  BY BacktestStepKeeps, BacktestAssumption
<1>3. BacktestInv => BooksMatchTrades
  <2> SUFFICES ASSUME BacktestInv PROVE BooksMatchTrades
    OBVIOUS
  <2>1. engine.trades \in Seq(PastTrade) /\ InOrder(engine)
    BY DEF BacktestInv, Sound, Engines
  <2>2. DOMAIN engine.trades = 1 .. Len(engine.trades)
    BY <2>1
  <2> QED BY <2>1, <2>2 DEF InOrder, BooksMatchTrades, Booked
<1> QED BY <1>1, <1>2, <1>3, PTL DEF BacktestSpec

\* Once every symbol had its turn in MultiCoinBacktester.run, no position opened
\* before this bar stands at or beyond its stop or its target, in whatever order
\* entries and signal exits of other symbols fell in between.
THEOREM NothingOverstaysHolds == BacktestSpec => []NothingOverstays
<1>1. BacktestInit => BacktestInv
  BY BacktestInitially, BacktestAssumption
<1>2. BacktestInv /\ [BacktestNext]_backtestVars => BacktestInv'
  BY BacktestStepKeeps, BacktestAssumption
<1>3. BacktestInv => NothingOverstays
  <2> SUFFICES ASSUME BacktestInv, todo = <<>>, report = NoReport, NEW s \in Symbols,
                      engine.open[s] # 0, engine.trades[engine.open[s]].bar < bar
               PROVE  Away(engine.trades[engine.open[s]], prices[s])
    BY DEF NothingOverstays, Away
  <2>1. s \notin Range(todo)
    BY DEF Range
  <2> QED BY <2>1 DEF BacktestInv, CheckedAreAway
<1> QED BY <1>1, <1>2, <1>3, PTL DEF BacktestSpec

-----------------------------------------------------------------------------
(* The drawdown.                                                           *)

Falls == [peak : Int, worst : Int]

LEMMA DeeperType ==
    ASSUME NEW f \in Falls, NEW q \in Int
    PROVE  /\ Deeper(f, q) \in Falls
           /\ Deeper(f, q).peak >= f.peak /\ Deeper(f, q).worst >= f.worst
           /\ Deeper(f, q).peak > 0 =>
                Deeper(f, q).worst >= ((Deeper(f, q).peak - q) * 100) \div Deeper(f, q).peak
<1> DEFINE peak == Greater(f.peak, q)
           depth == ((peak - q) * 100) \div peak
           worst == IF peak <= 0 THEN f.worst ELSE Greater(f.worst, depth)
<1>1. f.peak \in Int /\ f.worst \in Int
  BY DEF Falls
<1>2. peak \in Int /\ peak >= f.peak
  BY <1>1 DEF Greater
<1>3. Deeper(f, q) = [peak |-> peak, worst |-> worst]
  BY DEF Deeper
<1> HIDE DEF peak
<1>4. peak > 0 => depth \in Int
  BY <1>2, DivFacts
<1> HIDE DEF depth
<1>5. worst \in Int /\ worst >= f.worst /\ (peak > 0 => worst >= depth)
  BY <1>1, <1>2, <1>4 DEF Greater
<1> HIDE DEF worst
<1> QED BY <1>1, <1>2, <1>3, <1>5 DEF Falls, depth

\* A fall from a higher peak is no shallower.
LEMMA HigherPeakFallsFurther ==
    ASSUME NEW i \in Nat \ {0}, NEW p \in Int, i <= p, NEW q \in Nat
    PROVE  ((i - q) * 100) \div i <= ((p - q) * 100) \div p
<1> DEFINE c == ((i - q) * 100) \div i
           d == ((p - q) * 100) \div p
<1>1. p \in Nat \ {0} /\ (i - q) * 100 \in Int /\ (p - q) * 100 \in Int
  OBVIOUS
<1>2. c \in Int /\ i * c <= (i - q) * 100
  BY <1>1, DivFacts
<1>3. d \in Int /\ (p - q) * 100 < p * d + p
  BY <1>1, DivFacts
<1> HIDE DEF c, d
<1>4. i * c <= i * 100
  BY <1>2
<1>5. c <= 100
  BY <1>2, <1>4, MulCancel
<1> DEFINE r == 100 - c
<1>6. r \in Nat /\ i * r = i * 100 - i * c /\ p * r = p * 100 - p * c
  BY <1>1, <1>2, <1>5
<1>7. i * r >= 100 * q
  <2>1. i * c \in Int
    BY <1>2
  <2> QED BY <1>2, <1>6, <2>1
<1>8. i * r <= p * r
  BY <1>1, <1>6, MulMonotone
<1>9. p * c <= (p - q) * 100
  <2>1. p * c \in Int /\ i * r \in Int /\ p * r \in Int
    BY <1>1, <1>2, <1>6
  <2> QED BY <1>1, <1>6, <1>7, <1>8, <2>1
<1>10. p * c < p * (d + 1)
  <2>1. p * c \in Int /\ p * d \in Int /\ p * (d + 1) = p * d + p
    BY <1>1, <1>2, <1>3
  <2> QED BY <1>1, <1>3, <1>9, <2>1
<1>11. c < d + 1
  <2> SUFFICES ASSUME d + 1 <= c PROVE FALSE
    BY <1>2, <1>3
  <2>1. p * (d + 1) <= p * c
    BY <1>1, <1>2, <1>3, MulMonotone
  <2>2. p * (d + 1) \in Int /\ p * c \in Int
    BY <1>1, <1>2, <1>3
  <2> QED BY <1>10, <2>1, <2>2
<1> QED BY <1>2, <1>3, <1>11 DEF c, d

\* What the first trades booked.
LEMMA BookedUpTo ==
    ASSUME NEW tr \in Seq(PastTrade), NEW k \in 1 .. Len(tr)
    PROVE  LET pnl == [i \in DOMAIN tr |-> tr[i].pnl] IN
           /\ SumFunctionOnSet(pnl, 1 .. k) = SumFunctionOnSet(pnl, 1 .. k - 1) + tr[k].pnl
           /\ SumFunctionOnSet(pnl, 1 .. k - 1) \in Int /\ tr[k].pnl \in Int
<1> DEFINE pnl == [i \in DOMAIN tr |-> tr[i].pnl]
           S == 1 .. k
           T == 1 .. k - 1
<1>1. DOMAIN tr = 1 .. Len(tr) /\ Len(tr) \in Nat /\ k \in Nat \ {0}
  OBVIOUS
<1>2. \A i \in S : i \in DOMAIN tr /\ pnl[i] = tr[i].pnl /\ tr[i] \in PastTrade
  BY <1>1
<1>3. \A i \in S : pnl[i] \in Int
  BY <1>2 DEF PastTrade
<1>4. S \ {k} = T /\ k \in S /\ \A i \in T : i \in S
  BY <1>1
<1>5. IsFiniteSet(S) /\ IsFiniteSet(T)
  BY <1>1, FS_Interval
<1>6. pnl[k] = tr[k].pnl
  BY <1>2, <1>4
<1> HIDE DEF S, T, pnl
<1>7. SumFunctionOnSet(pnl, S) = pnl[k] + SumFunctionOnSet(pnl, S \ {k})
  BY <1>3, <1>4, <1>5, SumRemove
<1>8. SumFunctionOnSet(pnl, T) \in Int
  BY <1>3, <1>4, <1>5, SumType
<1>9. /\ SumFunctionOnSet(pnl, S) = SumFunctionOnSet(pnl, T) + tr[k].pnl
      /\ SumFunctionOnSet(pnl, T) \in Int /\ tr[k].pnl \in Int
  <2>1. SumFunctionOnSet(pnl, S) = pnl[k] + SumFunctionOnSet(pnl, T)
    BY <1>4, <1>7
  <2>2. pnl[k] \in Int
    BY <1>3, <1>4
  <2> QED BY <1>6, <1>8, <2>1, <2>2
<1> QED BY <1>9 DEF S, T, pnl

\* The fall over the closed trades: it counts from the equity of the beginning,
\* and the last trade is in it.
LEMMA RealisedFallCovers ==
    ASSUME BacktestAssumption, NEW tr \in Seq(PastTrade)
    PROVE  /\ RealisedFall(tr) \in Falls /\ RealisedFall(tr).peak >= InitialEquity
           /\ tr # <<>> =>
                RealisedFall(tr).worst >=
                    ((RealisedFall(tr).peak - (InitialEquity + Booked(tr))) * 100)
                        \div RealisedFall(tr).peak
<1> DEFINE n == Len(tr)
           pnl == [i \in DOMAIN tr |-> tr[i].pnl]
           IsAfter(g) == g = [k \in 0 .. n |-> IF k = 0 THEN InitialEquity ELSE g[k - 1] + tr[k].pnl]
           after == CHOOSE g : IsAfter(g)
           Start == [peak |-> InitialEquity, worst |-> 0]
           IsFall(g) == g = [k \in 0 .. n |-> IF k = 0 THEN Start ELSE Deeper(g[k - 1], after[k])]
           fall == CHOOSE g : IsFall(g)
<1>1. n \in Nat /\ InitialEquity \in Int /\ InitialEquity > 0 /\ DOMAIN tr = 1 .. n
  BY DEF BacktestAssumption
<1>2. RealisedFall(tr) = fall[n]
  BY DEF RealisedFall
<1>3. Booked(tr) = SumFunctionOnSet(pnl, 1 .. n)
  BY <1>1 DEF Booked
<1>4. \A k \in 1 .. n : /\ SumFunctionOnSet(pnl, 1 .. k) = SumFunctionOnSet(pnl, 1 .. k - 1) + tr[k].pnl
                        /\ SumFunctionOnSet(pnl, 1 .. k - 1) \in Int /\ tr[k].pnl \in Int
  <2> TAKE k \in 1 .. n
  <2> HIDE DEF pnl
  <2> QED BY BookedUpTo DEF pnl
<1>5. SumFunctionOnSet(pnl, 1 .. 0) = 0
  <2>1. 1 .. 0 = {}
    OBVIOUS
  <2> QED BY <2>1, SumOfNothing
<1> HIDE DEF n, pnl
<1>6. \E g : IsAfter(g)
  <2> DEFINE step == [kx \in (1 .. n) \X Int |-> kx[2] + tr[kx[1]].pnl]
  <2>1. step \in [(1 .. n) \X Int -> Int]
    BY <1>4
  <2>2. \A k \in 1 .. n, x \in Int : step[<<k, x>>] = x + tr[k].pnl
    OBVIOUS
  <2> HIDE DEF step
  <2>3. PICK f \in [0 .. n -> Int] : Follows(f, n, InitialEquity, step)
    BY <1>1, <2>1, RecursionExists
  <2>4. \A k \in 0 .. n : f[k] = IF k = 0 THEN InitialEquity ELSE f[k - 1] + tr[k].pnl
    <3> TAKE k \in 0 .. n
    <3>1. CASE k = 0
      BY <2>3, <3>1 DEF Follows
    <3>2. CASE k # 0
      <4>1. k \in 1 .. n /\ k - 1 \in 0 .. n
        BY <1>1, <3>2
      <4>2. f[k - 1] \in Int
        BY <4>1
      <4> QED BY <2>2, <2>3, <3>2, <4>1, <4>2 DEF Follows
    <3> QED BY <3>1, <3>2
  <2>5. IsAfter(f)
    BY <2>4
  <2> QED BY <2>5
<1>7. IsAfter(after)
  <2> HIDE DEF IsAfter
  <2> QED BY <1>6
<1>8. after[0] = InitialEquity /\ \A k \in 1 .. n : after[k] = after[k - 1] + tr[k].pnl
  <2> HIDE DEF after
  <2>1. \A k \in 0 .. n : after[k] = IF k = 0 THEN InitialEquity ELSE after[k - 1] + tr[k].pnl
    BY <1>7
  <2>2. 0 \in 0 .. n /\ \A k \in 1 .. n : k \in 0 .. n /\ k # 0
    BY <1>1
  <2> QED BY <2>1, <2>2
<1> HIDE DEF after, IsAfter
<1> DEFINE A == {k \in 0 .. n : after[k] = InitialEquity + SumFunctionOnSet(pnl, 1 .. k)}
<1>9. \A k \in 0 .. n : k \in A
  <2>1. 0 \in A
    BY <1>1, <1>5, <1>8
  <2>2. ASSUME NEW k \in 0 .. n - 1, k \in A PROVE k + 1 \in A
    <3> DEFINE m == k + 1
    <3>1. m \in 1 .. n /\ m \in 0 .. n /\ m - 1 = k
      BY <1>1
    <3>2. after[m - 1] = InitialEquity + SumFunctionOnSet(pnl, 1 .. m - 1)
      BY <2>2, <3>1
    <3> HIDE DEF m
    <3>3. after[m] = InitialEquity + SumFunctionOnSet(pnl, 1 .. m)
      <4> DEFINE a == SumFunctionOnSet(pnl, 1 .. m - 1)
                 b == SumFunctionOnSet(pnl, 1 .. m)
      <4>1. b = a + tr[m].pnl /\ a \in Int /\ tr[m].pnl \in Int
        BY <1>4, <3>1
      <4>2. after[m] = after[m - 1] + tr[m].pnl /\ after[m - 1] = InitialEquity + a
        BY <1>8, <3>1, <3>2
      <4> HIDE DEF a, b
      <4>3. after[m] = InitialEquity + b
        BY <1>1, <4>1, <4>2
      <4> QED BY <4>3 DEF b
    <3>4. m \in A
      BY <3>1, <3>3
    <3> QED BY <3>4 DEF m
  <2> HIDE DEF A
  <2> QED BY <1>1, <2>1, <2>2, Upto
<1>10. \A k \in 1 .. n : after[k] \in Int
  <2> TAKE k \in 1 .. n
  <2>1. k - 1 \in A /\ k - 1 \in 0 .. n
    <3>1. k - 1 \in 0 .. n
      BY <1>1
    <3> QED BY <1>9, <3>1
  <2>2. after[k - 1] \in Int
    <3> DEFINE a == SumFunctionOnSet(pnl, 1 .. k - 1)
    <3>1. after[k - 1] = InitialEquity + a /\ a \in Int
      BY <1>4, <2>1
    <3> HIDE DEF a
    <3> QED BY <1>1, <3>1
  <2> QED BY <1>4, <1>8, <2>2
<1>11. n > 0 => after[n] = InitialEquity + Booked(tr)
  BY <1>1, <1>3, <1>9
<1> HIDE DEF A
<1>12. Start \in Falls
  BY <1>1 DEF Falls
<1>13. \E g : IsFall(g)
  <2> DEFINE step == [kx \in (1 .. n) \X Falls |-> Deeper(kx[2], after[kx[1]])]
  <2>1. \A k \in 1 .. n, x \in Falls : Deeper(x, after[k]) \in Falls
    BY <1>10, DeeperType
  <2>2. step \in [(1 .. n) \X Falls -> Falls]
    BY <2>1
  <2>3. \A k \in 1 .. n, x \in Falls : step[<<k, x>>] = Deeper(x, after[k])
    OBVIOUS
  <2> HIDE DEF step, Start
  <2>4. PICK f \in [0 .. n -> Falls] : Follows(f, n, Start, step)
    BY <1>1, <1>12, <2>2, RecursionExists
  <2>5. \A k \in 0 .. n : f[k] = IF k = 0 THEN Start ELSE Deeper(f[k - 1], after[k])
    <3> TAKE k \in 0 .. n
    <3>1. CASE k = 0
      BY <2>4, <3>1 DEF Follows
    <3>2. CASE k # 0
      <4>1. k \in 1 .. n /\ k - 1 \in 0 .. n
        BY <1>1, <3>2
      <4>2. f[k - 1] \in Falls
        BY <4>1
      <4> QED BY <2>3, <2>4, <3>2, <4>1, <4>2 DEF Follows
    <3> QED BY <3>1, <3>2
  <2>6. IsFall(f)
    BY <2>5
  <2> QED BY <2>6
<1>14. IsFall(fall)
  <2> HIDE DEF IsFall
  <2> QED BY <1>13
<1>15. fall[0] = Start /\ \A k \in 1 .. n : fall[k] = Deeper(fall[k - 1], after[k])
  <2> HIDE DEF fall, Start
  <2>1. \A k \in 0 .. n : fall[k] = IF k = 0 THEN Start ELSE Deeper(fall[k - 1], after[k])
    BY <1>14
  <2>2. 0 \in 0 .. n /\ \A k \in 1 .. n : k \in 0 .. n /\ k # 0
    BY <1>1
  <2> QED BY <2>1, <2>2
<1> HIDE DEF fall, IsFall
<1> DEFINE Deep(f, q) == f.worst >= ((f.peak - q) * 100) \div f.peak
           P == {k \in 0 .. n : /\ fall[k] \in Falls /\ fall[k].peak >= InitialEquity
                                /\ k > 0 => Deep(fall[k], after[k])}
<1>16. \A k \in 0 .. n : k \in P
  <2>1. 0 \in P
    <3>1. Start.peak >= InitialEquity /\ 0 \in 0 .. n /\ ~(0 > 0)
      BY <1>1
    <3> HIDE DEF Start, Deep
    <3> QED BY <1>12, <1>15, <3>1
  <2>2. ASSUME NEW k \in 0 .. n - 1, k \in P PROVE k + 1 \in P
    <3> DEFINE m == k + 1
               f == fall[k]
               q == after[m]
               g == fall[m]
    <3>1. m \in 1 .. n /\ m \in 0 .. n /\ m - 1 = k
      BY <1>1
    <3>2. g = Deeper(f, q) /\ q \in Int /\ f \in Falls /\ f.peak >= InitialEquity
      BY <1>10, <1>15, <2>2, <3>1
    <3> HIDE DEF m, f, q, g
    <3>3. g \in Falls /\ g.peak >= f.peak /\ (g.peak > 0 => Deep(g, q))
      BY <3>2, DeeperType
    <3> HIDE DEF Deep
    <3>4. f.peak \in Int /\ g.peak \in Int
      BY <3>2, <3>3 DEF Falls
    <3>5. g.peak >= InitialEquity /\ g.peak > 0
      BY <1>1, <3>2, <3>3, <3>4
    <3>6. m \in P
      BY <3>1, <3>3, <3>5 DEF g, q
    <3> QED BY <3>6 DEF m
  <2> HIDE DEF P
  <2> QED BY <1>1, <2>1, <2>2, Upto
<1>17. n \in P
  BY <1>1, <1>16
<1>18. tr # <<>> => n > 0
  BY DEF n
<1> HIDE DEF Deep
<1>19. /\ fall[n] \in Falls /\ fall[n].peak >= InitialEquity
       /\ n > 0 => Deep(fall[n], after[n])
  BY <1>17
<1> QED BY <1>2, <1>11, <1>18, <1>19 DEF Deep

\* The snapshots can only deepen the fall.
LEMMA MetricsCover ==
    ASSUME BacktestAssumption, NEW tr \in Seq(PastTrade), NEW snaps \in Seq(Int), tr # <<>>
    PROVE  /\ Metrics(tr, snaps).drawdown \in Int /\ RealisedFall(tr).worst \in Int
           /\ Metrics(tr, snaps).drawdown >= RealisedFall(tr).worst
<1> DEFINE n == Len(snaps)
           Start == RealisedFall(tr)
           Hidden(k) == \E j \in DOMAIN tr : tr[j].closedAt = k
           IsFall(g) == g = [k \in 0 .. n |-> IF k = 0 THEN Start
                                              ELSE IF Hidden(k) THEN g[k - 1]
                                              ELSE Deeper(g[k - 1], snaps[k])]
           fall == CHOOSE g : IsFall(g)
           won == {k \in DOMAIN tr : tr[k].pnl > 0}
<1>1. n \in Nat /\ \A k \in 1 .. n : snaps[k] \in Int
  OBVIOUS
<1>2. Start \in Falls
  BY RealisedFallCovers
<1>3. Metrics(tr, snaps) =
        [total |-> Len(tr), winning |-> Cardinality(won),
         losing |-> Len(tr) - Cardinality(won),
         pnl |-> SumFunctionOnSet([k \in DOMAIN tr |-> tr[k].pnl], DOMAIN tr),
         drawdown |-> fall[Len(snaps)].worst]
  BY DEF Metrics
<1>4. Metrics(tr, snaps).drawdown = fall[n].worst
  <2> HIDE DEF fall, won
  <2> QED BY <1>3
<1> HIDE DEF n, Hidden, Start, won
<1>5. \E g : IsFall(g)
  <2> DEFINE Do(k, x) == IF Hidden(k) THEN x ELSE Deeper(x, snaps[k])
             step == [kx \in (1 .. n) \X Falls |-> Do(kx[1], kx[2])]
  <2>1. \A k \in 1 .. n, x \in Falls : Do(k, x) \in Falls
    BY <1>1, DeeperType
  <2> HIDE DEF Do
  <2>2. step \in [(1 .. n) \X Falls -> Falls]
    BY <2>1
  <2>3. \A k \in 1 .. n, x \in Falls : step[<<k, x>>] = Do(k, x)
    OBVIOUS
  <2> HIDE DEF step
  <2>4. PICK f \in [0 .. n -> Falls] : Follows(f, n, Start, step)
    BY <1>1, <1>2, <2>2, RecursionExists
  <2>5. \A k \in 0 .. n : f[k] = IF k = 0 THEN Start
                                  ELSE IF Hidden(k) THEN f[k - 1] ELSE Deeper(f[k - 1], snaps[k])
    <3> TAKE k \in 0 .. n
    <3>1. CASE k = 0
      BY <2>4, <3>1 DEF Follows
    <3>2. CASE k # 0
      <4>1. k \in 1 .. n /\ k - 1 \in 0 .. n
        BY <1>1, <3>2
      <4>2. f[k - 1] \in Falls
        BY <4>1
      <4>3. f[k] = Do(k, f[k - 1])
        BY <2>3, <2>4, <4>1, <4>2 DEF Follows
      <4> QED BY <3>2, <4>3 DEF Do
    <3> QED BY <3>1, <3>2
  <2>6. IsFall(f)
    BY <2>5
  <2> QED BY <2>6
<1>6. IsFall(fall)
  <2> HIDE DEF IsFall
  <2> QED BY <1>5
<1>7. /\ fall[0] = Start
      /\ \A k \in 1 .. n : fall[k] = fall[k - 1] \/ fall[k] = Deeper(fall[k - 1], snaps[k])
  <2> HIDE DEF fall
  <2>1. \A k \in 0 .. n : fall[k] = IF k = 0 THEN Start
                                     ELSE IF Hidden(k) THEN fall[k - 1]
                                     ELSE Deeper(fall[k - 1], snaps[k])
    BY <1>6
  <2>2. 0 \in 0 .. n /\ \A k \in 1 .. n : k \in 0 .. n /\ k # 0
    BY <1>1
  <2> QED BY <2>1, <2>2
<1> HIDE DEF fall, IsFall
<1> DEFINE P == {k \in 0 .. n : fall[k] \in Falls /\ fall[k].worst >= Start.worst}
<1>8. Start.worst \in Int
  BY <1>2 DEF Falls
<1>9. \A k \in 0 .. n : k \in P
  <2>1. 0 \in P
    BY <1>1, <1>2, <1>7, <1>8
  <2>2. ASSUME NEW k \in 0 .. n - 1, k \in P PROVE k + 1 \in P
    <3> DEFINE m == k + 1
               f == fall[k]
               q == snaps[m]
               g == fall[m]
    <3>1. m \in 1 .. n /\ m \in 0 .. n /\ m - 1 = k
      BY <1>1
    <3>2. (g = f \/ g = Deeper(f, q)) /\ q \in Int /\ f \in Falls /\ f.worst >= Start.worst
      BY <1>1, <1>7, <2>2, <3>1
    <3> HIDE DEF m, f, q, g
    <3>3. g \in Falls /\ g.worst >= f.worst
      <4>1. f.worst \in Int
        BY <3>2 DEF Falls
      <4>2. Deeper(f, q) \in Falls /\ Deeper(f, q).worst >= f.worst
        BY <3>2, DeeperType
      <4> QED BY <3>2, <4>1, <4>2
    <3>4. f.worst \in Int /\ g.worst \in Int
      BY <3>2, <3>3 DEF Falls
    <3>5. g.worst >= Start.worst
      BY <1>8, <3>2, <3>3, <3>4
    <3>6. m \in P
      BY <3>1, <3>3, <3>5 DEF g
    <3> QED BY <3>6 DEF m
  <2> HIDE DEF P
  <2> QED BY <1>1, <2>1, <2>2, Upto
<1>10. n \in P
  BY <1>1, <1>9
<1>11. fall[n].worst \in Int /\ fall[n].worst >= Start.worst
  BY <1>10 DEF Falls
<1> QED BY <1>4, <1>8, <1>11 DEF Start

LEMMA UnrealizedType ==
    ASSUME BacktestAssumption, NEW e \in Sound, NEW market \in [Symbols -> Prices]
    PROVE  Unrealized(e, market) \in Int
<1> DEFINE held == {s \in Symbols : e.open[s] # 0}
           Price(s) == IF market[s] = 0 THEN e.trades[e.open[s]].entry ELSE market[s]
           gain == [s \in held |->
                      LET t == e.trades[e.open[s]]
                          price == IF market[s] = 0 THEN t.entry ELSE market[s]
                      IN  (Toward(t.direction) * (price - t.entry) * t.size) \div SizeScale - t.fees]
<1>1. IsFiniteSet(held)
  <2>1. SymbolList = [k \in DOMAIN SymbolList |-> SymbolList[k]] /\ IsFiniteSet(DOMAIN SymbolList)
    <3>1. SymbolList \in Seq(Symbols) /\ Len(SymbolList) \in Nat
          /\ DOMAIN SymbolList = 1 .. Len(SymbolList)
      BY SymbolsListed
    <3>2. IsFiniteSet(1 .. Len(SymbolList))
      BY <3>1, FS_Interval
    <3> QED BY <3>1, <3>2
  <2>2. IsFiniteSet({SymbolList[k] : k \in DOMAIN SymbolList})
    BY <2>1, FewValues
  <2>3. IsFiniteSet(Symbols)
    BY <2>2 DEF Symbols, Range
  <2> QED BY <2>3, FS_Subset
<1>2. \A s \in held : gain[s] \in Int
  <2> TAKE s \in held
  <2> DEFINE t == e.trades[e.open[s]]
             price == IF market[s] = 0 THEN t.entry ELSE market[s]
             g == (Toward(t.direction) * (price - t.entry) * t.size) \div SizeScale
  <2>1. t \in PastTrade
    BY TradesDated
  <2>2. market[s] \in Int
    <3>1. Prices \subseteq Int
      BY DEF BacktestAssumption
    <3> QED BY <3>1
  <2>3. t.entry \in Int /\ t.size \in Int /\ t.fees \in Int
    BY <2>1 DEF PastTrade
  <2>4. price - t.entry \in Int
    BY <2>2, <2>3
  <2>5. g \in Int
    BY <2>3, <2>4, ProfitType
  <2>6. gain[s] = g - t.fees
    OBVIOUS
  <2> HIDE DEF g, t, gain
  <2> QED BY <2>3, <2>5, <2>6
<1>3. Unrealized(e, market) = SumFunctionOnSet(gain, held)
  BY DEF Unrealized
<1> HIDE DEF gain, held
<1> QED BY <1>1, <1>2, <1>3, SumType

\* What every step keeps of the result.
ReportInv ==
    /\ BacktestInv
    /\ snapshots \in Seq(Int)
    /\ DrawdownCoversLoss

LEMMA ReportCovers ==
    ASSUME BacktestAssumption, ReportInv, GetResults
    PROVE  DrawdownCoversLoss'
<1> DEFINE e == AllClosed
           r == RealisedFall(e.trades)
           p == r.peak
           q == e.equity
           i == InitialEquity
           m == Metrics(e.trades, snapshots)
<1>1. bar > 0 /\ engine' = e /\ (report' = m \/ report' = Raised)
  BY DEF GetResults
<1>2. e \in Sound
  BY <1>1, AllClosedInOrder DEF ReportInv, BacktestInv
<1>3. SUFFICES ASSUME q >= 0 PROVE m.drawdown >= ((i - q) * 100) \div i
  BY <1>1 DEF DrawdownCoversLoss
<1> HIDE DEF e
<1>4. /\ e.trades \in Seq(PastTrade) /\ q \in Int /\ q = i + Booked(e.trades)
  BY <1>2 DEF Sound, Engines, InOrder
<1>5. i \in Nat \ {0} /\ i \in Int
  BY DEF BacktestAssumption
<1>6. CASE e.trades = <<>>
  <2>1. q = i
    <3>1. DOMAIN (<<>>) = {}
      OBVIOUS
    <3>2. Booked(e.trades) = 0
      BY <1>6, <3>1, SumOfNothing DEF Booked
    <3> QED BY <1>4, <1>5, <3>2
  <2>2. m.drawdown = 0
    BY <1>6 DEF Metrics
  <2>3. ((i - q) * 100) \div i = 0
    <3>1. (i - q) * 100 = 0
      BY <1>5, <2>1
    <3>2. 0 \div i = 0
      BY <1>5
    <3> QED BY <3>1, <3>2
  <2> HIDE DEF m
  <2> QED BY <2>2, <2>3
<1>7. CASE e.trades # <<>>
  <2>1. /\ r \in Falls /\ p >= i /\ r.worst >= ((p - (i + Booked(e.trades))) * 100) \div p
    BY <1>4, <1>7, RealisedFallCovers
  <2>2. m.drawdown \in Int /\ r.worst \in Int /\ m.drawdown >= r.worst
    <3>1. snapshots \in Seq(Int)
      BY DEF ReportInv
    <3> QED BY <1>4, <1>7, <3>1, MetricsCover
  <2>3. r.worst >= ((p - q) * 100) \div p
    BY <1>4, <2>1
  <2>4. p \in Int
    BY <2>1 DEF Falls
  <2> HIDE DEF m, r, p, q, i
  <2>5. ((i - q) * 100) \div i <= ((p - q) * 100) \div p
    <3>1. q \in Nat
      BY <1>3, <1>4
    <3> QED BY <1>5, <2>1, <2>4, <3>1, HigherPeakFallsFurther
  <2>6. ((i - q) * 100) \div i \in Int /\ ((p - q) * 100) \div p \in Int
    <3>1. p \in Nat \ {0} /\ (i - q) * 100 \in Int /\ (p - q) * 100 \in Int
      BY <1>4, <1>5, <2>1, <2>4
    <3> QED BY <1>5, <3>1, DivFacts
  <2> DEFINE a == ((i - q) * 100) \div i
             b == ((p - q) * 100) \div p
  <2> HIDE DEF a, b
  <2>7. m.drawdown >= a
    BY <2>2, <2>3, <2>5, <2>6 DEF a, b
  <2> QED BY <2>7 DEF a
<1> QED BY <1>6, <1>7

LEMMA ReportStepKeeps ==
    ASSUME BacktestAssumption, ReportInv, [BacktestNext]_backtestVars
    PROVE  ReportInv'
<1>1. BacktestInv'
  BY BacktestStepKeeps DEF ReportInv
<1>2. snapshots' \in Seq(Int) /\ DrawdownCoversLoss'
  <2>1. CASE NextBar
    <3>1. report = NoReport /\ report' = NoReport
      BY <2>1 DEF NextBar, MoreBars
    <3>2. CASE runner = "workflow"
      <4> DEFINE market == prices'
                 u == Unrealized(engine, market)
      <4>1. snapshots' = Append(snapshots, engine.equity + u)
        BY <2>1, <3>2 DEF NextBar
      <4>2. market \in [Symbols -> Prices] /\ engine \in Sound
        BY <2>1 DEF NextBar, ReportInv, BacktestInv
      <4> HIDE DEF market
      <4>3. u \in Int
        BY <4>2, UnrealizedType
      <4> HIDE DEF u
      <4>4. engine.equity + u \in Int
        BY <4>2, <4>3 DEF Sound, Engines
      <4>5. snapshots' \in Seq(Int)
        BY <4>1, <4>4 DEF ReportInv
      <4> QED BY <3>1, <4>5 DEF DrawdownCoversLoss
    <3>3. CASE runner # "workflow"
      BY <2>1, <3>1, <3>3 DEF NextBar, ReportInv, DrawdownCoversLoss
    <3> QED BY <3>2, <3>3
  <2>2. CASE WorkflowTurn \/ ProfileTurn
    <3>1. todo # <<>> /\ UNCHANGED <<snapshots, report>>
      BY <2>2 DEF WorkflowTurn, ProfileTurn
    <3>2. report = NoReport
      BY <3>1 DEF ReportInv, BacktestInv
    <3> QED BY <3>1, <3>2 DEF ReportInv, DrawdownCoversLoss
  <2>3. CASE GetResults
    <3>1. snapshots' = snapshots
      BY <2>3 DEF GetResults
    <3> QED BY <2>3, <3>1, ReportCovers DEF ReportInv
  <2>4. CASE Reset
    BY <2>4 DEF Reset, DrawdownCoversLoss
  <2>5. CASE SnapshotRaises
    BY <2>5 DEF SnapshotRaises, ReportInv, DrawdownCoversLoss
  <2>6. CASE UNCHANGED backtestVars
    BY <2>6 DEF backtestVars, ReportInv, DrawdownCoversLoss
  <2> QED BY <2>1, <2>2, <2>3, <2>4, <2>5, <2>6 DEF BacktestNext
<1> QED BY <1>1, <1>2 DEF ReportInv

\* The maximum drawdown of calculate_metrics, computed from the closed trades in
\* the order they were opened and from snapshots that skip the bars of exits, is at
\* least the fall from the initial equity to the final one, for any list of trades,
\* unless the account went below zero; of a run that is reported, which takes an
\* engine its owner has reset.
THEOREM DrawdownCoversLossHolds == BacktestSpec => []DrawdownCoversLoss
<1>1. BacktestInit => ReportInv
  <2> SUFFICES ASSUME BacktestInit PROVE ReportInv
    OBVIOUS
  <2>1. BacktestInv
    BY BacktestInitially, BacktestAssumption
  <2>2. snapshots = <<>> /\ report = NoReport
    BY DEF BacktestInit
  <2>3. DrawdownCoversLoss
    BY <2>2 DEF DrawdownCoversLoss
  <2>4. snapshots \in Seq(Int)
    BY <2>2
  <2> QED BY <2>1, <2>3, <2>4 DEF ReportInv
<1>2. ReportInv /\ [BacktestNext]_backtestVars => ReportInv'
  BY ReportStepKeeps, BacktestAssumption
<1>3. ReportInv => DrawdownCoversLoss
  BY DEF ReportInv
<1> QED BY <1>1, <1>2, <1>3, PTL DEF BacktestSpec

-----------------------------------------------------------------------------
(* What a stop may cost.                                                   *)

\* How a workflow trade was sized: it was entered at a price on the safe side of
\* its stop, and the way from there to the stop costs at most what it risks.
SizedToStop(t) ==
    \E price \in Nat \ {0} :
        /\ t.entry = Slipped(price, t.direction)
        /\ Toward(t.direction) * (price - t.stop) > 0
        /\ t.size >= 0 /\ t.size * Magnitude(price - t.stop) <= 100 * t.risk + 99

Fitted(t) == SizedToStop(t) /\ (t.reason = "STOP_LOSS" => CostsItsRisk(t))

Fit == {e \in Sound : \A k \in 1 .. Len(e.trades) : Fitted(e.trades[k])}

\* The slippage of a price, as a division.
Slip(price) == (price * SlipBps) \div 10000

LEMMA SlipFacts ==
    ASSUME BacktestAssumption, NEW x \in Int
    PROVE  /\ Slip(x) \in Int /\ x * SlipBps \in Int
           /\ 10000 * Slip(x) <= x * SlipBps /\ x * SlipBps < 10000 * Slip(x) + 10000
           /\ x >= 0 => Slip(x) >= 0
<1>1. SlipBps \in Nat
  BY DEF BacktestAssumption
<1>2. x * SlipBps \in Int /\ (x >= 0 => x * SlipBps >= 0)
  <2>1. x * SlipBps \in Int
    BY <1>1, IntegerProducts
  <2>2. ASSUME x >= 0 PROVE x * SlipBps >= 0
    BY <1>1, <2>2, MulMonotone
  <2> QED BY <2>1, <2>2
<1> DEFINE m == x * SlipBps
<1> HIDE DEF m
<1>3. /\ m \div 10000 \in Int /\ 10000 * (m \div 10000) <= m /\ m < 10000 * (m \div 10000) + 10000
      /\ m >= 0 => m \div 10000 \in Nat
  BY <1>2, DivFacts DEF m
<1> QED BY <1>2, <1>3 DEF Slip, m

\* From the price the trade was sized at, the fill of the stop is no further
\* than the stop itself and the slippage of the way there.
LEMMA WayToStop ==
    ASSUME BacktestAssumption, NEW price \in Nat \ {0}, NEW stop \in Int, NEW d \in Directions,
           Toward(d) * (price - stop) > 0
    PROVE  /\ Slip(Magnitude(Slipped(price, d) - stop)) \in Nat
           /\ Toward(d) * (Slipped(stop, d) - Slipped(price, d)) \in Int
           /\ -(Toward(d) * (Slipped(stop, d) - Slipped(price, d)))
                <= Magnitude(price - stop) + Slip(Magnitude(Slipped(price, d) - stop)) + 1
<1> DEFINE a == Slip(price)
           b == Slip(stop)
           g == Magnitude(price - stop)
           w == Magnitude(Slipped(price, d) - stop)
           c == Slip(w)
<1>1. SlipBps \in Nat
  BY DEF BacktestAssumption
<1>2. /\ a \in Nat /\ b \in Int /\ price * SlipBps \in Int /\ stop * SlipBps \in Int
      /\ 10000 * a <= price * SlipBps /\ stop * SlipBps < 10000 * b + 10000
      /\ 10000 * b <= stop * SlipBps /\ price * SlipBps < 10000 * a + 10000
  BY SlipFacts
<1>3. Slipped(price, d) = price + Toward(d) * a /\ Slipped(stop, d) = stop + Toward(d) * b
  BY DEF Slipped, Slip
<1>4. CASE d = "LONG"
  <2>1. Toward(d) = 1
    BY <1>4 DEF Toward
  <2>2. price - stop > 0 /\ g = price - stop
    BY <2>1 DEF Magnitude
  <2>3. Slipped(price, d) = price + a /\ Slipped(stop, d) = stop + b
    BY <1>2, <1>3, <2>1
  <2>4. w = price + a - stop /\ w \in Nat /\ g <= w
    BY <1>2, <2>2, <2>3 DEF Magnitude
  <2>5. c \in Nat /\ w * SlipBps < 10000 * c + 10000 /\ w * SlipBps \in Int
    BY <2>4, SlipFacts
  <2>6. g * SlipBps <= w * SlipBps /\ g * SlipBps \in Int
    BY <1>1, <2>2, <2>4, MulMonotone, IntegerProducts
  <2>7. price * SlipBps = g * SlipBps + stop * SlipBps
    BY <1>1, <2>2
  <2> HIDE DEF a, b, c, g, w
  <2>8. 10000 * a < 10000 * c + 10000 + 10000 * b + 10000
    <3> DEFINE P == price * SlipBps
               Q == stop * SlipBps
               G == g * SlipBps
               W == w * SlipBps
    <3>1. /\ P \in Int /\ Q \in Int /\ G \in Int /\ W \in Int /\ 10000 * a <= P
          /\ Q < 10000 * b + 10000 /\ W < 10000 * c + 10000 /\ G <= W /\ P = G + Q
      BY <1>2, <2>5, <2>6, <2>7
    <3> HIDE DEF P, Q, G, W
    <3> QED BY <1>2, <2>5, <3>1
  <2>9. a <= b + c + 1
    BY <1>2, <2>5, <2>8
  <2>10. Toward(d) * (Slipped(stop, d) - Slipped(price, d)) = (stop + b) - (price + a)
    BY <1>2, <2>1, <2>3
  <2> QED BY <1>2, <2>2, <2>5, <2>9, <2>10 DEF c, w, g
<1>5. CASE d = "SHORT"
  <2>1. Toward(d) = -1
    BY <1>5 DEF Toward
  <2>2. stop - price > 0 /\ g = stop - price /\ g \in Nat
    BY <2>1 DEF Magnitude
  <2>3. Slipped(price, d) = price - a /\ Slipped(stop, d) = stop - b
    BY <1>2, <1>3, <2>1
  <2>4. w = stop - price + a /\ w \in Nat
    BY <1>2, <2>2, <2>3 DEF Magnitude
  <2>5. c \in Nat
    BY <2>4, SlipFacts
  <2>6. price * SlipBps <= stop * SlipBps
    BY <1>1, <2>2, MulMonotone
  <2> HIDE DEF a, b, c, g, w
  <2>7. 10000 * a < 10000 * b + 10000
    <3> DEFINE P == price * SlipBps
               Q == stop * SlipBps
    <3>1. P \in Int /\ Q \in Int /\ 10000 * a <= P /\ Q < 10000 * b + 10000 /\ P <= Q
      BY <1>2, <2>6
    <3> HIDE DEF P, Q
    <3> QED BY <1>2, <3>1
  <2>8. a <= b
    BY <1>2, <2>7
  <2>9. Toward(d) * (Slipped(stop, d) - Slipped(price, d)) = -((stop - b) - (price - a))
    BY <1>2, <2>1, <2>3
  <2> QED BY <1>2, <2>2, <2>5, <2>8, <2>9 DEF c, w, g
<1> QED BY <1>4, <1>5 DEF Directions

\* What the stop then books, rounded down.
LEMMA StopBooks ==
    ASSUME NEW size \in Nat, NEW g \in Nat, NEW c \in Nat, NEW risk \in Int, NEW move \in Int,
           size * g <= 100 * risk + 99, -move <= g + c + 1
    PROVE  /\ (move * size) \div SizeScale \in Int
           /\ (size * (c + 1)) \div SizeScale \in Int
           /\ -((move * size) \div SizeScale) <= risk + (size * (c + 1)) \div SizeScale + 2
<1> DEFINE x == move * size
           y == size * (c + 1)
           z == size * g
<1>1. x \in Int /\ y \in Int /\ z \in Int
  BY IntegerProducts
<1>2. -x <= z + y
  <2>1. size * (-move) <= size * (g + (c + 1))
    BY MulMonotone
  <2>2. size * (-move) = -(move * size) /\ size * (g + (c + 1)) = size * g + size * (c + 1)
    OBVIOUS
  <2> QED BY <2>1, <2>2
<1>3. z <= 100 * risk + 99
  OBVIOUS
<1> HIDE DEF x, y, z
<1>4. /\ x \div 100 \in Int /\ x < 100 * (x \div 100) + 100
      /\ y \div 100 \in Int /\ y < 100 * (y \div 100) + 100
  BY <1>1, DivFacts
<1>5. -(x \div 100) <= risk + y \div 100 + 2
  BY <1>1, <1>2, <1>3, <1>4
<1> QED BY <1>4, <1>5 DEF SizeScale, x, y

\* A trade that is filled at its stop costs what it risked.
LEMMA StopIsFitted ==
    ASSUME BacktestAssumption, NEW t \in PastTrade, SizedToStop(t), NEW fees \in Int
    PROVE  -((Toward(t.direction) * (Slipped(t.stop, t.direction) - t.entry) * t.size) \div SizeScale
             - fees) <= t.risk + fees + SlippageToStop(t) + Rounding
<1> DEFINE d == t.direction
           move == Toward(d) * (Slipped(t.stop, d) - t.entry)
           c == Slip(Magnitude(t.entry - t.stop))
<1>1. d \in Directions /\ t.stop \in Int /\ t.size \in Int /\ t.risk \in Int
  BY DEF PastTrade
<1>2. PICK price \in Nat \ {0} :
        /\ t.entry = Slipped(price, d) /\ Toward(d) * (price - t.stop) > 0
        /\ t.size >= 0 /\ t.size * Magnitude(price - t.stop) <= 100 * t.risk + 99
  BY DEF SizedToStop
<1> DEFINE g == Magnitude(price - t.stop)
<1>3. c \in Nat /\ move \in Int /\ -move <= g + c + 1
  BY <1>1, <1>2, WayToStop
<1>4. g \in Nat /\ t.size * g <= 100 * t.risk + 99
  BY <1>1, <1>2 DEF Magnitude
<1> DEFINE q == (t.size * (c + 1)) \div SizeScale
           gross == (move * t.size) \div SizeScale
<1>5. SlippageToStop(t) = q
  BY DEF SlippageToStop, Slip
<1> HIDE DEF c, g, move
<1>6. gross \in Int /\ q \in Int /\ -gross <= t.risk + q + 2
  <2>1. t.size \in Nat
    BY <1>1, <1>2
  <2> QED BY <1>1, <1>3, <1>4, <2>1, StopBooks
<1> HIDE DEF gross, q
<1>7. -(gross - fees) <= t.risk + fees + SlippageToStop(t) + Rounding
  BY <1>1, <1>5, <1>6 DEF Rounding
<1> QED BY <1>7 DEF gross, move

\* An entry whose size costs what it risks on the way to its stop.
SizedSetup(setup) ==
    /\ setup.entry \in Nat \ {0} /\ Toward(setup.direction) * (setup.entry - setup.stop) > 0
    /\ setup.size >= 0
    /\ setup.size * Magnitude(setup.entry - setup.stop) <= 100 * setup.risk + 99

LEMMA OpenedFits ==
    ASSUME BacktestAssumption, bar \in Nat, NEW e \in Fit, NEW s \in Symbols, e.open[s] = 0,
           NEW setup, Proper(setup), SizedSetup(setup)
    PROVE  Opened(e, s, setup) \in Fit
<1> DEFINE entry == Slipped(setup.entry, setup.direction)
           t == [symbol |-> s, direction |-> setup.direction,
                 entry |-> entry, size |-> setup.size, margin |-> setup.margin,
                 stop |-> setup.stop, take |-> setup.target,
                 fees |-> Fees(setup.size, entry), bar |-> bar, risk |-> setup.risk,
                 closedAt |-> 0, status |-> "OPEN", reason |-> "NONE", pnl |-> 0]
           x == Opened(e, s, setup)
           n == Len(e.trades)
<1>1. x \in Sound
  BY OpenedSound DEF Proper, Fit
<1>2. x.trades = Append(e.trades, t)
  BY DEF Opened, Fit, Sound, Engines
<1>3. Fitted(t)
  BY DEF SizedSetup, SizedToStop, Fitted
<1>4. e.trades \in Seq(PastTrade) /\ n \in Nat
  BY DEF Fit, Sound, Engines
<1> HIDE DEF t, x
<1>5. /\ Len(x.trades) = n + 1 /\ x.trades[n + 1] = t
      /\ \A k \in 1 .. n : x.trades[k] = e.trades[k]
  BY <1>2, <1>4
<1>6. ASSUME NEW k \in 1 .. Len(x.trades) PROVE Fitted(x.trades[k])
  <2>1. CASE k = n + 1
    BY <1>3, <1>5, <2>1
  <2>2. CASE k # n + 1
    <3>1. k \in 1 .. n
      BY <1>4, <1>5, <2>2
    <3> QED BY <1>5, <3>1 DEF Fit
  <2> QED BY <2>1, <2>2
<1> QED BY <1>1, <1>6 DEF Fit, x

LEMMA ClosedFits ==
    ASSUME BacktestAssumption, NEW e \in Fit, NEW s \in Symbols, NEW price \in Int,
           NEW why \in Reasons, NEW at \in Nat,
           why = "STOP_LOSS" /\ e.open[s] # 0 => price = e.trades[e.open[s]].stop
    PROVE  Closed(e, s, price, why, at) \in Fit
<1> DEFINE x == Closed(e, s, price, why, at)
<1>1. e \in Sound /\ e.trades \in Seq(PastTrade) /\ InOrder(e)
  BY DEF Fit, Sound, Engines
<1>2. x \in Sound
  BY <1>1, ClosedSound
<1>3. CASE e.open[s] = 0
  BY <1>3 DEF Closed
<1>4. CASE e.open[s] # 0
  <2> DEFINE k == e.open[s]
             t == e.trades[k]
             exit == Slipped(price, t.direction)
             fees == t.fees + Fees(t.size, exit)
             pnl == (Toward(t.direction) * (exit - t.entry) * t.size) \div SizeScale - fees
             u == [t EXCEPT !.pnl = pnl, !.fees = fees, !.status = "CLOSED", !.reason = why,
                            !.closedAt = at]
  <2>1. k \in 1 .. Len(e.trades) /\ t \in PastTrade /\ Fitted(t)
    BY <1>1, <1>4 DEF InOrder, Fit
  <2>2. x.trades = [e.trades EXCEPT ![k] = u]
    BY <1>1, <1>4 DEF Closed, Sound, Engines
  <2> HIDE DEF t
  <2>3. fees \in Int
    <3>1. t.fees \in Int /\ t.size \in Int
      BY <2>1 DEF PastTrade
    <3>2. exit \in Int
      BY SlippedType
    <3> HIDE DEF exit
    <3>3. Fees(t.size, exit) \in Int
      BY <3>1, <3>2, FeesType
    <3> QED BY <3>1, <3>3
  <2>4. why = "STOP_LOSS" => -pnl <= t.risk + fees + SlippageToStop(t) + Rounding
    <3> SUFFICES ASSUME why = "STOP_LOSS"
                 PROVE  -pnl <= t.risk + fees + SlippageToStop(t) + Rounding
      OBVIOUS
    <3>1. price = t.stop
      BY <1>4 DEF t
    <3>2. SizedToStop(t)
      BY <2>1 DEF Fitted
    <3> HIDE DEF fees
    <3> QED BY <2>1, <2>3, <3>1, <3>2, StopIsFitted
  <2> HIDE DEF pnl, fees
  <2>5. /\ u.entry = t.entry /\ u.direction = t.direction /\ u.stop = t.stop /\ u.size = t.size
        /\ u.risk = t.risk /\ u.fees = fees /\ u.pnl = pnl /\ u.reason = why
    BY <2>1 DEF PastTrade
  <2> HIDE DEF u
  <2>6. Fitted(u)
    <3>1. SizedToStop(u)
      BY <2>1, <2>5 DEF Fitted, SizedToStop
    <3>2. SlippageToStop(u) = SlippageToStop(t)
      BY <2>5 DEF SlippageToStop
    <3> QED BY <2>4, <2>5, <3>1, <3>2 DEF Fitted, CostsItsRisk
  <2>7. ASSUME NEW j \in 1 .. Len(x.trades) PROVE Fitted(x.trades[j])
    <3>1. /\ Len(x.trades) = Len(e.trades) /\ x.trades[k] = u
          /\ j # k => x.trades[j] = e.trades[j]
      BY <1>1, <2>1, <2>2
    <3> QED BY <2>6, <3>1 DEF Fit
  <2> QED BY <1>2, <2>7 DEF Fit
<1> QED BY <1>3, <1>4

LEMMA CheckFits ==
    ASSUME BacktestAssumption, NEW e \in Fit, NEW s \in Symbols, NEW price \in Nat \ {0},
           NEW at \in Nat
    PROVE  CheckStopTake(e, s, price, at) \in Fit
<1> DEFINE t == e.trades[e.open[s]]
           why == ExitReason(t, price)
           x == CheckStopTake(e, s, price, at)
<1>1. CASE e.open[s] = 0
  BY <1>1 DEF CheckStopTake
<1>2. CASE e.open[s] # 0
  <2>1. /\ x = CASE why = "NONE" -> e
                 [] why = "LIQUIDATION" -> Closed(e, s, price, why, at)
                 [] why = "STOP_LOSS" -> Closed(e, s, t.stop, why, at)
                 [] why = "TAKE_PROFIT" -> Closed(e, s, t.take, why, at)
    BY <1>2 DEF CheckStopTake
  <2>2. t \in PastTrade
    <3>1. e.open[s] \in 1 .. Len(e.trades) /\ e.trades \in Seq(PastTrade)
      BY <1>2 DEF Fit, Sound, Engines, InOrder
    <3> QED BY <3>1
  <2>3. t.stop \in Int /\ t.take \in Int /\ price \in Int
    BY <2>2 DEF PastTrade
  <2>4. why \in {"NONE", "LIQUIDATION", "STOP_LOSS", "TAKE_PROFIT"} /\ why \in Reasons
    BY DEF ExitReason, Reasons
  <2>5. CASE why = "NONE"
    BY <2>1, <2>5
  <2>6. CASE why # "NONE"
    <3>1. PICK q \in Int : x = Closed(e, s, q, why, at) /\ (why = "STOP_LOSS" => q = t.stop)
      BY <2>1, <2>3, <2>4, <2>6
    <3> HIDE DEF x, why
    <3>2. Closed(e, s, q, why, at) \in Fit
      BY <2>4, <3>1, ClosedFits
    <3> QED BY <3>1, <3>2 DEF x
  <2> QED BY <2>5, <2>6
<1> QED BY <1>1, <1>2

\* The sizing of a workflow entry: one percent of equity over the stop distance.
LEMMA SizedByRisk ==
    ASSUME NEW equity \in Nat \ {0}, NEW gap \in Nat \ {0}, NEW price \in Nat \ {0}
    PROVE  /\ (MaxPosition(equity, gap, price) * SizeScale) \div price \in Nat
           /\ ((MaxPosition(equity, gap, price) * SizeScale) \div price) * gap
                <= 100 * (equity \div 100) + 99
<1> DEFINE r == RiskOverDistance(equity, gap, price)
           n == MaxPosition(equity, gap, price)
           size == (n * SizeScale) \div price
           ep == equity * price
<1>1. ep \in Nat /\ 100 * gap \in Nat \ {0}
  <2>1. ep \in Int /\ price * 0 <= price * equity
    BY IntegerProducts, MulMonotone
  <2>2. price * 0 = 0 /\ price * equity = ep
    OBVIOUS
  <2> HIDE DEF ep
  <2>3. ep \in Nat
    BY <2>1, <2>2
  <2> QED BY <2>3
<1>2. r = ep \div (100 * gap)
  BY DEF RiskOverDistance
<1> HIDE DEF ep
<1>3. r \in Nat /\ (100 * gap) * r <= ep
  <2> DEFINE m == 100 * gap
  <2>1. m \in Nat \ {0} /\ ep \in Nat
    BY <1>1
  <2> HIDE DEF m
  <2>2. ep \div m \in Nat /\ m * (ep \div m) <= ep
    BY <2>1, DivFacts
  <2> QED BY <1>2, <2>2 DEF m
<1> HIDE DEF r
<1>4. n \in Nat /\ n <= r
  BY <1>3 DEF MaxPosition, Lesser, r
<1> HIDE DEF n
<1>5. size \in Nat /\ price * size <= n * 100
  <2>1. n * SizeScale \in Nat /\ n * SizeScale = n * 100
    BY <1>4 DEF SizeScale
  <2> DEFINE m == n * SizeScale
  <2> HIDE DEF m
  <2>2. m \div price \in Nat /\ price * (m \div price) <= m
    BY <2>1, DivFacts DEF m
  <2> QED BY <2>1, <2>2 DEF m
<1> HIDE DEF size
<1>6. price * (size * gap) <= price * equity
  <2>1. (price * size) * gap <= (n * 100) * gap
    <3>1. price * size \in Int /\ n * 100 \in Int
      BY <1>4, <1>5, IntegerProducts
    <3> QED BY <1>5, <3>1, MulMonotone
  <2>2. (100 * gap) * n <= (100 * gap) * r
    BY <1>1, <1>3, <1>4, MulMonotone
  <2>3. /\ (price * size) * gap = price * (size * gap) /\ (n * 100) * gap = (100 * gap) * n
        /\ ep = price * equity
    BY <1>4, <1>5 DEF ep
  <2>4. /\ (price * size) * gap \in Int /\ (100 * gap) * n \in Int /\ (100 * gap) * r \in Int
    BY <1>3, <1>4, <1>5, IntegerProducts
  <2> QED BY <1>1, <1>3, <2>1, <2>2, <2>3, <2>4
<1>7. size * gap \in Int /\ size * gap <= equity
  <2>1. size * gap \in Int
    BY <1>5, IntegerProducts
  <2> QED BY <1>6, <2>1, MulCancel
<1>8. equity <= 100 * (equity \div 100) + 99
  OBVIOUS
<1>9. size * gap <= 100 * (equity \div 100) + 99
  <2> DEFINE y == size * gap
  <2> HIDE DEF y
  <2>1. y \in Int /\ y <= equity
    BY <1>7 DEF y
  <2>2. y <= 100 * (equity \div 100) + 99
    BY <1>8, <2>1
  <2> QED BY <2>2 DEF y
<1> QED BY <1>5, <1>9 DEF size, n

LEMMA WorkflowSetupSized ==
    ASSUME BacktestAssumption, engine.equity \in Int, NEW s \in Symbols, NEW price \in Prices,
           NEW a \in Analysis(price), NEW regime, NEW vsBtc, Enters(s, a, price, regime, vsBtc)
    PROVE  SizedSetup(EntrySetup(s, a, price))
<1> DEFINE setup == EntrySetup(s, a, price)
           direction == IF Trend(a) = "UPTREND" THEN "LONG" ELSE "SHORT"
           stop == IF direction = "LONG"
                   THEN Lesser((a.support * 99) \div 100, (price * 98) \div 100)
                   ELSE Greater((a.resistance * 101) \div 100, (price * 102) \div 100)
           gap == Magnitude(price - stop)
           size == (MaxPosition(engine.equity, gap, price) * SizeScale) \div price
<1>1. /\ setup.direction = direction /\ setup.entry = price /\ setup.stop = stop
      /\ setup.size = size /\ setup.risk = engine.equity \div 100
      /\ setup.distance = (gap * 10000) \div price
  BY DEF EntrySetup
<1>2. setup.distance >= 50 /\ engine.equity \in Nat \ {0}
  BY DEF Enters, SizingIsValid
<1> HIDE DEF setup
<1>3. price \in Nat \ {0} /\ a.support \in Nat \ {0} /\ a.resistance \in Nat \ {0}
  <2>1. Prices \subseteq Nat \ {0} /\ Supports \subseteq Nat \ {0} /\ Resistances \subseteq Nat \ {0}
    BY DEF BacktestAssumption
  <2> QED BY <2>1 DEF Analysis
<1>4. /\ stop \in Int
      /\ direction = "LONG" => stop <= price
      /\ direction = "SHORT" => stop >= price
  <2>1. /\ (price * 98) \div 100 \in Int /\ (price * 98) \div 100 <= price
        /\ (price * 102) \div 100 \in Int /\ (price * 102) \div 100 >= price
        /\ (a.support * 99) \div 100 \in Int /\ (a.resistance * 101) \div 100 \in Int
    BY <1>3
  <2> QED BY <1>3, <2>1 DEF Lesser, Greater
<1>5. direction \in {"LONG", "SHORT"}
  OBVIOUS
<1> HIDE DEF stop, direction
<1>6. gap \in Nat \ {0}
  <2>1. gap \in Nat
    BY <1>3, <1>4 DEF Magnitude
  <2>2. (gap * 10000) \div price >= 50
    BY <1>1, <1>2
  <2> HIDE DEF gap
  <2> QED BY <1>3, <2>1, <2>2
<1>7. Toward(direction) * (price - stop) > 0
  <2>1. price # stop
    BY <1>3, <1>6 DEF Magnitude
  <2> QED BY <1>3, <1>4, <1>5, <2>1 DEF Toward
<1> HIDE DEF gap
<1>8. size \in Nat /\ size * gap <= 100 * (engine.equity \div 100) + 99
  BY <1>2, <1>3, <1>6, SizedByRisk
<1> HIDE DEF size
<1> QED BY <1>1, <1>3, <1>7, <1>8 DEF SizedSetup, gap, setup

\* In a run of the workflow strategy every trade was sized to its stop.
FitInv == runner = "workflow" => engine \in Fit

LEMMA ExecuteFits ==
    ASSUME BacktestAssumption, BacktestInv, engine \in Fit, todo # <<>>, Execute(Head(todo))
    PROVE  engine' \in Fit
<1> DEFINE s == Head(todo)
           price == prices[s]
<1>1. s \in Symbols /\ engine \in Sound /\ bar \in Nat /\ price \in Prices
  BY HeadOfTodo DEF BacktestInv
<1>2. price \in Nat \ {0} /\ engine.equity \in Int
  <2>1. Prices \subseteq Nat \ {0}
    BY DEF BacktestAssumption
  <2> QED BY <1>1, <2>1 DEF Sound, Engines
<1>3. PICK a \in Analysis(price) : \E regime, vsBtc :
          \/ engine.open[s] # 0 /\ engine' = Manage(engine, s, a, price)
          \/ /\ engine.open[s] = 0 /\ Enters(s, a, price, regime, vsBtc)
             /\ engine' = Opened(engine, s, EntrySetup(s, a, price))
          \/ engine' = engine
  BY DEF Execute
<1> HIDE DEF s, price
<1>4. CASE engine' = Manage(engine, s, a, price)
  <2> DEFINE checked == CheckStopTake(engine, s, price, bar)
  <2>1. checked \in Fit
    BY <1>1, <1>2, CheckFits
  <2>2. Closed(checked, s, price, "SIGNAL", bar) \in Fit
    <3> HIDE DEF checked
    <3>1. "SIGNAL" \in Reasons /\ price \in Int
      BY <1>2 DEF Reasons
    <3> QED BY <1>1, <2>1, <3>1, ClosedFits
  <2>3. engine' = checked \/ engine' = Closed(checked, s, price, "SIGNAL", bar)
    BY <1>4 DEF Manage
  <2> QED BY <2>1, <2>2, <2>3
<1>5. CASE /\ engine.open[s] = 0 /\ \E regime, vsBtc : Enters(s, a, price, regime, vsBtc)
           /\ engine' = Opened(engine, s, EntrySetup(s, a, price))
  <2>1. EntrySetup(s, a, price).distance >= 50
    BY <1>5 DEF Enters
  <2>2. Proper(EntrySetup(s, a, price))
    BY <1>1, <1>2, <2>1, WorkflowSetupProper
  <2>3. SizedSetup(EntrySetup(s, a, price))
    BY <1>1, <1>2, <1>5, WorkflowSetupSized
  <2> QED BY <1>1, <1>5, <2>2, <2>3, OpenedFits
<1>6. CASE engine' = engine
  BY <1>6
<1> QED BY <1>3, <1>4, <1>5, <1>6

LEMMA FitStepKeeps ==
    ASSUME BacktestAssumption, BacktestInv, FitInv, [BacktestNext]_backtestVars
    PROVE  FitInv'
<1> SUFFICES ASSUME runner' = "workflow" PROVE engine' \in Fit
  BY DEF FitInv
<1>1. runner = "workflow" /\ engine \in Fit
  BY DEF FitInv, BacktestNext, Reset, NextBar, SnapshotRaises, WorkflowTurn, ProfileTurn,
         GetResults, backtestVars
<1>2. Fit \subseteq Sound
  BY DEF Fit
<1>3. CASE NextBar
  <2> DEFINE market == prices'
             at == bar'
             e == engine
  <2>1. engine' = CheckAll(e, market, at) /\ market \in [Symbols -> Prices] /\ at \in Nat /\ e \in Fit
    BY <1>1, <1>3 DEF NextBar, BacktestInv
  <2> HIDE DEF market, at, e
  <2>2. \A x \in Fit, s \in Symbols, price \in Nat \ {0} : CheckStopTake(x, s, price, at) \in Fit
    BY <2>1, CheckFits
  <2>3. CheckAll(e, market, at) \in Fit
    BY <1>2, <2>1, <2>2, AllChecked
  <2> QED BY <2>1, <2>3
<1>4. CASE WorkflowTurn
  <2>1. CASE Execute(Head(todo))
    BY <1>1, <1>4, <2>1, ExecuteFits DEF WorkflowTurn
  <2>2. CASE UNCHANGED <<engine, macro, strength>>
    BY <1>1, <2>2
  <2> QED BY <1>4, <2>1, <2>2 DEF WorkflowTurn
<1>5. CASE ProfileTurn
  BY <1>1, <1>5 DEF ProfileTurn
<1>6. CASE GetResults
  <2>1. bar > 0 /\ engine' = AllClosed
    BY <1>6 DEF GetResults
  <2>2. prices \in [Symbols -> Prices]
    BY <2>1 DEF BacktestInv
  <2>3. \A x \in Fit, s \in Symbols, price \in Int :
           Closed(x, s, price, "END_OF_BACKTEST", 0) \in Fit
    BY ClosedFits DEF Reasons
  <2>4. AllClosed \in Fit
    BY <1>1, <1>2, <2>2, <2>3, AllClosedSound
  <2> QED BY <2>1, <2>4
<1>7. CASE Reset
  BY <1>1, <1>7 DEF Reset, BacktestInv
<1>8. CASE SnapshotRaises \/ UNCHANGED backtestVars
  BY <1>1, <1>8 DEF SnapshotRaises, backtestVars
<1> QED BY <1>3, <1>4, <1>5, <1>6, <1>7, <1>8 DEF BacktestNext

\* Whatever the analyses say and however far the prices jump, a position that
\* calculate_position_size sized and check_stop_take stopped out, in a workflow
\* backtest on an engine its owner has reset, cost no more than the one percent of
\* equity it was sized for, its fees, and the slippage over the way to the stop, up
\* to Rounding.
THEOREM StoppedWithinRiskHolds == BacktestSpec => []StoppedWithinRisk
<1>1. BacktestInit => BacktestInv /\ FitInv
  <2> SUFFICES ASSUME BacktestInit PROVE BacktestInv /\ FitInv
    OBVIOUS
  <2>1. BacktestInv
    BY BacktestInitially, BacktestAssumption
  <2>2. engine.trades = <<>>
    BY DEF BacktestInit, FreshEngine
  <2> QED BY <2>1, <2>2 DEF FitInv, Fit, BacktestInv
<1>2. BacktestInv /\ FitInv /\ [BacktestNext]_backtestVars => BacktestInv' /\ FitInv'
  BY BacktestStepKeeps, FitStepKeeps, BacktestAssumption
<1>3. BacktestInv /\ FitInv => StoppedWithinRisk
  <2> SUFFICES ASSUME BacktestInv, FitInv, runner = "workflow", NEW k \in DOMAIN engine.trades,
                      engine.trades[k].reason = "STOP_LOSS"
               PROVE  CostsItsRisk(engine.trades[k])
    BY DEF StoppedWithinRisk
  <2>1. DOMAIN engine.trades = 1 .. Len(engine.trades)
    BY DEF BacktestInv, Sound, Engines
  <2> QED BY <2>1 DEF FitInv, Fit, Fitted
<1> QED BY <1>1, <1>2, <1>3, PTL DEF BacktestSpec

-----------------------------------------------------------------------------
(* The trading record.                                                     *)

\* What a later engine may have made of a trade.
Outlives(t, u) ==
    /\ u.symbol = t.symbol /\ Terms(u) = Terms(t)
    /\ u.status = "OPEN" => t.status = "OPEN"
    /\ (u.status = "OPEN" <=> t.status = "OPEN") => u = t

\* The engines that closings lead to.
Later(e) ==
    {x \in Sound : /\ Len(x.trades) = Len(e.trades)
                   /\ \A k \in 1 .. Len(e.trades) : Outlives(e.trades[k], x.trades[k])}

LEMMA StillItself == ASSUME NEW e \in Sound PROVE e \in Later(e)
BY DEF Later, Outlives

LEMMA LaterAgain ==
    ASSUME NEW e \in Sound, NEW x \in Later(e), NEW y \in Later(x)
    PROVE  y \in Later(e)
<1>1. /\ x \in Sound /\ y \in Sound /\ Len(x.trades) = Len(e.trades)
      /\ Len(y.trades) = Len(e.trades)
  BY DEF Later
<1>2. ASSUME NEW k \in 1 .. Len(e.trades) PROVE Outlives(e.trades[k], y.trades[k])
  <2>1. Outlives(e.trades[k], x.trades[k]) /\ Outlives(x.trades[k], y.trades[k])
    BY <1>1 DEF Later
  <2> QED BY <2>1 DEF Outlives
<1> QED BY <1>1, <1>2 DEF Later

LEMMA ClosedIsLater ==
    ASSUME BacktestAssumption, NEW e \in Sound, NEW s \in Symbols, NEW price \in Int,
           NEW why \in Reasons, NEW at \in Nat
    PROVE  Closed(e, s, price, why, at) \in Later(e)
<1> DEFINE x == Closed(e, s, price, why, at)
<1>1. e.trades \in Seq(PastTrade) /\ InOrder(e) /\ x \in Sound
  BY ClosedSound DEF Sound, Engines
<1>2. CASE e.open[s] = 0
  <2>1. x = e
    BY <1>2 DEF Closed
  <2> QED BY <2>1, StillItself
<1>3. CASE e.open[s] # 0
  <2> DEFINE k == e.open[s]
             t == e.trades[k]
             exit == Slipped(price, t.direction)
             fees == t.fees + Fees(t.size, exit)
             pnl == (Toward(t.direction) * (exit - t.entry) * t.size) \div SizeScale - fees
             u == [t EXCEPT !.pnl = pnl, !.fees = fees, !.status = "CLOSED", !.reason = why,
                            !.closedAt = at]
  <2>1. k \in 1 .. Len(e.trades) /\ t \in PastTrade /\ t.status = "OPEN"
    <3>1. k \in 1 .. Len(e.trades) /\ t.symbol = s
      BY <1>1, <1>3 DEF InOrder
    <3>2. t.status = "OPEN"
      BY <1>1, <3>1 DEF InOrder
    <3> QED BY <1>1, <3>1, <3>2
  <2>2. x.trades = [e.trades EXCEPT ![k] = u]
    BY <1>1, <1>3 DEF Closed, Sound, Engines
  <2> HIDE DEF t, pnl, fees
  <2>3. Outlives(t, u)
    <3>1. u.symbol = t.symbol /\ u.status = "CLOSED"
      BY <2>1 DEF PastTrade
    <3>2. Terms(u) = Terms(t)
      BY <2>1 DEF PastTrade, Terms
    <3> QED BY <2>1, <3>1, <3>2 DEF Outlives
  <2> HIDE DEF u, x
  <2>4. /\ Len(x.trades) = Len(e.trades) /\ x.trades[k] = u
        /\ \A j \in 1 .. Len(e.trades) : j # k => x.trades[j] = e.trades[j]
    BY <1>1, <2>1, <2>2
  <2>5. ASSUME NEW j \in 1 .. Len(e.trades) PROVE Outlives(e.trades[j], x.trades[j])
    <3>1. CASE j = k
      BY <2>3, <2>4, <3>1 DEF t
    <3>2. CASE j # k
      BY <2>4, <3>2 DEF Outlives
    <3> QED BY <3>1, <3>2
  <2> QED BY <1>1, <2>4, <2>5 DEF Later, x
<1> QED BY <1>2, <1>3

LEMMA CheckIsLater ==
    ASSUME BacktestAssumption, NEW e \in Sound, NEW s \in Symbols, NEW price \in Nat \ {0},
           NEW at \in Nat
    PROVE  CheckStopTake(e, s, price, at) \in Later(e)
<1> DEFINE t == e.trades[e.open[s]]
           why == ExitReason(t, price)
           x == CheckStopTake(e, s, price, at)
<1>1. CASE e.open[s] = 0
  <2>1. x = e
    BY <1>1 DEF CheckStopTake
  <2> QED BY <2>1, StillItself
<1>2. CASE e.open[s] # 0
  <2>1. /\ x = CASE why = "NONE" -> e
                 [] why = "LIQUIDATION" -> Closed(e, s, price, why, at)
                 [] why = "STOP_LOSS" -> Closed(e, s, t.stop, why, at)
                 [] why = "TAKE_PROFIT" -> Closed(e, s, t.take, why, at)
    BY <1>2 DEF CheckStopTake
  <2>2. t \in PastTrade
    <3>1. e.open[s] \in 1 .. Len(e.trades) /\ e.trades \in Seq(PastTrade)
      BY <1>2 DEF Sound, Engines, InOrder
    <3> QED BY <3>1
  <2>3. t.stop \in Int /\ t.take \in Int /\ price \in Int
    BY <2>2 DEF PastTrade
  <2>4. why \in {"NONE", "LIQUIDATION", "STOP_LOSS", "TAKE_PROFIT"} /\ why \in Reasons
    BY DEF ExitReason, Reasons
  <2>5. CASE why = "NONE"
    <3>1. x = e
      BY <2>1, <2>5
    <3> HIDE DEF x
    <3> QED BY <3>1, StillItself DEF x
  <2>6. CASE why # "NONE"
    <3>1. PICK q \in Int : x = Closed(e, s, q, why, at)
      BY <2>1, <2>3, <2>4, <2>6
    <3> HIDE DEF x, why
    <3>2. Closed(e, s, q, why, at) \in Later(e)
      BY <2>4, ClosedIsLater
    <3> QED BY <3>1, <3>2 DEF x
  <2> QED BY <2>5, <2>6
<1> QED BY <1>1, <1>2

\* What a step may do: close, and then enter a trade for a symbol without one.
Trades(e, x) ==
    \/ x \in Later(e)
    \/ \E c \in Later(e), s \in Symbols : \E setup :
          c.open[s] = 0 /\ Proper(setup) /\ x = Opened(c, s, setup)

LEMMA WorkflowTurnTrades ==
    ASSUME BacktestAssumption, BacktestInv, WorkflowTurn
    PROVE  Trades(engine, engine')
<1> DEFINE s == Head(todo)
           price == prices[s]
<1>1. engine \in Sound /\ bar \in Nat /\ todo # <<>>
  BY DEF BacktestInv, WorkflowTurn
<1>2. s \in Symbols /\ price \in Prices
  BY <1>1, HeadOfTodo DEF BacktestInv
<1>3. price \in Nat \ {0} /\ engine.equity \in Int
  <2>1. Prices \subseteq Nat \ {0}
    BY DEF BacktestAssumption
  <2> QED BY <1>1, <1>2, <2>1 DEF Sound, Engines
<1>4. CASE Execute(s)
  <2>1. PICK a \in Analysis(price) : \E regime, vsBtc :
          \/ engine.open[s] # 0 /\ engine' = Manage(engine, s, a, price)
          \/ /\ engine.open[s] = 0 /\ Enters(s, a, price, regime, vsBtc)
             /\ engine' = Opened(engine, s, EntrySetup(s, a, price))
          \/ engine' = engine
    BY <1>4 DEF Execute
  <2> HIDE DEF s, price
  <2>2. CASE engine' = Manage(engine, s, a, price)
    <3> DEFINE checked == CheckStopTake(engine, s, price, bar)
    <3>1. checked \in Later(engine)
      BY <1>1, <1>2, <1>3, CheckIsLater
    <3>2. engine' = checked \/ engine' = Closed(checked, s, price, "SIGNAL", bar)
      BY <2>2 DEF Manage
    <3> HIDE DEF checked
    <3>3. Closed(checked, s, price, "SIGNAL", bar) \in Later(engine)
      <4>1. checked \in Sound /\ "SIGNAL" \in Reasons /\ price \in Int
        BY <1>3, <3>1 DEF Later, Reasons
      <4>2. Closed(checked, s, price, "SIGNAL", bar) \in Later(checked)
        BY <1>1, <1>2, <4>1, ClosedIsLater
      <4> QED BY <1>1, <3>1, <4>2, LaterAgain
    <3> QED BY <3>1, <3>2, <3>3 DEF Trades
  <2>3. CASE /\ engine.open[s] = 0 /\ \E regime, vsBtc : Enters(s, a, price, regime, vsBtc)
             /\ engine' = Opened(engine, s, EntrySetup(s, a, price))
    <3>1. EntrySetup(s, a, price).distance >= 50
      BY <2>3 DEF Enters
    <3>2. Proper(EntrySetup(s, a, price))
      BY <1>2, <1>3, <3>1, WorkflowSetupProper
    <3>3. engine \in Later(engine)
      BY <1>1, StillItself
    <3> DEFINE setup == EntrySetup(s, a, price)
    <3> HIDE DEF setup
    <3>4. engine.open[s] = 0 /\ Proper(setup) /\ engine' = Opened(engine, s, setup)
      BY <2>3, <3>2 DEF setup
    <3> QED BY <1>2, <3>3, <3>4 DEF Trades
  <2>4. CASE engine' = engine
    BY <1>1, <2>4, StillItself DEF Trades
  <2> QED BY <2>1, <2>2, <2>3, <2>4
<1>5. CASE UNCHANGED <<engine, macro, strength>>
  BY <1>1, <1>5, StillItself DEF Trades
<1> QED BY <1>4, <1>5 DEF WorkflowTurn

LEMMA ProfileTurnTrades ==
    ASSUME BacktestAssumption, BacktestInv, ProfileTurn
    PROVE  Trades(engine, engine')
<1> DEFINE s == Head(todo)
           checked == CheckStopTake(engine, s, prices[s], bar)
<1>1. engine \in Sound /\ bar \in Nat /\ todo # <<>>
  BY DEF BacktestInv, ProfileTurn
<1>2. s \in Symbols /\ prices[s] \in Nat \ {0}
  <2>1. Prices \subseteq Nat \ {0}
    BY DEF BacktestAssumption
  <2>2. s \in Symbols /\ prices[s] \in Prices
    BY <1>1, HeadOfTodo DEF BacktestInv
  <2> QED BY <2>1, <2>2
<1>3. \/ engine' = checked
      \/ \E d \in Directions, atr \in ATRs :
            /\ checked.open[s] = 0 /\ previous[s] > 0
            /\ engine' = Opened(checked, s, ProfileSetup(checked.equity, d, previous[s], atr))
  BY DEF ProfileTurn
<1> HIDE DEF s
<1>4. checked \in Later(engine)
  BY <1>1, <1>2, CheckIsLater
<1> HIDE DEF checked
<1>5. ASSUME NEW d \in Directions, NEW atr \in ATRs, checked.open[s] = 0, previous[s] > 0,
             engine' = Opened(checked, s, ProfileSetup(checked.equity, d, previous[s], atr))
      PROVE  Trades(engine, engine')
  <2> DEFINE setup == ProfileSetup(checked.equity, d, previous[s], atr)
  <2>1. previous[s] \in Prices /\ checked.equity \in Int
    BY <1>2, <1>4, <1>5 DEF BacktestInv, Later, Sound, Engines
  <2>2. Proper(setup)
    BY <2>1, ProfileSetupProper
  <2> HIDE DEF setup
  <2>3. engine' = Opened(checked, s, setup)
    BY <1>5 DEF setup
  <2> QED BY <1>2, <1>4, <1>5, <2>2, <2>3 DEF Trades
<1> QED BY <1>3, <1>4, <1>5 DEF Trades

LEMMA StepTrades ==
    ASSUME BacktestAssumption, BacktestInv, [BacktestNext]_backtestVars
    PROVE  Trades(engine, engine')
<1>1. engine \in Sound /\ Later(engine) \subseteq Sound
  BY DEF BacktestInv, Later
<1>2. CASE NextBar
  <2>1. CASE runner = "workflow"
    <3> DEFINE market == prices'
               at == bar'
               e == engine
    <3>1. /\ engine' = CheckAll(e, market, at) /\ market \in [Symbols -> Prices]
          /\ at \in Nat /\ e \in Sound
      BY <1>1, <1>2, <2>1 DEF NextBar, BacktestInv
    <3> HIDE DEF market, at, e
    <3>2. \A x \in Later(e), s \in Symbols, price \in Nat \ {0} :
             CheckStopTake(x, s, price, at) \in Later(e)
      <4> TAKE x \in Later(e), s \in Symbols, price \in Nat \ {0}
      <4>1. x \in Sound
        BY DEF Later
      <4>2. CheckStopTake(x, s, price, at) \in Later(x)
        BY <3>1, <4>1, CheckIsLater
      <4> QED BY <3>1, <4>2, LaterAgain
    <3>3. e \in Later(e) /\ Later(e) \subseteq Sound
      BY <3>1, StillItself DEF Later
    <3>4. CheckAll(e, market, at) \in Later(e)
      BY <3>1, <3>2, <3>3, AllChecked
    <3> QED BY <3>1, <3>4 DEF Trades, e
  <2>2. CASE runner # "workflow"
    BY <1>1, <1>2, <2>2, StillItself DEF NextBar, Trades
  <2> QED BY <2>1, <2>2
<1>3. CASE WorkflowTurn
  BY <1>3, WorkflowTurnTrades
<1>4. CASE ProfileTurn
  BY <1>4, ProfileTurnTrades
<1>5. CASE GetResults
  <2>1. bar > 0 /\ engine' = AllClosed
    BY <1>5 DEF GetResults
  <2>2. prices \in [Symbols -> Prices]
    BY <2>1 DEF BacktestInv
  <2>3. \A x \in Later(engine), s \in Symbols, price \in Int :
           Closed(x, s, price, "END_OF_BACKTEST", 0) \in Later(engine)
    <3> TAKE x \in Later(engine), s \in Symbols, price \in Int
    <3>1. x \in Sound /\ "END_OF_BACKTEST" \in Reasons /\ 0 \in Nat
      BY DEF Later, Reasons
    <3>2. Closed(x, s, price, "END_OF_BACKTEST", 0) \in Later(x)
      BY <3>1, ClosedIsLater
    <3> QED BY <1>1, <3>2, LaterAgain
  <2>4. AllClosed \in Later(engine)
    BY <1>1, <2>2, <2>3, StillItself, AllClosedSound
  <2> QED BY <2>1, <2>4 DEF Trades
<1>6. CASE Reset
  BY <1>1, <1>6, StillItself DEF Reset, BacktestInv, Trades
<1>7. CASE SnapshotRaises \/ UNCHANGED backtestVars
  BY <1>1, <1>7, StillItself DEF SnapshotRaises, backtestVars, Trades
<1> QED BY <1>2, <1>3, <1>4, <1>5, <1>6, <1>7 DEF BacktestNext

LEMMA LedgerFacts ==
    ASSUME NEW e \in Sound
    PROVE  /\ LedgerOf(e.trades) \in Seq({LedgerOf(e.trades)[k] : k \in 1 .. Len(e.trades)})
           /\ Len(LedgerOf(e.trades)) = Len(e.trades) /\ Len(e.trades) \in Nat
           /\ DOMAIN LedgerOf(e.trades) = 1 .. Len(e.trades)
           /\ \A k \in 1 .. Len(e.trades) :
                 LedgerOf(e.trades)[k] =
                    [symbol |-> e.trades[k].symbol, terms |-> Terms(e.trades[k]),
                     status |-> e.trades[k].status, gain |-> e.trades[k].pnl]
           /\ Record!Gains(LedgerOf(e.trades)) = e.equity - InitialEquity
<1> DEFINE l == LedgerOf(e.trades)
           n == Len(e.trades)
<1>1. e.trades \in Seq(PastTrade) /\ InOrder(e) /\ e.equity \in Int
  BY DEF Sound, Engines
<1>2. n \in Nat /\ DOMAIN e.trades = 1 .. n
  BY <1>1
<1>3. /\ DOMAIN l = 1 .. n
      /\ \A k \in 1 .. n : l[k] = [symbol |-> e.trades[k].symbol, terms |-> Terms(e.trades[k]),
                                  status |-> e.trades[k].status, gain |-> e.trades[k].pnl]
      /\ l = [k \in 1 .. n |-> l[k]]
  BY <1>2 DEF LedgerOf
<1> HIDE DEF l
<1>4. l \in Seq({l[k] : k \in 1 .. n}) /\ Len(l) = n
  <2> DEFINE S == {l[k] : k \in 1 .. n}
  <2>1. l \in [1 .. n -> S]
    BY <1>3
  <2> HIDE DEF S
  <2>2. l \in Seq(S) /\ Len(l) = n
    BY <1>2, <2>1
  <2> QED BY <2>2 DEF S
<1>5. Record!Gains(l) = Booked(e.trades)
  <2>1. \A k \in 1 .. n : l[k].gain = e.trades[k].pnl
    <3> TAKE k \in 1 .. n
    <3>1. l[k] = [symbol |-> e.trades[k].symbol, terms |-> Terms(e.trades[k]),
                  status |-> e.trades[k].status, gain |-> e.trades[k].pnl]
      BY <1>3
    <3> QED BY <3>1
  <2>2. [k \in DOMAIN l |-> l[k].gain] = [k \in DOMAIN e.trades |-> e.trades[k].pnl]
    BY <1>2, <1>3, <2>1
  <2>3. Record!Gains(l) = SumFunctionOnSet([k \in DOMAIN l |-> l[k].gain], DOMAIN l)
    BY DEF Record!Gains, Record!SumFunctionOnSet, Record!FoldFunctionOnSet,
           Record!MapThenFoldSet, SumFunctionOnSet, FoldFunctionOnSet, MapThenFoldSet
  <2>4. Booked(e.trades) = SumFunctionOnSet([k \in DOMAIN e.trades |-> e.trades[k].pnl], DOMAIN l)
    BY <1>2, <1>3 DEF Booked
  <2> QED BY <2>2, <2>3, <2>4
<1>6. Booked(e.trades) \in Int /\ InitialEquity \in Int /\ e.equity = InitialEquity + Booked(e.trades)
  BY <1>1, BookedType, BacktestAssumption DEF InOrder, BacktestAssumption
<1>7. Record!Gains(l) = e.equity - InitialEquity
  BY <1>5, <1>6
<1> QED BY <1>2, <1>3, <1>4, <1>7 DEF l

LEMMA OutlivesInLedger ==
    ASSUME NEW e \in Sound, NEW x \in Sound, NEW k \in 1 .. Len(e.trades),
           k \in 1 .. Len(x.trades), Outlives(e.trades[k], x.trades[k])
    PROVE  LET t == LedgerOf(e.trades)[k]
               u == LedgerOf(x.trades)[k]
           IN  /\ u.symbol = t.symbol /\ u.terms = t.terms /\ (u.status = "OPEN" => t.status = "OPEN")
               /\ (u.status = t.status => u = t)
<1> DEFINE t == LedgerOf(e.trades)[k]
           u == LedgerOf(x.trades)[k]
           v == e.trades[k]
           w == x.trades[k]
<1>1. /\ t = [symbol |-> v.symbol, terms |-> Terms(v), status |-> v.status, gain |-> v.pnl]
      /\ u = [symbol |-> w.symbol, terms |-> Terms(w), status |-> w.status, gain |-> w.pnl]
  BY LedgerFacts
<1>2. Outlives(v, w)
  OBVIOUS
<1> HIDE DEF t, u, v, w
<1>3. /\ u.symbol = t.symbol /\ u.terms = t.terms
  BY <1>1, <1>2 DEF Outlives
<1>4. u.status = "OPEN" => t.status = "OPEN"
  BY <1>1, <1>2 DEF Outlives
<1>5. ASSUME u.status = t.status PROVE u = t
  <2>1. w = v
    BY <1>1, <1>2, <1>5 DEF Outlives
  <2> QED BY <1>1, <2>1
<1> QED BY <1>3, <1>4, <1>5 DEF t, u

\* A trade the engine opens follows the others in the ledger, alone of its symbol.
LEMMA OpenedInLedger ==
    ASSUME BacktestAssumption, bar \in Nat, NEW c \in Sound, NEW s \in Symbols, c.open[s] = 0,
           NEW setup, Proper(setup)
    PROVE  LET x == Opened(c, s, setup)
               n == Len(c.trades)
           IN  /\ x \in Sound /\ Len(x.trades) = n + 1
               /\ \A k \in 1 .. n : x.trades[k] = c.trades[k]
               /\ x.trades[n + 1].symbol = s /\ x.trades[n + 1].status = "OPEN"
               /\ x.trades[n + 1].pnl = 0
               /\ \A k \in 1 .. n : c.trades[k].status = "OPEN" => c.trades[k].symbol # s
<1> DEFINE entry == Slipped(setup.entry, setup.direction)
           t == [symbol |-> s, direction |-> setup.direction,
                 entry |-> entry, size |-> setup.size, margin |-> setup.margin,
                 stop |-> setup.stop, take |-> setup.target,
                 fees |-> Fees(setup.size, entry), bar |-> bar, risk |-> setup.risk,
                 closedAt |-> 0, status |-> "OPEN", reason |-> "NONE", pnl |-> 0]
           x == Opened(c, s, setup)
           n == Len(c.trades)
<1>1. x \in Sound
  BY OpenedSound DEF Proper
<1>2. x.trades = Append(c.trades, t) /\ t.symbol = s /\ t.status = "OPEN" /\ t.pnl = 0
  BY DEF Opened, Sound, Engines
<1>3. c.trades \in Seq(PastTrade) /\ n \in Nat /\ InOrder(c)
  BY DEF Sound, Engines
<1> HIDE DEF t, x
<1>4. /\ Len(x.trades) = n + 1 /\ x.trades[n + 1] = t
      /\ \A k \in 1 .. n : x.trades[k] = c.trades[k]
  BY <1>2, <1>3
<1>5. ASSUME NEW k \in 1 .. n, c.trades[k].status = "OPEN", c.trades[k].symbol = s PROVE FALSE
  <2>1. c.open[s] = k
    BY <1>3, <1>5 DEF InOrder
  <2> QED BY <1>3, <2>1
<1> QED BY <1>1, <1>2, <1>4, <1>5 DEF x

LEMMA TradesAreRecorded ==
    ASSUME BacktestAssumption, BacktestInv, BacktestInv', bar \in Nat, Trades(engine, engine')
    PROVE  Record!LedgerNext
<1> DEFINE e == engine
           x == engine'
           n == Len(e.trades)
           l == LedgerOf(e.trades)
           m == LedgerOf(x.trades)
<1>0. LedgerOf(engine.trades)' = m
  BY DEF LedgerOf
<1>1. e \in Sound /\ x \in Sound
  BY DEF BacktestInv
<1>2. /\ n \in Nat /\ Len(l) = n /\ DOMAIN l = 1 .. n
      /\ Len(x.trades) \in Nat /\ Len(m) = Len(x.trades) /\ DOMAIN m = 1 .. Len(x.trades)
      /\ \A k \in 1 .. Len(x.trades) :
            m[k] = [symbol |-> x.trades[k].symbol, terms |-> Terms(x.trades[k]),
                    status |-> x.trades[k].status, gain |-> x.trades[k].pnl]
  BY <1>1, LedgerFacts
<1>3. x.equity = e.equity + Record!Gains(m) - Record!Gains(l)
  <2>1. Record!Gains(m) = x.equity - InitialEquity /\ Record!Gains(l) = e.equity - InitialEquity
    BY <1>1, LedgerFacts
  <2>2. x.equity \in Int /\ e.equity \in Int /\ InitialEquity \in Int
    BY <1>1 DEF Sound, Engines, BacktestAssumption
  <2> QED BY <2>1, <2>2
<1>4. /\ Len(x.trades) \in n .. n + 1
      /\ \A k \in 1 .. n : Outlives(e.trades[k], x.trades[k])
      /\ Len(x.trades) = n + 1 =>
            /\ x.trades[n + 1].status = "OPEN" /\ x.trades[n + 1].pnl = 0
            /\ \A k \in 1 .. n : x.trades[k].status = "OPEN" =>
                  x.trades[k].symbol # x.trades[n + 1].symbol
  <2>1. CASE x \in Later(e)
    BY <1>2, <2>1 DEF Later
  <2>2. CASE \E c \in Later(e), s \in Symbols : \E setup :
                c.open[s] = 0 /\ Proper(setup) /\ x = Opened(c, s, setup)
    <3> PICK c \in Later(e), s \in Symbols : \E setup :
                c.open[s] = 0 /\ Proper(setup) /\ x = Opened(c, s, setup)
      BY <2>2
    <3>1. PICK setup : c.open[s] = 0 /\ Proper(setup) /\ x = Opened(c, s, setup)
      OBVIOUS
    <3>2. /\ c \in Sound /\ Len(c.trades) = n
          /\ \A k \in 1 .. n : Outlives(e.trades[k], c.trades[k])
      BY DEF Later
    <3> HIDE DEF e, x, n
    <3>3. /\ Len(x.trades) = n + 1 /\ \A k \in 1 .. n : x.trades[k] = c.trades[k]
          /\ x.trades[n + 1].symbol = s /\ x.trades[n + 1].status = "OPEN"
          /\ x.trades[n + 1].pnl = 0
          /\ \A k \in 1 .. n : c.trades[k].status = "OPEN" => c.trades[k].symbol # s
      BY <3>1, <3>2, OpenedInLedger
    <3>4. Len(x.trades) \in n .. n + 1
      BY <1>2, <3>3
    <3>5. \A k \in 1 .. n : Outlives(e.trades[k], x.trades[k])
      BY <3>2, <3>3
    <3>6. \A k \in 1 .. n : x.trades[k].status = "OPEN" => x.trades[k].symbol # x.trades[n + 1].symbol
      BY <3>3
    <3> QED BY <3>3, <3>4, <3>5, <3>6
  <2> QED BY <2>1, <2>2 DEF Trades
<1> HIDE DEF n
<1>5. \A k \in 1 .. n : k \in 1 .. Len(x.trades)
  BY <1>2, <1>4
<1>6. Record!Settle
  <2>1. ASSUME NEW k \in 1 .. n
        PROVE  /\ m[k].symbol = l[k].symbol /\ m[k].terms = l[k].terms /\ (m[k].status = "OPEN" => l[k].status = "OPEN")
               /\ m[k].status = l[k].status => m[k] = l[k]
    <3>1. Outlives(e.trades[k], x.trades[k]) /\ k \in 1 .. Len(x.trades) /\ k \in 1 .. Len(e.trades)
      BY <1>4, <1>5 DEF n
    <3> QED BY <1>1, <3>1, OutlivesInLedger
  <2>2. \A k \in DOMAIN l :
            /\ k \in DOMAIN m
            /\ m[k].symbol = l[k].symbol /\ m[k].terms = l[k].terms
            /\ m[k].status = "OPEN" => l[k].status = "OPEN"
            /\ m[k].status = l[k].status => m[k] = l[k]
    <3> HIDE DEF l, m
    <3> QED BY <1>2, <1>5, <2>1
  <2> QED BY <1>0, <2>2 DEF Record!Settle
<1>7. Record!Enter
  <2>1. Len(m) <= Len(l) + 1
    BY <1>2, <1>4
  <2> HIDE DEF l, m, x
  <2>2. ASSUME NEW k \in DOMAIN m \ DOMAIN l
        PROVE  /\ m[k].status = "OPEN" /\ m[k].gain = 0
               /\ \A j \in DOMAIN l : m[j].status = "OPEN" => m[j].symbol # m[k].symbol
    <3>1. k = n + 1 /\ Len(x.trades) = n + 1 /\ k \in 1 .. Len(x.trades)
      BY <1>2, <1>4
    <3>2. m[k].status = "OPEN" /\ m[k].gain = 0 /\ m[k].symbol = x.trades[n + 1].symbol
      BY <1>2, <1>4, <3>1
    <3>3. ASSUME NEW j \in DOMAIN l, m[j].status = "OPEN" PROVE m[j].symbol # m[k].symbol
      <4>1. j \in 1 .. n /\ j \in 1 .. Len(x.trades)
        BY <1>2, <1>5
      <4>2. x.trades[j].status = "OPEN" /\ m[j].symbol = x.trades[j].symbol
        <5>1. m[j] = [symbol |-> x.trades[j].symbol, terms |-> Terms(x.trades[j]),
                      status |-> x.trades[j].status, gain |-> x.trades[j].pnl]
          BY <1>2, <4>1
        <5> QED BY <3>3, <5>1
      <4> QED BY <1>4, <3>1, <3>2, <4>1, <4>2
    <3> QED BY <3>2, <3>3
  <2>3. LedgerOf(engine.trades)' = m /\ LedgerOf(engine.trades) = l
    BY <1>0 DEF l
  <2> QED BY <2>1, <2>2, <2>3 DEF Record!Enter
<1> QED BY <1>0, <1>3, <1>6, <1>7 DEF Record!LedgerNext

\* The legacy engine implements TradeLedger, for any symbols, prices, analyses and
\* loops: its terms fixed at the entry, each trade is settled at most once, and
\* equity moves by exactly what a step settles.
THEOREM KeepsLedgerHolds == BacktestSpec => KeepsLedger
<1>1. BacktestInit => BacktestInv /\ Record!LedgerInit
  <2> SUFFICES ASSUME BacktestInit PROVE BacktestInv /\ Record!LedgerInit
    OBVIOUS
  <2>1. BacktestInv
    BY BacktestInitially, BacktestAssumption
  <2>2. engine.trades = <<>> /\ engine.equity = InitialEquity
    BY DEF BacktestInit, FreshEngine
  <2>3. LedgerOf(<<>>) = <<>>
    BY DEF LedgerOf
  <2> QED BY <2>1, <2>2, <2>3 DEF Record!LedgerInit
<1>2. BacktestInv /\ [BacktestNext]_backtestVars => BacktestInv' /\ Record!LedgerNext
  <2> SUFFICES ASSUME BacktestInv, [BacktestNext]_backtestVars
               PROVE  BacktestInv' /\ Record!LedgerNext
    OBVIOUS
  <2>1. BacktestInv' /\ Trades(engine, engine') /\ bar \in Nat
    BY BacktestStepKeeps, StepTrades, BacktestAssumption DEF BacktestInv
  <2> QED BY <2>1, TradesAreRecorded, BacktestAssumption
<1> QED BY <1>1, <1>2, PTL DEF BacktestSpec, KeepsLedger, Record!LedgerSpec

(***************************************************************************)
(* PairsTrading                                                            *)
(***************************************************************************)

SpreadTrade ==
    [long : {"BTC", "ETH"}, direction : [Legs -> {"LONG", "SHORT"}], entry : [Legs -> Nat \ {0}],
     stop : [Legs -> Int], notional : [Legs -> Nat], margin : Nat, risk : Nat, equity : Nat,
     result : {"OPEN", "WIN", "LOSS", "HOLD"}, pnl : Int]

\* The two properties, of one spread.
Judged(s) == (s.result = "WIN" <=> s.pnl > 0) /\ (s.result = "LOSS" <=> s.pnl < 0)
Capped(s) ==
    /\ s.notional["long"] + s.notional["short"] <= s.margin /\ s.margin <= s.equity
    /\ Exposure(s.notional, s.entry, s.stop) <= s.risk
    /\ s.risk * 100 <= s.equity * RiskPct * Unit(s.entry)
Sane == {s \in SpreadTrade : Judged(s) /\ Capped(s)}

PairsInv ==
    /\ spreads \in Seq(Sane)
    /\ active \subseteq DOMAIN spreads
    /\ \A k \in DOMAIN spreads : k \in active <=> spreads[k].result = "OPEN"

-----------------------------------------------------------------------------
(* Sizing.                                                                 *)

LEMMA LegNotionalType ==
  ASSUME PairsTradingAssumption, NEW entry \in Nat, NEW stop \in Int, NEW budget \in Nat
  PROVE  LegNotional(entry, stop, budget) \in Nat
<1>1. Gap(entry, stop) \in Nat
  BY DEF Gap
<1> DEFINE gap == Gap(entry, stop)
           raw == IF gap = 0 THEN 100 * budget ELSE (budget * entry) \div (2 * gap)
<1> HIDE DEF gap
<1>2. raw \in Nat
  <2>1. ASSUME gap # 0 PROVE (budget * entry) \div (2 * gap) \in Nat
    <3>1. budget * entry \in Nat /\ 2 * gap \in Nat \ {0}
      BY <1>1, <2>1 DEF gap
    <3>2. \A m \in Nat, n \in Nat \ {0} : m \div n \in Nat
      OBVIOUS
    <3> QED BY <3>1, <3>2
  <2> QED BY <2>1
<1> HIDE DEF raw
<1>3. LegNotional(entry, stop, budget) = IF raw < MinLegNotional THEN MinLegNotional ELSE raw
  BY DEF LegNotional, raw, gap
<1> QED BY <1>2, <1>3 DEF PairsTradingAssumption

LEMMA MarginCapHolds ==
  ASSUME PairsTradingAssumption, NEW entry \in [Legs -> Nat \ {0}], NEW stop \in [Legs -> Int],
         NEW equity \in Nat, NEW m, m = UnderMarginCap(entry, stop, equity)
  PROVE  /\ m.notional \in [Legs -> Nat] /\ m.margin \in Nat
         /\ m.notional["long"] + m.notional["short"] <= m.margin /\ m.margin <= equity
<1> DEFINE budget == (equity * RiskPct) \div 100
           n == [l \in Legs |-> LegNotional(entry[l], stop[l], budget)]
           sum == n["long"] + n["short"]
<1>1. "long" \in Legs /\ "short" \in Legs /\ \A l \in Legs : l = "long" \/ l = "short"
  BY DEF Legs
<1>2. budget \in Nat
  <2>1. equity * RiskPct \in Nat
    BY DEF PairsTradingAssumption
  <2>2. \A x \in Nat : x \div 100 \in Nat
    OBVIOUS
  <2> QED BY <2>1, <2>2
<1> HIDE DEF budget
<1>3. n \in [Legs -> Nat]
  BY <1>2, LegNotionalType
<1> HIDE DEF n
<1>4. sum \in Nat
  BY <1>1, <1>3
<1>5. /\ m.notional = IF sum > equity THEN [l \in Legs |-> (n[l] * equity) \div sum] ELSE n
      /\ m.margin = IF sum > equity THEN equity ELSE sum
  BY DEF UnderMarginCap, n, budget
<1>6. CASE sum > equity
  <2>1. sum \in Nat \ {0} /\ sum = n["long"] * 1 + n["short"] * 1 /\ equity <= sum
    BY <1>1, <1>3, <1>4, <1>6
  <2> HIDE DEF sum
  <2> DEFINE p == (n["long"] * equity) \div sum
             q == (n["short"] * equity) \div sum
  <2>2. p \in Nat /\ q \in Nat /\ p * 1 + q * 1 <= equity
    <3> DEFINE x == n["long"]
               y == n["short"]
    <3>1. p = (x * equity) \div sum /\ q = (y * equity) \div sum /\ x \in Nat /\ y \in Nat
      BY <1>1, <1>3
    <3>2. sum = x * 1 + y * 1
      BY <2>1
    <3> HIDE DEF x, y, p, q
    <3>3. x * equity \in Nat /\ y * equity \in Nat
      BY <3>1
    <3>4. \A z \in Nat, d \in Nat \ {0} : z \div d \in Nat /\ d * (z \div d) <= z
      OBVIOUS
    <3>5. p \in Nat /\ q \in Nat /\ sum * p <= x * equity /\ sum * q <= y * equity
      BY <2>1, <3>1, <3>3, <3>4
    <3>6. 1 \in Nat /\ x \in Nat /\ y \in Nat
      BY <3>1
    <3> QED BY <2>1, <3>2, <3>5, <3>6, ScaledWithin
  <2>3. /\ m.notional = [l \in Legs |-> (n[l] * equity) \div sum] /\ m.margin = equity
    BY <1>5, <1>6
  <2>4. m.notional["long"] = (n["long"] * equity) \div sum /\ m.notional["short"] = (n["short"] * equity) \div sum
    BY <1>1, <2>3
  <2>5. m.notional \in [Legs -> Nat]
    BY <1>1, <2>2, <2>3, <2>4
  <2> HIDE DEF p, q
  <2>6. p + q <= equity
    BY <2>2
  <2> QED BY <2>3, <2>4, <2>5, <2>6 DEF p, q
<1>7. CASE ~(sum > equity)
  BY <1>1, <1>3, <1>4, <1>5, <1>7
<1> QED BY <1>6, <1>7

LEMMA BothCapsHold ==
  ASSUME PairsTradingAssumption, NEW entry \in [Legs -> Nat \ {0}], NEW stop \in [Legs -> Int],
         NEW equity \in Nat, NEW size, size = Sizing(entry, stop, equity)
  PROVE  /\ size.notional \in [Legs -> Nat] /\ size.margin \in Nat /\ size.risk \in Nat
         /\ size.notional["long"] + size.notional["short"] <= size.margin /\ size.margin <= equity
         /\ Exposure(size.notional, entry, stop) <= size.risk
         /\ size.risk * 100 <= equity * RiskPct * Unit(entry)
<1> DEFINE m == UnderMarginCap(entry, stop, equity)
           budget == (equity * RiskPct) \div 100
           unit == Unit(entry)
           most == budget * unit
           a == m.notional["long"]
           b == m.notional["short"]
           v == Gap(entry["long"], stop["long"]) * entry["short"]
           w == Gap(entry["short"], stop["short"]) * entry["long"]
           exposed == Exposure(m.notional, entry, stop)
<1>1. "long" \in Legs /\ "short" \in Legs /\ \A l \in Legs : l = "long" \/ l = "short"
  BY DEF Legs
<1>2. /\ m.notional \in [Legs -> Nat] /\ m.margin \in Nat
      /\ m.notional["long"] + m.notional["short"] <= m.margin /\ m.margin <= equity
  BY MarginCapHolds
<1>3. /\ size.notional = IF exposed > most THEN [l \in Legs |-> (m.notional[l] * most) \div exposed]
                         ELSE m.notional
      /\ size.margin = m.margin
      /\ size.risk = IF exposed > most THEN most ELSE exposed
  BY DEF Sizing
<1> HIDE DEF m
<1>4. v \in Nat /\ w \in Nat /\ unit \in Nat /\ a \in Nat /\ b \in Nat
  <2>1. Gap(entry["long"], stop["long"]) \in Nat /\ Gap(entry["short"], stop["short"]) \in Nat
    BY <1>1 DEF Gap
  <2> QED BY <1>1, <1>2, <2>1 DEF Unit
<1>5. budget \in Nat /\ 100 * budget <= equity * RiskPct
  <2>1. equity * RiskPct \in Nat
    BY DEF PairsTradingAssumption
  <2>2. \A x \in Nat : x \div 100 \in Nat /\ 100 * (x \div 100) <= x
    OBVIOUS
  <2> QED BY <2>1, <2>2
<1>6. exposed = a * v + b * w
  BY DEF Exposure
<1>7. \A n : Exposure(n, entry, stop) = n["long"] * v + n["short"] * w
  BY DEF Exposure
<1> HIDE DEF v, w, unit, budget, exposed
<1>8. most \in Nat /\ most * 100 <= equity * RiskPct * unit
  <2>1. (100 * budget) * unit <= (equity * RiskPct) * unit
    <3>1. equity * RiskPct \in Nat /\ 100 * budget \in Nat
      BY <1>5 DEF PairsTradingAssumption
    <3> QED BY <1>4, <1>5, <3>1, MulMonotone
  <2>2. (100 * budget) * unit = (budget * unit) * 100
    <3>1. \A x, y \in Nat : (100 * x) * y = (x * y) * 100
      OBVIOUS
    <3> QED BY <1>4, <1>5, <3>1
  <2> QED BY <1>4, <1>5, <2>1, <2>2
<1>9. exposed \in Nat
  BY <1>4, <1>6
<1> HIDE DEF most
<1>10. CASE exposed > most
  <2>1. exposed \in Nat \ {0} /\ most <= exposed
    BY <1>8, <1>9, <1>10
  <2> DEFINE p == (a * most) \div exposed
             q == (b * most) \div exposed
  <2>2. p \in Nat /\ q \in Nat /\ p * v + q * w <= most /\ p <= a /\ q <= b
    <3>1. p = (a * most) \div exposed /\ q = (b * most) \div exposed
      OBVIOUS
    <3> HIDE DEF a, b, p, q
    <3>2. a * most \in Nat /\ b * most \in Nat
      BY <1>4, <1>8
    <3>3. \A x \in Nat, d \in Nat \ {0} : x \div d \in Nat /\ d * (x \div d) <= x
      OBVIOUS
    <3>4. p \in Nat /\ q \in Nat /\ exposed * p <= a * most /\ exposed * q <= b * most
      BY <2>1, <3>1, <3>2, <3>3
    <3> QED BY <1>4, <1>6, <1>8, <2>1, <3>4, ScaledWithin
  <2>3. size.notional["long"] = p /\ size.notional["short"] = q /\ size.risk = most
    BY <1>1, <1>3, <1>10
  <2>4. size.notional \in [Legs -> Nat]
    BY <1>1, <1>3, <1>10, <2>2, <2>3
  <2>5. Exposure(size.notional, entry, stop) <= most
    BY <1>7, <2>2, <2>3
  <2> HIDE DEF p, q
  <2>6. p + q <= a + b
    <3> HIDE DEF a, b
    <3> QED BY <1>4, <2>2
  <2>7. size.notional["long"] + size.notional["short"] <= size.margin
    <3>1. a + b <= m.margin /\ size.margin = m.margin
      BY <1>2, <1>3
    <3> HIDE DEF a, b
    <3> QED BY <1>2, <1>4, <2>2, <2>3, <2>6, <3>1
  <2> QED BY <1>2, <1>3, <1>8, <2>3, <2>4, <2>5, <2>7 DEF unit
<1>11. CASE ~(exposed > most)
  <2>1. size.notional = m.notional /\ size.risk = exposed /\ size.margin = m.margin
    BY <1>3, <1>11
  <2>2. Exposure(size.notional, entry, stop) <= size.risk
    BY <1>9, <2>1 DEF exposed
  <2>3. exposed * 100 <= equity * RiskPct * unit
    <3>1. exposed * 100 <= most * 100
      BY <1>8, <1>9, <1>11
    <3>2. equity * RiskPct * unit \in Nat
      BY <1>4 DEF PairsTradingAssumption
    <3> DEFINE z == equity * RiskPct * unit
    <3> HIDE DEF z
    <3> QED BY <1>8, <1>9, <3>1, <3>2 DEF z
  <2> QED BY <1>2, <1>9, <2>1, <2>2, <2>3 DEF unit
<1> QED BY <1>10, <1>11

-----------------------------------------------------------------------------
(* Outcomes.                                                               *)

LEMMA VerdictIsSign ==
  ASSUME NEW a \in Int, NEW b \in Int
  PROVE  /\ Verdict(a, b) \in {"WIN", "LOSS", "HOLD"}
         /\ Verdict(a, b) = "WIN" <=> a + b > 0
         /\ Verdict(a, b) = "LOSS" <=> a + b < 0
BY DEF Verdict

LEMMA LegPnLType ==
  ASSUME NEW s \in SpreadTrade, NEW l \in Legs, NEW outcome \in Outcomes, NEW exit \in Int
  PROVE  LegPnL(s, l, outcome, exit) \in Int
<1> DEFINE sign == IF s.direction[l] = "LONG" THEN 1 ELSE -1
<1>1. sign \in Int /\ s.entry[l] \in Int /\ s.stop[l] \in Int
  BY DEF SpreadTrade
<1>2. LegPnL(s, l, outcome, exit) =
        CASE outcome = "WIN" -> sign * (exit - s.entry[l])
          [] outcome = "LOSS" -> -(sign * (s.entry[l] - s.stop[l]))
          [] OTHER -> 0
  BY DEF LegPnL
<1> HIDE DEF sign
<1>3. sign * (exit - s.entry[l]) \in Int /\ -(sign * (s.entry[l] - s.stop[l])) \in Int
  BY <1>1
<1> QED BY <1>2, <1>3

-----------------------------------------------------------------------------
(* The steps.                                                              *)

LEMMA EvaluateStep ==
  ASSUME PairsTradingAssumption, PairsInv, NEW btc \in Signal, NEW eth \in Signal, Evaluate(btc, eth)
  PROVE  PairsInv'
<1> DEFINE longer == LongSymbol(btc, eth)
           leg == [long |-> IF longer = "BTC" THEN btc ELSE eth,
                   short |-> IF longer = "BTC" THEN eth ELSE btc]
           entry == [l \in Legs |-> leg[l].entry]
           atr == [l \in Legs |-> leg[l].atr]
           stop == Stops(leg["long"].direction, entry, atr)
           equity == IF btc.direction = eth.direction THEN SpreadEquity \div 2 ELSE SpreadEquity
           size == Sizing(entry, stop, equity)
           s == [long |-> longer, direction |-> [l \in Legs |-> leg[l].direction],
                 entry |-> entry, stop |-> stop, notional |-> size.notional,
                 margin |-> size.margin, risk |-> size.risk, equity |-> equity,
                 result |-> "OPEN", pnl |-> 0]
<1>1. /\ spreads' = Append(spreads, s) /\ active' = active \union {Len(spreads) + 1}
      /\ btc.entry > 0 /\ eth.entry > 0
  BY DEF Evaluate
<1>2. \A l \in Legs : leg[l] \in {btc, eth}
  BY DEF Legs
<1>3. \A x \in {btc, eth} : x.direction \in {"LONG", "SHORT"} /\ x.entry \in Nat \ {0} /\ x.atr \in Nat
  <2>1. \A x \in {btc, eth} : /\ x.direction \in {"LONG", "SHORT"} /\ x.entry \in Entries
                              /\ x.atr \in Atrs /\ x.entry > 0
    BY <1>1 DEF Signal
  <2>2. Entries \subseteq Nat /\ Atrs \subseteq Nat
    BY DEF PairsTradingAssumption
  <2>3. \A n \in Nat : n > 0 => n \in Nat \ {0}
    OBVIOUS
  <2> QED BY <2>1, <2>2, <2>3
<1>4. longer \in {"BTC", "ETH"}
  BY DEF LongSymbol
<1> HIDE DEF leg, longer
<1>5. /\ [l \in Legs |-> leg[l].direction] \in [Legs -> {"LONG", "SHORT"}]
      /\ entry \in [Legs -> Nat \ {0}] /\ atr \in [Legs -> Nat]
  BY <1>2, <1>3
<1> HIDE DEF entry, atr
<1>6. stop \in [Legs -> Int]
  BY <1>5 DEF Stops
<1>7. equity \in Nat
  <2>1. SpreadEquity \in Nat
    BY DEF PairsTradingAssumption
  <2>2. \A x \in Nat : x \div 2 \in Nat
    OBVIOUS
  <2> QED BY <2>1, <2>2
<1> HIDE DEF equity, stop
<1>8. /\ size.notional \in [Legs -> Nat] /\ size.margin \in Nat /\ size.risk \in Nat
      /\ size.notional["long"] + size.notional["short"] <= size.margin /\ size.margin <= equity
      /\ Exposure(size.notional, entry, stop) <= size.risk
      /\ size.risk * 100 <= equity * RiskPct * Unit(entry)
  BY <1>5, <1>6, <1>7, BothCapsHold
<1> HIDE DEF size
<1>9. /\ s.notional = size.notional /\ s.margin = size.margin /\ s.equity = equity /\ s.risk = size.risk
      /\ s.entry = entry /\ s.stop = stop /\ s.result = "OPEN" /\ s.pnl = 0
  OBVIOUS
<1>10. s \in SpreadTrade
  BY <1>4, <1>5, <1>6, <1>7, <1>8 DEF SpreadTrade
<1> HIDE DEF s
<1>11. Capped(s) /\ Judged(s)
  <2>1. Capped(s)
    BY <1>8, <1>9 DEF Capped
  <2>2. Judged(s)
    BY <1>9 DEF Judged
  <2> QED BY <2>1, <2>2
<1>12. s \in Sane
  BY <1>10, <1>11 DEF Sane
<1>13. /\ spreads' \in Seq(Sane) /\ Len(spreads) \in Nat /\ DOMAIN spreads = 1 .. Len(spreads)
       /\ DOMAIN spreads' = 1 .. Len(spreads) + 1
       /\ \A k \in 1 .. Len(spreads) : spreads'[k] = spreads[k]
       /\ spreads'[Len(spreads) + 1] = s
  BY <1>1, <1>12, AppendProperties, LenProperties DEF PairsInv
<1>14. active' \subseteq DOMAIN spreads'
  BY <1>1, <1>13 DEF PairsInv
<1>15. \A k \in DOMAIN spreads' : k \in active' <=> spreads'[k].result = "OPEN"
  <2> SUFFICES ASSUME NEW k \in DOMAIN spreads' PROVE k \in active' <=> spreads'[k].result = "OPEN"
    OBVIOUS
  <2>1. CASE k \in DOMAIN spreads
    <3>1. k # Len(spreads) + 1
      BY <1>13, <2>1
    <3> QED BY <1>1, <1>13, <2>1, <3>1 DEF PairsInv
  <2>2. CASE k = Len(spreads) + 1
    BY <1>1, <1>9, <1>13, <2>2
  <2> QED BY <1>13, <2>1, <2>2
<1> QED BY <1>13, <1>14, <1>15 DEF PairsInv

LEMMA SimulateOutcomeStep ==
  ASSUME PairsTradingAssumption, PairsInv, NEW k \in DOMAIN spreads, NEW bo \in Outcomes,
         NEW bm \in Moves, NEW eo \in Outcomes, NEW em \in Moves, SimulateOutcome(k, bo, bm, eo, em)
  PROVE  PairsInv'
<1> DEFINE s == spreads[k]
           first == LegPnL(s, "long", bo, s.entry["long"] + bm)
           second == LegPnL(s, "short", eo, s.entry["short"] + em)
           t == [s EXCEPT !.result = Verdict(first, second), !.pnl = first + second]
<1>1. spreads' = [spreads EXCEPT ![k] = t] /\ active' = active \ {k}
  BY DEF SimulateOutcome
<1>2. spreads \in Seq(Sane) /\ DOMAIN spreads = 1 .. Len(spreads) /\ s \in Sane
  BY LenProperties, ElementOfSeq DEF PairsInv
<1>3. first \in Int /\ second \in Int
  <2>1. s \in SpreadTrade /\ "long" \in Legs /\ "short" \in Legs /\ bm \in Int /\ em \in Int
    BY <1>2 DEF Sane, Legs, PairsTradingAssumption
  <2>2. s.entry["long"] + bm \in Int /\ s.entry["short"] + em \in Int
    BY <2>1 DEF SpreadTrade
  <2> HIDE DEF s
  <2> QED BY <2>1, <2>2, LegPnLType
<1> HIDE DEF first, second, s
<1>4. /\ Verdict(first, second) \in {"WIN", "LOSS", "HOLD"}
      /\ Verdict(first, second) = "WIN" <=> first + second > 0
      /\ Verdict(first, second) = "LOSS" <=> first + second < 0
  BY <1>3, VerdictIsSign
<1>5. /\ t \in SpreadTrade /\ t.result = Verdict(first, second) /\ t.pnl = first + second
      /\ t.notional = s.notional /\ t.margin = s.margin /\ t.risk = s.risk /\ t.equity = s.equity
      /\ t.entry = s.entry /\ t.stop = s.stop
  <2>1. s \in SpreadTrade /\ first + second \in Int
        /\ Verdict(first, second) \in {"OPEN", "WIN", "LOSS", "HOLD"}
    BY <1>2, <1>3, <1>4 DEF Sane
  <2> DEFINE r == Verdict(first, second)
             n == first + second
  <2>2. t = [s EXCEPT !.result = r, !.pnl = n]
    OBVIOUS
  <2>3. r \in {"OPEN", "WIN", "LOSS", "HOLD"} /\ n \in Int
    BY <2>1
  <2> HIDE DEF t, r, n
  <2>4. /\ t \in SpreadTrade /\ t.result = r /\ t.pnl = n
        /\ t.notional = s.notional /\ t.margin = s.margin /\ t.risk = s.risk /\ t.equity = s.equity
        /\ t.entry = s.entry /\ t.stop = s.stop
    BY <2>1, <2>2, <2>3 DEF SpreadTrade
  <2> QED BY <2>4 DEF r, n
<1> HIDE DEF t
<1>6. t \in Sane
  BY <1>2, <1>4, <1>5 DEF Sane, Judged, Capped
<1>7. /\ spreads' \in Seq(Sane) /\ DOMAIN spreads' = DOMAIN spreads
      /\ spreads'[k] = t /\ \A j \in DOMAIN spreads \ {k} : spreads'[j] = spreads[j]
  BY <1>1, <1>2, <1>6, ExceptSeq
<1> QED BY <1>1, <1>4, <1>5, <1>7 DEF PairsInv

LEMMA PairsStepInv ==
  ASSUME PairsTradingAssumption, PairsInv, [PairsNext]_pairsVars
  PROVE  PairsInv'
<1>1. CASE PairsNext
  BY <1>1, EvaluateStep, SimulateOutcomeStep DEF PairsNext
<1>2. CASE UNCHANGED pairsVars
  BY <1>2 DEF pairsVars, PairsInv
<1> QED BY <1>1, <1>2

LEMMA PairsInitInv == ASSUME PairsInit PROVE PairsInv
BY EmptySeq DEF PairsInit, PairsInv

LEMMA PairsInvSuffices == ASSUME PairsInv PROVE ResultIsSignOfPnL /\ CapsHoldTogether
<1>1. \A k \in DOMAIN spreads : spreads[k] \in Sane
  BY LenProperties, ElementOfSeq DEF PairsInv
<1> QED BY <1>1 DEF PairsInv, Sane, Judged, Capped, ResultIsSignOfPnL, CapsHoldTogether

\* For any entries, ranges, moves and equity, the verdict of simulate_outcome's
\* cascade is the sign of the PnL it books, however often a spread is settled.
THEOREM ResultIsSignOfPnLHolds == PairsSpec => []ResultIsSignOfPnL
<1>1. PairsInit => PairsInv
  BY PairsInitInv
<1>2. PairsInv /\ [PairsNext]_pairsVars => PairsInv'
  BY PairsStepInv, PairsTradingAssumption
<1>3. PairsInv => ResultIsSignOfPnL
  BY PairsInvSuffices
<1> QED BY <1>1, <1>2, <1>3, PTL DEF PairsSpec

\* For any entries, stops, equity, percentage and floor, both caps of _compute_sizing
\* hold of the sizes it returns: the legs cost no more than the margin and lose no
\* more at their stops than the risk, although each cap rescales what the other one
\* computed and the floor may have raised a leg before.
THEOREM CapsHoldTogetherHolds == PairsSpec => []CapsHoldTogether
<1>1. PairsInit => PairsInv
  BY PairsInitInv
<1>2. PairsInv /\ [PairsNext]_pairsVars => PairsInv'
  BY PairsStepInv, PairsTradingAssumption
<1>3. PairsInv => CapsHoldTogether
  BY PairsInvSuffices
<1> QED BY <1>1, <1>2, <1>3, PTL DEF PairsSpec
===============================================================================
