------------------------------- MODULE LimitQueue -------------------------------
(***************************************************************************)
(* LimitOrderQueue over an executor in test mode                           *)
(* (src/execution/order_router.py): a caller places orders at the middle   *)
(* of a gap or at a retracement, another one cancels them all, and passes  *)
(* of the reconciliation, by its thread or by callers of reconcile(), move *)
(* what has come to an end to the history. The lock of the queue is only   *)
(* held for single reads and writes. The executor is that of MockExecutor  *)
(* at the grain of its writes to the state of an order; how the thread is  *)
(* started and stopped is the matter of LiveOrders. Prices are counted in  *)
(* quarters of a tick.                                                     *)
(***************************************************************************)
EXTENDS Integers, FiniteSets

CONSTANTS
    QueueOrders,  \* orders in the order they are placed: 1 .. n
    Reconcilers,  \* the thread, and callers of reconcile()
    Zones,        \* fair value gaps: a low and a high price
    Bases,        \* prices retraced from
    Retracements  \* in percent

QueueAssumption ==
    /\ QueueOrders \subseteq Nat \ {0} /\ IsFiniteSet(QueueOrders)
    /\ Zones \subseteq Nat \X Nat /\ Bases \subseteq Nat /\ Retracements \subseteq Int
ASSUME QueueAssumption

VARIABLES
    status,     \* the executor's state of each order
    filling,    \* the order the fill thread found open and has not written yet
    queue,      \* _live_orders: per order its price and what it was tagged with
    placing,    \* the caller inside place_at_fvg_zone or place_at_retracement
    cancelling, \* the caller inside cancel_all
    pass,       \* per reconciler: where its pass is
    history,    \* _order_history: the order behind each record, 0 for the record
                \* of {}, and its outcome
    ended       \* observer: the ends the executor gave each order

queueVars == <<status, filling, queue, placing, cancelling, pass, history, ended>>

Live == {"PENDING", "PARTIAL"}
Ended == {"FILLED", "CANCELLED"}
Out == [price |-> 0, kind |-> "out"]
NotPlacing == [at |-> "idle", order |-> 0, entry |-> Out]
Still == [at |-> "idle", order |-> 0, todo |-> {}, saw |-> "none"]

QueueInit ==
    /\ status = [o \in QueueOrders |-> "none"]
    /\ filling = 0
    /\ queue = [o \in QueueOrders |-> Out]
    /\ placing = NotPlacing
    /\ cancelling = Still
    /\ pass = [r \in Reconcilers |-> Still]
    /\ history = {}
    /\ ended = [o \in QueueOrders |-> {}]

Queued == {o \in QueueOrders : queue[o] # Out}
First(S) == CHOOSE o \in S : \A p \in S : o <= p

\* What a thread goes on with after it has dealt with an order of its snapshot.
Onward(t) == IF t.todo = {} THEN Still
             ELSE [at |-> "look", order |-> First(t.todo), todo |-> t.todo \ {First(t.todo)},
                   saw |-> "none"]

(***************************************************************************)
(* The executor                                                            *)
(***************************************************************************)

Write(o, s) ==
    /\ status' = [status EXCEPT ![o] = s]
    /\ ended' = IF s \in Ended THEN [ended EXCEPT ![o] = @ \cup {s}] ELSE ended

FillerLooks(o) ==
    /\ filling = 0 /\ status[o] \in Live
    /\ filling' = o
    /\ UNCHANGED <<status, queue, placing, cancelling, pass, history, ended>>

\* A part is written whatever became of the order; before the last one
\* update_order_status looks once more, just before its write or too early.
FillerWrites ==
    /\ filling # 0
    /\ filling' = 0
    /\ \/ Write(filling, "PARTIAL")
       \/ Write(filling, "FILLED")
       \/ status[filling] \in Ended /\ UNCHANGED <<status, ended>>
    /\ UNCHANGED <<queue, placing, cancelling, pass, history>>

(***************************************************************************)
(* Placing                                                                 *)
(***************************************************************************)

\* _round_to_tick: the nearest multiple of 4, a tie to the even tick.
RoundToTick(p) ==
    LET below == p \div 4
    IN 4 * (IF p % 4 > 2 \/ (p % 4 = 2 /\ below % 2 = 1) THEN below + 1 ELSE below)

\* The middle of the gap; the odd half of a quarter is rounded like the even
\* quarter below it unless that lies on a tie, so it is kept out of Zones.
Midpoint(z) == (z[1] + z[2]) \div 2

Retraced(base, pct, side) ==
    (base * (IF side = "BUY" THEN 100 - pct ELSE 100 + pct)) \div 100

\* place_order: the order is the executor's before the queue knows of it.
Submit(e) ==
    LET o == First({p \in QueueOrders : status[p] = "none"}) IN
    /\ placing.at = "idle" /\ \E p \in QueueOrders : status[p] = "none"
    /\ Write(o, "PENDING")
    /\ placing' = [at |-> "register", order |-> o, entry |-> e]
    /\ UNCHANGED <<filling, queue, cancelling, pass, history>>

\* Gaps that are none and retracements out of range raise ValueError.
PlaceAtFvgZone(z) ==
    z[2] > z[1] /\ Submit([price |-> RoundToTick(Midpoint(z)), kind |-> "FVG"])

PlaceAtRetracement(base, pct, side) ==
    /\ 0 < pct /\ pct < 100 /\ base > 0
    /\ Submit([price |-> RoundToTick(Retraced(base, pct, side)), kind |-> "RETRACEMENT"])

\* The rest of _submit_limit.
EnterQueue ==
    /\ placing.at = "register"
    /\ queue' = [queue EXCEPT ![placing.order] = [placing.entry EXCEPT !.kind = "untagged"]]
    /\ placing' = [placing EXCEPT !.at = "tag"]
    /\ UNCHANGED <<status, filling, cancelling, pass, history, ended>>

\* The tags; when the order has left the queue by now the lookup raises
\* KeyError, and the caller never learns the number of the order it placed.
Tag ==
    /\ placing.at = "tag"
    /\ queue' = IF placing.order \in Queued THEN [queue EXCEPT ![placing.order] = placing.entry]
                ELSE queue
    /\ placing' = NotPlacing
    /\ UNCHANGED <<status, filling, cancelling, pass, history, ended>>

(***************************************************************************)
(* cancel_all                                                              *)
(***************************************************************************)

CancelAll ==
    /\ cancelling.at = "idle" /\ Queued # {}
    /\ cancelling' = Onward([Still EXCEPT !.todo = Queued])
    /\ UNCHANGED <<status, filling, queue, placing, pass, history, ended>>

\* An order that the executor will not cancel is removed all the same.
DropsRefused ==
    LET o == cancelling.order IN
    /\ cancelling.at = "look"
    /\ queue' = IF status[o] \in Ended THEN [queue EXCEPT ![o] = Out] ELSE queue
    /\ cancelling' = IF status[o] \in Ended THEN Onward(cancelling)
                     ELSE [cancelling EXCEPT !.at = "write"]
    /\ UNCHANGED <<status, filling, placing, pass, history, ended>>

\* cancel_order refuses what is at an end: that stays for the reconciliation.
AskCancel ==
    /\ cancelling.at = "look"
    /\ cancelling' = IF status[cancelling.order] \in Ended THEN Onward(cancelling)
                     ELSE [cancelling EXCEPT !.at = "write"]
    /\ UNCHANGED <<status, filling, queue, placing, pass, history, ended>>

\* update_order_status looks again, before its write or a moment too early;
\* cancel_order reports success in any case.
CancelWrites ==
    /\ cancelling.at = "write"
    /\ \/ Write(cancelling.order, "CANCELLED")
       \/ status[cancelling.order] \in Ended /\ UNCHANGED <<status, ended>>
    /\ cancelling' = [cancelling EXCEPT !.at = "pop"]
    /\ UNCHANGED <<filling, queue, placing, pass, history>>

\* pop with {} as a default, for an order the reconciliation removed meanwhile.
PopCancelled ==
    LET o == cancelling.order IN
    /\ cancelling.at = "pop"
    /\ queue' = [queue EXCEPT ![o] = Out]
    /\ cancelling' = [cancelling EXCEPT !.at = "record",
                                       !.saw = IF o \in Queued THEN "entry" ELSE "none"]
    /\ UNCHANGED <<status, filling, placing, pass, history, ended>>

RecordCancelled ==
    /\ cancelling.at = "record"
    /\ history' = history \cup {<<IF cancelling.saw = "none" THEN 0 ELSE cancelling.order,
                                  "cancelled">>}
    /\ cancelling' = Onward(cancelling)
    /\ UNCHANGED <<status, filling, queue, placing, pass, ended>>

(***************************************************************************)
(* _reconcile_test_mode                                                    *)
(***************************************************************************)

Reconcile(r) ==
    /\ pass[r].at = "idle" /\ Queued # {}
    /\ pass' = [pass EXCEPT ![r] = Onward([Still EXCEPT !.todo = Queued])]
    /\ UNCHANGED <<status, filling, queue, placing, cancelling, history, ended>>

GetOrderStatus(r) ==
    /\ pass[r].at = "look"
    /\ pass' = [pass EXCEPT ![r].at = "note", ![r].saw = status[pass[r].order]]
    /\ UNCHANGED <<status, filling, queue, placing, cancelling, history, ended>>

\* An order that has left is passed over; one at an end is written down ...
Note(r) ==
    LET o == pass[r].order
        over == o \in Queued /\ pass[r].saw \in Ended
    IN /\ pass[r].at = "note"
       /\ history' = IF over THEN history \cup {<<o, pass[r].saw>>} ELSE history
       /\ pass' = [pass EXCEPT ![r] = IF over THEN [@ EXCEPT !.at = "pop"] ELSE Onward(@)]
       /\ UNCHANGED <<status, filling, queue, placing, cancelling, ended>>

\* ... and then removed.
Remove(r) ==
    /\ pass[r].at = "pop"
    /\ queue' = [queue EXCEPT ![pass[r].order] = Out]
    /\ pass' = [pass EXCEPT ![r] = Onward(@)]
    /\ UNCHANGED <<status, filling, placing, cancelling, history, ended>>

QueueNext ==
    \/ \E o \in QueueOrders : FillerLooks(o)
    \/ FillerWrites
    \/ \E z \in Zones : PlaceAtFvgZone(z)
    \/ \E base \in Bases, pct \in Retracements, side \in {"BUY", "SELL"} :
         PlaceAtRetracement(base, pct, side)
    \/ EnterQueue \/ Tag
    \/ CancelAll \/ AskCancel \/ CancelWrites \/ PopCancelled \/ RecordCancelled
    \/ \E r \in Reconcilers : Reconcile(r) \/ GetOrderStatus(r) \/ Note(r) \/ Remove(r)

QueueSpec == QueueInit /\ [][QueueNext]_queueVars

(***************************************************************************)
(* Properties                                                              *)
(***************************************************************************)

InHand(o) == cancelling.at = "record" /\ cancelling.order = o /\ cancelling.saw = "entry"

Submitted(o) == status[o] # "none" /\ ~(placing.at = "register" /\ placing.order = o)

\* No order vanishes between the caller that cancels, the passes of the
\* reconciliation and the caller that places: once in the queue it stays there
\* or its entry is in the history, and the reconciliation writes down no end
\* that the executor did not give the order. The records of the code are copies
\* of the queue's entries and do not name the order; here they are told apart by
\* it, or a record of another order could stand in for one that is missing. A
\* record of cancel_all only says that the order had come to some end: an order
\* filled between the two looks of cancel_order is written down as cancelled
\* (order_router.py 800-834 and 1161-1190, unlocked between a read and the pop).
NoOrderVanishes ==
    /\ \A o \in QueueOrders : Submitted(o) =>
           o \in Queued \/ InHand(o) \/ \E h \in history : h[1] = o
    /\ \A h \in history : h[1] # 0 =>
           IF h[2] = "cancelled" THEN ended[h[1]] # {} ELSE h[2] \in ended[h[1]]
=============================================================================
