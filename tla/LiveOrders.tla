------------------------------- MODULE LiveOrders ------------------------------
(***************************************************************************)
(* Resting LIMIT orders in live mode: LimitOrderQueue (src/execution/      *)
(* order_router.py) on top of BinanceExecutor (src/execution/exchanges/    *)
(* binance_executor.py) and an exchange that may answer late, fail, or     *)
(* carry a request out and lose the answer.                                *)
(*                                                                         *)
(* The actors are one trading thread, which places orders and calls        *)
(* cancel_all, and the reconciliation threads.  A second one appears when  *)
(* stop_reconciliation gives up its 5 s join on a thread that sleeps 30 s  *)
(* and the next order starts another.  Each network call, and each read    *)
(* that a later write relies on, is a step of its own.  Prices, tags and   *)
(* the queue's reporting fields are left out; a quantity is 0 .. Qty.      *)
(***************************************************************************)
EXTENDS Integers, FiniteSets

CONSTANTS
    Intents,       \* orders the strategy asks for, one placement each
    MaxRetries,    \* MAX_RETRIES of the placement loop
    Qty,           \* original quantity of every order
    Threads,       \* identities for reconciliation threads
    Trader,        \* the trading thread
    NoThread       \* _reconcile_thread is None

Attempts == 1 .. MaxRetries
Keys == Intents \X Attempts        \* newClientOrderId values, hence order ids
Actors == Threads \union {Trader}

ASSUME LiveOrdersAssumption ==
    /\ MaxRetries \in Nat \ {0}
    /\ Qty \in Nat \ {0}
    /\ Trader \notin Threads /\ NoThread \notin Threads

VARIABLES
    exch,       \* external: what the exchange holds under each key
    tracked,    \* executor._live_orders: state ("none" when absent), filled_qty
    queue,      \* LimitOrderQueue._live_orders: the ids it holds
    pushed,     \* quantity of each order pushed to RiskGuard
    running,    \* _reconcile_running
    handle,     \* _reconcile_thread
    act,        \* where each actor is, and its local variables
    asked,      \* the intents already placed
    orphaned    \* observer: keys a reconciliation thread cancelled as orphans

vars == <<exch, tracked, queue, pushed, running, handle, act, asked, orphaned>>

Resting == {"NEW", "PARTIALLY_FILLED"}     \* what GET openOrders returns
Closed == {"FILLED", "CANCELED"}           \* CANCELED stands for EXPIRED too
Terminal == {"FILLED", "CANCELLED", "REJECTED"}

Unsaid == -1     \* filled_qty is None

\* An actor's locals: its program counter, the order it is on, the placement
\* attempt, ids still to visit, ids found open, orphans, and the arguments and
\* return point of its call to update_order_status.
Parked(pc) == [pc |-> pc, key |-> <<>>, attempt |-> 1, todo |-> {}, open |-> {},
               orphans |-> {}, state |-> "none", filled |-> 0, back |-> "none"]

Goto(a, pc) == act' = [act EXCEPT ![a].pc = pc]

\* An actor done with one order keeps only the ids still to visit; one that
\* returns from update_order_status also knows which order it was about.
DoneWith(a, pc) ==
    act' = [act EXCEPT ![a] = [Parked(pc) EXCEPT !.todo = act[a].todo,
                                                 !.orphans = act[a].orphans]]
Return(a) ==
    act' = [act EXCEPT ![a] = [Parked(@.back) EXCEPT !.todo = act[a].todo,
                                !.orphans = act[a].orphans, !.key = act[a].key]]

RestingKeys == {k \in Keys : exch[k].status \in Resting}

Init ==
    /\ exch = [k \in Keys |-> [status |-> "none", exec |-> 0]]
    /\ tracked = [k \in Keys |-> [state |-> "none", filled |-> 0]]
    /\ queue = {}
    /\ pushed = [k \in Keys |-> 0]
    /\ running = FALSE
    /\ handle = NoThread
    /\ act = [a \in Actors |-> Parked(IF a = Trader THEN "idle" ELSE "dead")]
    /\ asked = {}
    /\ orphaned = {}

-----------------------------------------------------------------------------
(* The exchange moves by itself: fills, and cancels by another client.     *)

ExchangeFills(k) ==
    /\ exch[k].status \in Resting
    /\ exch' = [exch EXCEPT ![k] =
         [status |-> IF @.exec + 1 = Qty THEN "FILLED" ELSE "PARTIALLY_FILLED",
          exec |-> @.exec + 1]]
    /\ UNCHANGED <<tracked, queue, pushed, running, handle, act, asked, orphaned>>

ExchangeCancels(k) ==
    /\ exch[k].status \in Resting
    /\ exch' = [exch EXCEPT ![k].status = "CANCELED"]
    /\ UNCHANGED <<tracked, queue, pushed, running, handle, act, asked, orphaned>>

-----------------------------------------------------------------------------
(* Placing: _live_place_order, then _submit_limit.                         *)

FreshKey(i, attempt) == <<i, attempt>>

\* The idempotency key is drawn once, before the retry loop.
IdempotencyKey(i, attempt) == <<i, 1>>

Begin(i) ==
    /\ act[Trader].pc = "idle"
    /\ i \notin asked
    /\ asked' = asked \union {i}
    /\ act' = [act EXCEPT ![Trader] =
                 [Parked("send") EXCEPT !.key = IdempotencyKey(i, 1)]]
    /\ UNCHANGED <<exch, tracked, queue, pushed, running, handle, orphaned>>

\* One attempt.  The exchange may or may not receive it and the answer may or may
\* not come back.  A repeated key makes no second order, which is what the comment
\* in the placement loop expects of Binance; Binance itself compares the keys of
\* open orders only.  The last attempt, or an error that is not retriable, raises.
Send(arrives, answered, retriable) ==
    LET me == act[Trader]
        again == [me EXCEPT !.attempt = @ + 1,
                            !.key = IdempotencyKey(me.key[1], me.attempt + 1)]
    IN  /\ me.pc = "send"
        /\ answered => arrives
        /\ exch' = IF arrives /\ exch[me.key].status = "none"
                   THEN [exch EXCEPT ![me.key].status = "NEW"] ELSE exch
        /\ act' = [act EXCEPT ![Trader] =
             CASE answered -> [me EXCEPT !.pc = "track"]
               [] ~answered /\ retriable /\ me.attempt < MaxRetries -> again
               [] OTHER -> Parked("idle")]
        /\ UNCHANGED <<tracked, queue, pushed, running, handle, asked, orphaned>>

Track ==
    /\ act[Trader].pc = "track"
    /\ tracked' = [tracked EXCEPT ![act[Trader].key] =
                     [state |-> "PENDING", filled |-> 0]]
    /\ Goto(Trader, "register")
    /\ UNCHANGED <<exch, queue, pushed, running, handle, asked, orphaned>>

\* A client that calls it order_id: the order waits in the queue.
Register ==
    /\ act[Trader].pc = "register"
    /\ queue' = queue \union {act[Trader].key}
    /\ Goto(Trader, "start")
    /\ UNCHANGED <<exch, tracked, pushed, running, handle, asked, orphaned>>

\* The answer of the exchange names the order orderId. The executor reads that
\* name and tracks the order; _submit_limit, which gets the same answer, reads
\* order_id, finds none and raises, and the order never reaches the queue.
NoOrderId ==
    /\ act[Trader].pc = "register"
    /\ act' = [act EXCEPT ![Trader] = Parked("idle")]
    /\ UNCHANGED <<exch, tracked, queue, pushed, running, handle, asked, orphaned>>

\* start_reconciliation: nothing to do while the thread it knows is alive.
StartReconciliation ==
    /\ act[Trader].pc = "start"
    /\ IF handle # NoThread /\ act[handle].pc # "dead"
       THEN /\ act' = [act EXCEPT ![Trader] = Parked("idle")]
            /\ UNCHANGED <<running, handle>>
       ELSE LET dead == {t \in Threads : act[t].pc = "dead"}
                t == CHOOSE t \in dead : TRUE
            IN  /\ dead # {}                  \* bound: Threads alive at once
                /\ act' = [act EXCEPT ![Trader] = Parked("idle"),
                                      ![t] = Parked("sleep")]
                /\ running' = TRUE
                /\ handle' = t
    /\ UNCHANGED <<exch, tracked, queue, pushed, asked, orphaned>>

-----------------------------------------------------------------------------
(* update_order_status(key, state, filled) of the executor: the test for   *)
(* an unknown or terminal order, the writes, and _on_order_terminal.       *)

Check(a) ==
    /\ act[a].pc = "check"
    /\ IF tracked[act[a].key].state \in Terminal \union {"none"}
       THEN Return(a) ELSE Goto(a, "write")
    /\ UNCHANGED <<exch, tracked, queue, pushed, running, handle, asked, orphaned>>

\* A caller that gave no quantity leaves filled_qty alone.
Write(a) ==
    LET me == act[a]
    IN  /\ me.pc = "write"
        /\ tracked' = [tracked EXCEPT ![me.key] =
             [state |-> me.state,
              filled |-> IF me.filled = Unsaid THEN tracked[me.key].filled ELSE me.filled]]
        /\ IF me.state = "PARTIAL" THEN Return(a) ELSE Goto(a, "tell")
        /\ UNCHANGED <<exch, queue, pushed, running, handle, asked, orphaned>>

\* It looks at the order again, and pushes all it finds filled if it is FILLED.
Tell(a) ==
    LET k == act[a].key
    IN  /\ act[a].pc = "tell"
        /\ pushed' = IF tracked[k].state = "FILLED"
                     THEN [pushed EXCEPT ![k] = @ + tracked[k].filled] ELSE pushed
        /\ Return(a)
        /\ UNCHANGED <<exch, tracked, queue, running, handle, asked, orphaned>>

-----------------------------------------------------------------------------
(* cancel_order of the executor: a terminal order is refused without a     *)
(* call; else the exchange is asked, and only the status CANCELED counts.  *)

\* A slip: any answer without an error is taken for a cancel.
AnyAnswerCancels(a, arrives, answered, failed) ==
    LET me == act[a]
        works == arrives /\ exch[me.key].status \in Resting
    IN  /\ me.pc = "cancel"
        /\ answered => arrives
        /\ exch' = IF works THEN [exch EXCEPT ![me.key].status = "CANCELED"] ELSE exch
        /\ orphaned' = IF works /\ a # Trader THEN orphaned \union {me.key} ELSE orphaned
        /\ IF answered
           THEN act' = [act EXCEPT ![a].pc = "check", ![a].state = "CANCELLED",
                                   ![a].filled = Unsaid]
           ELSE DoneWith(a, failed)
        /\ UNCHANGED <<tracked, queue, pushed, running, handle, asked>>

\* Its retries send the same request again: what matters of all of them is
\* whether the cancel happened and whether an answer saying so came back.
AskCancel(a, arrives, answered, failed) ==
    LET me == act[a]
        works == arrives /\ exch[me.key].status \in Resting
    IN  /\ me.pc = "cancel"
        /\ answered => arrives
        /\ exch' = IF works THEN [exch EXCEPT ![me.key].status = "CANCELED"] ELSE exch
        /\ orphaned' = IF works /\ a # Trader THEN orphaned \union {me.key} ELSE orphaned
        /\ IF works /\ answered
           THEN act' = [act EXCEPT ![a].pc = "check", ![a].state = "CANCELLED",
                                   ![a].filled = Unsaid]
           ELSE DoneWith(a, failed)
        /\ UNCHANGED <<tracked, queue, pushed, running, handle, asked>>

-----------------------------------------------------------------------------
(* cancel_all.                                                             *)

BeginCancelAll ==
    /\ act[Trader].pc = "idle"
    /\ act' = [act EXCEPT ![Trader] = [Parked("next") EXCEPT !.todo = queue]]
    /\ UNCHANGED <<exch, tracked, queue, pushed, running, handle, asked, orphaned>>

CancelNext(k) ==
    LET rest == [act[Trader] EXCEPT !.todo = @ \ {k}]
    IN  /\ act[Trader].pc = "next"
        /\ k \in act[Trader].todo
        /\ act' = [act EXCEPT ![Trader] =
             IF tracked[k].state \in Terminal THEN rest
             ELSE [rest EXCEPT !.pc = "cancel", !.key = k, !.back = "pop"]]
        /\ UNCHANGED <<exch, tracked, queue, pushed, running, handle, asked, orphaned>>

CancelAsked(arrives, answered) == AskCancel(Trader, arrives, answered, "next")

\* A cancelled order leaves the queue.
CancelPop ==
    /\ act[Trader].pc = "pop"
    /\ queue' = queue \ {act[Trader].key}
    /\ DoneWith(Trader, "next")
    /\ UNCHANGED <<exch, tracked, pushed, running, handle, asked, orphaned>>

\* A slip: the handle of the stopped thread is kept.
KeepsHandle ==
    /\ act[Trader].pc = "next"
    /\ act[Trader].todo = {}
    /\ running' = IF queue = {} THEN FALSE ELSE running
    /\ act' = [act EXCEPT ![Trader] = Parked("idle")]
    /\ UNCHANGED <<exch, tracked, queue, pushed, handle, asked, orphaned>>

\* An empty queue stops the reconciliation: the flag is cleared and the handle
\* dropped, whether or not the thread ended within the 5 s join.
EndCancelAll ==
    /\ act[Trader].pc = "next"
    /\ act[Trader].todo = {}
    /\ running' = IF queue = {} THEN FALSE ELSE running
    /\ handle' = IF queue = {} THEN NoThread ELSE handle
    /\ act' = [act EXCEPT ![Trader] = Parked("idle")]
    /\ UNCHANGED <<exch, tracked, queue, pushed, asked, orphaned>>

-----------------------------------------------------------------------------
(* _reconciliation_loop and _reconcile_live_mode.                          *)

\* A cycle over, the loop goes on only while it is told to.
NextCycle == IF running THEN "sleep" ELSE "dead"

\* After its sleep a thread ends if told to, and skips the cycle on an empty
\* queue.
Wake(t) ==
    /\ act[t].pc = "sleep"
    /\ running => queue # {}
    /\ act' = [act EXCEPT ![t] = Parked(IF running THEN "fetch" ELSE "dead")]
    /\ UNCHANGED <<exch, tracked, queue, pushed, running, handle, asked, orphaned>>

Fetch(t) ==
    /\ act[t].pc = "fetch"
    /\ act' = [act EXCEPT ![t].pc = "compare", ![t].open = RestingKeys]
    /\ UNCHANGED <<exch, tracked, queue, pushed, running, handle, asked, orphaned>>

FetchFails(t) ==
    /\ act[t].pc = "fetch"
    /\ act' = [act EXCEPT ![t] = Parked(NextCycle)]
    /\ UNCHANGED <<exch, tracked, queue, pushed, running, handle, asked, orphaned>>

\* What the exchange showed open a moment ago is compared with the queue now.
Compare(t) ==
    /\ act[t].pc = "compare"
    /\ act' = [act EXCEPT ![t].pc = "orphans", ![t].open = {},
                          ![t].todo = queue \ act[t].open,
                          ![t].orphans = act[t].open \ queue]
    /\ UNCHANGED <<exch, tracked, queue, pushed, running, handle, asked, orphaned>>

\* Orphans are cancelled, one call each; when none is left the walk begins.
CancelOrphan(t, k) ==
    LET rest == [act[t] EXCEPT !.orphans = @ \ {k}]
    IN  /\ act[t].pc = "orphans"
        /\ k \in act[t].orphans
        /\ act' = [act EXCEPT ![t] =
             IF tracked[k].state \in Terminal THEN rest
             ELSE [rest EXCEPT !.pc = "cancel", !.key = k, !.back = "orphans"]]
        /\ UNCHANGED <<exch, tracked, queue, pushed, running, handle, asked, orphaned>>

OrphanAsked(t, arrives, answered) == AskCancel(t, arrives, answered, "orphans")

OrphansDone(t) ==
    /\ act[t].pc = "orphans"
    /\ act[t].orphans = {}
    /\ DoneWith(t, "walk")
    /\ UNCHANGED <<exch, tracked, queue, pushed, running, handle, asked, orphaned>>

\* Each order the queue held that was not among the open ones is looked up,
\* unless it has left the queue since.
Walk(t, k) ==
    /\ act[t].pc = "walk"
    /\ k \in act[t].todo
    /\ act' = [act EXCEPT ![t].todo = @ \ {k}, ![t].pc = IF k \in queue THEN "get" ELSE @,
                          ![t].key = IF k \in queue THEN k ELSE <<>>]
    /\ UNCHANGED <<exch, tracked, queue, pushed, running, handle, asked, orphaned>>

WalkDone(t) ==
    /\ act[t].pc = "walk"
    /\ act[t].todo = {}
    /\ act' = [act EXCEPT ![t] = Parked(NextCycle)]
    /\ UNCHANGED <<exch, tracked, queue, pushed, running, handle, asked, orphaned>>

\* get_order answers; a status of NEW leaves the order for the next cycle.
StateFor == [FILLED |-> "FILLED", PARTIALLY_FILLED |-> "PARTIAL",
             CANCELED |-> "CANCELLED"]

Get(t) ==
    LET found == exch[act[t].key]
    IN  /\ act[t].pc = "get"
        /\ IF found.status \in DOMAIN StateFor
           THEN act' = [act EXCEPT ![t].pc = "check", ![t].back = "remove",
                                   ![t].state = StateFor[found.status],
                                   ![t].filled = found.exec]
           ELSE DoneWith(t, "walk")
        /\ UNCHANGED <<exch, tracked, queue, pushed, running, handle, asked, orphaned>>

GetFails(t) ==
    /\ act[t].pc = "get"
    /\ DoneWith(t, "walk")
    /\ UNCHANGED <<exch, tracked, queue, pushed, running, handle, asked, orphaned>>

\* Whatever the state, PARTIAL included, the order then leaves the queue.
Remove(t) ==
    /\ act[t].pc = "remove"
    /\ queue' = queue \ {act[t].key}
    /\ DoneWith(t, "walk")
    /\ UNCHANGED <<exch, tracked, pushed, running, handle, asked, orphaned>>

-----------------------------------------------------------------------------

Exchange == \E k \in Keys : ExchangeFills(k) \/ ExchangeCancels(k)

Placing ==
    \/ \E i \in Intents : Begin(i)
    \/ \E arrives, answered, retriable \in BOOLEAN : Send(arrives, answered, retriable)
    \/ Track \/ Register \/ NoOrderId \/ StartReconciliation

CancelAll ==
    \/ BeginCancelAll \/ CancelPop \/ EndCancelAll
    \/ \E k \in Keys : CancelNext(k)
    \/ \E arrives, answered \in BOOLEAN : CancelAsked(arrives, answered)

\* Steps of a thread that the network does not fail, and those it fails.
Reconciles(t) ==
    \/ Wake(t) \/ Fetch(t) \/ Compare(t) \/ OrphansDone(t) \/ WalkDone(t)
    \/ Get(t) \/ Remove(t)
    \/ \E k \in Keys : CancelOrphan(t, k) \/ Walk(t, k)
    \/ \E arrives, answered \in BOOLEAN : OrphanAsked(t, arrives, answered)

NetworkFails(t) == FetchFails(t) \/ GetFails(t)

Updates(a) == Check(a) \/ Write(a) \/ Tell(a)

Next ==
    \/ Exchange
    \/ Placing
    \/ CancelAll
    \/ \E t \in Threads : Reconciles(t) \/ NetworkFails(t)
    \/ \E a \in Actors : Updates(a)

\* Threads are scheduled, calls return, and the network does not fail one
\* request for ever.
Fairness ==
    /\ WF_vars(act[Trader].pc # "idle" /\ (Placing \/ CancelAll \/ Updates(Trader)))
    /\ \A t \in Threads : /\ WF_vars(Reconciles(t) \/ Updates(t))
                         /\ SF_vars(Fetch(t)) /\ SF_vars(Get(t))

Spec == Init /\ [][Next]_vars /\ Fairness

-----------------------------------------------------------------------------
(* Properties.                                                             *)

\* Types of the state shared between the actors, and where each of them is.
TypeOK ==
    /\ exch \in [Keys -> [status : Resting \union Closed \union {"none"}, exec : 0 .. Qty]]
    /\ tracked \in [Keys -> [state : Terminal \union {"none", "PENDING", "PARTIAL"},
                             filled : 0 .. Qty]]
    /\ queue \subseteq Keys
    /\ pushed \in [Keys -> Nat]
    /\ running \in BOOLEAN
    /\ handle \in Threads \union {NoThread}
    /\ \A t \in Threads : act[t].pc \in {"dead", "sleep", "fetch", "compare", "orphans",
                             "cancel", "check", "write", "tell", "walk", "get", "remove"}
    /\ act[Trader].pc \in {"idle", "send", "track", "register", "start", "next",
                           "cancel", "check", "write", "tell", "pop"}
    /\ asked \subseteq Intents /\ orphaned \subseteq Keys

\* However many attempts a placement took and whichever answers were lost, the
\* exchange holds at most one order for it.
OneOrderPerIntent ==
    \A k, m \in Keys :
        k[1] = m[1] /\ exch[k].status # "none" /\ exch[m].status # "none" => k = m

\* The executor shows an order FILLED or CANCELLED only when the exchange closed
\* it that way, and a fill reaches RiskGuard only if the exchange filled it.
TrackerIsHonest ==
    \A k \in Keys :
        /\ tracked[k].state = "FILLED" => exch[k].status = "FILLED"
        /\ tracked[k].state = "CANCELLED" => exch[k].status = "CANCELED"
        /\ pushed[k] > 0 => exch[k].status = "FILLED"

\* An order in the queue is watched: once its placement returns, the flag is set
\* and the thread the queue knows of is alive, also after a stop whose join gave
\* up on a thread that slept on and a restart that set that thread going again.
QueueIsWatched ==
    queue # {} /\ act[Trader].pc # "start" =>
        running /\ handle # NoThread /\ act[handle].pc # "dead"

\* An order the exchange has closed does not stay in the queue: the
\* reconciliation finds it, across stops, restarts and failing requests.
ClosedOrdersLeave ==
    \A i \in Intents :
        LET k == IdempotencyKey(i, 1)
        IN  (k \in queue /\ exch[k].status \in Closed) ~> k \notin queue
=============================================================================
