-------------------------- MODULE LiveOrders_proofs ---------------------------
(***************************************************************************)
(* Proofs about LiveOrders, for any number of orders, attempts and         *)
(* reconciliation threads: every placement leaves at most one order at the *)
(* exchange, the executor's tracker and RiskGuard only ever learn of       *)
(* closings the exchange really made, and an order in the queue has a live *)
(* thread to reconcile it.                                                 *)
(***************************************************************************)
EXTENDS LiveOrders, TLAPS

ThreadPlaces == {"dead", "sleep", "fetch", "compare", "orphans", "cancel", "check",
                 "write", "tell", "walk", "get", "remove"}
TraderPlaces == {"idle", "send", "track", "register", "start", "next", "cancel",
                 "check", "write", "tell", "pop"}

Locals == [pc : ThreadPlaces \union TraderPlaces, key : Keys \union {<<>>},
           attempt : Attempts, todo : SUBSET Keys, open : SUBSET Keys,
           orphans : SUBSET Keys, filled : {Unsaid} \union (0 .. Qty),
           state : {"none", "FILLED", "PARTIAL", "CANCELLED"},
           back : {"none", "pop", "orphans", "remove"}]

\* What actor a may hold in its locals r while the exchange is E.  The last
\* conjunct is the heart: an update under way is about a closing that happened.
ActorOK(a, r, E) ==
    /\ r.pc \in IF a = Trader THEN TraderPlaces ELSE ThreadPlaces
    /\ r.pc \in {"send", "track", "register", "start"} => r.key \in Keys /\ r.key[2] = 1
    /\ r.pc \in {"cancel", "check", "write", "tell", "get", "remove", "pop"} =>
          r.key \in Keys
    /\ r.pc \in {"cancel", "check", "write", "tell"} =>
          r.back \in IF a = Trader THEN {"pop"} ELSE {"orphans", "remove"}
    /\ r.pc \in {"check", "write"} =>
          /\ r.state # "none"
          /\ r.state = "FILLED" => E[r.key].status = "FILLED"
          /\ r.state = "CANCELLED" => E[r.key].status = "CANCELED"

SharedOK ==
    /\ exch \in [Keys -> [status : Resting \union Closed \union {"none"}, exec : 0 .. Qty]]
    /\ tracked \in [Keys -> [state : Terminal \union {"none", "PENDING", "PARTIAL"},
                             filled : 0 .. Qty]]
    /\ queue \subseteq Keys
    /\ pushed \in [Keys -> Nat]
    /\ running \in BOOLEAN
    /\ handle \in Threads \union {NoThread}
    /\ asked \subseteq Intents
    /\ orphaned \subseteq Keys

\* Only the first key of an intent is ever used, and a resting order is not full.
ExchangeOK ==
    \A k \in Keys :
        /\ exch[k].status # "none" => k[2] = 1
        /\ exch[k].status \in Resting \union {"none"} => exch[k].exec < Qty

ActorsOK ==
    /\ act \in [Actors -> Locals]
    /\ \A a \in Actors : ActorOK(a, act[a], exch)

Inv == SharedOK /\ ExchangeOK /\ ActorsOK /\ TrackerIsHonest

\* The exchange does not reopen or change an order it has closed.
ClosedStays == \A k \in Keys : exch[k].status \in Closed => exch'[k] = exch[k]

-----------------------------------------------------------------------------
(* Lemmas about one actor moving.                                          *)

\* A parked actor holds nothing that could be wrong.
LEMMA ParkedOK ==
    ASSUME LiveOrdersAssumption, NEW pc \in ThreadPlaces \union TraderPlaces
    PROVE  Parked(pc) \in Locals
BY DEF LiveOrdersAssumption, Parked, Locals, Attempts

\* If the exchange keeps what it closed and one actor moves to locals that are
\* right, then every actor's locals are right.
LEMMA OneMoves ==
    ASSUME Inv, ClosedStays, NEW a \in Actors, NEW r \in Locals,
           ActorOK(a, r, exch'), act' = [act EXCEPT ![a] = r]
    PROVE  ActorsOK'
<1>1. act' \in [Actors -> Locals] BY DEF Inv, ActorsOK
<1>2. ASSUME NEW b \in Actors PROVE ActorOK(b, act'[b], exch')
  <2>1. CASE b = a BY <2>1 DEF Inv, ActorsOK
  <2>2. CASE b # a
    <3>1. act'[b] = act[b] BY <2>2 DEF Inv, ActorsOK
    <3>2. ActorOK(b, act[b], exch) BY DEF Inv, ActorsOK
    <3>3. QED BY <3>1, <3>2 DEF ActorOK, ClosedStays, Closed
  <2>3. QED BY <2>1, <2>2
<1>3. QED BY <1>1, <1>2 DEF ActorsOK

\* The tracker stays honest when the exchange only closes orders.
LEMMA HonestStays ==
    ASSUME Inv, ClosedStays, UNCHANGED <<tracked, pushed>>
    PROVE  TrackerIsHonest'
BY DEF Inv, ClosedStays, TrackerIsHonest, Closed

LEMMA NothingCloses == ASSUME UNCHANGED exch PROVE ClosedStays
BY DEF ClosedStays

\* Locals with a new program counter and key, or back to the ids left.
LEMMA GotoOK ==
    ASSUME Inv, NEW a \in Actors, NEW pc \in ThreadPlaces \union TraderPlaces
    PROVE  [act[a] EXCEPT !.pc = pc] \in Locals
<1>1. act[a] \in Locals BY DEF Inv, ActorsOK
<1>2. QED BY <1>1 DEF Locals

LEMMA LeftOK ==
    ASSUME LiveOrdersAssumption, Inv, NEW a \in Actors,
           NEW pc \in ThreadPlaces \union TraderPlaces
    PROVE  [Parked(pc) EXCEPT !.todo = act[a].todo, !.orphans = act[a].orphans] \in Locals
<1>1. act[a].todo \in SUBSET Keys /\ act[a].orphans \in SUBSET Keys
  BY DEF Inv, ActorsOK, Locals
<1>2. Parked(pc) \in Locals BY ParkedOK
<1>3. QED BY <1>1, <1>2 DEF Locals

-----------------------------------------------------------------------------
(* The invariant holds initially and at every step.                        *)

LEMMA InitInv == ASSUME LiveOrdersAssumption, Init PROVE Inv
<1>1. SharedOK
  <2>1. 0 \in 0 .. Qty BY DEF LiveOrdersAssumption
  <2>2. [status |-> "none", exec |-> 0]
          \in [status : Resting \union Closed \union {"none"}, exec : 0 .. Qty]
    BY <2>1
  <2>3. [state |-> "none", filled |-> 0]
          \in [state : Terminal \union {"none", "PENDING", "PARTIAL"}, filled : 0 .. Qty]
    BY <2>1
  <2>4. QED BY <2>2, <2>3 DEF Init, SharedOK
<1>2. ExchangeOK BY DEF LiveOrdersAssumption, Init, ExchangeOK
<1>3. ActorsOK
  <2>1. ASSUME NEW a \in Actors
        PROVE  act[a] \in Locals /\ ActorOK(a, act[a], exch)
    <3>1. CASE a = Trader
      <4>1. act[a] = Parked("idle") BY <3>1 DEF Init
      <4>2. ActorOK(a, Parked("idle"), exch)
        BY <3>1 DEF ActorOK, Parked, TraderPlaces
      <4>3. Parked("idle") \in Locals BY ParkedOK DEF TraderPlaces
      <4>4. QED BY <4>1, <4>2, <4>3
    <3>2. CASE a # Trader
      <4>1. act[a] = Parked("dead") BY <3>2 DEF Init
      <4>2. ActorOK(a, Parked("dead"), exch)
        BY <3>2 DEF ActorOK, Parked, ThreadPlaces
      <4>3. Parked("dead") \in Locals BY ParkedOK DEF ThreadPlaces
      <4>4. QED BY <4>1, <4>2, <4>3
    <3>3. QED BY <3>1, <3>2
  <2>2. act \in [Actors -> Locals] BY <2>1 DEF Init
  <2>3. QED BY <2>1, <2>2 DEF ActorsOK
<1>4. TrackerIsHonest BY DEF Init, TrackerIsHonest
<1>5. QED BY <1>1, <1>2, <1>3, <1>4 DEF Inv

\* The exchange moves by itself.
LEMMA ExchangeStep == ASSUME LiveOrdersAssumption, Inv, Exchange PROVE Inv'
<1>1. PICK k \in Keys : ExchangeFills(k) \/ ExchangeCancels(k) BY DEF Exchange
<1>2. exch[k].status \in Resting /\ exch[k].exec \in 0 .. Qty /\ exch[k].exec < Qty
  BY <1>1 DEF ExchangeFills, ExchangeCancels, Inv, SharedOK, ExchangeOK
<1>3. PICK r \in [status : Resting \union Closed, exec : 0 .. Qty] :
          /\ exch' = [exch EXCEPT ![k] = r]
          /\ r.status \in Resting => r.exec < Qty
  <2>1. CASE ExchangeFills(k)
    <3> DEFINE r == [status |-> IF exch[k].exec + 1 = Qty THEN "FILLED"
                                ELSE "PARTIALLY_FILLED",
                     exec |-> exch[k].exec + 1]
    <3>1. r \in [status : Resting \union Closed, exec : 0 .. Qty]
      BY <1>2 DEF LiveOrdersAssumption, Resting, Closed
    <3>2. r.status \in Resting => r.exec < Qty
      BY <1>2 DEF LiveOrdersAssumption, Resting
    <3>3. exch' = [exch EXCEPT ![k] = r] BY <2>1 DEF ExchangeFills
    <3>4. QED BY <3>1, <3>2, <3>3
  <2>2. CASE ExchangeCancels(k)
    <3> DEFINE r == [exch[k] EXCEPT !.status = "CANCELED"]
    <3>1. r \in [status : Resting \union Closed, exec : 0 .. Qty]
      BY <1>2 DEF Inv, SharedOK, Resting, Closed
    <3>2. r.status \in Resting => r.exec < Qty
      BY DEF Inv, SharedOK, Resting, Closed
    <3>3. exch' = [exch EXCEPT ![k] = r] BY <2>2 DEF ExchangeCancels
    <3>4. QED BY <3>1, <3>2, <3>3
  <2>3. QED BY <1>1, <2>1, <2>2
<1>4. UNCHANGED <<tracked, queue, pushed, running, handle, act, asked, orphaned>>
  BY <1>1 DEF ExchangeFills, ExchangeCancels
<1>5. SharedOK' BY <1>3, <1>4 DEF Inv, SharedOK
<1>6. ExchangeOK'
  BY <1>2, <1>3, <1>4 DEF Inv, SharedOK, ExchangeOK, Resting, Closed
<1>7. ClosedStays BY <1>2, <1>3 DEF Inv, SharedOK, ClosedStays, Resting, Closed
<1>8. ActorsOK' BY <1>4, <1>7 DEF Inv, ActorsOK, ActorOK, ClosedStays, Closed
<1>9. QED BY <1>4, <1>5, <1>6, <1>7, <1>8, HonestStays DEF Inv

\* Steps that move one actor and leave the exchange, the tracker and RiskGuard
\* alone; only the queue and the thread's handle may change with them.
LEMMA QuietMove ==
    ASSUME Inv, NEW a \in Actors, NEW r \in Locals, ActorOK(a, r, exch),
           act' = [act EXCEPT ![a] = r],
           UNCHANGED <<exch, tracked, pushed, orphaned>>,
           queue' \subseteq Keys, running' \in BOOLEAN,
           handle' \in Threads \union {NoThread}, asked' \subseteq Intents
    PROVE  Inv'
<1>1. ClosedStays BY NothingCloses
<1>2. ActorsOK' BY <1>1, OneMoves
<1>3. QED BY <1>1, <1>2, HonestStays DEF Inv, SharedOK, ExchangeOK

-----------------------------------------------------------------------------
(* Placing.                                                                *)

LEMMA BeginStep ==
    ASSUME LiveOrdersAssumption, Inv, NEW i \in Intents, Begin(i) PROVE Inv'
<1> DEFINE r == [Parked("send") EXCEPT !.key = IdempotencyKey(i, 1)]
<1>1. IdempotencyKey(i, 1) \in Keys /\ IdempotencyKey(i, 1)[2] = 1
  BY DEF LiveOrdersAssumption, IdempotencyKey, Keys, Attempts
<1>2. Parked("send") \in Locals BY ParkedOK DEF TraderPlaces
<1>3. r \in Locals BY <1>1, <1>2 DEF Locals
<1>4. r.pc = "send" /\ r.key = IdempotencyKey(i, 1) BY <1>2 DEF Parked, Locals
<1>5. ActorOK(Trader, r, exch) BY <1>1, <1>4 DEF ActorOK, TraderPlaces
<1>6. Trader \in Actors BY DEF Actors
<1> HIDE DEF r
<1>7. act' = [act EXCEPT ![Trader] = r] BY DEF Begin, r
<1>8. asked' \subseteq Intents BY DEF Begin, Inv, SharedOK
<1>9. QED BY <1>3, <1>5, <1>6, <1>7, <1>8, QuietMove DEF Begin, Inv, SharedOK

LEMMA SendStep ==
    ASSUME LiveOrdersAssumption, Inv,
           NEW arrives \in BOOLEAN, NEW answered \in BOOLEAN, NEW retriable \in BOOLEAN,
           Send(arrives, answered, retriable)
    PROVE  Inv'
<1> DEFINE me == act[Trader]
<1>1. Trader \in Actors /\ me \in Locals /\ me.pc = "send" /\ me.key \in Keys /\ me.key[2] = 1
  BY DEF Actors, Inv, ActorsOK, ActorOK, Send
<1>2. ClosedStays
  BY <1>1 DEF Send, ClosedStays, Closed, Inv, SharedOK
<1>3. SharedOK'
  BY <1>1, SMTT(30) DEF Send, Inv, SharedOK, Resting
<1>4. ExchangeOK'
  BY <1>1 DEF Send, Inv, SharedOK, ExchangeOK, Resting
<1>5. PICK r \in Locals : ActorOK(Trader, r, exch') /\ act' = [act EXCEPT ![Trader] = r]
  <2>1. CASE answered
    <3>1. [me EXCEPT !.pc = "track"] \in Locals BY <1>1, GotoOK DEF TraderPlaces
    <3>2. ActorOK(Trader, [me EXCEPT !.pc = "track"], exch')
      BY <1>1 DEF ActorOK, TraderPlaces, Locals
    <3>3. act' = [act EXCEPT ![Trader] = [me EXCEPT !.pc = "track"]]
      BY <2>1 DEF Send
    <3>4. QED BY <3>1, <3>2, <3>3
  <2>2. CASE ~answered /\ retriable /\ me.attempt < MaxRetries
    <3> DEFINE key == IdempotencyKey(me.key[1], me.attempt + 1)
               r == [me EXCEPT !.attempt = @ + 1, !.key = key]
    <3>1. key \in Keys /\ key[2] = 1
      BY <1>1 DEF IdempotencyKey, Keys, Attempts, LiveOrdersAssumption
    <3>2. me.attempt + 1 \in Attempts
      BY <1>1, <2>2 DEF Locals, Attempts, LiveOrdersAssumption
    <3>3. r \in Locals /\ r.pc = "send" /\ r.key = key BY <1>1, <3>1, <3>2 DEF Locals
    <3>4. act' = [act EXCEPT ![Trader] = r] BY <2>2 DEF Send
    <3> HIDE DEF r, key
    <3>5. ActorOK(Trader, r, exch') BY <3>1, <3>3 DEF ActorOK, TraderPlaces
    <3>6. QED BY <3>3, <3>4, <3>5
  <2>3. CASE ~answered /\ ~(retriable /\ me.attempt < MaxRetries)
    <3>1. Parked("idle") \in Locals BY ParkedOK DEF TraderPlaces
    <3>2. ActorOK(Trader, Parked("idle"), exch')
      BY DEF ActorOK, Parked, TraderPlaces
    <3>3. act' = [act EXCEPT ![Trader] = Parked("idle")] BY <2>3 DEF Send
    <3>4. QED BY <3>1, <3>2, <3>3
  <2>4. QED BY <2>1, <2>2, <2>3
<1>6. ActorsOK' BY <1>1, <1>2, <1>5, OneMoves
<1>7. TrackerIsHonest' BY <1>2, HonestStays DEF Send
<1>8. QED BY <1>3, <1>4, <1>6, <1>7 DEF Inv

LEMMA TrackStep == ASSUME LiveOrdersAssumption, Inv, Track PROVE Inv'
<1> DEFINE r == [act[Trader] EXCEPT !.pc = "register"]
<1>1. Trader \in Actors /\ act[Trader] \in Locals /\ act[Trader].key \in Keys
      /\ act[Trader].key[2] = 1
  BY DEF Actors, Inv, ActorsOK, ActorOK, Track
<1>2. r \in Locals BY <1>1, GotoOK DEF TraderPlaces
<1>3. ActorOK(Trader, r, exch') BY <1>1 DEF ActorOK, TraderPlaces, Locals
<1>4. act' = [act EXCEPT ![Trader] = r] BY <1>1 DEF Track, Goto, Inv, ActorsOK
<1>5. ClosedStays BY NothingCloses DEF Track
<1> HIDE DEF r
<1>6. ActorsOK' BY <1>1, <1>2, <1>3, <1>4, <1>5, OneMoves
<1>7. [state |-> "PENDING", filled |-> 0]
        \in [state : Terminal \union {"none", "PENDING", "PARTIAL"}, filled : 0 .. Qty]
  BY DEF LiveOrdersAssumption
<1>8. SharedOK' BY <1>1, <1>7 DEF Track, Inv, SharedOK
<1>9. TrackerIsHonest' BY <1>1 DEF Track, Inv, SharedOK, TrackerIsHonest
<1>10. ExchangeOK' BY DEF Track, Inv, ExchangeOK
<1>11. QED BY <1>6, <1>8, <1>9, <1>10 DEF Inv

LEMMA RegisterStep == ASSUME LiveOrdersAssumption, Inv, Register PROVE Inv'
<1> DEFINE r == [act[Trader] EXCEPT !.pc = "start"]
<1>1. Trader \in Actors /\ act[Trader] \in Locals /\ act[Trader].key \in Keys
      /\ act[Trader].key[2] = 1
  BY DEF Actors, Inv, ActorsOK, ActorOK, Register
<1>2. r \in Locals BY <1>1, GotoOK DEF TraderPlaces
<1>3. ActorOK(Trader, r, exch) BY <1>1 DEF ActorOK, TraderPlaces, Locals
<1>4. act' = [act EXCEPT ![Trader] = r] BY <1>1 DEF Register, Goto, Inv, ActorsOK
<1> HIDE DEF r
<1>5. queue' \subseteq Keys BY <1>1 DEF Register, Inv, SharedOK
<1>6. QED BY <1>1, <1>2, <1>3, <1>4, <1>5, QuietMove DEF Register, Inv, SharedOK

LEMMA NoOrderIdStep == ASSUME LiveOrdersAssumption, Inv, NoOrderId PROVE Inv'
<1>1. Trader \in Actors /\ Parked("idle") \in Locals /\ ActorOK(Trader, Parked("idle"), exch)
  BY ParkedOK DEF Actors, ActorOK, Parked, TraderPlaces
<1> QED BY <1>1, QuietMove DEF NoOrderId, Inv, SharedOK

LEMMA StartStep == ASSUME LiveOrdersAssumption, Inv, StartReconciliation PROVE Inv'
<1>1. Trader \in Actors /\ Parked("idle") \in Locals /\ ActorOK(Trader, Parked("idle"), exch)
  BY ParkedOK DEF Actors, ActorOK, Parked, TraderPlaces
<1>2. CASE UNCHANGED <<running, handle>> /\ act' = [act EXCEPT ![Trader] = Parked("idle")]
  BY <1>1, <1>2, QuietMove DEF StartReconciliation, Inv, SharedOK
<1>3. CASE ~(handle # NoThread /\ act[handle].pc # "dead")
  <2>1. PICK t \in Threads :
          /\ act' = [act EXCEPT ![Trader] = Parked("idle"), ![t] = Parked("sleep")]
          /\ handle' = t /\ running' = TRUE
    BY <1>3 DEF StartReconciliation
  <2>2. t \in Actors /\ t # Trader /\ Parked("sleep") \in Locals
    BY ParkedOK DEF LiveOrdersAssumption, Actors, ThreadPlaces
  <2>3. ActorOK(t, Parked("sleep"), exch)
    BY <2>2 DEF ActorOK, Parked, ThreadPlaces
  <2> HIDE DEF ActorOK, Parked, Locals
  <2>4. ActorsOK'
    <3>1. act' \in [Actors -> Locals] BY <1>1, <2>1, <2>2 DEF Inv, ActorsOK
    <3>2. ASSUME NEW b \in Actors PROVE ActorOK(b, act'[b], exch)
      BY <1>1, <2>1, <2>2, <2>3 DEF Inv, ActorsOK
    <3>3. exch' = exch BY DEF StartReconciliation
    <3>4. QED BY <3>1, <3>2, <3>3 DEF ActorsOK
  <2>5. UNCHANGED <<exch, tracked, queue, pushed, asked, orphaned>>
    BY DEF StartReconciliation
  <2>6. SharedOK' BY <2>1, <2>5 DEF Inv, SharedOK
  <2>7. ExchangeOK' /\ TrackerIsHonest' BY <2>5, HonestStays, NothingCloses DEF Inv, ExchangeOK
  <2>8. QED BY <2>4, <2>6, <2>7 DEF Inv
<1>4. QED
  BY <1>2, <1>3 DEF StartReconciliation

LEMMA PlacingStep == ASSUME LiveOrdersAssumption, Inv, Placing PROVE Inv'
BY BeginStep, SendStep, TrackStep, RegisterStep, NoOrderIdStep, StartStep DEF Placing

-----------------------------------------------------------------------------
(* update_order_status and cancel_order.                                   *)

\* An actor that is done with an order goes back to the ids it still visits.
LEMMA DoneMove ==
    ASSUME LiveOrdersAssumption, Inv, NEW a \in Actors,
           NEW pc \in IF a = Trader THEN {"next"} ELSE {"orphans", "walk"},
           DoneWith(a, pc)
    PROVE  \E r \in Locals :
             act' = [act EXCEPT ![a] = r] /\ \A E : ActorOK(a, r, E)
<1> DEFINE r == [Parked(pc) EXCEPT !.todo = act[a].todo, !.orphans = act[a].orphans]
<1>1. pc \in ThreadPlaces \union TraderPlaces BY DEF ThreadPlaces, TraderPlaces
<1>2. r \in Locals BY <1>1, LeftOK
<1>3. r.pc = pc BY DEF Parked
<1>4. act' = [act EXCEPT ![a] = r] BY DEF DoneWith
<1> HIDE DEF r
<1>5. ASSUME NEW E PROVE ActorOK(a, r, E)
  BY <1>3 DEF ActorOK, ThreadPlaces, TraderPlaces
<1>6. QED BY <1>2, <1>4, <1>5

\* One that returns from update_order_status goes to its return point, with the
\* order it was about.
LEMMA ReturnMove ==
    ASSUME LiveOrdersAssumption, Inv, NEW a \in Actors,
           act[a].pc \in {"check", "write", "tell"}, Return(a)
    PROVE  \E r \in Locals :
             act' = [act EXCEPT ![a] = r] /\ \A E : ActorOK(a, r, E)
<1> DEFINE r == [Parked(act[a].back) EXCEPT !.todo = act[a].todo,
                   !.orphans = act[a].orphans, !.key = act[a].key]
<1>1. /\ act[a].key \in Keys /\ act[a].todo \in SUBSET Keys
      /\ act[a].orphans \in SUBSET Keys
      /\ act[a].back \in IF a = Trader THEN {"pop"} ELSE {"orphans", "remove"}
  BY DEF Inv, ActorsOK, ActorOK, Locals
<1>2. act[a].back \in ThreadPlaces \union TraderPlaces
  BY <1>1 DEF ThreadPlaces, TraderPlaces
<1>3. Parked(act[a].back) \in Locals BY <1>2, ParkedOK
<1>4. r \in Locals BY <1>1, <1>3 DEF Locals
<1>5. r.pc = act[a].back /\ r.key = act[a].key BY DEF Parked
<1>6. act' = [act EXCEPT ![a] = r] BY DEF Return
<1> HIDE DEF r
<1>7. ASSUME NEW E PROVE ActorOK(a, r, E)
  BY <1>1, <1>5 DEF ActorOK, ThreadPlaces, TraderPlaces
<1>8. QED BY <1>4, <1>6, <1>7

LEMMA CheckStep ==
    ASSUME LiveOrdersAssumption, Inv, NEW a \in Actors, Check(a) PROVE Inv'
<1>1. CASE Return(a)
  <2>1. PICK r \in Locals : act' = [act EXCEPT ![a] = r] /\ \A E : ActorOK(a, r, E)
    BY <1>1, ReturnMove DEF Check
  <2>2. QED BY <2>1, QuietMove DEF Check, Inv, SharedOK
<1>2. CASE Goto(a, "write")
  <2> DEFINE r == [act[a] EXCEPT !.pc = "write"]
  <2>1. act[a] \in Locals /\ act[a].pc = "check" /\ ActorOK(a, act[a], exch)
    BY DEF Check, Inv, ActorsOK
  <2>2. r \in Locals BY GotoOK DEF TraderPlaces
  <2>3. ActorOK(a, r, exch) BY <2>1 DEF ActorOK, ThreadPlaces, TraderPlaces, Locals
  <2>4. act' = [act EXCEPT ![a] = r] BY <1>2 DEF Goto, Inv, ActorsOK
  <2> HIDE DEF r
  <2>5. QED BY <2>2, <2>3, <2>4, QuietMove DEF Check, Inv, SharedOK
<1>3. QED BY <1>1, <1>2 DEF Check

\* The write tells the tracker what the actor holds, and that is about a
\* closing that happened.
LEMMA WriteStep ==
    ASSUME LiveOrdersAssumption, Inv, NEW a \in Actors, Write(a) PROVE Inv'
<1> DEFINE me == act[a]
           filled == IF me.filled = Unsaid THEN tracked[me.key].filled ELSE me.filled
<1>1. /\ me \in Locals /\ me.pc = "write" /\ me.key \in Keys /\ me.state # "none"
      /\ me.state = "FILLED" => exch[me.key].status = "FILLED"
      /\ me.state = "CANCELLED" => exch[me.key].status = "CANCELED"
      /\ ActorOK(a, me, exch)
  BY DEF Write, Inv, ActorsOK, ActorOK
<1>2. UNCHANGED <<exch, queue, pushed, running, handle, asked, orphaned>> BY DEF Write
<1>3. PICK r \in Locals : act' = [act EXCEPT ![a] = r] /\ ActorOK(a, r, exch)
  <2>1. CASE Return(a) BY <1>1, <2>1, ReturnMove
  <2>2. CASE Goto(a, "tell")
    <3> DEFINE r == [act[a] EXCEPT !.pc = "tell"]
    <3>1. r \in Locals BY GotoOK DEF TraderPlaces
    <3>2. ActorOK(a, r, exch) BY <1>1 DEF ActorOK, ThreadPlaces, TraderPlaces, Locals
    <3>3. act' = [act EXCEPT ![a] = r] BY <2>2 DEF Goto, Inv, ActorsOK
    <3> HIDE DEF r
    <3>4. QED BY <3>1, <3>2, <3>3
  <2>3. QED BY <2>1, <2>2 DEF Write
<1>4. ActorsOK' BY <1>2, <1>3, OneMoves, NothingCloses
<1>5. tracked' = [tracked EXCEPT ![me.key] = [state |-> me.state, filled |-> filled]]
  BY DEF Write
<1>6. me.state \in {"FILLED", "PARTIAL", "CANCELLED"}
  BY <1>1 DEF Locals
<1>7. filled \in 0 .. Qty BY <1>1 DEF Locals, Inv, SharedOK
<1> HIDE DEF filled
<1>8. SharedOK'
  <2>1. [state |-> me.state, filled |-> filled]
          \in [state : Terminal \union {"none", "PENDING", "PARTIAL"}, filled : 0 .. Qty]
    BY <1>6, <1>7 DEF Terminal
  <2>2. tracked' \in [Keys -> [state : Terminal \union {"none", "PENDING", "PARTIAL"},
                               filled : 0 .. Qty]]
    BY <1>5, <2>1 DEF Inv, SharedOK
  <2>3. QED BY <1>2, <2>2 DEF Inv, SharedOK
<1>9. TrackerIsHonest'
  BY <1>1, <1>2, <1>5 DEF Inv, SharedOK, TrackerIsHonest
<1>10. ExchangeOK' BY <1>2 DEF Inv, ExchangeOK
<1>11. QED BY <1>4, <1>8, <1>9, <1>10 DEF Inv

\* RiskGuard is told only of an order the tracker shows FILLED, hence of one
\* the exchange filled.
LEMMA TellStep ==
    ASSUME LiveOrdersAssumption, Inv, NEW a \in Actors, Tell(a) PROVE Inv'
<1> DEFINE k == act[a].key
<1>1. act[a] \in Locals /\ act[a].pc = "tell" /\ k \in Keys
  BY DEF Tell, Inv, ActorsOK, ActorOK
<1>2. UNCHANGED <<exch, tracked, queue, running, handle, asked, orphaned>> BY DEF Tell
<1>3. PICK r \in Locals : act' = [act EXCEPT ![a] = r] /\ \A E : ActorOK(a, r, E)
  BY <1>1, ReturnMove DEF Tell
<1>4. ActorsOK' BY <1>2, <1>3, OneMoves, NothingCloses
<1>5. pushed' = IF tracked[k].state = "FILLED"
                THEN [pushed EXCEPT ![k] = @ + tracked[k].filled] ELSE pushed
  BY DEF Tell
<1>6. pushed[k] + tracked[k].filled \in Nat
  <2>1. pushed[k] \in Nat /\ tracked[k].filled \in 0 .. Qty BY <1>1 DEF Inv, SharedOK
  <2>2. QED BY <2>1 DEF LiveOrdersAssumption
<1>7. SharedOK' BY <1>2, <1>5, <1>6 DEF Inv, SharedOK
<1>8. TrackerIsHonest'
  BY <1>1, <1>2, <1>5 DEF Inv, SharedOK, TrackerIsHonest
<1>9. ExchangeOK' BY <1>2 DEF Inv, ExchangeOK
<1>10. QED BY <1>4, <1>7, <1>8, <1>9 DEF Inv

LEMMA AskStep ==
    ASSUME LiveOrdersAssumption, Inv, NEW a \in Actors,
           NEW arrives \in BOOLEAN, NEW answered \in BOOLEAN,
           NEW failed \in IF a = Trader THEN {"next"} ELSE {"orphans", "walk"},
           AskCancel(a, arrives, answered, failed)
    PROVE  Inv'
<1> DEFINE me == act[a]
           works == arrives /\ exch[me.key].status \in Resting
<1>1. me \in Locals /\ me.pc = "cancel" /\ me.key \in Keys /\ ActorOK(a, me, exch)
  BY DEF AskCancel, Inv, ActorsOK, ActorOK
<1>2. /\ exch' = IF works THEN [exch EXCEPT ![me.key].status = "CANCELED"] ELSE exch
      /\ orphaned' = IF works /\ a # Trader THEN orphaned \union {me.key} ELSE orphaned
      /\ UNCHANGED <<tracked, queue, pushed, running, handle, asked>>
  BY DEF AskCancel
<1>3. ClosedStays BY <1>1, <1>2 DEF ClosedStays, Closed, Resting, Inv, SharedOK
<1>4. SharedOK' BY <1>1, <1>2 DEF Inv, SharedOK, Closed
<1>5. ExchangeOK' BY <1>1, <1>2 DEF Inv, SharedOK, ExchangeOK, Resting
<1>6. TrackerIsHonest' BY <1>2, <1>3, HonestStays
<1>7. PICK r \in Locals : act' = [act EXCEPT ![a] = r] /\ ActorOK(a, r, exch')
  <2>1. CASE works /\ answered
    <3> DEFINE r == [me EXCEPT !.pc = "check", !.state = "CANCELLED",
                               !.filled = Unsaid]
    <3>1. /\ r \in Locals /\ r.pc = "check" /\ r.key = me.key /\ r.back = me.back
          /\ r.state = "CANCELLED"
      BY <1>1 DEF Locals, ThreadPlaces
    <3>2. act' = [act EXCEPT ![a] = r] BY <1>1, <2>1 DEF AskCancel, Inv, ActorsOK
    <3>3. exch'[me.key].status = "CANCELED" BY <1>1, <1>2, <2>1 DEF Inv, SharedOK
    <3> HIDE DEF r
    <3>4. ActorOK(a, r, exch')
      BY <1>1, <3>1, <3>3 DEF ActorOK, ThreadPlaces, TraderPlaces
    <3>5. QED BY <3>1, <3>2, <3>4
  <2>2. CASE ~(works /\ answered)
    <3>1. DoneWith(a, failed) BY <2>2 DEF AskCancel
    <3>2. QED BY <3>1, DoneMove
  <2>3. QED BY <2>1, <2>2
<1>8. ActorsOK' BY <1>3, <1>7, OneMoves
<1>9. QED BY <1>4, <1>5, <1>6, <1>8 DEF Inv

-----------------------------------------------------------------------------
(* cancel_all.                                                             *)

LEMMA CancelAllStep == ASSUME LiveOrdersAssumption, Inv, CancelAll PROVE Inv'
<1>1. Trader \in Actors /\ act[Trader] \in Locals /\ ActorOK(Trader, act[Trader], exch)
  BY DEF Actors, Inv, ActorsOK
<1>2. CASE BeginCancelAll
  <2> DEFINE r == [Parked("next") EXCEPT !.todo = queue]
  <2>1. Parked("next") \in Locals BY ParkedOK DEF TraderPlaces
  <2>2. r \in Locals BY <2>1 DEF Locals, Inv, SharedOK
  <2>3. r.pc = "next" BY DEF Parked
  <2>4. act' = [act EXCEPT ![Trader] = r] BY <1>2 DEF BeginCancelAll
  <2> HIDE DEF r
  <2>5. ActorOK(Trader, r, exch) BY <2>3 DEF ActorOK, TraderPlaces
  <2>6. QED BY <1>1, <1>2, <2>2, <2>4, <2>5, QuietMove DEF BeginCancelAll, Inv, SharedOK
<1>3. CASE CancelPop
  <2>1. DoneWith(Trader, "next") BY <1>3 DEF CancelPop
  <2>2. PICK r \in Locals :
          act' = [act EXCEPT ![Trader] = r] /\ \A E : ActorOK(Trader, r, E)
    BY <1>1, <2>1, DoneMove
  <2>3. queue' \subseteq Keys BY <1>3 DEF CancelPop, Inv, SharedOK
  <2>4. QED BY <1>1, <1>3, <2>2, <2>3, QuietMove DEF CancelPop, Inv, SharedOK
<1>4. CASE EndCancelAll
  <2>1. Parked("idle") \in Locals /\ ActorOK(Trader, Parked("idle"), exch)
    BY ParkedOK DEF ActorOK, Parked, TraderPlaces
  <2>2. running' \in BOOLEAN /\ handle' \in Threads \union {NoThread}
    BY <1>4 DEF EndCancelAll, Inv, SharedOK
  <2>3. QED BY <1>1, <1>4, <2>1, <2>2, QuietMove DEF EndCancelAll, Inv, SharedOK
<1>5. ASSUME NEW k \in Keys, CancelNext(k) PROVE Inv'
  <2> DEFINE rest == [act[Trader] EXCEPT !.todo = @ \ {k}]
             r == IF tracked[k].state \in Terminal THEN rest
                  ELSE [rest EXCEPT !.pc = "cancel", !.key = k, !.back = "pop"]
  <2>1. rest \in Locals /\ rest.pc = "next" BY <1>1, <1>5 DEF CancelNext, Locals
  <2>2. r \in Locals BY <2>1 DEF Locals, TraderPlaces
  <2>3. r.pc = "next" \/ (r.pc = "cancel" /\ r.key = k /\ r.back = "pop")
    BY <2>1 DEF Locals
  <2>4. act' = [act EXCEPT ![Trader] = r] BY <1>5 DEF CancelNext
  <2> HIDE DEF r
  <2>5. ActorOK(Trader, r, exch) BY <2>3 DEF ActorOK, TraderPlaces
  <2>6. QED BY <1>1, <1>5, <2>2, <2>4, <2>5, QuietMove DEF CancelNext, Inv, SharedOK
<1>6. ASSUME NEW arrives \in BOOLEAN, NEW answered \in BOOLEAN,
             CancelAsked(arrives, answered)
      PROVE  Inv'
  BY <1>1, <1>6, AskStep DEF CancelAsked
<1>7. QED BY <1>2, <1>3, <1>4, <1>5, <1>6 DEF CancelAll

-----------------------------------------------------------------------------
(* The reconciliation threads.                                             *)

\* A thread that moves to locals of its own leaves everything right when what
\* it holds is right; the queue may shrink.
LEMMA ThreadMove ==
    ASSUME Inv, NEW t \in Threads, NEW r \in Locals, ActorOK(t, r, exch),
           act' = [act EXCEPT ![t] = r], queue' \subseteq queue,
           UNCHANGED <<exch, tracked, pushed, running, handle, asked, orphaned>>
    PROVE  Inv'
<1>1. t \in Actors BY DEF Actors
<1>2. QED BY <1>1, QuietMove DEF Inv, SharedOK

\* Sleeping, walking and looking for orphans put no condition on the locals.
LEMMA FreePlaces ==
    ASSUME LiveOrdersAssumption, NEW t \in Threads, NEW r,
           r.pc \in {"dead", "sleep", "fetch", "compare", "orphans", "walk"}
    PROVE  \A E : ActorOK(t, r, E)
BY DEF LiveOrdersAssumption, ActorOK, ThreadPlaces

LEMMA ParkThread ==
    ASSUME LiveOrdersAssumption, Inv, NEW t \in Threads,
           NEW pc \in {"dead", "sleep", "fetch"},
           act' = [act EXCEPT ![t] = Parked(pc)],
           UNCHANGED <<exch, tracked, queue, pushed, running, handle, asked, orphaned>>
    PROVE  Inv'
<1>1. Parked(pc) \in Locals /\ Parked(pc).pc = pc
  BY ParkedOK DEF ThreadPlaces, Parked
<1>2. ActorOK(t, Parked(pc), exch) BY <1>1, FreePlaces
<1>3. QED BY <1>1, <1>2, ThreadMove

LEMMA ReadingStep ==
    ASSUME LiveOrdersAssumption, Inv, NEW t \in Threads,
           Wake(t) \/ Fetch(t) \/ FetchFails(t) \/ Compare(t) \/ WalkDone(t)
    PROVE  Inv'
<1>1. t \in Actors /\ act[t] \in Locals BY DEF Actors, Inv, ActorsOK
<1>2. CASE Wake(t) BY <1>2, ParkThread DEF Wake
<1>3. CASE WalkDone(t) BY <1>3, ParkThread DEF WalkDone, NextCycle
<1>4. CASE Fetch(t)
  <2> DEFINE r == [act[t] EXCEPT !.pc = "compare", !.open = RestingKeys]
  <2>1. r \in Locals /\ r.pc = "compare"
    BY <1>1 DEF Locals, ThreadPlaces, RestingKeys
  <2>2. act' = [act EXCEPT ![t] = r] BY <1>1, <1>4 DEF Fetch, Inv, ActorsOK
  <2> HIDE DEF r
  <2>3. ActorOK(t, r, exch) BY <2>1, FreePlaces
  <2>4. QED BY <1>4, <2>1, <2>2, <2>3, ThreadMove DEF Fetch
<1>5. CASE FetchFails(t) BY <1>5, ParkThread DEF FetchFails, NextCycle
<1>6. CASE Compare(t)
  <2> DEFINE r == [act[t] EXCEPT !.pc = "orphans", !.open = {},
                                 !.todo = queue \ act[t].open,
                                 !.orphans = act[t].open \ queue]
  <2>1. r \in Locals /\ r.pc = "orphans"
    BY <1>1 DEF Locals, ThreadPlaces, Inv, SharedOK
  <2>2. act' = [act EXCEPT ![t] = r] BY <1>1, <1>6 DEF Compare, Inv, ActorsOK
  <2> HIDE DEF r
  <2>3. ActorOK(t, r, exch) BY <2>1, FreePlaces
  <2>4. QED BY <1>6, <2>1, <2>2, <2>3, ThreadMove DEF Compare
<1>7. QED BY <1>2, <1>3, <1>4, <1>5, <1>6

LEMMA DoneStep ==
    ASSUME LiveOrdersAssumption, Inv, NEW t \in Threads,
           OrphansDone(t) \/ GetFails(t) \/ Remove(t)
    PROVE  Inv'
<1>1. t \in Actors /\ t # Trader BY DEF Actors, LiveOrdersAssumption
<1>2. DoneWith(t, "walk") BY DEF OrphansDone, GetFails, Remove
<1>3. PICK r \in Locals : act' = [act EXCEPT ![t] = r] /\ \A E : ActorOK(t, r, E)
  BY <1>1, <1>2, DoneMove
<1>4. queue' \subseteq queue
      /\ UNCHANGED <<exch, tracked, pushed, running, handle, asked, orphaned>>
  BY DEF OrphansDone, GetFails, Remove
<1>5. QED BY <1>3, <1>4, ThreadMove

LEMMA GetStep == ASSUME LiveOrdersAssumption, Inv, NEW t \in Threads, Get(t) PROVE Inv'
<1> DEFINE found == exch[act[t].key]
<1>1. /\ t \in Actors /\ t # Trader
      /\ act[t] \in Locals /\ act[t].key \in Keys /\ act[t].pc = "get"
  BY DEF Actors, LiveOrdersAssumption, Get, Inv, ActorsOK, ActorOK
<1>2. UNCHANGED <<exch, tracked, queue, pushed, running, handle, asked, orphaned>>
  BY DEF Get
<1>3. CASE found.status \in DOMAIN StateFor
  <2> DEFINE r == [act[t] EXCEPT !.pc = "check", !.back = "remove",
                     !.state = StateFor[found.status], !.filled = found.exec]
  <2>1. found.status \in {"FILLED", "PARTIALLY_FILLED", "CANCELED"}
    BY <1>3 DEF StateFor
  <2>2. /\ StateFor[found.status] \in {"FILLED", "PARTIAL", "CANCELLED"}
        /\ StateFor[found.status] = "FILLED" => found.status = "FILLED"
        /\ StateFor[found.status] = "CANCELLED" => found.status = "CANCELED"
    BY <2>1 DEF StateFor
  <2>3. found.exec \in 0 .. Qty BY <1>1 DEF Inv, SharedOK
  <2>4. /\ r \in Locals /\ r.pc = "check" /\ r.key = act[t].key /\ r.back = "remove"
        /\ r.state = StateFor[found.status]
    BY <1>1, <2>2, <2>3 DEF Locals, ThreadPlaces
  <2>5. act' = [act EXCEPT ![t] = r] BY <1>1, <1>3 DEF Get, Inv, ActorsOK
  <2> HIDE DEF r
  <2>6. ActorOK(t, r, exch) BY <1>1, <2>2, <2>4 DEF ActorOK, ThreadPlaces
  <2>7. QED BY <1>2, <2>4, <2>5, <2>6, ThreadMove
<1>4. CASE found.status \notin DOMAIN StateFor
  <2>1. DoneWith(t, "walk") BY <1>4 DEF Get
  <2>2. PICK r \in Locals : act' = [act EXCEPT ![t] = r] /\ \A E : ActorOK(t, r, E)
    BY <1>1, <2>1, DoneMove
  <2>3. QED BY <1>2, <2>2, ThreadMove
<1>5. QED BY <1>3, <1>4

LEMMA VisitStep ==
    ASSUME LiveOrdersAssumption, Inv, NEW t \in Threads, NEW k \in Keys,
           CancelOrphan(t, k) \/ Walk(t, k)
    PROVE  Inv'
<1>1. t \in Actors /\ t # Trader /\ act[t] \in Locals
  BY DEF Actors, LiveOrdersAssumption, Inv, ActorsOK
<1>2. CASE CancelOrphan(t, k)
  <2> DEFINE rest == [act[t] EXCEPT !.orphans = @ \ {k}]
             r == IF tracked[k].state \in Terminal THEN rest
                  ELSE [rest EXCEPT !.pc = "cancel", !.key = k, !.back = "orphans"]
  <2>1. rest \in Locals /\ rest.pc = "orphans" BY <1>1, <1>2 DEF CancelOrphan, Locals
  <2>2. r \in Locals BY <2>1 DEF Locals, TraderPlaces
  <2>3. r.pc = "orphans" \/ (r.pc = "cancel" /\ r.key = k /\ r.back = "orphans")
    BY <2>1 DEF Locals
  <2>4. act' = [act EXCEPT ![t] = r] BY <1>2 DEF CancelOrphan
  <2> HIDE DEF r
  <2>5. ActorOK(t, r, exch) BY <1>1, <2>3 DEF ActorOK, ThreadPlaces
  <2>6. QED BY <1>2, <2>2, <2>4, <2>5, ThreadMove DEF CancelOrphan
<1>3. CASE Walk(t, k)
  <2> DEFINE r == [act[t] EXCEPT !.todo = @ \ {k}, !.pc = IF k \in queue THEN "get" ELSE @,
                                 !.key = IF k \in queue THEN k ELSE <<>>]
  <2>1. r \in Locals BY <1>1, <1>3 DEF Walk, Locals, ThreadPlaces
  <2>2. r.pc = "walk" \/ (r.pc = "get" /\ r.key = k) BY <1>1, <1>3 DEF Walk, Locals
  <2>3. act' = [act EXCEPT ![t] = r] BY <1>1, <1>3 DEF Walk, Inv, ActorsOK
  <2> HIDE DEF r
  <2>4. ActorOK(t, r, exch) BY <1>1, <2>2 DEF ActorOK, ThreadPlaces
  <2>5. QED BY <1>3, <2>1, <2>3, <2>4, ThreadMove DEF Walk
<1>4. QED BY <1>2, <1>3

LEMMA ThreadStep ==
    ASSUME LiveOrdersAssumption, Inv, NEW t \in Threads, Reconciles(t) \/ NetworkFails(t)
    PROVE  Inv'
<1>1. ASSUME NEW arrives \in BOOLEAN, NEW answered \in BOOLEAN,
             OrphanAsked(t, arrives, answered)
      PROVE  Inv'
  <2>1. t \in Actors /\ "orphans" \in IF t = Trader THEN {"next"} ELSE {"orphans", "walk"}
    BY DEF Actors, LiveOrdersAssumption
  <2>2. QED BY <1>1, <2>1, AskStep DEF OrphanAsked
<1>2. QED BY <1>1, ReadingStep, DoneStep, GetStep, VisitStep DEF Reconciles, NetworkFails

-----------------------------------------------------------------------------
(* The reconciliation is on while the queue holds an order.                *)

\* The flag and the handle go together, and the thread of the handle is alive:
\* a thread ends only when it finds the flag cleared.
Watch ==
    /\ running <=> handle # NoThread
    /\ handle # NoThread => act[handle].pc # "dead"
    /\ queue # {} /\ act[Trader].pc # "start" => running

\* The other actors stay where they are.
OnlyMoves(a) == \A b \in Actors : b # a => act'[b] = act[b]

\* One actor moves, the queue does not grow, and start_reconciliation is not
\* left unfinished.
LEMMA WatchMove ==
    ASSUME Inv, Watch, NEW a \in Actors,
           OnlyMoves(a), act'[a].pc = "dead" => ~running,
           a = Trader => act[a].pc # "start",
           queue' \subseteq queue, UNCHANGED <<running, handle>>
    PROVE  Watch'
<1>1. act \in [Actors -> Locals] /\ Trader \in Actors /\ handle \in Threads \union {NoThread}
  BY DEF Inv, ActorsOK, SharedOK, Actors
<1>2. handle' # NoThread => act'[handle'].pc # "dead"
  BY <1>1 DEF Watch, Actors, OnlyMoves
<1>3. queue # {} /\ act'[Trader].pc # "start" => running
  BY <1>1 DEF Watch, OnlyMoves
<1>4. QED BY <1>2, <1>3 DEF Watch

LEMMA WatchPlacing == ASSUME LiveOrdersAssumption, Inv, Watch, Placing PROVE Watch'
<1>1. act \in [Actors -> Locals] /\ Trader \in Actors BY DEF Inv, ActorsOK, Actors
<1>2. ASSUME NEW i \in Intents, Begin(i) PROVE Watch'
  <2>1. OnlyMoves(Trader) /\ act'[Trader].pc = "send"
    BY <1>1, <1>2 DEF OnlyMoves, Begin, Parked
  <2>2. QED BY <1>1, <1>2, <2>1, WatchMove DEF Begin
<1>3. ASSUME NEW arrives \in BOOLEAN, NEW answered \in BOOLEAN, NEW retriable \in BOOLEAN,
             Send(arrives, answered, retriable)
      PROVE  Watch'
  <2>1. OnlyMoves(Trader) /\ act'[Trader].pc \in {"track", "send", "idle"}
    BY <1>1, <1>3 DEF OnlyMoves, Send, Parked, Locals
  <2>2. QED BY <1>1, <1>3, <2>1, WatchMove DEF Send
<1>4. CASE Track
  <2>1. OnlyMoves(Trader) /\ act'[Trader].pc = "register"
    BY <1>1, <1>4 DEF OnlyMoves, Track, Goto, Locals
  <2>2. QED BY <1>1, <1>4, <2>1, WatchMove DEF Track
\* The order waits in the queue for start_reconciliation, its next step.
<1>5. CASE Register
  <2>1. act'[Trader].pc = "start" BY <1>1, <1>5 DEF Register, Goto, Locals
  <2>2. UNCHANGED <<running, handle>> BY <1>5 DEF Register
  <2>3. handle # NoThread => act'[handle].pc # "dead"
    <3>1. handle # NoThread => handle \in Actors /\ handle # Trader
      BY DEF Inv, SharedOK, LiveOrdersAssumption, Actors
    <3>2. QED BY <1>1, <1>5, <3>1 DEF Register, Goto, Watch
  <2>4. QED BY <2>1, <2>2, <2>3 DEF Watch
<1>6. CASE StartReconciliation
  <2>1. CASE handle # NoThread /\ act[handle].pc # "dead"
    <3>1. act' = [act EXCEPT ![Trader] = Parked("idle")] /\ UNCHANGED <<running, handle>>
      BY <1>6, <2>1 DEF StartReconciliation
    <3>2. act'[handle].pc # "dead"
      BY <1>1, <2>1, <3>1 DEF Parked, Inv, SharedOK, Actors
    <3>3. QED BY <2>1, <3>1, <3>2 DEF Watch
  <2>2. CASE ~(handle # NoThread /\ act[handle].pc # "dead")
    <3>1. PICK t \in Threads :
            /\ act' = [act EXCEPT ![Trader] = Parked("idle"), ![t] = Parked("sleep")]
            /\ handle' = t /\ running' = TRUE
      BY <1>6, <2>2 DEF StartReconciliation
    <3>2. act'[t].pc = "sleep" /\ t # NoThread
      BY <1>1, <3>1 DEF Parked, Actors, LiveOrdersAssumption
    <3>3. QED BY <3>1, <3>2 DEF Watch
  <2>3. QED BY <2>1, <2>2
<1>7. CASE NoOrderId
  <2>1. OnlyMoves(Trader) /\ act'[Trader].pc = "idle"
    BY <1>1, <1>7 DEF OnlyMoves, NoOrderId, Parked
  <2>2. QED BY <1>1, <1>7, <2>1, WatchMove DEF NoOrderId
<1>8. QED BY <1>2, <1>3, <1>4, <1>5, <1>6, <1>7 DEF Placing

LEMMA WatchAsk ==
    ASSUME LiveOrdersAssumption, Inv, Watch, NEW a \in Actors,
           NEW arrives \in BOOLEAN, NEW answered \in BOOLEAN,
           NEW failed \in {"next", "orphans"}, AskCancel(a, arrives, answered, failed)
    PROVE  Watch'
<1>1. act \in [Actors -> Locals] /\ act[a].pc = "cancel" BY DEF Inv, ActorsOK, AskCancel
<1>2. OnlyMoves(a) /\ act'[a].pc \in {"check", "next", "orphans"}
  <2>1. CASE DoneWith(a, failed) BY <1>1, <2>1 DEF OnlyMoves, DoneWith, Parked
  <2>2. CASE act' = [act EXCEPT ![a].pc = "check", ![a].state = "CANCELLED",
                                ![a].filled = Unsaid]
    BY <1>1, <2>2 DEF OnlyMoves
  <2>3. QED BY <2>1, <2>2 DEF AskCancel
<1>3. QED BY <1>1, <1>2, WatchMove DEF AskCancel

\* The end of cancel_all clears the flag and drops the handle together, and only
\* if the queue is empty.
LEMMA WatchCancelAll == ASSUME LiveOrdersAssumption, Inv, Watch, CancelAll PROVE Watch'
<1>1. act \in [Actors -> Locals] /\ Trader \in Actors BY DEF Inv, ActorsOK, Actors
<1>2. CASE BeginCancelAll
  <2>1. OnlyMoves(Trader) /\ act'[Trader].pc = "next"
    BY <1>1, <1>2 DEF OnlyMoves, BeginCancelAll, Parked
  <2>2. QED BY <1>1, <1>2, <2>1, WatchMove DEF BeginCancelAll
<1>3. CASE CancelPop
  <2>1. OnlyMoves(Trader) /\ act'[Trader].pc = "next"
    BY <1>1, <1>3 DEF OnlyMoves, CancelPop, DoneWith, Parked
  <2>2. QED BY <1>1, <1>3, <2>1, WatchMove DEF CancelPop
<1>4. CASE EndCancelAll
  <2>1. act' = [act EXCEPT ![Trader] = Parked("idle")] /\ queue' = queue
        /\ act[Trader].pc = "next"
    BY <1>4 DEF EndCancelAll
  <2>2. CASE queue = {} BY <1>4, <2>1, <2>2 DEF EndCancelAll, Watch
  <2>3. CASE queue # {}
    <3>1. UNCHANGED <<running, handle>> BY <1>4, <2>3 DEF EndCancelAll
    <3>2. OnlyMoves(Trader) /\ act'[Trader].pc = "idle" BY <1>1, <2>1 DEF OnlyMoves, Parked
    <3>3. QED BY <1>1, <2>1, <3>1, <3>2, WatchMove
  <2>4. QED BY <2>2, <2>3
<1>5. ASSUME NEW k \in Keys, CancelNext(k) PROVE Watch'
  <2>1. OnlyMoves(Trader) /\ act'[Trader].pc \in {"next", "cancel"}
    BY <1>1, <1>5 DEF OnlyMoves, CancelNext, Locals
  <2>2. QED BY <1>1, <1>5, <2>1, WatchMove DEF CancelNext
<1>6. ASSUME NEW arrives \in BOOLEAN, NEW answered \in BOOLEAN,
             CancelAsked(arrives, answered)
      PROVE  Watch'
  BY <1>1, <1>6, WatchAsk DEF CancelAsked
<1>7. QED BY <1>2, <1>3, <1>4, <1>5, <1>6 DEF CancelAll

\* A thread ends after its sleep or its cycle, and only with the flag cleared.
LEMMA WatchThread ==
    ASSUME LiveOrdersAssumption, Inv, Watch, NEW t \in Threads,
           Reconciles(t) \/ NetworkFails(t)
    PROVE  Watch'
<1>1. act \in [Actors -> Locals] /\ t \in Actors /\ t # Trader
  BY DEF Inv, ActorsOK, Actors, LiveOrdersAssumption
<1>2. ASSUME NEW arrives \in BOOLEAN, NEW answered \in BOOLEAN,
             OrphanAsked(t, arrives, answered)
      PROVE  Watch'
  BY <1>1, <1>2, WatchAsk DEF OrphanAsked
<1>3. CASE Wake(t) \/ WalkDone(t) \/ FetchFails(t)
  <2>1. OnlyMoves(t) /\ (act'[t].pc = "dead" => ~running)
    BY <1>1, <1>3 DEF OnlyMoves, Parked, Wake, WalkDone, FetchFails, NextCycle
  <2>2. QED BY <1>1, <1>3, <2>1, WatchMove DEF Wake, WalkDone, FetchFails
<1>4. CASE Fetch(t) \/ Compare(t)
  <2>1. OnlyMoves(t) /\ act'[t].pc \in {"compare", "orphans"}
    BY <1>1, <1>4 DEF OnlyMoves, Fetch, Compare, Locals
  <2>2. QED BY <1>1, <1>4, <2>1, WatchMove DEF Fetch, Compare
<1>5. CASE OrphansDone(t) \/ GetFails(t) \/ Remove(t)
  <2>1. OnlyMoves(t) /\ act'[t].pc = "walk"
    BY <1>1, <1>5 DEF OnlyMoves, OrphansDone, GetFails, Remove, DoneWith, Parked
  <2>2. QED BY <1>1, <1>5, <2>1, WatchMove DEF OrphansDone, GetFails, Remove
<1>6. CASE Get(t)
  <2>1. OnlyMoves(t) /\ act'[t].pc \in {"check", "walk"}
    <3>1. CASE DoneWith(t, "walk") BY <1>1, <3>1 DEF OnlyMoves, DoneWith, Parked
    <3>2. CASE act' = [act EXCEPT ![t].pc = "check", ![t].back = "remove",
                         ![t].state = StateFor[exch[act[t].key].status],
                         ![t].filled = exch[act[t].key].exec]
      BY <1>1, <3>2 DEF OnlyMoves, Locals
    <3>3. QED BY <1>6, <3>1, <3>2 DEF Get
  <2>2. QED BY <1>1, <1>6, <2>1, WatchMove DEF Get
<1>7. ASSUME NEW k \in Keys, CancelOrphan(t, k) \/ Walk(t, k) PROVE Watch'
  <2>1. OnlyMoves(t) /\ act'[t].pc \in {"orphans", "cancel", "walk", "get"}
    <3>1. CASE CancelOrphan(t, k)
      BY <1>1, <3>1 DEF OnlyMoves, CancelOrphan, Locals
    <3>2. CASE Walk(t, k) BY <1>1, <3>2 DEF OnlyMoves, Walk, Locals
    <3>3. QED BY <1>7, <3>1, <3>2
  <2>2. QED BY <1>1, <1>7, <2>1, WatchMove DEF CancelOrphan, Walk
<1>8. QED BY <1>2, <1>3, <1>4, <1>5, <1>6, <1>7 DEF Reconciles, NetworkFails

LEMMA WatchUpdate ==
    ASSUME LiveOrdersAssumption, Inv, Watch, NEW a \in Actors, Updates(a) PROVE Watch'
<1>1. /\ act \in [Actors -> Locals]
      /\ act[a].pc \in {"check", "write", "tell"}
      /\ act[a].back \in {"pop", "orphans", "remove"}
  BY DEF Inv, ActorsOK, ActorOK, Updates, Check, Write, Tell
<1>2. OnlyMoves(a) /\ act'[a].pc # "dead"
  <2>1. CASE Return(a) BY <1>1, <2>1 DEF OnlyMoves, Return, Parked
  <2>2. ASSUME NEW pc \in {"write", "tell"}, Goto(a, pc)
        PROVE  OnlyMoves(a) /\ act'[a].pc = pc
    BY <1>1, <2>2 DEF OnlyMoves, Goto, Locals
  <2>3. Return(a) \/ Goto(a, "write") \/ Goto(a, "tell")
    BY DEF Updates, Check, Write, Tell
  <2>4. QED BY <2>1, <2>2, <2>3
<1>3. QED BY <1>1, <1>2, WatchMove DEF Updates, Check, Write, Tell

-----------------------------------------------------------------------------
(* Theorems.                                                               *)

LEMMA InvCorrect == Spec => []Inv
<1> USE LiveOrdersAssumption
<1>1. Init => Inv BY InitInv
<1>2. Inv /\ [Next]_vars => Inv'
  <2> SUFFICES ASSUME Inv, [Next]_vars PROVE Inv'
    OBVIOUS
  <2>1. CASE Next
    BY <2>1, ExchangeStep, PlacingStep, CancelAllStep, ThreadStep, CheckStep, WriteStep,
       TellStep DEF Next, Updates
  <2>2. CASE UNCHANGED vars
    BY <2>2 DEF vars, Inv, SharedOK, ExchangeOK, ActorsOK, ActorOK, TrackerIsHonest
  <2>3. QED BY <2>1, <2>2
<1>3. QED BY <1>1, <1>2, PTL DEF Spec

\* Every variable shared by the trading thread and the reconciliation threads
\* keeps its type, and every actor stays at a place of its own program.
THEOREM TypeCorrect == Spec => []TypeOK
<1>1. Inv => TypeOK
  <2> SUFFICES ASSUME Inv PROVE TypeOK
    OBVIOUS
  <2>1. ASSUME NEW t \in Threads PROVE act[t].pc \in ThreadPlaces
    BY LiveOrdersAssumption DEF Inv, ActorsOK, ActorOK, Actors, LiveOrdersAssumption
  <2>2. act[Trader].pc \in TraderPlaces BY DEF Inv, ActorsOK, ActorOK, Actors
  <2>3. QED BY <2>1, <2>2 DEF Inv, SharedOK, TypeOK, ThreadPlaces, TraderPlaces
<1>2. QED BY <1>1, InvCorrect, PTL

\* Retries never duplicate an order: the one key drawn before the loop names
\* whatever of the attempts reached the exchange.
THEOREM AtMostOneOrder == Spec => []OneOrderPerIntent
<1>1. Inv => OneOrderPerIntent
  BY DEF Inv, ExchangeOK, SharedOK, OneOrderPerIntent, Keys
<1>2. QED BY <1>1, InvCorrect, PTL

\* The tracker and RiskGuard learn only of closings that happened, through any
\* interleaving of two updates of the same order.
THEOREM HonestTracker == Spec => []TrackerIsHonest
<1>1. Inv => TrackerIsHonest BY DEF Inv
<1>2. QED BY <1>1, InvCorrect, PTL

\* Whatever number of threads outlived a stop, an order that has been placed is
\* in the care of a live reconciliation thread until it leaves the queue.
THEOREM WatchedQueue == Spec => []QueueIsWatched
<1> USE LiveOrdersAssumption
<1>1. Init => Watch BY DEF Init, Watch
<1>2. Inv /\ Watch /\ [Next]_vars => Watch'
  <2> SUFFICES ASSUME Inv, Watch, [Next]_vars PROVE Watch'
    OBVIOUS
  <2>1. CASE Exchange
    BY <2>1 DEF Exchange, ExchangeFills, ExchangeCancels, Watch
  <2>2. CASE UNCHANGED vars BY <2>2 DEF vars, Watch
  <2>3. QED BY <2>1, <2>2, WatchPlacing, WatchCancelAll, WatchThread, WatchUpdate DEF Next
<1>3. Watch => QueueIsWatched BY DEF Watch, QueueIsWatched
<1>4. QED BY <1>1, <1>2, <1>3, InvCorrect, PTL DEF Spec
===============================================================================
