------------------------------ MODULE MarketFeed ------------------------------
(***************************************************************************)
(* BinanceWebsocketClient: reader threads that cache the newest message of *)
(* each kind and put every message on a bounded queue, dropping the oldest *)
(* when it is full, and a caller who drains the queue for the trades of    *)
(* one symbol. A reconnect may find a thread of the connection before.     *)
(***************************************************************************)
EXTENDS Integers, Sequences, SequencesExt

CONSTANTS
    Symbols,      \* symbols of the combined stream
    Threads,      \* reader threads that connect() may start: a bound
    BufferSize,   \* buffer_size of the queue
    MaxMessages,  \* messages the exchange sends: a bound
    Limit         \* most trades of one get_tick_trades

FeedAssumption ==
    /\ BufferSize \in Nat \ {0} /\ MaxMessages \in Nat /\ Limit \in Nat \ {0}
ASSUME FeedAssumption

VARIABLES
    running,   \* _running
    thread,    \* per thread: new, starting, reading, asleep or gone
    current,   \* the threads of _thread: the last one started, or none
    sent,      \* messages the exchange has sent
    inHand,    \* the message the one reader is putting on the queue, and its step
    latest,    \* _latest_trade: the number of the newest trade cached, per symbol
    buffer,    \* _recv_queue
    drain,     \* the get_tick_trades under way: its symbol and its trades so far
    returned   \* observer: trades handed to the caller so far, per symbol

feedVars == <<running, thread, current, sent, inHand, latest, buffer, drain, returned>>

Nothing == [step |-> "none", n |-> 0, symbol |-> CHOOSE s \in Symbols : TRUE, trade |-> FALSE]
NoDrain == [busy |-> FALSE, symbol |-> CHOOSE s \in Symbols : TRUE, trades |-> <<>>]

FeedInit ==
    /\ running = FALSE
    /\ thread = [t \in Threads |-> "new"]
    /\ current = {}
    /\ sent = 0
    /\ inHand = Nothing
    /\ latest = [s \in Symbols |-> 0]
    /\ buffer = <<>>
    /\ drain = NoDrain
    /\ returned = [s \in Symbols |-> <<>>]

(***************************************************************************)
(* The connection                                                          *)
(***************************************************************************)

dataVars == <<sent, inHand, latest, buffer, drain, returned>>

Connect(t) ==
    /\ ~running /\ thread[t] = "new"
    /\ running' = TRUE
    /\ thread' = [thread EXCEPT ![t] = "starting"]
    /\ current' = {t}
    /\ UNCHANGED dataVars

\* The socket of the one application object is free, or run_forever raises and
\* the thread sleeps five seconds. That the library looks at the socket and opens
\* it in one step is an assumption: two threads inside at once would each be sent
\* every message, and could meet a queue that is full again at the second put.
RunForever(t) ==
    /\ thread[t] = "starting"
    /\ thread' = [thread EXCEPT ![t] =
                     IF ~running THEN "gone"
                     ELSE IF \E u \in Threads : thread[u] = "reading" THEN "asleep" ELSE "reading"]
    /\ UNCHANGED <<running, current, dataVars>>

\* The connection breaks while no message is being handled, or it could not be
\* made; the thread goes round its loop, after a sleep if this raised.
Breaks(t, raised) ==
    /\ thread[t] = "reading" /\ inHand.step = "none"
    /\ thread' = [thread EXCEPT ![t] = IF raised THEN "asleep" ELSE "starting"]
    /\ UNCHANGED <<running, current, dataVars>>

Wakes(t) ==
    /\ thread[t] = "asleep"
    /\ thread' = [thread EXCEPT ![t] = "starting"]
    /\ UNCHANGED <<running, current, dataVars>>

\* disconnect closes the socket, so that the reader leaves run_forever, and
\* waits five seconds for its thread, which may sleep as long.
Disconnect ==
    /\ running /\ inHand.step = "none"
    /\ running' = FALSE
    /\ thread' = [t \in Threads |-> IF t \in current /\ thread[t] # "asleep" THEN "gone"
                                    ELSE IF thread[t] = "reading" THEN "starting" ELSE thread[t]]
    /\ current' = {}
    /\ UNCHANGED dataVars

(***************************************************************************)
(* _on_message                                                             *)
(***************************************************************************)

connVars == <<running, thread, current>>

\* A trade, or a book update that is cached elsewhere.
Receive(s, trade) ==
    /\ \E t \in Threads : thread[t] = "reading"
    /\ inHand.step = "none" /\ sent < MaxMessages
    /\ sent' = sent + 1
    /\ inHand' = [step |-> "put", n |-> sent + 1, symbol |-> s, trade |-> trade]
    /\ latest' = IF trade THEN [latest EXCEPT ![s] = sent + 1] ELSE latest
    /\ UNCHANGED <<connVars, buffer, drain, returned>>

\* Messages sent while nobody reads are lost.
Missed ==
    /\ sent < MaxMessages /\ sent' = sent + 1
    /\ ~\E t \in Threads : thread[t] = "reading"
    /\ UNCHANGED <<connVars, inHand, latest, buffer, drain, returned>>

Put ==
    /\ inHand.step = "put"
    /\ IF Len(buffer) < BufferSize
       THEN buffer' = Append(buffer, inHand) /\ inHand' = Nothing
       ELSE inHand' = [inHand EXCEPT !.step = "full"] /\ UNCHANGED buffer
    /\ UNCHANGED <<connVars, sent, latest, drain, returned>>

\* A slip: space is made by clearing the queue.
ClearsTheQueue ==
    /\ inHand.step = "full"
    /\ IF buffer = <<>> THEN inHand' = Nothing /\ UNCHANGED buffer
       ELSE inHand' = [inHand EXCEPT !.step = "again"] /\ buffer' = <<>>
    /\ UNCHANGED <<connVars, sent, latest, drain, returned>>

\* If the caller has emptied the queue meanwhile, queue.Empty leaves the handler
\* and the message is lost.
MakeSpace ==
    /\ inHand.step = "full"
    /\ IF buffer = <<>> THEN inHand' = Nothing /\ UNCHANGED buffer
       ELSE inHand' = [inHand EXCEPT !.step = "again"] /\ buffer' = Tail(buffer)
    /\ UNCHANGED <<connVars, sent, latest, drain, returned>>

PutAgain ==
    /\ inHand.step = "again"
    /\ buffer' = Append(buffer, inHand) /\ inHand' = Nothing
    /\ UNCHANGED <<connVars, sent, latest, drain, returned>>

(***************************************************************************)
(* get_tick_trades                                                         *)
(***************************************************************************)

BeginDrain(s) ==
    /\ ~drain.busy
    /\ drain' = [busy |-> TRUE, symbol |-> s, trades |-> <<>>]
    /\ UNCHANGED <<connVars, sent, inHand, latest, buffer, returned>>

Taken(q) == [message |-> Head(q), rest |-> Tail(q)]

\* Messages of other symbols and books are taken off the queue and dropped.
TakeOne ==
    /\ drain.busy /\ Len(drain.trades) < Limit /\ buffer # <<>>
    /\ LET m == Taken(buffer).message IN
          /\ buffer' = Taken(buffer).rest
          /\ drain' = IF m.trade /\ m.symbol = drain.symbol
                      THEN [drain EXCEPT !.trades = Append(@, m.n)] ELSE drain
    /\ UNCHANGED <<connVars, sent, inHand, latest, returned>>

EndDrain ==
    /\ drain.busy /\ (Len(drain.trades) = Limit \/ buffer = <<>>)
    /\ returned' = [returned EXCEPT ![drain.symbol] = @ \o drain.trades]
    /\ drain' = NoDrain
    /\ UNCHANGED <<connVars, sent, inHand, latest, buffer>>

FeedNext ==
    \/ \E t \in Threads : \/ Connect(t) \/ RunForever(t) \/ Wakes(t)
                          \/ \E raised \in BOOLEAN : Breaks(t, raised)
    \/ Disconnect
    \/ \E s \in Symbols, trade \in BOOLEAN : Receive(s, trade)
    \/ Missed \/ Put \/ MakeSpace \/ PutAgain
    \/ \E s \in Symbols : BeginDrain(s)
    \/ TakeOne \/ EndDrain

FeedSpec == FeedInit /\ [][FeedNext]_feedVars

(***************************************************************************)
(* Properties                                                              *)
(***************************************************************************)

\* Over reconnects, a thread left behind, dropped messages and a caller who
\* drains while the reader makes space, nobody is handed a trade twice or after
\* a later one, and the snapshot of a symbol is never older than a trade of it
\* that was handed out.
TicksInOrder ==
    \A s \in Symbols : LET r == returned[s] IN
        /\ \A k \in 1 .. Len(r) - 1 : r[k] < r[k + 1]
        /\ r # <<>> => Last(r) <= latest[s]

\* The messages on their way to the caller, the one in hand last.
Bare(m) == [n |-> m.n, symbol |-> m.symbol, trade |-> m.trade]

Line(b, hand) ==
    [k \in 1 .. Len(b) + (IF hand.step = "none" THEN 0 ELSE 1) |->
        Bare(IF k <= Len(b) THEN b[k] ELSE hand)]

HandedOver ==
    [s \in Symbols |->
        returned[s] \o (IF drain.busy /\ drain.symbol = s THEN drain.trades ELSE <<>>)]

Ticks == INSTANCE TickQueue WITH
    Capacity <- BufferSize, waiting <- Line(buffer, inHand),
    owed <- inHand.step = "full", got <- HandedOver

\* The feed is a queue that gives up its oldest (module TickQueue): although the
\* test for room, the get that makes some and the second put are steps of their
\* own and the caller takes messages between them, each message too many costs
\* the oldest one and nothing else, and the caller is handed the rest, each once.
GivesUpOldest == Ticks!TickSpec
=============================================================================
