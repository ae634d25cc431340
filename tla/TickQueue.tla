------------------------------- MODULE TickQueue -------------------------------
(***************************************************************************)
(* What a subscriber of a message stream may rely on when the queue before *)
(* it gives up old messages: it is handed trades of the symbol it asks     *)
(* for, from the head of the queue and each once.  A message that waits is *)
(* given up only in return for one that arrived over the capacity, and it  *)
(* is the oldest one.                                                      *)
(***************************************************************************)
EXTENDS Integers, Sequences

CONSTANTS Symbols, Capacity

VARIABLES
    sent,      \* how many messages were sent
    waiting,   \* those that wait: [n, symbol, trade], the oldest first
    owed,      \* a message arrived over the capacity, and one is to be given up
    got        \* per symbol, the numbers of the trades handed over

TickInit == sent = 0 /\ waiting = <<>> /\ owed = FALSE /\ got = [s \in Symbols |-> <<>>]

\* A message is heard, or missed because nobody listens.
Sent ==
    /\ sent' = sent + 1
    /\ \/ UNCHANGED waiting
       \/ /\ ~owed /\ Len(waiting) <= Capacity
          /\ \E s \in Symbols, trade \in BOOLEAN :
                waiting' = Append(waiting, [n |-> sent', symbol |-> s, trade |-> trade])
    /\ UNCHANGED <<owed, got>>

Overflow ==
    /\ ~owed /\ Len(waiting) = Capacity + 1
    /\ owed' = TRUE
    /\ UNCHANGED <<sent, waiting, got>>

GiveUp ==
    /\ owed /\ waiting # <<>>
    /\ waiting' = Tail(waiting) /\ owed' = FALSE
    /\ UNCHANGED <<sent, got>>

\* Messages that are not asked for are taken off the queue too.
TakeFor(s) ==
    /\ waiting # <<>>
    /\ waiting' = Tail(waiting)
    /\ LET m == Head(waiting)
       IN  got' = IF m.trade /\ m.symbol = s THEN [got EXCEPT ![s] = Append(@, m.n)] ELSE got
    /\ UNCHANGED <<sent, owed>>

TickNext == Sent \/ Overflow \/ GiveUp \/ \E s \in Symbols : TakeFor(s)

TickSpec == TickInit /\ [][TickNext]_<<sent, waiting, owed, got>>
=============================================================================
