---------------------------- MODULE MCOrderRouting ----------------------------
(* A small instance of OrderRouting: a TWAP of two slices, a VWAP of two     *)
(* buckets that may be asked for more than is left, rates on both sides of   *)
(* the floor. Beside it the queue of resting orders that the router only     *)
(* registers; they share nothing, so each is explored with the other as it   *)
(* started.                                                                  *)
EXTENDS OrderRouting, LimitQueue

MCCurve == <<2, 1>>

\* A gap whose middle is half a tick up, and no gap at all.
MCZones == {<<401, 411>>, <<400, 400>>}

\* One of the initial states of the router is enough for the queue.
routingIdle ==
    ops = 0 /\ twap.limits[1] = NoPrice /\ vwap.rate = 5 /\ registered = Executors
queueIdle == \A o \in QueueOrders : status[o] = "none"

allVars == <<vars, queueVars>>
MCInit == Init /\ QueueInit
MCNext ==
    \/ queueIdle /\ Next /\ UNCHANGED queueVars
    \/ routingIdle /\ QueueNext /\ UNCHANGED vars
MCSpec == MCInit /\ [][MCNext]_allVars
=============================================================================
