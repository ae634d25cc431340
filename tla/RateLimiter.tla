------------------------------ MODULE RateLimiter ------------------------------
(***************************************************************************)
(* RateLimiter and WriteRateLimiter (src/data/binance_client.py), which    *)
(* are the same code: every REST read and every live order first calls     *)
(* wait().  A permit is a semaphore; timer threads put one back each.      *)
(* The lock is a threading.Lock: a thread that takes it again while it     *)
(* holds it waits for itself.                                              *)
(***************************************************************************)
EXTENDS Integers

CONSTANTS
    Waiters,        \* threads that call wait()
    MaxPermits      \* bound: permits that pile up in the semaphore

VARIABLES
    place,      \* where each thread is; Replenisher is the current timer's thread
    lock,       \* the thread that holds cls._lock, or NoOne
    permits,    \* the value of cls._sem, NoSemaphore before it is made
    ticking     \* cls._timer is counting down

limiterVars == <<place, lock, permits, ticking>>

NoOne == "no one"
Replenisher == "replenisher"
NoSemaphore == -1
LimiterThreads == Waiters \cup {Replenisher}

LimiterInit ==
    /\ place = [t \in LimiterThreads |-> "idle"]
    /\ lock = NoOne /\ permits = NoSemaphore /\ ticking = FALSE

Goto(t, label) == place' = [place EXCEPT ![t] = label]

\* wait() as far as its lock.
CallWait(c) == place[c] = "idle" /\ Goto(c, "enter") /\ UNCHANGED <<lock, permits, ticking>>

Enter(c) ==
    /\ place[c] = "enter" /\ lock = NoOne /\ lock' = c
    /\ IF permits = NoSemaphore THEN permits' = 1 /\ Goto(c, "start")
       ELSE Goto(c, "leave") /\ UNCHANGED permits
    /\ UNCHANGED ticking

\* _start_replenisher takes the lock by itself, for a caller as for anyone.
StartReplenisher(c) ==
    /\ place[c] = "start" /\ lock = NoOne
    /\ ticking' = TRUE /\ Goto(c, "leave")
    /\ UNCHANGED <<lock, permits>>

Leave(c) ==
    /\ place[c] = "leave" /\ lock' = NoOne /\ Goto(c, "acquire")
    /\ UNCHANGED <<permits, ticking>>

Acquire(c) ==
    /\ place[c] = "acquire" /\ permits > 0
    /\ permits' = permits - 1 /\ Goto(c, "idle")
    /\ UNCHANGED <<lock, ticking>>

\* replenish: a permit, then under the lock the next timer.
Replenish ==
    /\ ticking /\ place[Replenisher] = "idle" /\ permits < MaxPermits
    /\ ticking' = FALSE /\ permits' = permits + 1 /\ Goto(Replenisher, "restart")
    /\ UNCHANGED lock

Restart ==
    /\ place[Replenisher] = "restart" /\ lock = NoOne
    /\ ticking' = TRUE /\ Goto(Replenisher, "idle")
    /\ UNCHANGED <<lock, permits>>

WaitStep(c) == Enter(c) \/ StartReplenisher(c) \/ Leave(c) \/ Acquire(c)

LimiterNext == (\E c \in Waiters : CallWait(c) \/ WaitStep(c)) \/ Replenish \/ Restart

\* A thread that can run does, and the operating system is fair to those that
\* queue for a lock or a semaphore.
LimiterFairness ==
    /\ WF_limiterVars(Replenish) /\ WF_limiterVars(Restart)
    /\ \A c \in Waiters : SF_limiterVars(WaitStep(c))

LimiterSpec == LimiterInit /\ [][LimiterNext]_limiterVars /\ LimiterFairness

-----------------------------------------------------------------------------
\* binance_client.py:80: "a background replenisher adds permits so no caller ever
\* blocks indefinitely".  Every call of wait() returns.
NoCallerBlocksForever == \A c \in Waiters : place[c] = "enter" ~> place[c] = "idle"
=============================================================================
