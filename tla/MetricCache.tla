----------------------------- MODULE MetricCache -----------------------------
(***************************************************************************)
(* GlassnodeClient: metrics fetched through one cache with a lifetime and  *)
(* a size, shared by threads. The cache locks each get and each set, and   *)
(* the request between them is made without the lock.                      *)
(***************************************************************************)
EXTENDS Integers, Sequences, Functions, Selection

CONSTANTS
    Users,        \* threads that share the module's cache
    Metrics,      \* the keys get_metrics asks for, in its order
    MaxEntries,   \* max_entries
    Ttl,          \* lifetime of an entry in ticks
    MaxAsked      \* requests to the provider: a bound

CacheAssumption ==
    /\ Metrics \in Seq(Range(Metrics))
    /\ MaxEntries \in Nat \ {0} /\ Ttl \in Nat \ {0} /\ MaxAsked \in Nat
ASSUME CacheAssumption

VARIABLES
    store,    \* _store, the least recently used entry first
    user,     \* per thread: the keys it has still to get, and whether it waits for an answer
    missing,  \* per thread: how many fields of its GlassnodeMetrics are None so far
    asked,    \* requests made so far
    recent    \* observer: pairs of keys, the second used after the last use of the first

metricVars == <<store, user, missing, asked, recent>>

Without(s, k) == Picked(s, {i \in DOMAIN s : s[i].key # k})
Touched(k) == {p \in recent : p[1] # k} \cup {<<x, k>> : x \in Range(Metrics) \ {k}}
Find(k) == {e \in Range(store) : e.key = k}

MetricInit ==
    /\ store = <<>>
    /\ user = [u \in Users |-> [todo |-> <<>>, waits |-> FALSE]]
    /\ missing = [u \in Users |-> 0]
    /\ asked = 0
    /\ recent = {}

\* get_metrics asks for all of them, a metric's own method for one.
Call(u) ==
    /\ user[u].todo = <<>>
    /\ \E todo \in {Metrics} \cup {<<k>> : k \in Range(Metrics)} :
          user' = [user EXCEPT ![u].todo = todo]
    /\ missing' = [missing EXCEPT ![u] = 0]
    /\ UNCHANGED <<store, asked, recent>>

NextKey(u) == user' = [user EXCEPT ![u] = [todo |-> Tail(@.todo), waits |-> FALSE]]

\* _TTLCache.get. An entry whose time has passed is deleted.
Get(u) ==
    /\ user[u].todo # <<>> /\ ~user[u].waits
    /\ LET k == Head(user[u].todo) IN
          \/ \E e \in Find(k) :
                /\ e.left > 0
                /\ store' = Append(Without(store, k), e)
                /\ recent' = Touched(k)
                /\ missing' = [missing EXCEPT ![u] = IF e.usable THEN @ ELSE @ + 1]
                /\ NextKey(u) /\ UNCHANGED asked
          \/ /\ \A e \in Find(k) : e.left = 0
             /\ asked < MaxAsked
             /\ asked' = asked + 1
             /\ store' = Without(store, k)
             /\ user' = [user EXCEPT ![u].waits = TRUE]
             /\ UNCHANGED <<missing, recent>>

\* The request failed, or its answer was not JSON: the field is None, and
\* nothing is cached.
AnswerFails(u) ==
    /\ user[u].waits
    /\ NextKey(u)
    /\ missing' = [missing EXCEPT ![u] = @ + 1]
    /\ UNCHANGED <<store, asked, recent>>

\* An overwritten entry stays where it is.
SetInPlace(s, e) ==
    IF Find(e.key) # {} THEN [i \in 1 .. Len(s) |-> IF s[i].key = e.key THEN e ELSE s[i]]
    ELSE Append(IF Len(s) >= MaxEntries THEN Tail(s) ELSE s, e)

\* _TTLCache.set. An entry another thread has set meanwhile is replaced.
SetEntry(s, e) ==
    LET room == IF Len(s) >= MaxEntries /\ Find(e.key) = {} THEN Tail(s) ELSE s
    IN  Append(Without(room, e.key), e)

\* An answer without usable values is cached as well and leaves the field None.
Answer(u, usable) ==
    /\ user[u].waits
    /\ LET k == Head(user[u].todo) IN
          /\ store' = SetEntry(store, [key |-> k, usable |-> usable, left |-> Ttl])
          /\ recent' = Touched(k)
    /\ NextKey(u)
    /\ missing' = [missing EXCEPT ![u] = IF usable THEN @ ELSE @ + 1]
    /\ UNCHANGED asked

SecondPasses ==
    /\ \E i \in 1 .. Len(store) : store[i].left > 0
    /\ store' = [i \in 1 .. Len(store) |->
                    [store[i] EXCEPT !.left = IF @ > 0 THEN @ - 1 ELSE 0]]
    /\ UNCHANGED <<user, missing, asked, recent>>

MetricNext ==
    \/ \E u \in Users : Call(u) \/ Get(u) \/ AnswerFails(u) \/ \E usable \in BOOLEAN : Answer(u, usable)
    \/ SecondPasses

MetricSpec == MetricInit /\ [][MetricNext]_metricVars

(***************************************************************************)
(* Properties                                                              *)
(***************************************************************************)

\* However threads interleave between a miss and their answers, the cache holds
\* one entry per key, never more than its size, in the order of last use, so that
\* what is evicted is what was used least recently.
CacheKeepsTheRecent ==
    /\ Len(store) <= MaxEntries
    /\ \A i, j \in DOMAIN store :
          LET x == store[i].key
              y == store[j].key
          IN i < j => x # y /\ <<x, y>> \in recent /\ <<y, x>> \notin recent
=============================================================================
