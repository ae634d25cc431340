------------------------------ MODULE SignalStream -----------------------------
(***************************************************************************)
(* From the Binance websocket to the signals channel: BinanceConnector     *)
(* writes market messages to a capped Redis stream, and workers in one     *)
(* consumer group read, process, announce and acknowledge them.  Two       *)
(* classes of worker run the same loop over streams of their own:          *)
(* IdempotentScannerWorker (src/engine/realtime_pipeline.py, "pipeline")   *)
(* and ScannerWorker (src/engine/scanner_worker.py, "scanner"), which also *)
(* stores every snapshot before announcing what it found in it.            *)
(*                                                                         *)
(* An entry is its position in the stream; what it says, and whether it    *)
(* can be parsed, is chosen when it is processed.  Any await may fail, and *)
(* a Redis call that fails may have been carried out.  A worker that is    *)
(* restarted is a consumer of its own: both classes draw a new name by     *)
(* default, and under an old name XREADGROUP ">" reads new entries only.   *)
(***************************************************************************)
EXTENDS Integers, FiniteSets

CONSTANTS
    LastEntry,    \* bound: entries 1 .. LastEntry
    MaxFlying,    \* bound: XADD tasks scheduled at once
    MaxLen,       \* MAXLEN of the stream
    BatchSize,    \* batch_size
    Consumers,    \* consumer names, one for each run of a worker
    Nobody

Entries == 1 .. LastEntry

ASSUME SignalStreamAssumption ==
    /\ LastEntry \in Nat /\ MaxFlying \in Nat /\ MaxLen \in Nat
    /\ BatchSize \in Nat \ {0}
    /\ Nobody \notin Consumers

VARIABLES
    kind,        \* which class of worker reads the stream
    flying,      \* XADD tasks scheduled and not yet run
    added,       \* entries added to the stream so far
    trimmed,     \* how many of those, the oldest, MAXLEN has removed
    cursor,      \* the group's last-delivered entry
    pending,     \* the group's pending entries: the consumer each was given to
    worker,      \* where each worker is, and its local variables
    attempts,    \* observer: how often each entry was processed
    failed,      \* observer: entries whose processing raised
    unparsed,    \* observer: entries the scanner could not parse
    stored,      \* rows in the time-series database
    announced,   \* entries with an anomaly published on the channel
    acked        \* observer: entries acknowledged

stream == <<flying, added, trimmed>>
group == <<cursor, pending, acked>>
effects == <<attempts, failed, unparsed, stored, announced>>
vars == <<kind, stream, group, worker, effects>>

Smaller(a, b) == IF a <= b THEN a ELSE b
Larger(a, b) == IF a >= b THEN a ELSE b

\* A worker's locals: the rest of its batch, acked_ids, the entry it stored last.
At(pc) == [pc |-> pc, todo |-> {}, done |-> {}, now |-> 0]

Init ==
    /\ kind \in {"pipeline", "scanner"}
    /\ flying = 0 /\ added = 0 /\ trimmed = 0 /\ cursor = 0
    /\ pending = [i \in Entries |-> Nobody]
    /\ worker = [w \in Consumers |-> At("unused")]
    /\ attempts = [i \in Entries |-> 0]
    /\ failed = {} /\ unparsed = {} /\ stored = {} /\ announced = {} /\ acked = {}

-----------------------------------------------------------------------------
(* BinanceConnector.                                                       *)

\* A websocket message schedules a task; the websocket thread does not wait.
OnMessage ==
    /\ flying < MaxFlying
    /\ flying' = flying + 1
    /\ UNCHANGED <<kind, added, trimmed, group, worker, effects>>

\* XADD appends, and may trim the stream down to MAXLEN or leave it longer.
Xadd ==
    /\ flying > 0 /\ added < LastEntry
    /\ flying' = flying - 1
    /\ added' = added + 1
    /\ \E t \in trimmed .. Larger(trimmed, added + 1 - MaxLen) : trimmed' = t
    /\ UNCHANGED <<kind, group, worker, effects>>

\* An XADD that fails is logged and its message lost.
XaddFails ==
    /\ flying > 0
    /\ flying' = flying - 1
    /\ UNCHANGED <<kind, added, trimmed, group, worker, effects>>

-----------------------------------------------------------------------------
(* Running a worker.                                                       *)

Start(w) ==
    /\ worker[w].pc = "unused"
    /\ worker' = [worker EXCEPT ![w] = At("loop")]
    /\ UNCHANGED <<kind, stream, group, effects>>

\* It may be stopped or crash anywhere.  Bound: another can be started.
Crash(w) ==
    /\ worker[w].pc \notin {"unused", "dead"}
    /\ \E v \in Consumers : worker[v].pc = "unused"
    /\ worker' = [worker EXCEPT ![w] = At("dead")]
    /\ UNCHANGED <<kind, stream, group, effects>>

-----------------------------------------------------------------------------
(* XREADGROUP with ">", and XACK.                                          *)

\* A slip: entries not acknowledged are asked for again.
Unacknowledged ==
    {i \in 1 .. added : i > trimmed /\ i \notin acked}

\* The entries nobody in the group was given yet, oldest first, up to a batch.
NewEntries ==
    LET from == Larger(cursor, trimmed)
    IN  {i \in Entries : from < i /\ i <= Smaller(added, from + BatchSize)}

Deliver(w) ==
    /\ NewEntries # {}
    /\ \E last \in NewEntries : /\ \A i \in NewEntries : i <= last
                                /\ cursor' = Larger(cursor, last)
    /\ pending' = [i \in Entries |-> IF i \in NewEntries THEN w ELSE pending[i]]
    /\ UNCHANGED <<kind, stream, acked, effects>>

Read(w) ==
    /\ worker[w].pc = "loop"
    /\ Deliver(w)
    /\ worker' = [worker EXCEPT ![w] = [At("batch") EXCEPT !.todo = NewEntries]]

\* The answer is lost: the entries are pending for a worker that never sees
\* them, and its loop goes on.
ReadLost(w) ==
    /\ worker[w].pc = "loop"
    /\ Deliver(w)
    /\ UNCHANGED worker

\* After a batch its acknowledged ids are sent, if any; acked_ids is local, so
\* whatever becomes of the call they are not sent again.
Ack(w, arrives) ==
    LET done == worker[w].done
    IN  /\ worker[w].pc = "batch"
        /\ worker[w].todo = {}
        /\ IF arrives
           THEN /\ pending' = [i \in Entries |-> IF i \in done THEN Nobody ELSE pending[i]]
                /\ acked' = acked \union done
           ELSE UNCHANGED <<pending, acked>>
        /\ worker' = [worker EXCEPT ![w] = At("loop")]
        /\ UNCHANGED <<kind, stream, cursor, effects>>

-----------------------------------------------------------------------------
(* The body of the loop for entry i, the oldest left in the batch.         *)

Next1(w, i) ==
    /\ worker[w].pc = "batch"
    /\ i \in worker[w].todo
    /\ \A j \in worker[w].todo : i <= j
    /\ attempts' = [attempts EXCEPT ![i] = @ + 1]

\* The entry is finished with and will be acknowledged.
Finished(w, i) ==
    worker' = [worker EXCEPT ![w].pc = "batch", ![w].todo = @ \ {i},
                             ![w].done = @ \union {i}]

\* IdempotentScannerWorker: an anomaly that cannot be published is logged, and
\* counts as processed; entries that cannot be parsed are passed over.
Process(w, i, published) ==
    /\ kind = "pipeline"
    /\ Next1(w, i)
    /\ Finished(w, i)
    /\ announced' = IF published THEN announced \union {i} ELSE announced
    /\ UNCHANGED <<kind, stream, group, failed, unparsed, stored>>

\* An entry whose processing raises is not acknowledged; the batch goes on.
ProcessFails(w, i) ==
    /\ kind = "pipeline"
    /\ Next1(w, i)
    /\ worker' = [worker EXCEPT ![w].todo = @ \ {i}]
    /\ failed' = failed \union {i}
    /\ UNCHANGED <<kind, stream, group, unparsed, stored, announced>>

\* ScannerWorker: an entry that cannot be parsed is acknowledged anyway.
Unparsable(w, i) ==
    /\ kind = "scanner"
    /\ Next1(w, i)
    /\ Finished(w, i)
    /\ unparsed' = unparsed \union {i}
    /\ UNCHANGED <<kind, stream, group, failed, stored, announced>>

\* The snapshot is stored first; without an answer from the database nothing
\* is announced, and the entry is finished with all the same.
Persist(w, i, written, answered) ==
    /\ kind = "scanner"
    /\ Next1(w, i)
    /\ answered => written
    /\ stored' = IF written THEN stored \union {i} ELSE stored
    /\ IF answered
       THEN worker' = [worker EXCEPT ![w].pc = "store", ![w].todo = @ \ {i}, ![w].now = i]
       ELSE Finished(w, i)
    /\ UNCHANGED <<kind, stream, group, failed, unparsed, announced>>

Announce(w, published) ==
    LET i == worker[w].now
    IN  /\ worker[w].pc = "store"
        /\ announced' = IF published THEN announced \union {i} ELSE announced
        /\ Finished(w, i)
        /\ UNCHANGED <<kind, stream, group, attempts, failed, unparsed, stored>>

\* A slip: the error leaves the loop.
ErrorEndsLoop(w, i) ==
    /\ kind = "scanner"
    /\ Next1(w, i)
    /\ failed' = failed \union {i}
    /\ worker' = [worker EXCEPT ![w] = At("dead")]
    /\ UNCHANGED <<kind, stream, group, unparsed, stored, announced>>

\* An error nobody foresaw (bids that are not a list) leaves the whole batch:
\* what is left of it, and the ids collected so far.
AbandonBatch(w, i) ==
    /\ kind = "scanner"
    /\ Next1(w, i)
    /\ failed' = failed \union {i}
    /\ worker' = [worker EXCEPT ![w] = At("loop")]
    /\ UNCHANGED <<kind, stream, group, unparsed, stored, announced>>

-----------------------------------------------------------------------------

Connector == OnMessage \/ Xadd \/ XaddFails

Body(w) ==
    \/ \E i \in Entries :
          \/ ProcessFails(w, i) \/ Unparsable(w, i) \/ AbandonBatch(w, i)
          \/ \E published \in BOOLEAN : Process(w, i, published)
          \/ \E written, answered \in BOOLEAN : Persist(w, i, written, answered)
    \/ \E published \in BOOLEAN : Announce(w, published)

Works(w) == Read(w) \/ Body(w) \/ \E arrives \in BOOLEAN : Ack(w, arrives)

Next ==
    \/ Connector
    \/ \E w \in Consumers : Start(w) \/ Crash(w) \/ ReadLost(w) \/ Works(w)

\* The container is restarted unless stopped, a running loop goes on, and Redis
\* does not fail for ever.
Fairness ==
    /\ WF_vars(\E w \in Consumers : Start(w))
    /\ \A w \in Consumers : WF_vars(Works(w))

Spec == Init /\ [][Next]_vars /\ Fairness

-----------------------------------------------------------------------------
(* Properties.                                                             *)

\* Types.
TypeOK ==
    /\ kind \in {"pipeline", "scanner"}
    /\ flying \in 0 .. MaxFlying
    /\ added \in 0 .. LastEntry /\ trimmed \in 0 .. added /\ cursor \in 0 .. added
    /\ pending \in [Entries -> Consumers \union {Nobody}]
    /\ worker \in [Consumers -> [pc : {"unused", "loop", "batch", "store", "dead"},
                                 todo : SUBSET Entries, done : SUBSET Entries,
                                 now : 0 .. LastEntry]]
    /\ attempts \in [Entries -> Nat]
    /\ failed \subseteq Entries /\ unparsed \subseteq Entries /\ stored \subseteq Entries
    /\ announced \subseteq Entries /\ acked \subseteq Entries

\* However workers crash, restart under new names and lose answers, no entry is
\* processed twice: the consumer group gives each to one consumer, once.
ProcessedOnce == \A i \in Entries : attempts[i] <= 1

\* Only an entry whose processing ran and did not raise is acknowledged; one
\* that raised stays among the pending ones, in either class of worker.
AckedSucceeded ==
    \A i \in Entries :
        /\ i \in acked => attempts[i] = 1 /\ i \notin failed
        /\ i \in failed => pending[i] # Nobody

\* scanner_worker.py's S3 gate: no anomaly is announced of a snapshot that the
\* database does not hold.
StoredBeforeAnnounced == kind = "scanner" => announced \subseteq stored

\* Every entry of the stream is given to a worker or trimmed, whatever crashes.
EveryEntryIsRead ==
    \A i \in Entries : added >= i ~> (cursor >= i \/ trimmed >= i)
=============================================================================
