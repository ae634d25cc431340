---------------------------- MODULE Streams_proofs ----------------------------
(***************************************************************************)
(* Proofs about the components on the way from the exchange to the         *)
(* signals: SignalStream, MarketFeed, MetricCache, Signals, CandleHistory, *)
(* LlmClient and RateLimiter, each for any number of workers, users,       *)
(* callers and symbols, any stream, and any range, page size and market.   *)
(***************************************************************************)
EXTENDS SignalStream, MarketFeed, MetricCache, Signals, CandleHistory,
        LlmClient, RateLimiter, DataTheorems

(***************************************************************************)
(* SignalStream                                                            *)
(***************************************************************************)

Locals == [pc : {"unused", "loop", "batch", "store", "dead"},
           todo : SUBSET Entries, done : SUBSET Entries, now : 0 .. LastEntry]

\* What a worker holds: unprocessed entries pending for somebody, processed
\* ones to acknowledge, and the one it has just stored.
HoldsRightly(r) ==
    /\ \A i \in r.todo : i <= cursor /\ attempts[i] = 0 /\ pending[i] # Nobody
    /\ \A i \in r.done : attempts[i] = 1 /\ i \notin failed
    /\ r.pc = "store" =>
          r.now \in Entries /\ attempts[r.now] = 1 /\ r.now \notin failed /\ r.now \in stored

\* No entry is in the batches of two workers.
Apart == \A v, w \in Consumers : v # w => worker[v].todo \intersect worker[w].todo = {}

\* What has become of entry i.
Accounted(i) ==
    /\ attempts[i] \in {0, 1}
    /\ i > cursor => attempts[i] = 0
    /\ i \in acked => attempts[i] = 1 /\ i \notin failed
    /\ i \in failed => attempts[i] = 1 /\ pending[i] # Nobody

Inv ==
    /\ TypeOK
    /\ \A w \in Consumers : HoldsRightly(worker[w])
    /\ Apart
    /\ \A i \in Entries : Accounted(i)
    /\ StoredBeforeAnnounced

-----------------------------------------------------------------------------

LEMMA AtOK == ASSUME SignalStreamAssumption,
                     NEW pc \in {"unused", "loop", "batch", "store", "dead"}
              PROVE  At(pc) \in Locals
BY DEF SignalStreamAssumption, At, Locals

LEMMA EntriesAreNat == ASSUME SignalStreamAssumption PROVE Entries \subseteq Nat
BY DEF SignalStreamAssumption, Entries

LEMMA InitInv == ASSUME SignalStreamAssumption, Init PROVE Inv
<1>1. TypeOK
  <2>1. At("unused") \in Locals BY AtOK
  <2>2. QED BY <2>1 DEF Init, TypeOK, Locals, SignalStreamAssumption, Entries
<1>2. \A w \in Consumers : worker[w] = At("unused") BY DEF Init
<1>3. \A w \in Consumers : HoldsRightly(worker[w]) BY <1>2 DEF HoldsRightly, At
<1>4. Apart BY <1>2 DEF Apart, At
<1>5. \A i \in Entries : Accounted(i) BY DEF Init, Accounted
<1>6. StoredBeforeAnnounced BY DEF Init, StoredBeforeAnnounced
<1>7. QED BY <1>1, <1>3, <1>4, <1>5, <1>6 DEF Inv

\* One worker moves, to locals that are right and with no entry in its batch
\* that it did not have before; the other workers' entries are left alone.
LEMMA OneMoves ==
    ASSUME Inv, NEW w \in Consumers, NEW r \in Locals,
           worker' = [worker EXCEPT ![w] = r],
           HoldsRightly(r)', r.todo \subseteq worker[w].todo,
           \A v \in Consumers \ {w} : HoldsRightly(worker[v])'
    PROVE  /\ worker' \in [Consumers -> Locals]
           /\ \A v \in Consumers : HoldsRightly(worker[v])'
           /\ Apart'
<1>1. worker \in [Consumers -> Locals] BY DEF Inv, TypeOK, Locals
<1>2. worker' \in [Consumers -> Locals] BY <1>1
<1>3. worker'[w] = r /\ \A v \in Consumers \ {w} : worker'[v] = worker[v] BY <1>1
<1>4. \A v \in Consumers : HoldsRightly(worker[v])'
  <2>1. HoldsRightly(worker[w])' BY <1>3 DEF HoldsRightly
  <2>2. QED BY <2>1
<1>5. \A v \in Consumers : worker'[v].todo \subseteq worker[v].todo BY <1>3
<1>6. Apart' BY <1>5 DEF Inv, Apart
<1>7. QED BY <1>2, <1>4, <1>6

-----------------------------------------------------------------------------
(* The connector, and workers that start, crash or read.                   *)

LEMMA ConnectorStep == ASSUME SignalStreamAssumption, Inv, Connector PROVE Inv'
<1>1. UNCHANGED <<kind, group, worker, effects>>
  BY DEF Connector, OnMessage, Xadd, XaddFails
<1>2. flying' \in 0 .. MaxFlying /\ added' \in 0 .. LastEntry /\ trimmed' \in 0 .. added'
      /\ cursor \in 0 .. added'
  <2>1. CASE OnMessage
    BY <2>1 DEF OnMessage, Inv, TypeOK, SignalStreamAssumption
  <2>2. CASE Xadd
    <3>1. PICK t \in trimmed .. Larger(trimmed, added + 1 - MaxLen) : trimmed' = t
      BY <2>2 DEF Xadd
    <3>2. Larger(trimmed, added + 1 - MaxLen) <= added + 1
      BY DEF Larger, Inv, TypeOK, SignalStreamAssumption
    <3>3. QED BY <2>2, <3>1, <3>2 DEF Xadd, Larger, Inv, TypeOK, SignalStreamAssumption
  <2>3. CASE XaddFails
    BY <2>3 DEF XaddFails, Inv, TypeOK, SignalStreamAssumption
  <2>4. QED BY <2>1, <2>2, <2>3 DEF Connector
<1>3. TypeOK' BY <1>1, <1>2 DEF Inv, TypeOK, group, effects
<1>4. QED BY <1>1, <1>3 DEF Inv, Apart, Accounted, HoldsRightly, StoredBeforeAnnounced,
                            group, effects

\* A worker that starts, or crashes, holds nothing.
LEMMA StartsOrStops ==
    ASSUME SignalStreamAssumption, Inv, NEW w \in Consumers, Start(w) \/ Crash(w)
    PROVE  Inv'
<1>1. PICK pc \in {"loop", "dead"} : worker' = [worker EXCEPT ![w] = At(pc)]
  BY DEF Start, Crash
<1>2. UNCHANGED <<kind, stream, group, effects>> BY DEF Start, Crash
<1>3. At(pc) \in Locals BY AtOK
<1>4. HoldsRightly(At(pc))' BY DEF HoldsRightly, At
<1>5. \A v \in Consumers \ {w} : HoldsRightly(worker[v])'
  BY <1>1, <1>2 DEF Inv, TypeOK, HoldsRightly, stream, group, effects
<1>6. At(pc).todo \subseteq worker[w].todo BY DEF At
<1>7. worker' \in [Consumers -> Locals] /\ (\A v \in Consumers : HoldsRightly(worker[v])')
      /\ Apart'
  BY <1>1, <1>3, <1>4, <1>5, <1>6, OneMoves
<1>8. TypeOK' BY <1>2, <1>7 DEF Inv, TypeOK, Locals, stream, group, effects
<1>9. QED BY <1>2, <1>7, <1>8 DEF Inv, Accounted, StoredBeforeAnnounced, stream, group, effects

\* What a delivery hands out was given to nobody, and the cursor passes it.
LEMMA DeliveredAreNew ==
    ASSUME SignalStreamAssumption, Inv, NEW w \in Consumers, Deliver(w)
    PROVE  /\ NewEntries \subseteq Entries
           /\ cursor' \in cursor .. added
           /\ \A i \in NewEntries : cursor < i /\ i <= cursor' /\ attempts[i] = 0
           /\ pending' \in [Entries -> Consumers \union {Nobody}]
           /\ \A i \in NewEntries : pending'[i] = w
           /\ \A i \in Entries \ NewEntries : pending'[i] = pending[i]
<1>1. NewEntries \subseteq Entries /\ \A i \in NewEntries : cursor < i /\ i <= added
  BY DEF NewEntries, Entries, Larger, Smaller, Inv, TypeOK, SignalStreamAssumption
<1>2. PICK last \in NewEntries : (\A i \in NewEntries : i <= last)
                                /\ cursor' = Larger(cursor, last)
  BY DEF Deliver
<1>3. cursor' = last BY <1>1, <1>2, EntriesAreNat DEF Larger, Inv, TypeOK
<1>4. \A i \in NewEntries : attempts[i] = 0 BY <1>1 DEF Inv, Accounted
<1>5. pending' \in [Entries -> Consumers \union {Nobody}] BY DEF Deliver, Inv, TypeOK
<1>6. cursor' \in cursor .. added
  BY <1>1, <1>2, <1>3, EntriesAreNat DEF Inv, TypeOK, SignalStreamAssumption
<1>7. QED BY <1>1, <1>2, <1>3, <1>4, <1>5, <1>6 DEF Deliver

\* Whoever receives a delivery, or nobody, every worker holds rightly.
LEMMA DeliveryStep ==
    ASSUME SignalStreamAssumption, Inv, NEW w \in Consumers, Read(w) \/ ReadLost(w)
    PROVE  Inv'
<1>1. Deliver(w) BY DEF Read, ReadLost
<1>2. UNCHANGED <<kind, stream, acked, effects>> BY <1>1 DEF Deliver
<1>3. worker \in [Consumers -> Locals] BY DEF Inv, TypeOK, Locals
<1>4. /\ worker' \in [Consumers -> Locals]
      /\ \A v \in Consumers \ {w} : worker'[v] = worker[v]
      /\ worker'[w] = worker[w]
         \/ /\ worker'[w].todo = NewEntries /\ worker'[w].done = {}
            /\ worker'[w].pc = "batch"
  <2>1. CASE ReadLost(w) BY <2>1, <1>3 DEF ReadLost
  <2>2. CASE Read(w)
    <3>1. [At("batch") EXCEPT !.todo = NewEntries] \in Locals
      BY <1>1, AtOK, DeliveredAreNew DEF Locals
    <3>2. worker' = [worker EXCEPT ![w] = [At("batch") EXCEPT !.todo = NewEntries]]
      BY <2>2 DEF Read
    <3>3. worker'[w] = [At("batch") EXCEPT !.todo = NewEntries] BY <3>2, <1>3
    <3>4. QED BY <3>1, <3>2, <3>3, <1>3 DEF At
  <2>3. QED BY <2>1, <2>2
<1>5. \A v \in Consumers : worker[v].todo \intersect NewEntries = {}
  <2>1. SUFFICES ASSUME NEW v \in Consumers, NEW i \in worker[v].todo, i \in NewEntries
                 PROVE  FALSE
    OBVIOUS
  <2>2. i <= cursor BY DEF Inv, HoldsRightly
  <2>3. cursor < i /\ i \in Nat BY <1>1, <2>1, DeliveredAreNew, EntriesAreNat
  <2>4. QED BY <2>2, <2>3 DEF Inv, TypeOK
<1>6. \A v \in Consumers : HoldsRightly(worker[v])'
  <2>1. SUFFICES ASSUME NEW v \in Consumers PROVE HoldsRightly(worker[v])'
    OBVIOUS
  <2>2. CASE worker'[v] = worker[v]
    <3>1. HoldsRightly(worker[v]) /\ worker[v] \in Locals BY <1>3 DEF Inv
    <3>2. \A i \in worker[v].todo : i <= cursor' /\ pending'[i] # Nobody
      <4>1. TAKE i \in worker[v].todo
      <4>2. i <= cursor /\ pending[i] # Nobody /\ i \in Entries BY <3>1 DEF HoldsRightly, Locals
      <4>3. cursor' >= cursor /\ pending'[i] = pending[i]
        BY <1>1, <1>5, <4>2, DeliveredAreNew DEF Inv, TypeOK
      <4>4. cursor' \in Int /\ cursor \in Int BY <1>1, DeliveredAreNew DEF Inv, TypeOK
      <4>5. QED BY <4>2, <4>3, <4>4, EntriesAreNat
    <3>3. QED BY <1>2, <2>2, <3>1, <3>2 DEF HoldsRightly, effects
  <2>3. CASE worker'[v] # worker[v]
    <3>1. v = w BY <1>4, <2>3
    <3>2. worker'[v].todo = NewEntries /\ worker'[v].done = {} /\ worker'[v].pc = "batch"
      BY <1>4, <2>3, <3>1
    <3>3. \A i \in NewEntries : i <= cursor' /\ attempts[i] = 0 /\ pending'[i] # Nobody
      BY <1>1, DeliveredAreNew DEF SignalStreamAssumption
    <3>4. QED BY <1>2, <3>2, <3>3 DEF HoldsRightly, effects
  <2>4. QED BY <2>2, <2>3
<1>7. Apart' BY <1>4, <1>5 DEF Inv, Apart
<1>8. \A i \in Entries : Accounted(i)'
  <2>1. SUFFICES ASSUME NEW i \in Entries PROVE Accounted(i)' OBVIOUS
  <2>2. Accounted(i) BY DEF Inv
  <2>3. i > cursor' => i > cursor
    BY <1>1, DeliveredAreNew, EntriesAreNat DEF Inv, TypeOK
  <2>4. pending[i] # Nobody => pending'[i] # Nobody
    BY <1>1, DeliveredAreNew DEF SignalStreamAssumption
  <2>5. QED BY <1>2, <2>2, <2>3, <2>4 DEF Accounted, effects
<1>9. TypeOK'
  <2>1. cursor' \in 0 .. added BY <1>1, DeliveredAreNew DEF Inv, TypeOK
  <2>2. pending' \in [Entries -> Consumers \union {Nobody}] BY <1>1, DeliveredAreNew
  <2>3. QED BY <1>2, <1>4, <2>1, <2>2 DEF Inv, TypeOK, Locals, stream, effects
<1>10. QED BY <1>2, <1>6, <1>7, <1>8, <1>9 DEF Inv, StoredBeforeAnnounced, effects

-----------------------------------------------------------------------------
(* Processing an entry, announcing it, acknowledging a batch.              *)

\* A worker processes entry i of its batch: the counters and observers of no
\* other entry change, and whatever the worker keeps is settled for i.
LEMMA ProcessedStep ==
    ASSUME SignalStreamAssumption, Inv, NEW w \in Consumers, NEW i \in Entries,
           Next1(w, i), NEW r \in Locals, worker' = [worker EXCEPT ![w] = r],
           r.todo \subseteq worker[w].todo \ {i}, r.done \subseteq worker[w].done \union {i},
           i \in r.done => i \notin failed',
           r.pc = "store" => r.now = i /\ i \in stored' /\ i \notin failed',
           failed' \subseteq failed \union {i}, failed \subseteq failed',
           unparsed' \subseteq Entries,
           stored' \subseteq stored \union {i}, stored \subseteq stored',
           announced' \subseteq announced \union {i}, StoredBeforeAnnounced',
           UNCHANGED <<kind, stream, group>>
    PROVE  Inv'
<1>1. /\ i \in worker[w].todo /\ attempts' = [attempts EXCEPT ![i] = 1]
      /\ attempts[i] = 0 /\ i <= cursor /\ pending[i] # Nobody
  <2>1. i \in worker[w].todo /\ attempts' = [attempts EXCEPT ![i] = attempts[i] + 1]
    BY DEF Next1
  <2>2. HoldsRightly(worker[w]) BY DEF Inv
  <2>3. attempts[i] = 0 /\ i <= cursor /\ pending[i] # Nobody BY <2>1, <2>2 DEF HoldsRightly
  <2>4. attempts[i] + 1 = 1 BY <2>3
  <2>5. QED BY <2>1, <2>3, <2>4
<1>2. worker \in [Consumers -> Locals] BY DEF Inv, TypeOK, Locals
<1>3. \A j \in Entries \ {i} : attempts'[j] = attempts[j] /\ (j \in failed' <=> j \in failed)
  BY <1>1 DEF Inv, TypeOK
<1>4. attempts'[i] = 1 BY <1>1 DEF Inv, TypeOK
<1>5. HoldsRightly(r)'
  <2>1. worker[w] \in Locals /\ HoldsRightly(worker[w]) BY <1>2 DEF Inv
  <2>2. \A j \in r.todo : j \in worker[w].todo /\ j \in Entries \ {i}
    BY <2>1 DEF Locals
  <2>3. \A j \in r.done : j = i \/ (j \in worker[w].done /\ j \in Entries \ {i})
    BY <2>1 DEF Locals
  <2>4. QED BY <1>3, <1>4, <2>1, <2>2, <2>3 DEF HoldsRightly, group
<1>6. \A v \in Consumers \ {w} : HoldsRightly(worker[v])'
  <2>1. SUFFICES ASSUME NEW v \in Consumers \ {w} PROVE HoldsRightly(worker[v])' OBVIOUS
  <2>2. worker'[v] = worker[v] BY <1>2
  <2>3. worker[v] \in Locals /\ HoldsRightly(worker[v]) BY <1>2 DEF Inv
  <2>4. i \notin worker[v].todo BY <1>1 DEF Inv, Apart
  <2>5. i \notin worker[v].done BY <1>1, <2>3 DEF HoldsRightly
  <2>6. worker[v].pc = "store" => worker[v].now # i BY <1>1, <2>3 DEF HoldsRightly
  <2>7. \A j \in worker[v].todo \union worker[v].done : j \in Entries \ {i}
    BY <2>3, <2>4, <2>5 DEF Locals
  <2>8. QED BY <1>3, <2>2, <2>3, <2>6, <2>7 DEF HoldsRightly, group
<1>7. worker' \in [Consumers -> Locals] /\ (\A v \in Consumers : HoldsRightly(worker[v])')
      /\ Apart'
  BY <1>5, <1>6, OneMoves
<1>8. \A j \in Entries : Accounted(j)'
  <2>1. SUFFICES ASSUME NEW j \in Entries PROVE Accounted(j)' OBVIOUS
  <2>2. Accounted(j) BY DEF Inv
  <2>3. CASE j = i
    <3>1. i \notin acked BY <1>1, <2>2, <2>3 DEF Accounted
    <3>2. ~ (i > cursor) BY <1>1, EntriesAreNat DEF Inv, TypeOK
    <3>3. QED BY <1>1, <1>4, <2>3, <3>1, <3>2 DEF Accounted, group
  <2>4. CASE j # i BY <1>3, <2>2, <2>4 DEF Accounted, group
  <2>5. QED BY <2>3, <2>4
<1>9. TypeOK'
  <2>1. attempts' \in [Entries -> Nat] BY <1>1 DEF Inv, TypeOK
  <2>2. failed' \subseteq Entries /\ stored' \subseteq Entries /\ announced' \subseteq Entries
    BY DEF Inv, TypeOK
  <2>3. QED BY <1>7, <2>1, <2>2 DEF Inv, TypeOK, Locals, stream, group
<1>10. QED BY <1>7, <1>8, <1>9 DEF Inv

LEMMA BodyStep ==
    ASSUME SignalStreamAssumption, Inv, NEW w \in Consumers, NEW i \in Entries,
           \/ ProcessFails(w, i) \/ Unparsable(w, i) \/ AbandonBatch(w, i)
           \/ \E published \in BOOLEAN : Process(w, i, published)
           \/ \E written, answered \in BOOLEAN : Persist(w, i, written, answered)
    PROVE  Inv'
<1> DEFINE old == worker[w]
           dropped == [old EXCEPT !.todo = @ \ {i}]
           finished == [old EXCEPT !.pc = "batch", !.todo = @ \ {i}, !.done = @ \union {i}]
           kept == [old EXCEPT !.pc = "store", !.todo = @ \ {i}, !.now = i]
<1>1. worker \in [Consumers -> Locals] /\ old \in Locals BY DEF Inv, TypeOK, Locals
<1>2. Next1(w, i) BY DEF ProcessFails, Unparsable, AbandonBatch, Process, Persist
<1>3. old.pc = "batch" /\ i \in old.todo BY <1>2 DEF Next1
<1>4. i \notin failed /\ \A j \in failed : j # i BY <1>3 DEF Inv, HoldsRightly, Accounted
<1>5. /\ dropped \in Locals /\ dropped.todo = old.todo \ {i} /\ dropped.done = old.done
      /\ dropped.pc = "batch"
  BY <1>1, <1>3 DEF Locals
<1>6. /\ finished \in Locals /\ finished.todo = old.todo \ {i}
      /\ finished.done = old.done \union {i} /\ finished.pc = "batch"
  BY <1>1 DEF Locals
<1>7. /\ kept \in Locals /\ kept.todo = old.todo \ {i} /\ kept.done = old.done
      /\ kept.pc = "store" /\ kept.now = i
  <2>1. i \in 0 .. LastEntry BY DEF Entries, SignalStreamAssumption
  <2>2. QED BY <1>1, <2>1 DEF Locals
<1>8. i \notin old.done BY <1>3 DEF Inv, HoldsRightly
<1>9. Finished(w, i) => worker' = [worker EXCEPT ![w] = finished] BY <1>1 DEF Finished
<1>10. /\ unparsed \subseteq Entries /\ StoredBeforeAnnounced
  BY DEF Inv, TypeOK
<1> HIDE DEF old, dropped, finished, kept
<1>11. CASE ProcessFails(w, i)
  <2>1. worker' = [worker EXCEPT ![w] = dropped] BY <1>1, <1>11 DEF ProcessFails, dropped, old
  <2>2. /\ failed' = failed \union {i}
        /\ UNCHANGED <<kind, stream, group, unparsed, stored, announced>>
    BY <1>11 DEF ProcessFails
  <2>3. StoredBeforeAnnounced' BY <1>10, <2>2 DEF StoredBeforeAnnounced
  <2>4. QED BY <1>2, <1>5, <1>8, <1>10, <2>1, <2>2, <2>3, ProcessedStep DEF old
<1>12. CASE Unparsable(w, i)
  <2>1. worker' = [worker EXCEPT ![w] = finished] BY <1>9, <1>12 DEF Unparsable
  <2>2. /\ unparsed' = unparsed \union {i}
        /\ UNCHANGED <<kind, stream, group, failed, stored, announced>>
    BY <1>12 DEF Unparsable
  <2>3. StoredBeforeAnnounced' BY <1>10, <2>2 DEF StoredBeforeAnnounced
  <2>4. QED BY <1>2, <1>4, <1>6, <1>10, <2>1, <2>2, <2>3, ProcessedStep DEF old
<1>13. CASE AbandonBatch(w, i)
  <2>1. worker' = [worker EXCEPT ![w] = At("loop")] BY <1>13 DEF AbandonBatch
  <2>2. At("loop") \in Locals BY AtOK
  <2>3. At("loop").todo = {} /\ At("loop").done = {} /\ At("loop").pc = "loop" BY DEF At
  <2>4. /\ failed' = failed \union {i}
        /\ UNCHANGED <<kind, stream, group, unparsed, stored, announced>>
    BY <1>13 DEF AbandonBatch
  <2>5. StoredBeforeAnnounced' BY <1>10, <2>4 DEF StoredBeforeAnnounced
  <2>6. QED BY <1>2, <1>10, <2>1, <2>2, <2>3, <2>4, <2>5, ProcessedStep
<1>14. ASSUME NEW published \in BOOLEAN, Process(w, i, published) PROVE Inv'
  <2>1. worker' = [worker EXCEPT ![w] = finished] BY <1>9, <1>14 DEF Process
  <2>2. /\ announced' \subseteq announced \union {i} /\ kind = "pipeline"
        /\ UNCHANGED <<kind, stream, group, failed, unparsed, stored>>
    BY <1>14 DEF Process
  <2>3. StoredBeforeAnnounced' BY <2>2 DEF StoredBeforeAnnounced
  <2>4. QED BY <1>2, <1>4, <1>6, <1>10, <2>1, <2>2, <2>3, ProcessedStep DEF old
<1>15. ASSUME NEW written \in BOOLEAN, NEW answered \in BOOLEAN,
              Persist(w, i, written, answered)
       PROVE  Inv'
  <2>1. /\ stored \subseteq stored' /\ stored' \subseteq stored \union {i}
        /\ answered => i \in stored'
        /\ UNCHANGED <<kind, stream, group, failed, unparsed, announced>>
    BY <1>15 DEF Persist
  <2>2. StoredBeforeAnnounced' BY <1>10, <2>1 DEF StoredBeforeAnnounced
  <2>3. CASE answered
    <3>1. worker' = [worker EXCEPT ![w] = kept] BY <1>1, <1>15, <2>3 DEF Persist, kept, old
    <3>2. QED BY <1>2, <1>4, <1>7, <1>8, <1>10, <2>1, <2>2, <2>3, <3>1, ProcessedStep DEF old
  <2>4. CASE ~ answered
    <3>1. worker' = [worker EXCEPT ![w] = finished] BY <1>9, <1>15, <2>4 DEF Persist
    <3>2. QED BY <1>2, <1>4, <1>6, <1>10, <2>1, <2>2, <3>1, ProcessedStep DEF old
  <2>5. QED BY <2>3, <2>4
<1>16. QED BY <1>11, <1>12, <1>13, <1>14, <1>15

\* The entry announced was stored, and joins those to acknowledge.
LEMMA AnnounceStep ==
    ASSUME SignalStreamAssumption, Inv, NEW w \in Consumers, NEW published \in BOOLEAN,
           Announce(w, published)
    PROVE  Inv'
<1>1. worker \in [Consumers -> Locals] /\ worker[w] \in Locals BY DEF Inv, TypeOK, Locals
<1>i. PICK i : i = worker[w].now OBVIOUS
<1>r. PICK r : r = [worker[w] EXCEPT !.pc = "batch", !.todo = @ \ {i}, !.done = @ \union {i}]
  OBVIOUS
<1>2. i \in Entries /\ attempts[i] = 1 /\ i \notin failed /\ i \in stored
  BY <1>i DEF Announce, Inv, HoldsRightly
<1>3. worker' = [worker EXCEPT ![w] = r] BY <1>1, <1>i, <1>r DEF Announce, Finished
<1>4. r \in Locals /\ r.todo = worker[w].todo \ {i} /\ r.done = worker[w].done \union {i}
      /\ r.pc = "batch"
  BY <1>1, <1>2, <1>r DEF Locals
<1>5. /\ announced' \in {announced, announced \union {i}}
      /\ UNCHANGED <<kind, stream, group, attempts, failed, unparsed, stored>>
  BY <1>i DEF Announce
<1>6. HoldsRightly(worker[w]) BY DEF Inv
<1>7. HoldsRightly(r)' BY <1>2, <1>4, <1>5, <1>6 DEF HoldsRightly, group
<1>8. \A v \in Consumers \ {w} : HoldsRightly(worker[v])'
  BY <1>1, <1>3, <1>5 DEF Inv, HoldsRightly, group
<1>9. worker' \in [Consumers -> Locals] /\ (\A v \in Consumers : HoldsRightly(worker[v])')
      /\ Apart'
  BY <1>3, <1>4, <1>7, <1>8, OneMoves
<1>10. StoredBeforeAnnounced' BY <1>2, <1>5 DEF Inv, StoredBeforeAnnounced
<1>11. TypeOK' BY <1>2, <1>5, <1>9 DEF Inv, TypeOK, Locals, stream, group
<1>12. QED BY <1>5, <1>9, <1>10, <1>11 DEF Inv, Accounted, group

\* What is acknowledged was processed and did not raise, so no failed entry
\* stops being pending.
LEMMA AckStep ==
    ASSUME SignalStreamAssumption, Inv, NEW w \in Consumers, NEW arrives \in BOOLEAN,
           Ack(w, arrives)
    PROVE  Inv'
<1> DEFINE done == worker[w].done
<1>1. worker \in [Consumers -> Locals] /\ worker[w] \in Locals BY DEF Inv, TypeOK, Locals
<1>2. done \subseteq Entries /\ \A i \in done : attempts[i] = 1 /\ i \notin failed
  BY <1>1 DEF Inv, HoldsRightly, Locals
<1>3. /\ pending' \in [Entries -> Consumers \union {Nobody}]
      /\ \A i \in Entries \ done : pending'[i] = pending[i]
      /\ acked' \subseteq acked \union done
  BY DEF Ack, Inv, TypeOK
<1>4. worker' = [worker EXCEPT ![w] = At("loop")] /\ UNCHANGED <<kind, stream, cursor, effects>>
  BY DEF Ack
<1> HIDE DEF done
<1>5. HoldsRightly(At("loop"))' BY DEF HoldsRightly, At
<1>6. \A v \in Consumers \ {w} : HoldsRightly(worker[v])'
  <2>1. SUFFICES ASSUME NEW v \in Consumers \ {w} PROVE HoldsRightly(worker[v])' OBVIOUS
  <2>2. worker'[v] = worker[v] /\ worker[v] \in Locals /\ HoldsRightly(worker[v])
    BY <1>1, <1>4 DEF Inv
  <2>3. \A i \in worker[v].todo : i \in Entries \ done BY <1>2, <2>2 DEF HoldsRightly, Locals
  <2>4. QED BY <1>3, <1>4, <2>2, <2>3 DEF HoldsRightly, effects
<1>7. At("loop") \in Locals /\ At("loop").todo \subseteq worker[w].todo BY AtOK DEF At
<1>8. worker' \in [Consumers -> Locals] /\ (\A v \in Consumers : HoldsRightly(worker[v])')
      /\ Apart'
  BY <1>4, <1>5, <1>6, <1>7, OneMoves
<1>9. \A i \in Entries : Accounted(i)'
  <2>1. SUFFICES ASSUME NEW i \in Entries PROVE Accounted(i)' OBVIOUS
  <2>2. Accounted(i) BY DEF Inv
  <2>3. i \in failed => pending'[i] = pending[i] BY <1>2, <1>3
  <2>4. QED BY <1>2, <1>3, <1>4, <2>2, <2>3 DEF Accounted, effects
<1>10. TypeOK' BY <1>2, <1>3, <1>4, <1>8 DEF Inv, TypeOK, Locals, stream, effects
<1>11. QED BY <1>4, <1>8, <1>9, <1>10 DEF Inv, StoredBeforeAnnounced, effects

-----------------------------------------------------------------------------

LEMMA InvCorrect == Spec => []Inv
<1>1. Init => Inv BY InitInv, SignalStreamAssumption
<1>2. Inv /\ [Next]_vars => Inv'
  <2>1. SUFFICES ASSUME Inv, [Next]_vars PROVE Inv' OBVIOUS
  <2>2. CASE Connector BY <2>1, <2>2, ConnectorStep, SignalStreamAssumption
  <2>3. ASSUME NEW w \in Consumers, Start(w) \/ Crash(w) PROVE Inv'
    BY <2>1, <2>3, StartsOrStops, SignalStreamAssumption
  <2>4. ASSUME NEW w \in Consumers, Read(w) \/ ReadLost(w) PROVE Inv'
    BY <2>1, <2>4, DeliveryStep, SignalStreamAssumption
  <2>5. ASSUME NEW w \in Consumers, Body(w) PROVE Inv'
    BY <2>1, <2>5, BodyStep, AnnounceStep, SignalStreamAssumption DEF Body
  <2>6. ASSUME NEW w \in Consumers, NEW arrives \in BOOLEAN, Ack(w, arrives) PROVE Inv'
    BY <2>1, <2>6, AckStep, SignalStreamAssumption
  <2>7. CASE UNCHANGED vars
    BY <2>1, <2>7 DEF Inv, TypeOK, Apart, Accounted, HoldsRightly, StoredBeforeAnnounced,
                      vars, stream, group, effects
  <2>8. QED BY <2>1, <2>2, <2>3, <2>4, <2>5, <2>6, <2>7 DEF Next, Works
<1>3. QED BY <1>1, <1>2, PTL DEF Spec

\* The stream, the group and the workers keep their types.
THEOREM TypeCorrect == Spec => []TypeOK
<1>1. Inv => TypeOK BY DEF Inv
<1>2. QED BY <1>1, InvCorrect, PTL

\* No entry is processed twice, by any number of workers that crash and restart.
THEOREM AtMostOnce == Spec => []ProcessedOnce
<1>1. Inv => ProcessedOnce BY DEF Inv, Accounted, ProcessedOnce
<1>2. QED BY <1>1, InvCorrect, PTL

\* Acknowledged entries were processed without an error; failed ones are pending.
THEOREM AcksAreEarned == Spec => []AckedSucceeded
<1>1. Inv => AckedSucceeded BY DEF Inv, Accounted, AckedSucceeded
<1>2. QED BY <1>1, InvCorrect, PTL

\* The scanner announces nothing that the database does not hold.
THEOREM StoredFirst == Spec => []StoredBeforeAnnounced
<1>1. Inv => StoredBeforeAnnounced BY DEF Inv
<1>2. QED BY <1>1, InvCorrect, PTL

(***************************************************************************)
(* MarketFeed                                                              *)
(***************************************************************************)

Message == [step : {"put", "full", "again"}, n : Nat, symbol : Symbols, trade : BOOLEAN]

\* Numbers in rising order, and messages in the order they were sent.
Rising(r) == r \in Seq(Nat) /\ \A i, j \in DOMAIN r : i < j => r[i] < r[j]
InOrder(b) == b \in Seq(Message) /\ \A i, j \in DOMAIN b : i < j => b[i].n < b[j].n

\* Of the messages on their way to the caller, none is older than mark, and the
\* snapshot of a symbol is at least as new as a trade of it.
OnTheWay(hand, b, mark, last, all) ==
    /\ InOrder(b)
    /\ \A i \in DOMAIN b : mark < b[i].n /\ b[i].n <= all
    /\ \A i \in DOMAIN b : b[i].trade => b[i].n <= last[b[i].symbol]
    /\ hand.step # "none" =>
          /\ hand \in Message /\ mark < hand.n /\ hand.n <= all
          /\ \A i \in DOMAIN b : b[i].n < hand.n
          /\ hand.trade => hand.n <= last[hand.symbol]

\* Trades taken off the queue for one symbol.
TakenFor(s, r, mark, last) == Rising(r) /\ \A i \in DOMAIN r : r[i] <= mark /\ r[i] <= last[s]

\* Those of the drain under way come after what was handed to the caller before.
Handed(d, ret, mark, last) ==
    /\ \A s \in Symbols : TakenFor(s, ret[s], mark, last)
    /\ d.busy => /\ d.symbol \in Symbols
                 /\ TakenFor(d.symbol, d.trades, mark, last)
                 /\ \A i \in DOMAIN ret[d.symbol], j \in DOMAIN d.trades :
                       ret[d.symbol][i] < d.trades[j]

FeedTypes ==
    /\ sent \in Nat
    /\ latest \in [Symbols -> Nat] /\ \A s \in Symbols : latest[s] <= sent
    /\ DOMAIN returned = Symbols
    /\ DOMAIN drain = {"busy", "symbol", "trades"} /\ drain.busy \in BOOLEAN

FeedInv ==
    /\ FeedTypes
    /\ \E mark \in 0 .. sent : /\ OnTheWay(inHand, buffer, mark, latest, sent)
                               /\ Handed(drain, returned, mark, latest)

-----------------------------------------------------------------------------
(* Sequences.                                                              *)

LEMMA RisingAppend ==
  ASSUME NEW r, Rising(r), NEW n \in Nat, \A i \in DOMAIN r : r[i] < n
  PROVE  Rising(Append(r, n))
<1>1. r \in Seq(Nat) /\ \A i, j \in DOMAIN r : i < j => r[i] < r[j]
  BY DEF Rising
<1>2. Append(r, n) \in Seq(Nat) /\ DOMAIN Append(r, n) = 1 .. Len(r) + 1
  BY <1>1
<1>3. /\ Append(r, n)[Len(r) + 1] = n
      /\ \A i \in 1 .. Len(r) : Append(r, n)[i] = r[i]
  BY <1>1
<1>4. Len(r) \in Nat /\ DOMAIN r = 1 .. Len(r)
  BY <1>1
<1>5. ASSUME NEW i \in DOMAIN Append(r, n), NEW j \in DOMAIN Append(r, n), i < j
      PROVE  Append(r, n)[i] < Append(r, n)[j]
  <2>1. i \in 1 .. Len(r)
    BY <1>2, <1>4, <1>5
  <2>2. CASE j = Len(r) + 1
    BY <1>1, <1>3, <1>4, <2>1, <2>2
  <2>3. CASE j \in 1 .. Len(r)
    BY <1>1, <1>3, <1>4, <1>5, <2>1, <2>3
  <2> QED BY <1>2, <1>4, <2>2, <2>3
<1> QED BY <1>2, <1>5 DEF Rising

LEMMA RisingConcat ==
  ASSUME NEW r, Rising(r), NEW q, Rising(q), \A i \in DOMAIN r, j \in DOMAIN q : r[i] < q[j]
  PROVE  Rising(r \o q)
<1>1. /\ r \in Seq(Nat) /\ \A i, j \in DOMAIN r : i < j => r[i] < r[j]
      /\ q \in Seq(Nat) /\ \A i, j \in DOMAIN q : i < j => q[i] < q[j]
  BY DEF Rising
<1>2. r \o q \in Seq(Nat) /\ DOMAIN (r \o q) = 1 .. Len(r) + Len(q)
  BY <1>1
<1>3. /\ \A i \in 1 .. Len(r) : (r \o q)[i] = r[i]
      /\ \A i \in Len(r) + 1 .. Len(r) + Len(q) : (r \o q)[i] = q[i - Len(r)]
  BY <1>1
<1>4. Len(r) \in Nat /\ DOMAIN r = 1 .. Len(r) /\ Len(q) \in Nat /\ DOMAIN q = 1 .. Len(q)
  BY <1>1
<1>5. ASSUME NEW i \in DOMAIN (r \o q), NEW j \in DOMAIN (r \o q), i < j
      PROVE  (r \o q)[i] < (r \o q)[j]
  <2>1. CASE j \in 1 .. Len(r)
    <3>1. i \in 1 .. Len(r)
      BY <1>2, <1>4, <1>5, <2>1
    <3> QED BY <1>1, <1>3, <1>4, <1>5, <2>1, <3>1
  <2>2. CASE j \notin 1 .. Len(r) /\ i \in 1 .. Len(r)
    <3>1. j - Len(r) \in DOMAIN q /\ (r \o q)[j] = q[j - Len(r)]
      BY <1>2, <1>3, <1>4, <2>2
    <3> QED BY <1>3, <1>4, <2>2, <3>1
  <2>3. CASE j \notin 1 .. Len(r) /\ i \notin 1 .. Len(r)
    <3>1. /\ j - Len(r) \in DOMAIN q /\ (r \o q)[j] = q[j - Len(r)]
          /\ i - Len(r) \in DOMAIN q /\ (r \o q)[i] = q[i - Len(r)]
          /\ i - Len(r) < j - Len(r)
      BY <1>2, <1>3, <1>4, <1>5, <2>3
    <3> QED BY <1>1, <3>1
  <2> QED BY <2>1, <2>2, <2>3
<1> QED BY <1>2, <1>5 DEF Rising

\* A message put on the queue behind all others, and the oldest one taken off.
LEMMA PutInOrder ==
  ASSUME NEW b, InOrder(b), NEW m \in Message, \A i \in DOMAIN b : b[i].n < m.n
  PROVE  /\ InOrder(Append(b, m))
         /\ \A i \in DOMAIN Append(b, m) :
               \/ i \in DOMAIN b /\ Append(b, m)[i] = b[i]
               \/ Append(b, m)[i] = m
<1>1. b \in Seq(Message) /\ \A i, j \in DOMAIN b : i < j => b[i].n < b[j].n
  BY DEF InOrder
<1>2. Append(b, m) \in Seq(Message) /\ DOMAIN Append(b, m) = 1 .. Len(b) + 1
  BY <1>1
<1>3. /\ Append(b, m)[Len(b) + 1] = m
      /\ \A i \in 1 .. Len(b) : Append(b, m)[i] = b[i]
  BY <1>1
<1>4. Len(b) \in Nat /\ DOMAIN b = 1 .. Len(b)
  BY <1>1
<1>5. ASSUME NEW i \in DOMAIN Append(b, m), NEW j \in DOMAIN Append(b, m), i < j
      PROVE  Append(b, m)[i].n < Append(b, m)[j].n
  <2>1. i \in DOMAIN b /\ Append(b, m)[i] = b[i]
    BY <1>2, <1>3, <1>4, <1>5
  <2>2. CASE j = Len(b) + 1
    BY <1>3, <2>1, <2>2
  <2>3. CASE j \in DOMAIN b
    <3>1. Append(b, m)[j] = b[j]
      BY <1>3, <1>4, <2>3
    <3> QED BY <1>1, <1>5, <2>1, <2>3, <3>1
  <2> QED BY <1>2, <1>4, <2>2, <2>3
<1>6. \A i \in DOMAIN Append(b, m) :
         \/ i \in DOMAIN b /\ Append(b, m)[i] = b[i]
         \/ Append(b, m)[i] = m
  BY <1>2, <1>3, <1>4
<1> QED BY <1>2, <1>5, <1>6 DEF InOrder

LEMMA TakeInOrder ==
  ASSUME NEW b, InOrder(b), b # <<>>
  PROVE  /\ InOrder(Tail(b)) /\ Head(b) \in Message /\ Head(b) = b[1] /\ 1 \in DOMAIN b
         /\ \A i \in DOMAIN Tail(b) :
               i + 1 \in DOMAIN b /\ Tail(b)[i] = b[i + 1] /\ Head(b).n < Tail(b)[i].n
<1>1. b \in Seq(Message) /\ \A i, j \in DOMAIN b : i < j => b[i].n < b[j].n
  BY DEF InOrder
<1>2. Tail(b) \in Seq(Message) /\ DOMAIN Tail(b) = 1 .. Len(b) - 1 /\ Head(b) \in Message
      /\ Head(b) = b[1] /\ Len(b) \in Nat /\ Len(b) # 0 /\ DOMAIN b = 1 .. Len(b)
  BY <1>1
<1>3. \A i \in 1 .. Len(b) - 1 : Tail(b)[i] = b[i + 1]
  BY <1>1
<1>4. \A i \in DOMAIN Tail(b) : i + 1 \in DOMAIN b /\ Tail(b)[i] = b[i + 1]
  BY <1>2, <1>3
<1>5. 1 \in DOMAIN b /\ \A i \in DOMAIN Tail(b) : 1 < i + 1
  BY <1>2
<1>6. \A i \in DOMAIN Tail(b) : Head(b).n < Tail(b)[i].n
  <2>1. \A i \in DOMAIN Tail(b) : b[1].n < b[i + 1].n
    BY <1>1, <1>4, <1>5
  <2> QED BY <2>1, <1>2, <1>4
<1>7. ASSUME NEW i \in DOMAIN Tail(b), NEW j \in DOMAIN Tail(b), i < j
      PROVE  Tail(b)[i].n < Tail(b)[j].n
  <2>1. i + 1 < j + 1
    BY <1>2, <1>7
  <2> QED BY <1>1, <1>4, <2>1
<1> QED BY <1>2, <1>4, <1>5, <1>6, <1>7 DEF InOrder

-----------------------------------------------------------------------------

LEMMA FeedInitInv == ASSUME FeedInit PROVE FeedInv
<1>1. FeedTypes
  BY DEF FeedInit, FeedTypes, NoDrain
<1>2. Rising(<<>>) /\ InOrder(<<>>)
  BY DEF Rising, InOrder
<1>3. OnTheWay(inHand, buffer, 0, latest, sent)
  BY <1>2 DEF FeedInit, OnTheWay, Nothing
<1>4. Handed(drain, returned, 0, latest)
  BY <1>2 DEF FeedInit, Handed, TakenFor, NoDrain
<1>5. 0 \in 0 .. sent
  BY DEF FeedInit
<1> QED BY <1>1, <1>3, <1>4, <1>5 DEF FeedInv

\* The connection carries no messages itself.
LEMMA ConnectionStep ==
  ASSUME FeedInv, UNCHANGED dataVars
  PROVE  FeedInv'
BY DEF FeedInv, FeedTypes, dataVars

\* A message the exchange sends is newer than all others.
LEMMA ReceiveStep ==
  ASSUME FeedInv, NEW s \in Symbols, NEW trade \in BOOLEAN, Receive(s, trade)
  PROVE  FeedInv'
<1>1. PICK mark \in 0 .. sent : /\ OnTheWay(inHand, buffer, mark, latest, sent)
                              /\ Handed(drain, returned, mark, latest)
  BY DEF FeedInv
<1>2. /\ sent \in Nat /\ sent' = sent + 1 /\ sent' \in Nat /\ mark < sent'
      /\ inHand' = [step |-> "put", n |-> sent', symbol |-> s, trade |-> trade]
      /\ inHand' \in Message /\ inHand'.n = sent'
      /\ inHand'.trade = trade /\ inHand'.symbol = s
      /\ UNCHANGED <<buffer, drain, returned>>
  BY DEF Receive, FeedInv, FeedTypes, Message
<1>3. /\ latest' \in [Symbols -> Nat]
      /\ \A u \in Symbols : latest[u] <= latest'[u] /\ latest'[u] <= sent'
      /\ trade => latest'[s] = sent'
      /\ latest \in [Symbols -> Nat]
  BY <1>2 DEF Receive, FeedInv, FeedTypes
<1>4. FeedTypes'
  BY <1>2, <1>3 DEF FeedInv, FeedTypes
<1>5. \A i \in DOMAIN buffer : buffer[i] \in Message
  BY <1>1 DEF OnTheWay, InOrder
<1>6. OnTheWay(inHand, buffer, mark, latest, sent)'
  <2>1. \A i \in DOMAIN buffer :
           /\ mark < buffer[i].n /\ buffer[i].n <= sent /\ buffer[i].n \in Nat
           /\ buffer[i].symbol \in Symbols
           /\ buffer[i].trade => buffer[i].n <= latest[buffer[i].symbol]
    BY <1>1, <1>5 DEF OnTheWay, Message
  <2>2. \A i \in DOMAIN buffer :
           /\ buffer[i].n <= sent' /\ buffer[i].n < inHand'.n
           /\ buffer[i].trade => buffer[i].n <= latest'[buffer[i].symbol]
    BY <1>2, <1>3, <2>1
  <2> QED BY <1>1, <1>2, <1>3, <2>1, <2>2 DEF OnTheWay
<1>7. Handed(drain, returned, mark, latest)'
  <2>1. ASSUME NEW u \in Symbols, NEW r, TakenFor(u, r, mark, latest)
        PROVE  TakenFor(u, r, mark, latest')
    BY <1>3, <2>1 DEF TakenFor, Rising
  <2> QED BY <1>1, <1>2, <2>1 DEF Handed
<1>8. mark \in 0 .. sent'
  BY <1>2
<1> QED BY <1>4, <1>6, <1>7, <1>8 DEF FeedInv

LEMMA MissedStep == ASSUME FeedInv, Missed PROVE FeedInv'
<1>1. PICK mark \in 0 .. sent : /\ OnTheWay(inHand, buffer, mark, latest, sent)
                              /\ Handed(drain, returned, mark, latest)
  BY DEF FeedInv
<1>2. sent \in Nat /\ sent' = sent + 1 /\ UNCHANGED <<inHand, latest, buffer, drain, returned>>
  BY DEF Missed, FeedInv, FeedTypes
<1>3. FeedTypes' /\ mark \in 0 .. sent'
  BY <1>2 DEF FeedInv, FeedTypes
<1>4. OnTheWay(inHand, buffer, mark, latest, sent)'
  <2>1. \A i \in DOMAIN buffer : buffer[i].n \in Nat
    <3>1. \A i \in DOMAIN buffer : buffer[i] \in Message
      BY <1>1 DEF OnTheWay, InOrder
    <3> QED BY <3>1 DEF Message
  <2>2. inHand \in Message => inHand.n \in Nat
    BY DEF Message
  <2> QED BY <1>1, <1>2, <2>1, <2>2 DEF OnTheWay
<1> QED BY <1>1, <1>2, <1>3, <1>4 DEF FeedInv

\* A message that is put, or lost.
LEMMA PutStep == ASSUME FeedInv, Put \/ MakeSpace \/ PutAgain PROVE FeedInv'
<1>1. PICK mark \in 0 .. sent : /\ OnTheWay(inHand, buffer, mark, latest, sent)
                              /\ Handed(drain, returned, mark, latest)
  BY DEF FeedInv
<1>2. UNCHANGED <<sent, latest, drain, returned>> /\ inHand.step # "none"
  BY DEF Put, MakeSpace, PutAgain
<1>3. /\ inHand \in Message /\ mark < inHand.n /\ inHand.n <= sent
      /\ \A i \in DOMAIN buffer : buffer[i].n < inHand.n
      /\ inHand.trade => inHand.n <= latest[inHand.symbol]
  BY <1>1, <1>2 DEF OnTheWay
<1>4. FeedTypes' /\ Handed(drain, returned, mark, latest)'
  BY <1>1, <1>2 DEF FeedInv, FeedTypes
<1>5. OnTheWay(inHand, buffer, mark, latest, sent)'
  <2>1. CASE buffer' = Append(buffer, inHand) /\ inHand' = Nothing
    <3>1. inHand'.step = "none"
      BY <2>1 DEF Nothing
    <3>2. /\ InOrder(buffer')
          /\ \A i \in DOMAIN buffer' :
                \/ i \in DOMAIN buffer /\ buffer'[i] = buffer[i]
                \/ buffer'[i] = inHand
      BY <1>1, <1>3, <2>1, PutInOrder DEF OnTheWay
    <3> QED BY <1>1, <1>2, <1>3, <3>1, <3>2 DEF OnTheWay
  <2>2. CASE buffer' = buffer /\ (inHand' = Nothing \/ inHand' = [inHand EXCEPT !.step = "full"])
    <3>1. CASE inHand' = Nothing
      <4>1. inHand'.step = "none"
        BY <3>1 DEF Nothing
      <4> QED BY <1>1, <1>2, <2>2, <4>1 DEF OnTheWay
    <3>2. CASE inHand' = [inHand EXCEPT !.step = "full"]
      <4>1. /\ inHand' \in Message /\ inHand'.n = inHand.n /\ inHand'.trade = inHand.trade
            /\ inHand'.symbol = inHand.symbol
        BY <1>3, <3>2 DEF Message
      <4> QED BY <1>1, <1>2, <1>3, <2>2, <4>1 DEF OnTheWay
    <3> QED BY <2>2, <3>1, <3>2
  <2>3. CASE buffer # <<>> /\ buffer' = Tail(buffer) /\ inHand' = [inHand EXCEPT !.step = "again"]
    <3>1. /\ inHand' \in Message /\ inHand'.n = inHand.n /\ inHand'.trade = inHand.trade
          /\ inHand'.symbol = inHand.symbol
      BY <1>3, <2>3 DEF Message
    <3>2. /\ InOrder(buffer')
          /\ \A i \in DOMAIN buffer' : i + 1 \in DOMAIN buffer /\ buffer'[i] = buffer[i + 1]
      BY <1>1, <2>3, TakeInOrder DEF OnTheWay
    <3> QED BY <1>1, <1>2, <1>3, <3>1, <3>2 DEF OnTheWay
  <2> QED BY <2>1, <2>2, <2>3 DEF Put, MakeSpace, PutAgain
<1> QED BY <1>1, <1>2, <1>4, <1>5 DEF FeedInv

LEMMA BeginDrainStep ==
  ASSUME FeedInv, NEW s \in Symbols, BeginDrain(s)
  PROVE  FeedInv'
<1>1. PICK mark \in 0 .. sent : /\ OnTheWay(inHand, buffer, mark, latest, sent)
                              /\ Handed(drain, returned, mark, latest)
  BY DEF FeedInv
<1>2. /\ drain' = [busy |-> TRUE, symbol |-> s, trades |-> <<>>]
      /\ UNCHANGED <<sent, inHand, latest, buffer, returned>>
  BY DEF BeginDrain
<1>3. FeedTypes'
  BY <1>2 DEF FeedInv, FeedTypes
<1>4. TakenFor(s, <<>>, mark, latest)
  BY DEF TakenFor, Rising
<1>5. Handed(drain, returned, mark, latest)'
  BY <1>1, <1>2, <1>4 DEF Handed
<1> QED BY <1>1, <1>2, <1>3, <1>5 DEF FeedInv

\* The message taken off becomes the mark: what is left on the queue is newer.
LEMMA TakeOneStep == ASSUME FeedInv, TakeOne PROVE FeedInv'
<1>1. PICK mark \in 0 .. sent : /\ OnTheWay(inHand, buffer, mark, latest, sent)
                              /\ Handed(drain, returned, mark, latest)
  BY DEF FeedInv
<1> DEFINE m == Head(buffer)
<1>2. /\ drain.busy /\ buffer # <<>> /\ buffer' = Tail(buffer)
      /\ drain' = IF m.trade /\ m.symbol = drain.symbol
                  THEN [drain EXCEPT !.trades = Append(@, m.n)] ELSE drain
      /\ UNCHANGED <<sent, inHand, latest, returned>>
  BY DEF TakeOne, Taken
<1>3. /\ InOrder(buffer') /\ m \in Message /\ m = buffer[1] /\ 1 \in DOMAIN buffer
      /\ \A i \in DOMAIN buffer' : i + 1 \in DOMAIN buffer /\ buffer'[i] = buffer[i + 1]
                                   /\ m.n < buffer'[i].n
  BY <1>1, <1>2, TakeInOrder DEF OnTheWay
<1>4. /\ m.n \in Nat /\ mark < m.n /\ m.n <= sent /\ sent \in Nat
      /\ m.trade => m.n <= latest[m.symbol]
      /\ inHand.step # "none" => m.n < inHand.n
  BY <1>1, <1>3 DEF OnTheWay, FeedInv, FeedTypes, Message
<1> HIDE DEF m
<1>5. OnTheWay(inHand', buffer', m.n, latest', sent')
  BY <1>1, <1>2, <1>3, <1>4 DEF OnTheWay
<1>6. ASSUME NEW s \in Symbols, NEW r, TakenFor(s, r, mark, latest)
      PROVE  /\ TakenFor(s, r, m.n, latest) /\ \A i \in DOMAIN r : r[i] < m.n /\ r[i] \in Nat
  BY <1>4, <1>6 DEF TakenFor, Rising
<1>7. Handed(drain', returned', m.n, latest')
  <2>1. CASE ~(m.trade /\ m.symbol = drain.symbol)
    <3>1. drain' = drain
      BY <1>2, <2>1
    <3> QED BY <1>1, <1>2, <1>6, <3>1 DEF Handed
  <2>2. CASE m.trade /\ m.symbol = drain.symbol
    <3>1. /\ drain'.busy = drain.busy /\ drain'.symbol = drain.symbol
          /\ drain'.trades = Append(drain.trades, m.n)
      BY <1>2, <2>2 DEF FeedInv, FeedTypes
    <3>2. /\ drain.symbol \in Symbols /\ TakenFor(drain.symbol, drain.trades, mark, latest)
          /\ TakenFor(drain.symbol, returned[drain.symbol], mark, latest)
          /\ \A i \in DOMAIN returned[drain.symbol], j \in DOMAIN drain.trades :
                returned[drain.symbol][i] < drain.trades[j]
      BY <1>1, <1>2 DEF Handed
    <3>3. /\ Rising(drain.trades) /\ drain.trades \in Seq(Nat)
          /\ \A i \in DOMAIN drain.trades : drain.trades[i] < m.n
                                            /\ drain.trades[i] <= latest[drain.symbol]
          /\ \A i \in DOMAIN returned[drain.symbol] : returned[drain.symbol][i] < m.n
      BY <3>2, <1>6 DEF TakenFor, Rising
    <3>4. Rising(drain'.trades)
      BY <3>1, <3>3, <1>4, RisingAppend
    <3>5. \A i \in DOMAIN drain'.trades :
             drain'.trades[i] = m.n \/ (i \in DOMAIN drain.trades /\ drain'.trades[i] = drain.trades[i])
      BY <3>1, <3>3
    <3>6. m.n <= m.n
      BY <1>4
    <3>7. TakenFor(drain.symbol, drain'.trades, m.n, latest)
      <4>1. \A i \in DOMAIN drain.trades : drain.trades[i] <= m.n
        BY <1>4, <3>2, <1>6 DEF TakenFor
      <4> QED BY <3>3, <3>4, <3>5, <3>6, <4>1, <1>4, <2>2 DEF TakenFor
    <3>8. \A i \in DOMAIN returned[drain.symbol], j \in DOMAIN drain'.trades :
             returned[drain.symbol][i] < drain'.trades[j]
      BY <3>2, <3>3, <3>5
    <3> QED BY <1>1, <1>2, <1>6, <3>1, <3>2, <3>7, <3>8 DEF Handed
  <2> QED BY <2>1, <2>2
<1>8. FeedTypes'
  BY <1>2 DEF FeedInv, FeedTypes
<1>9. m.n \in 0 .. sent'
  BY <1>2, <1>4
<1> QED BY <1>5, <1>7, <1>8, <1>9 DEF FeedInv

LEMMA EndDrainStep == ASSUME FeedInv, EndDrain PROVE FeedInv'
<1>1. PICK mark \in 0 .. sent : /\ OnTheWay(inHand, buffer, mark, latest, sent)
                              /\ Handed(drain, returned, mark, latest)
  BY DEF FeedInv
<1>2. /\ drain.busy /\ drain' = NoDrain
      /\ returned' = [returned EXCEPT ![drain.symbol] = @ \o drain.trades]
      /\ UNCHANGED <<sent, inHand, latest, buffer>>
  BY DEF EndDrain
<1>3. /\ drain.symbol \in Symbols /\ TakenFor(drain.symbol, drain.trades, mark, latest)
      /\ TakenFor(drain.symbol, returned[drain.symbol], mark, latest)
      /\ \A i \in DOMAIN returned[drain.symbol], j \in DOMAIN drain.trades :
            returned[drain.symbol][i] < drain.trades[j]
  BY <1>1, <1>2 DEF Handed
<1> DEFINE r == returned[drain.symbol]
           q == drain.trades
<1>4. TakenFor(drain.symbol, r \o q, mark, latest)
  <2>1. Rising(r) /\ Rising(q)
    BY <1>3 DEF TakenFor
  <2>2. Rising(r \o q)
    BY <1>3, <2>1, RisingConcat
  <2>3. r \in Seq(Nat) /\ q \in Seq(Nat)
    BY <2>1 DEF Rising
  <2>4. \A i \in DOMAIN (r \o q) :
           \/ i \in DOMAIN r /\ (r \o q)[i] = r[i]
           \/ i - Len(r) \in DOMAIN q /\ (r \o q)[i] = q[i - Len(r)]
    <3> HIDE DEF r, q
    <3>1. /\ Len(r) \in Nat /\ DOMAIN r = 1 .. Len(r) /\ Len(q) \in Nat /\ DOMAIN q = 1 .. Len(q)
          /\ DOMAIN (r \o q) = 1 .. Len(r) + Len(q)
      BY <2>3
    <3>2. /\ \A i \in 1 .. Len(r) : (r \o q)[i] = r[i]
          /\ \A i \in Len(r) + 1 .. Len(r) + Len(q) : (r \o q)[i] = q[i - Len(r)]
      BY <2>3
    <3> QED BY <3>1, <3>2
  <2> HIDE DEF r, q
  <2>5. TakenFor(drain.symbol, r, mark, latest) /\ TakenFor(drain.symbol, q, mark, latest)
    BY <1>3 DEF r, q
  <2> QED BY <2>2, <2>4, <2>5 DEF TakenFor
<1>5. /\ DOMAIN returned = Symbols
      /\ returned'[drain.symbol] = r \o q
      /\ \A s \in Symbols : s # drain.symbol => returned'[s] = returned[s]
  BY <1>2, <1>3 DEF FeedInv, FeedTypes
<1>6. Handed(drain, returned, mark, latest)'
  <2>1. ~drain'.busy
    BY <1>2 DEF NoDrain
  <2>2. \A s \in Symbols : TakenFor(s, returned'[s], mark, latest)
    <3> HIDE DEF r, q
    <3> QED BY <1>1, <1>4, <1>5 DEF Handed
  <2> QED BY <1>2, <2>1, <2>2 DEF Handed
<1>7. FeedTypes'
  BY <1>2 DEF FeedInv, FeedTypes, NoDrain
<1> QED BY <1>1, <1>2, <1>6, <1>7 DEF FeedInv

LEMMA FeedStepInv == ASSUME FeedInv, [FeedNext]_feedVars PROVE FeedInv'
<1>1. CASE UNCHANGED dataVars
  BY <1>1, ConnectionStep
<1>2. ASSUME NEW t \in Threads,
             Connect(t) \/ RunForever(t) \/ Wakes(t) \/ \E raised \in BOOLEAN : Breaks(t, raised)
      PROVE  FeedInv'
  BY <1>1, <1>2 DEF Connect, RunForever, Wakes, Breaks
<1>3. CASE Disconnect
  BY <1>1, <1>3 DEF Disconnect
<1>4. ASSUME NEW s \in Symbols, NEW trade \in BOOLEAN, Receive(s, trade) PROVE FeedInv'
  BY <1>4, ReceiveStep
<1>5. CASE Missed
  BY <1>5, MissedStep
<1>6. CASE Put \/ MakeSpace \/ PutAgain
  BY <1>6, PutStep
<1>7. ASSUME NEW s \in Symbols, BeginDrain(s) PROVE FeedInv'
  BY <1>7, BeginDrainStep
<1>8. CASE TakeOne
  BY <1>8, TakeOneStep
<1>9. CASE EndDrain
  BY <1>9, EndDrainStep
<1>10. CASE UNCHANGED feedVars
  BY <1>1, <1>10 DEF feedVars, dataVars
<1> QED BY <1>2, <1>3, <1>4, <1>5, <1>6, <1>7, <1>8, <1>9, <1>10 DEF FeedNext

LEMMA FeedInvImplies == ASSUME FeedInv PROVE TicksInOrder
<1>1. ASSUME NEW s \in Symbols
      PROVE  LET r == returned[s] IN
             /\ \A k \in 1 .. Len(r) - 1 : r[k] < r[k + 1]
             /\ r # <<>> => Last(r) <= latest[s]
  <2>1. PICK mark \in 0 .. sent : TakenFor(s, returned[s], mark, latest)
    BY DEF FeedInv, Handed
  <2> DEFINE r == returned[s]
  <2>2. /\ r \in Seq(Nat) /\ \A i, j \in DOMAIN r : i < j => r[i] < r[j]
        /\ \A i \in DOMAIN r : r[i] <= latest[s]
    BY <2>1 DEF TakenFor, Rising
  <2> HIDE DEF r
  <2>3. DOMAIN r = 1 .. Len(r) /\ Len(r) \in Nat
    BY <2>2
  <2>4. \A k \in 1 .. Len(r) - 1 : r[k] < r[k + 1]
    <3>1. \A k \in 1 .. Len(r) - 1 : k \in DOMAIN r /\ k + 1 \in DOMAIN r /\ k < k + 1
      BY <2>3
    <3> QED BY <2>2, <3>1
  <2>5. r # <<>> => Last(r) <= latest[s]
    <3>1. r # <<>> => Len(r) \in DOMAIN r
      BY <2>2, <2>3
    <3> QED BY <2>2, <3>1 DEF Last
  <2> QED BY <2>4, <2>5 DEF r
<1> QED BY <1>1 DEF TicksInOrder

\* Whatever number of threads, reconnects and messages, no trade is handed to
\* the caller twice or after a later one, and no snapshot is older than one.
THEOREM TicksInOrderHolds == FeedSpec => []TicksInOrder
<1>1. FeedInit => FeedInv
  BY FeedInitInv
<1>2. FeedInv /\ [FeedNext]_feedVars => FeedInv'
  BY FeedStepInv
<1>3. FeedInv => TicksInOrder
  BY FeedInvImplies
<1> QED BY <1>1, <1>2, <1>3, PTL DEF FeedSpec

-----------------------------------------------------------------------------
(* The feed is a queue that gives up its oldest.                           *)

BareMessage == [n : Nat, symbol : Symbols, trade : BOOLEAN]

LEMMA BareType == ASSUME NEW m \in Message PROVE Bare(m) \in BareMessage
BY DEF Message, BareMessage, Bare

\* The line is the buffer and then the message in hand.
LEMMA LineOf ==
  ASSUME NEW b \in Seq(Message), NEW h, h.step = "none" \/ h \in Message
  PROVE  /\ Line(b, h) \in Seq(BareMessage)
         /\ h.step = "none" => Len(Line(b, h)) = Len(b)
         /\ h.step # "none" => /\ Len(Line(b, h)) = Len(b) + 1
                               /\ Line(b, h)[Len(b) + 1] = Bare(h)
         /\ \A k \in 1 .. Len(b) : Line(b, h)[k] = Bare(b[k])
<1> DEFINE n == Len(b) + (IF h.step = "none" THEN 0 ELSE 1)
           at(k) == Bare(IF k <= Len(b) THEN b[k] ELSE h)
<1>1. Len(b) \in Nat /\ \A k \in 1 .. Len(b) : b[k] \in Message
  BY LenProperties, ElementOfSeq
<1>2. n \in Nat /\ (h.step = "none" => n = Len(b)) /\ (h.step # "none" => n = Len(b) + 1)
  BY <1>1
<1>3. \A k \in 1 .. n : at(k) \in BareMessage
  BY <1>1, <1>2, BareType
<1>4. Line(b, h) = [k \in 1 .. n |-> at(k)]
  BY DEF Line
<1>5. \A k \in 1 .. Len(b) : at(k) = Bare(b[k])
  BY <1>1
<1>6. at(Len(b) + 1) = Bare(h)
  BY <1>1
<1> HIDE DEF n, at
<1>7. Line(b, h) \in Seq(BareMessage)
  BY <1>2, <1>3, <1>4, IsASeq
<1>8. Len(Line(b, h)) = n /\ \A k \in 1 .. n : Line(b, h)[k] = at(k)
  BY <1>2, <1>4
<1> QED BY <1>1, <1>2, <1>5, <1>6, <1>7, <1>8

LEMMA SameLine ==
  ASSUME NEW s \in Seq(BareMessage), NEW t \in Seq(BareMessage), Len(s) = Len(t),
         \A k \in 1 .. Len(s) : s[k] = t[k]
  PROVE  s = t
BY SeqEqual

\* A new message stands at the end of the line.
LEMMA JoinsLine ==
  ASSUME NEW b \in Seq(Message), NEW h, h.step = "none", NEW g \in Message
  PROVE  Line(b, g) = Append(Line(b, h), Bare(g))
<1>1. g.step # "none"
  BY DEF Message
<1>2. Len(b) \in Nat
  BY LenProperties
<1> DEFINE s == Line(b, g)
           t == Append(Line(b, h), Bare(g))
<1>3. /\ s \in Seq(BareMessage) /\ Len(s) = Len(b) + 1 /\ s[Len(b) + 1] = Bare(g)
      /\ \A k \in 1 .. Len(b) : s[k] = Bare(b[k])
  BY <1>1, LineOf
<1>4. /\ Line(b, h) \in Seq(BareMessage) /\ Len(Line(b, h)) = Len(b)
      /\ \A k \in 1 .. Len(b) : Line(b, h)[k] = Bare(b[k])
  BY LineOf
<1>5. /\ t \in Seq(BareMessage) /\ Len(t) = Len(b) + 1 /\ t[Len(b) + 1] = Bare(g)
      /\ \A k \in 1 .. Len(b) : t[k] = Bare(b[k])
  BY <1>4, BareType, AppendProperties
<1> HIDE DEF s, t
<1>6. \A k \in 1 .. Len(b) + 1 : s[k] = t[k]
  BY <1>2, <1>3, <1>5
<1>7. s = t
  BY <1>3, <1>5, <1>6, SameLine
<1> QED BY <1>7 DEF s, t

\* Putting the message in hand on the queue leaves the line as it is, and so do
\* the steps of the handler that keep both.
LEMMA PutKeepsLine ==
  ASSUME NEW b \in Seq(Message), NEW h \in Message, NEW g, g.step = "none"
  PROVE  Line(Append(b, h), g) = Line(b, h)
<1>1. h.step # "none"
  BY DEF Message
<1>2. Len(b) \in Nat
  BY LenProperties
<1> DEFINE c == Append(b, h)
           s == Line(c, g)
           t == Line(b, h)
<1>3. /\ c \in Seq(Message) /\ Len(c) = Len(b) + 1 /\ c[Len(b) + 1] = h
      /\ \A k \in 1 .. Len(b) : c[k] = b[k]
  BY AppendProperties
<1>4. /\ t \in Seq(BareMessage) /\ Len(t) = Len(b) + 1 /\ t[Len(b) + 1] = Bare(h)
      /\ \A k \in 1 .. Len(b) : t[k] = Bare(b[k])
  BY <1>1, LineOf
<1> HIDE DEF c
<1>5. /\ s \in Seq(BareMessage) /\ Len(s) = Len(c)
      /\ \A k \in 1 .. Len(c) : s[k] = Bare(c[k])
  BY <1>3, LineOf
<1> HIDE DEF s, t
<1>6. \A k \in 1 .. Len(b) + 1 : s[k] = t[k]
  BY <1>2, <1>3, <1>4, <1>5
<1>7. s = t
  BY <1>3, <1>4, <1>5, <1>6, SameLine
<1> QED BY <1>7 DEF s, t, c

LEMMA HandKeepsLine ==
  ASSUME NEW b, NEW h, NEW g, h.step # "none", g.step # "none", Bare(g) = Bare(h)
  PROVE  Line(b, g) = Line(b, h)
<1>1. \A k : Bare(IF k <= Len(b) THEN b[k] ELSE g) = Bare(IF k <= Len(b) THEN b[k] ELSE h)
  OBVIOUS
<1> QED BY <1>1 DEF Line

\* What is taken off the queue is the head of the line.
LEMMA TakeFromLine ==
  ASSUME NEW b \in Seq(Message), b # <<>>, NEW h, h.step = "none" \/ h \in Message
  PROVE  /\ Line(b, h) # <<>> /\ Head(Line(b, h)) = Bare(Head(b))
         /\ Line(Tail(b), h) = Tail(Line(b, h))
<1>1. /\ Len(b) \in Nat /\ Len(b) # 0 /\ Head(b) = b[1]
      /\ Tail(b) \in Seq(Message) /\ Len(Tail(b)) = Len(b) - 1
      /\ \A k \in 1 .. Len(b) - 1 : Tail(b)[k] = b[k + 1]
  BY LenProperties, EmptySeq, HeadTailProperties
<1> DEFINE n == IF h.step = "none" THEN 0 ELSE 1
           c == Tail(b)
           s == Line(b, h)
           t == Line(c, h)
<1>2. /\ s \in Seq(BareMessage) /\ Len(s) = Len(b) + n
      /\ \A k \in 1 .. Len(b) : s[k] = Bare(b[k])
      /\ n = 1 => s[Len(b) + 1] = Bare(h)
  <2> HIDE DEF c, t
  <2>1. /\ s \in Seq(BareMessage) /\ \A k \in 1 .. Len(b) : s[k] = Bare(b[k])
        /\ h.step = "none" => Len(s) = Len(b)
        /\ h.step # "none" => Len(s) = Len(b) + 1 /\ s[Len(b) + 1] = Bare(h)
    BY LineOf
  <2> HIDE DEF s
  <2> QED BY <2>1, <1>1
<1>3. /\ t \in Seq(BareMessage) /\ Len(t) = Len(c) + n
      /\ \A k \in 1 .. Len(c) : t[k] = Bare(c[k])
      /\ n = 1 => t[Len(c) + 1] = Bare(h)
  <2>1. c \in Seq(Message) /\ Len(c) \in Nat
    BY <1>1
  <2> HIDE DEF c, s
  <2>2. /\ t \in Seq(BareMessage) /\ \A k \in 1 .. Len(c) : t[k] = Bare(c[k])
        /\ h.step = "none" => Len(t) = Len(c)
        /\ h.step # "none" => Len(t) = Len(c) + 1 /\ t[Len(c) + 1] = Bare(h)
    BY <2>1, LineOf
  <2> HIDE DEF t
  <2> QED BY <2>1, <2>2
<1>4. n \in {0, 1}
  OBVIOUS
<1> HIDE DEF n, c, s, t
<1>5. s # <<>> /\ Len(s) # 0
  BY <1>1, <1>2, <1>4, EmptySeq
<1>6. /\ Tail(s) \in Seq(BareMessage) /\ Len(Tail(s)) = Len(s) - 1
      /\ \A k \in 1 .. Len(s) - 1 : Tail(s)[k] = s[k + 1]
      /\ Head(s) = s[1]
  BY <1>2, <1>5, HeadTailProperties
<1>7. Len(c) = Len(b) - 1 /\ \A k \in 1 .. Len(b) - 1 : c[k] = b[k + 1]
  BY <1>1 DEF c
<1>8. Len(t) = Len(Tail(s))
  BY <1>1, <1>2, <1>3, <1>4, <1>6, <1>7
<1>9. ASSUME NEW k \in 1 .. Len(t) PROVE t[k] = Tail(s)[k]
  <2>1. CASE k \in 1 .. Len(b) - 1
    <3>1. k \in 1 .. Len(c) /\ k + 1 \in 1 .. Len(b) /\ k \in 1 .. Len(s) - 1
      BY <1>1, <1>2, <1>4, <1>7, <2>1
    <3> QED BY <1>2, <1>3, <1>6, <1>7, <2>1, <3>1
  <2>2. CASE k \notin 1 .. Len(b) - 1
    <3>1. n = 1 /\ k = Len(c) + 1 /\ k + 1 = Len(b) + 1 /\ k \in 1 .. Len(s) - 1
      <4>1. /\ Len(b) \in Nat \ {0} /\ Len(c) = Len(b) - 1 /\ n \in {0, 1}
            /\ Len(t) = Len(c) + n /\ Len(s) = Len(b) + n
        BY <1>1, <1>2, <1>3, <1>4, <1>7
      <4> QED BY <2>2, <4>1
    <3> QED BY <1>2, <1>3, <1>6, <3>1
  <2> QED BY <2>1, <2>2
<1>10. t = Tail(s)
  BY <1>3, <1>6, <1>8, <1>9, SameLine
<1>11. Head(s) = Bare(Head(b))
  BY <1>1, <1>2, <1>6
<1> QED BY <1>5, <1>10, <1>11 DEF s, t, c

\* With an empty queue the message in hand is the oldest.
LEMMA LosesLine ==
  ASSUME NEW b \in Seq(Message), b = <<>>, NEW h \in Message, NEW g, g.step = "none"
  PROVE  Line(b, h) # <<>> /\ Line(b, g) = Tail(Line(b, h))
<1>1. h.step # "none" /\ Len(b) = 0
  BY EmptySeq DEF Message
<1> DEFINE s == Line(b, h)
           t == Line(b, g)
<1>2. s \in Seq(BareMessage) /\ Len(s) = Len(b) + 1
  BY <1>1, LineOf
<1>3. t \in Seq(BareMessage) /\ Len(t) = Len(b)
  BY LineOf
<1> HIDE DEF s, t
<1>4. Len(s) = 1 /\ s # <<>>
  <2>1. Len(s) = 1
    BY <1>1, <1>2
  <2> QED BY <2>1, <1>2, EmptySeq
<1>5. Tail(s) \in Seq(BareMessage) /\ Len(Tail(s)) = 0
  BY <1>2, <1>4, HeadTailProperties
<1>6. Len(t) = 0 /\ \A k \in 1 .. Len(t) : t[k] = Tail(s)[k]
  BY <1>1, <1>3
<1>7. t = Tail(s)
  BY <1>3, <1>5, <1>6, SameLine
<1> QED BY <1>4, <1>7 DEF s, t

\* The queue never holds more than its size, and has room once space was made.
Roomy == Len(buffer) <= BufferSize /\ (inHand.step = "again" => Len(buffer) < BufferSize)

LEMMA FeedFacts ==
  ASSUME FeedInv
  PROVE  /\ sent \in Nat /\ buffer \in Seq(Message) /\ Len(buffer) \in Nat
         /\ inHand.step = "none" \/ inHand \in Message
         /\ DOMAIN drain = {"busy", "symbol", "trades"} /\ drain.busy \in BOOLEAN
         /\ DOMAIN returned = Symbols
         /\ \A s \in Symbols : returned[s] \in Seq(Nat)
         /\ drain.busy => drain.symbol \in Symbols /\ drain.trades \in Seq(Nat)
<1>1. PICK mark \in 0 .. sent : /\ OnTheWay(inHand, buffer, mark, latest, sent)
                              /\ Handed(drain, returned, mark, latest)
  BY DEF FeedInv
<1>2. buffer \in Seq(Message) /\ (inHand.step = "none" \/ inHand \in Message)
  BY <1>1 DEF OnTheWay, InOrder
<1>3. /\ \A s \in Symbols : returned[s] \in Seq(Nat)
      /\ drain.busy => drain.symbol \in Symbols /\ drain.trades \in Seq(Nat)
  BY <1>1 DEF Handed, TakenFor, Rising
<1> QED BY <1>2, <1>3, LenProperties DEF FeedInv, FeedTypes

LEMMA RoomyStep ==
  ASSUME FeedAssumption, FeedInv, Roomy, [FeedNext]_feedVars
  PROVE  Roomy'
<1>1. BufferSize \in Nat /\ buffer \in Seq(Message) /\ Len(buffer) \in Nat
      /\ (inHand.step = "none" \/ inHand \in Message)
  BY FeedFacts DEF FeedAssumption
<1>2. CASE UNCHANGED <<buffer, inHand>>
  BY <1>2 DEF Roomy
<1>3. ASSUME NEW s \in Symbols, NEW trade \in BOOLEAN, Receive(s, trade) PROVE Roomy'
  BY <1>3 DEF Receive, Roomy
<1>4. CASE Put
  <2>1. inHand \in Message
    BY <1>1, <1>4 DEF Put
  <2>2. CASE Len(buffer) < BufferSize
    BY <1>1, <1>4, <2>1, <2>2, AppendProperties DEF Put, Roomy, Nothing
  <2>3. CASE ~(Len(buffer) < BufferSize)
    <3>1. inHand'.step = "full" /\ buffer' = buffer
      BY <1>4, <2>1, <2>3 DEF Put, Message
    <3> QED BY <3>1 DEF Roomy
  <2> QED BY <2>2, <2>3
<1>5. CASE MakeSpace
  <2>1. CASE buffer = <<>>
    BY <1>5, <2>1 DEF MakeSpace, Roomy, Nothing
  <2>2. CASE buffer # <<>>
    <3>1. Len(Tail(buffer)) = Len(buffer) - 1
      BY <1>1, <2>2, HeadTailProperties
    <3> QED BY <1>1, <1>5, <2>2, <3>1 DEF MakeSpace, Roomy
  <2> QED BY <2>1, <2>2
<1>6. CASE PutAgain
  <2>1. inHand \in Message
    BY <1>1, <1>6 DEF PutAgain
  <2> QED BY <1>1, <1>6, <2>1, AppendProperties DEF PutAgain, Roomy, Nothing
<1>7. CASE TakeOne
  <2>1. buffer # <<>> /\ buffer' = Tail(buffer) /\ inHand' = inHand
    BY <1>7 DEF TakeOne, Taken
  <2>2. Len(Tail(buffer)) = Len(buffer) - 1
    BY <1>1, <2>1, HeadTailProperties
  <2> QED BY <1>1, <2>1, <2>2 DEF Roomy
<1>8. CASE UNCHANGED dataVars
  BY <1>2, <1>8 DEF dataVars
<1>9. CASE UNCHANGED feedVars
  BY <1>2, <1>9 DEF feedVars
<1> QED BY <1>2, <1>3, <1>4, <1>5, <1>6, <1>7, <1>8, <1>9
       DEF FeedNext, Connect, RunForever, Wakes, Breaks, Disconnect, Missed, BeginDrain, EndDrain

\* What was handed over counts the trades of the drain under way.
LEMMA HandedStays ==
  ASSUME UNCHANGED <<drain, returned>>
  PROVE  HandedOver' = HandedOver
BY DEF HandedOver

LEMMA DrainKeepsHanded ==
  ASSUME FeedInv, EndDrain \/ \E s \in Symbols : BeginDrain(s)
  PROVE  HandedOver' = HandedOver
<1>1. /\ DOMAIN returned = Symbols /\ \A s \in Symbols : returned[s] \in Seq(Nat)
      /\ drain.busy => drain.symbol \in Symbols /\ drain.trades \in Seq(Nat)
  BY FeedFacts
<1>2. CASE EndDrain
  <2>1. /\ drain.busy /\ ~drain'.busy
        /\ returned' = [returned EXCEPT ![drain.symbol] = @ \o drain.trades]
    BY <1>2 DEF EndDrain, NoDrain
  <2>2. ASSUME NEW s \in Symbols
        PROVE  HandedOver'[s] = HandedOver[s]
    <3>1. HandedOver'[s] = returned'[s] \o <<>>
      BY <2>1 DEF HandedOver
    <3>2. CASE s = drain.symbol
      <4>1. returned'[s] = returned[s] \o drain.trades /\ returned'[s] \in Seq(Nat)
        BY <1>1, <2>1, <3>2, ConcatProperties
      <4>2. returned'[s] \o <<>> = returned'[s]
        BY <4>1, ConcatEmptySeq
      <4>3. HandedOver[s] = returned[s] \o drain.trades
        BY <2>1, <3>2 DEF HandedOver
      <4> QED BY <3>1, <4>1, <4>2, <4>3
    <3>3. CASE s # drain.symbol
      <4>1. returned'[s] = returned[s]
        BY <1>1, <2>1, <3>3
      <4>2. HandedOver[s] = returned[s] \o <<>>
        BY <3>3 DEF HandedOver
      <4> QED BY <3>1, <4>1, <4>2
    <3> QED BY <3>2, <3>3
  <2> QED BY <2>2 DEF HandedOver
<1>3. ASSUME NEW u \in Symbols, BeginDrain(u) PROVE HandedOver' = HandedOver
  <2>1. ~drain.busy /\ drain'.trades = <<>> /\ returned' = returned
    BY <1>3 DEF BeginDrain
  <2>2. ASSUME NEW s \in Symbols PROVE HandedOver'[s] = HandedOver[s]
    BY <2>1 DEF HandedOver
  <2> QED BY <2>2 DEF HandedOver
<1> QED BY <1>2, <1>3

LEMMA TakeHands ==
  ASSUME FeedInv, TakeOne
  PROVE  LET m == Bare(Head(buffer))
         IN  HandedOver' = IF m.trade /\ m.symbol = drain.symbol
                           THEN [HandedOver EXCEPT ![drain.symbol] = Append(@, m.n)]
                           ELSE HandedOver
<1> DEFINE m == Bare(Head(buffer))
           t == drain.symbol
<1>1. /\ DOMAIN returned = Symbols /\ \A s \in Symbols : returned[s] \in Seq(Nat)
      /\ drain.busy /\ t \in Symbols /\ drain.trades \in Seq(Nat)
      /\ DOMAIN drain = {"busy", "symbol", "trades"}
      /\ buffer \in Seq(Message) /\ buffer # <<>>
  BY FeedFacts DEF TakeOne
<1>2. Head(buffer) \in Message
  BY <1>1, HeadTailProperties
<1>3. /\ m.n \in Nat /\ m.n = Head(buffer).n /\ m.trade = Head(buffer).trade
      /\ m.symbol = Head(buffer).symbol
  BY <1>2 DEF Bare, Message
<1>4. returned' = returned
      /\ drain' = IF m.trade /\ m.symbol = t
                  THEN [drain EXCEPT !.trades = Append(@, m.n)] ELSE drain
  BY <1>3 DEF TakeOne, Taken
<1> HIDE DEF m
<1>5. CASE ~(m.trade /\ m.symbol = t)
  BY <1>4, <1>5, HandedStays DEF m
<1>6. CASE m.trade /\ m.symbol = t
  <2>1. drain'.busy /\ drain'.symbol = t /\ drain'.trades = Append(drain.trades, m.n)
    BY <1>1, <1>4, <1>6
  <2>2. HandedOver[t] = returned[t] \o drain.trades
        /\ HandedOver'[t] = returned[t] \o Append(drain.trades, m.n)
    BY <1>1, <1>4, <2>1 DEF HandedOver
  <2>3. returned[t] \o Append(drain.trades, m.n) = Append(returned[t] \o drain.trades, m.n)
    <3>1. /\ <<m.n>> \in Seq(Nat) /\ returned[t] \in Seq(Nat)
          /\ returned[t] \o drain.trades \in Seq(Nat)
      BY <1>1, <1>3, ConcatProperties DEF m
    <3>2. Append(drain.trades, m.n) = drain.trades \o <<m.n>>
      BY <1>1, <1>3, AppendIsConcat DEF m
    <3>3. Append(returned[t] \o drain.trades, m.n) = (returned[t] \o drain.trades) \o <<m.n>>
      BY <1>3, <3>1, AppendIsConcat DEF m
    <3> QED BY <1>1, <3>1, <3>2, <3>3, ConcatAssociative
  <2>4. \A s \in Symbols : s # t => HandedOver'[s] = HandedOver[s]
    BY <1>1, <1>4, <2>1 DEF HandedOver
  <2>5. HandedOver'[t] = Append(HandedOver[t], m.n)
    BY <2>2, <2>3
  <2>6. /\ HandedOver = [s \in Symbols |-> HandedOver[s]]
        /\ HandedOver' = [s \in Symbols |-> HandedOver'[s]]
    BY DEF HandedOver
  <2>7. HandedOver' = [HandedOver EXCEPT ![t] = Append(@, m.n)]
    BY <1>1, <2>4, <2>5, <2>6
  <2> QED BY <1>6, <2>7 DEF m
<1> QED BY <1>5, <1>6

LEMMA FeedRefines ==
  ASSUME FeedAssumption, FeedInv, Roomy, [FeedNext]_feedVars
  PROVE  [Ticks!TickNext]_<<sent, Line(buffer, inHand), inHand.step = "full", HandedOver>>
<1> DEFINE line == Line(buffer, inHand)
           owed == inHand.step = "full"
           abstract == <<sent, line, owed, HandedOver>>
<1>1. /\ BufferSize \in Nat /\ buffer \in Seq(Message) /\ Len(buffer) \in Nat /\ sent \in Nat
      /\ (inHand.step = "none" \/ inHand \in Message)
  BY FeedFacts DEF FeedAssumption
<1>2. CASE UNCHANGED <<sent, inHand, buffer, drain, returned>>
  BY <1>2, HandedStays
<1>3. ASSUME NEW s \in Symbols, NEW trade \in BOOLEAN, Receive(s, trade) PROVE Ticks!Sent
  <2>1. /\ inHand.step = "none" /\ sent' = sent + 1 /\ buffer' = buffer
        /\ inHand' = [step |-> "put", n |-> sent + 1, symbol |-> s, trade |-> trade]
        /\ UNCHANGED <<drain, returned>>
    BY <1>3 DEF Receive
  <2>2. inHand' \in Message /\ inHand'.step = "put"
        /\ Bare(inHand') = [n |-> sent', symbol |-> s, trade |-> trade]
    BY <1>1, <2>1 DEF Message, Bare
  <2>3. line' = Append(line, Bare(inHand'))
    BY <1>1, <2>1, <2>2, JoinsLine
  <2>4. Len(line) <= BufferSize /\ ~owed /\ ~owed'
    BY <1>1, <2>1, <2>2, LineOf DEF Roomy
  <2> HIDE DEF line
  <2> QED BY <2>1, <2>2, <2>3, <2>4, HandedStays DEF Ticks!Sent, line
<1>4. CASE Missed
  <2>1. sent' = sent + 1 /\ UNCHANGED <<inHand, buffer, drain, returned>>
    BY <1>4 DEF Missed
  <2>2. UNCHANGED Line(buffer, inHand) /\ UNCHANGED <<(inHand.step = "full"), HandedOver>>
    BY <2>1, HandedStays
  <2> QED BY <2>1, <2>2 DEF Ticks!Sent, Ticks!TickNext
<1>5. CASE Put
  <2>1. inHand \in Message /\ inHand.step = "put" /\ UNCHANGED <<sent, drain, returned>>
    BY <1>1, <1>5 DEF Put
  <2>2. CASE Len(buffer) < BufferSize
    <3>1. buffer' = Append(buffer, inHand) /\ inHand' = Nothing /\ inHand'.step = "none"
      BY <1>5, <2>2 DEF Put, Nothing
    <3>2. line' = line
      BY <1>1, <2>1, <3>1, PutKeepsLine
    <3>3. owed' = owed
      BY <2>1, <3>1
    <3> QED BY <2>1, <3>2, <3>3, HandedStays
  <2>3. CASE ~(Len(buffer) < BufferSize)
    <3>1. /\ inHand' = [inHand EXCEPT !.step = "full"] /\ buffer' = buffer
          /\ inHand'.step = "full" /\ Bare(inHand') = Bare(inHand)
      BY <1>5, <2>1, <2>3 DEF Put, Message, Bare
    <3>2. line' = line
      BY <2>1, <3>1, HandKeepsLine
    <3>3. Len(line) = BufferSize + 1
      <4>1. Len(line) = Len(buffer) + 1
        BY <1>1, <2>1, LineOf
      <4> QED BY <1>1, <2>3, <4>1 DEF Roomy
    <3>4. ~owed /\ owed' = TRUE
      BY <2>1, <3>1
    <3> HIDE DEF line
    <3> QED BY <2>1, <3>2, <3>3, <3>4, HandedStays DEF Ticks!TickNext, Ticks!Overflow, line
  <2> QED BY <2>2, <2>3
<1>6. CASE MakeSpace
  <2>1. inHand \in Message /\ owed /\ UNCHANGED <<sent, drain, returned>>
    BY <1>1, <1>6 DEF MakeSpace
  <2>2. line # <<>> /\ line' = Tail(line) /\ ~owed'
    <3>1. CASE buffer = <<>>
      <4>1. inHand' = Nothing /\ inHand'.step = "none" /\ buffer' = buffer
        BY <1>6, <3>1 DEF MakeSpace, Nothing
      <4> QED BY <1>1, <2>1, <3>1, <4>1, LosesLine
    <3>2. CASE buffer # <<>>
      <4>1. /\ inHand' = [inHand EXCEPT !.step = "again"] /\ buffer' = Tail(buffer)
            /\ inHand'.step = "again" /\ Bare(inHand') = Bare(inHand)
        BY <1>6, <2>1, <3>2 DEF MakeSpace, Message, Bare
      <4>2. line # <<>> /\ Line(Tail(buffer), inHand) = Tail(line)
        BY <1>1, <3>2, TakeFromLine
      <4>3. line' = Line(Tail(buffer), inHand)
        BY <2>1, <4>1, HandKeepsLine
      <4> QED BY <4>1, <4>2, <4>3
    <3> QED BY <3>1, <3>2
  <2> HIDE DEF line
  <2> QED BY <2>1, <2>2, HandedStays DEF Ticks!TickNext, Ticks!GiveUp, line
<1>7. CASE PutAgain
  <2>1. /\ inHand \in Message /\ inHand.step = "again" /\ UNCHANGED <<sent, drain, returned>>
        /\ buffer' = Append(buffer, inHand) /\ inHand'.step = "none"
    BY <1>1, <1>7 DEF PutAgain, Nothing
  <2>2. line' = line
    BY <1>1, <2>1, PutKeepsLine
  <2>3. owed' = owed
    BY <2>1
  <2> QED BY <2>1, <2>2, <2>3, HandedStays
<1>8. CASE TakeOne
  <2>1. /\ buffer # <<>> /\ buffer' = Tail(buffer) /\ UNCHANGED <<sent, inHand>>
        /\ drain.busy /\ drain.symbol \in Symbols
    BY <1>8, FeedFacts DEF TakeOne, Taken
  <2>2. line # <<>> /\ line' = Tail(line) /\ Head(line) = Bare(Head(buffer))
    BY <1>1, <2>1, TakeFromLine
  <2>3. HandedOver' = IF Head(line).trade /\ Head(line).symbol = drain.symbol
                      THEN [HandedOver EXCEPT ![drain.symbol] = Append(@, Head(line).n)]
                      ELSE HandedOver
    BY <1>8, <2>2, TakeHands
  <2>4. owed' = owed
    BY <2>1
  <2> HIDE DEF line
  <2>5. Ticks!TakeFor(drain.symbol)
    BY <2>1, <2>2, <2>3, <2>4 DEF Ticks!TakeFor, line
  <2> QED BY <2>1, <2>5 DEF Ticks!TickNext
<1>9. CASE EndDrain \/ \E s \in Symbols : BeginDrain(s)
  <2>1. UNCHANGED <<sent, inHand, buffer>>
    BY <1>9 DEF EndDrain, BeginDrain
  <2> QED BY <1>9, <2>1, DrainKeepsHanded
<1>10. CASE UNCHANGED dataVars
  BY <1>2, <1>10 DEF dataVars
<1>11. CASE UNCHANGED feedVars
  BY <1>2, <1>11 DEF feedVars
<1> QED
  <2> HIDE DEF abstract
  <2>1. ASSUME NEW s \in Symbols, NEW trade \in BOOLEAN, Receive(s, trade)
        PROVE  [Ticks!TickNext]_abstract
    BY <1>3, <2>1 DEF Ticks!TickNext
  <2>2. CASE Missed
    BY <1>4, <2>2
  <2>3. CASE FeedNext
    BY <1>5, <1>6, <1>7, <1>8, <1>9, <1>10, <2>1, <2>2, <2>3
       DEF FeedNext, Connect, RunForever, Wakes, Breaks, Disconnect, abstract
  <2> QED BY <1>11, <2>3 DEF abstract

\* Whatever the size of the queue, the threads and the reconnects, the feed is a
\* queue that gives up its oldest message for each one too many and no other, and
\* the caller is handed what is left of the stream, each trade once.
THEOREM GivesUpOldestHolds == FeedSpec => GivesUpOldest
<1>1. FeedInit => FeedInv /\ Roomy /\ Ticks!TickInit
  <2> SUFFICES ASSUME FeedInit PROVE FeedInv /\ Roomy /\ Ticks!TickInit
    OBVIOUS
  <2>1. Roomy
    BY FeedAssumption DEF FeedInit, Roomy, Nothing, FeedAssumption
  <2>2. Line(buffer, inHand) = <<>>
    <3>1. buffer \in Seq(Message) /\ inHand.step = "none" /\ Len(buffer) = 0
      BY FeedInitInv, FeedFacts DEF FeedInit, Nothing
    <3>2. Line(buffer, inHand) \in Seq(BareMessage) /\ Len(Line(buffer, inHand)) = 0
      BY <3>1, LineOf
    <3> QED BY <3>2, EmptySeq
  <2>3. HandedOver = [s \in Symbols |-> <<>>]
    <3>1. \A s \in Symbols : returned[s] \o <<>> = <<>>
      BY DEF FeedInit
    <3> QED BY <3>1 DEF FeedInit, HandedOver, NoDrain
  <2> QED BY <2>1, <2>2, <2>3, FeedInitInv DEF FeedInit, Ticks!TickInit, Nothing
<1>2. FeedInv /\ Roomy /\ [FeedNext]_feedVars => FeedInv' /\ Roomy'
  BY FeedStepInv, RoomyStep, FeedAssumption
<1>3. FeedInv /\ Roomy /\ [FeedNext]_feedVars
        => [Ticks!TickNext]_<<sent, Line(buffer, inHand), inHand.step = "full", HandedOver>>
  BY FeedRefines, FeedAssumption
<1> QED BY <1>1, <1>2, <1>3, PTL DEF FeedSpec, GivesUpOldest, Ticks!TickSpec

(***************************************************************************)
(* MetricCache                                                             *)
(***************************************************************************)

Entry == [key : Range(Metrics), usable : BOOLEAN, left : Nat]

\* What the second part of CacheKeepsTheRecent says of an earlier and a later entry.
UsedBefore(x, y, r) == x # y /\ <<x, y>> \in r /\ <<y, x>> \notin r
LeastRecentFirst(s, r) == \A i, j \in DOMAIN s : i < j => UsedBefore(s[i].key, s[j].key, r)

MetricInv ==
    /\ store \in Seq(Entry) /\ Len(store) <= MaxEntries
    /\ user \in [Users -> [todo : Seq(Range(Metrics)), waits : BOOLEAN]]
    /\ \A u \in Users : user[u].waits => user[u].todo # <<>>
    /\ LeastRecentFirst(store, recent)

-----------------------------------------------------------------------------
(* The parts of a step.                                                    *)

\* Without an entry of the key k the others are still in order.
LEMMA WithoutType ==
  ASSUME NEW s \in Seq(Entry), NEW k, NEW r, LeastRecentFirst(s, r)
  PROVE  /\ Without(s, k) \in Seq(Entry) /\ LeastRecentFirst(Without(s, k), r)
         /\ \A i \in DOMAIN Without(s, k) : Without(s, k)[i].key # k
         /\ Len(Without(s, k)) \in Nat /\ Len(Without(s, k)) <= Len(s)
         /\ (\E e \in Range(s) : e.key = k) => Len(Without(s, k)) < Len(s)
<1> DEFINE where == {i \in DOMAIN s : s[i].key # k}
           T == {e \in Entry : e.key # k}
           R == {p \in Entry \X Entry : UsedBefore(p[1].key, p[2].key, r)}
           w == Picked(s, where)
<1>1. DOMAIN s = 1 .. Len(s) /\ \A i \in DOMAIN s : s[i] \in Entry
  BY LenProperties, ElementOfSeq
<1>2. w \in Seq(T)
  <2>1. \A i \in DOMAIN s : i \in where => s[i] \in T
    BY <1>1
  <2> HIDE DEF where, T
  <2> QED BY <2>1, PickedType
<1>3. \A i, j \in DOMAIN w : i < j => <<w[i], w[j]>> \in R
  <2>1. \A i, j \in DOMAIN s : i < j /\ i \in where /\ j \in where => <<s[i], s[j]>> \in R
    BY <1>1 DEF LeastRecentFirst
  <2> HIDE DEF where, R
  <2> QED BY <2>1, PickedOrder
<1>4. /\ Len(w) \in Nat /\ Len(w) <= Len(s)
      /\ \A j \in DOMAIN s : j \notin where => Len(w) < Len(s)
  <2> HIDE DEF where
  <2> QED BY PickedLength
<1>5. (\E e \in Range(s) : e.key = k) => Len(w) < Len(s)
  <2>1. ASSUME NEW e \in Range(s), e.key = k PROVE \E j \in DOMAIN s : j \notin where
    BY <2>1 DEF Range
  <2> QED BY <1>4, <2>1
<1>6. w = Without(s, k)
  BY DEF Without
<1> HIDE DEF w
<1>7. DOMAIN w = 1 .. Len(w) /\ \A i \in DOMAIN w : w[i] \in T
  <2> HIDE DEF T
  <2> QED BY <1>2, LenProperties, ElementOfSeq
<1>8. w \in Seq(Entry)
  BY <1>4, <1>2, <1>7, IsASeq, LenProperties
<1>9. LeastRecentFirst(w, r)
  BY <1>3 DEF LeastRecentFirst
<1> QED BY <1>4, <1>5, <1>6, <1>7, <1>8, <1>9

\* The entry of the key used last goes to the end.
LEMMA UsedLast ==
  ASSUME NEW s \in Seq(Entry), NEW k \in Range(Metrics), LeastRecentFirst(s, recent),
         \A i \in DOMAIN s : s[i].key # k, NEW e \in Entry, e.key = k
  PROVE  Append(s, e) \in Seq(Entry) /\ LeastRecentFirst(Append(s, e), Touched(k))
         /\ Len(Append(s, e)) = Len(s) + 1
<1> DEFINE a == Append(s, e)
<1>1. /\ a \in Seq(Entry) /\ Len(s) \in Nat /\ DOMAIN s = 1 .. Len(s)
      /\ Len(a) = Len(s) + 1 /\ DOMAIN a = 1 .. Len(s) + 1
      /\ \A i \in 1 .. Len(s) : a[i] = s[i] /\ s[i] \in Entry
      /\ a[Len(s) + 1] = e
  BY AppendProperties, LenProperties, ElementOfSeq
<1> HIDE DEF a
<1>2. \A x, y \in Range(Metrics) : x # k /\ y # k /\ UsedBefore(x, y, recent) => UsedBefore(x, y, Touched(k))
  BY DEF UsedBefore, Touched
<1>3. \A x \in Range(Metrics) : x # k => UsedBefore(x, k, Touched(k))
  BY DEF UsedBefore, Touched
<1>4. ASSUME NEW i \in DOMAIN a, NEW j \in DOMAIN a, i < j
      PROVE  UsedBefore(a[i].key, a[j].key, Touched(k))
  <2>1. i \in DOMAIN s /\ a[i] = s[i] /\ s[i].key \in Range(Metrics) /\ s[i].key # k
    BY <1>1, <1>4 DEF Entry
  <2>2. CASE j \in DOMAIN s
    <3>1. a[j] = s[j] /\ s[j].key \in Range(Metrics) /\ s[j].key # k
      BY <1>1, <2>2 DEF Entry
    <3>2. UsedBefore(s[i].key, s[j].key, recent)
      BY <1>4, <2>1, <2>2 DEF LeastRecentFirst
    <3> QED BY <1>2, <2>1, <3>1, <3>2
  <2>3. CASE j \notin DOMAIN s
    <3>1. a[j] = e
      BY <1>1, <2>3
    <3> QED BY <1>3, <2>1, <3>1
  <2> QED BY <2>2, <2>3
<1>5. LeastRecentFirst(a, Touched(k))
  BY <1>4 DEF LeastRecentFirst
<1> QED BY <1>1, <1>5 DEF a

LEMMA NextKeyType ==
  ASSUME NEW u \in Users, NextKey(u), user[u].todo # <<>>,
         user \in [Users -> [todo : Seq(Range(Metrics)), waits : BOOLEAN]],
         \A v \in Users : user[v].waits => user[v].todo # <<>>
  PROVE  /\ user' \in [Users -> [todo : Seq(Range(Metrics)), waits : BOOLEAN]]
         /\ \A v \in Users : user'[v].waits => user'[v].todo # <<>>
<1>1. Tail(user[u].todo) \in Seq(Range(Metrics))
  BY HeadTailProperties
<1>2. user' = [user EXCEPT ![u] = [todo |-> Tail(user[u].todo), waits |-> FALSE]]
  BY DEF NextKey
<1> QED BY <1>1, <1>2

-----------------------------------------------------------------------------
(* The steps.                                                              *)

LEMMA MetricInitInv == ASSUME CacheAssumption, MetricInit PROVE MetricInv
<1>1. <<>> \in Seq(Entry) /\ <<>> \in Seq(Range(Metrics)) /\ Len(<<>>) = 0 /\ LeastRecentFirst(<<>>, recent)
  BY EmptySeq DEF LeastRecentFirst
<1> QED BY <1>1 DEF MetricInit, MetricInv, CacheAssumption

LEMMA CallStep ==
  ASSUME CacheAssumption, MetricInv, NEW u \in Users, Call(u)
  PROVE  MetricInv'
<1>1. PICK todo \in {Metrics} \cup {<<k>> : k \in Range(Metrics)} : user' = [user EXCEPT ![u].todo = todo]
  BY DEF Call
<1>2. todo \in Seq(Range(Metrics))
  <2>1. \A k \in Range(Metrics) : <<k>> \in Seq(Range(Metrics))
    OBVIOUS
  <2> QED BY <2>1 DEF CacheAssumption
<1>3. ~user[u].waits /\ UNCHANGED <<store, recent>>
  BY DEF Call, MetricInv
<1>4. /\ user' \in [Users -> [todo : Seq(Range(Metrics)), waits : BOOLEAN]]
      /\ \A v \in Users : user'[v].waits => user'[v].todo # <<>>
  BY <1>1, <1>2, <1>3 DEF MetricInv
<1> QED BY <1>3, <1>4 DEF MetricInv

LEMMA GetStep ==
  ASSUME MetricInv, NEW u \in Users, Get(u)
  PROVE  MetricInv'
<1> DEFINE k == Head(user[u].todo)
<1>1. user[u].todo \in Seq(Range(Metrics)) /\ user[u].todo # <<>>
  BY DEF Get, MetricInv
<1>2. k \in Range(Metrics)
  BY <1>1, HeadTailProperties
<1> HIDE DEF k
<1>3. /\ Without(store, k) \in Seq(Entry) /\ LeastRecentFirst(Without(store, k), recent)
      /\ \A i \in DOMAIN Without(store, k) : Without(store, k)[i].key # k
      /\ Len(Without(store, k)) \in Nat /\ Len(Without(store, k)) <= Len(store)
      /\ (\E e \in Range(store) : e.key = k) => Len(Without(store, k)) < Len(store)
  BY WithoutType DEF MetricInv
<1>4. Len(store) \in Nat /\ Len(store) <= MaxEntries
  BY LenProperties DEF MetricInv
<1>5. ASSUME NEW e \in Find(k), store' = Append(Without(store, k), e), recent' = Touched(k), NextKey(u)
      PROVE  MetricInv'
  <2>1. e \in Entry /\ e.key = k /\ e \in Range(store)
    BY ElementOfSeq, LenProperties DEF Find, Range, MetricInv
  <2>2. /\ store' \in Seq(Entry) /\ LeastRecentFirst(store', Touched(k))
        /\ Len(store') = Len(Without(store, k)) + 1
    BY <1>2, <1>3, <1>5, <2>1, UsedLast
  <2>3. Len(store') <= MaxEntries
    BY <1>3, <1>4, <2>1, <2>2, CacheAssumption DEF CacheAssumption
  <2> QED BY <1>1, <1>5, <2>2, <2>3, NextKeyType DEF MetricInv
<1>6. ASSUME store' = Without(store, k), user' = [user EXCEPT ![u].waits = TRUE], recent' = recent
      PROVE  MetricInv'
  <2>1. Len(store') <= MaxEntries
    BY <1>3, <1>4, <1>6, CacheAssumption DEF CacheAssumption
  <2>2. /\ user' \in [Users -> [todo : Seq(Range(Metrics)), waits : BOOLEAN]]
        /\ \A v \in Users : user'[v].waits => user'[v].todo # <<>>
    BY <1>1, <1>6 DEF MetricInv
  <2> QED BY <1>3, <1>6, <2>1, <2>2 DEF MetricInv
<1> QED BY <1>5, <1>6 DEF Get, k

LEMMA AnswerFailsStep ==
  ASSUME MetricInv, NEW u \in Users, AnswerFails(u)
  PROVE  MetricInv'
<1>1. user[u].todo # <<>> /\ NextKey(u) /\ UNCHANGED <<store, recent>>
  BY DEF AnswerFails, MetricInv
<1> QED BY <1>1, NextKeyType DEF MetricInv

LEMMA AnswerStep ==
  ASSUME CacheAssumption, MetricInv, NEW u \in Users, NEW usable \in BOOLEAN, Answer(u, usable)
  PROVE  MetricInv'
<1> DEFINE k == Head(user[u].todo)
           e == [key |-> k, usable |-> usable, left |-> Ttl]
           room == IF Len(store) >= MaxEntries /\ Find(k) = {} THEN Tail(store) ELSE store
<1>1. user[u].todo \in Seq(Range(Metrics)) /\ user[u].todo # <<>> /\ NextKey(u)
  BY DEF Answer, MetricInv
<1>2. k \in Range(Metrics)
  BY <1>1, HeadTailProperties
<1>3. e \in Entry /\ e.key = k
  BY <1>2 DEF Entry, CacheAssumption
<1>4. store' = Append(Without(room, k), e) /\ recent' = Touched(k)
  BY <1>3 DEF Answer, SetEntry
<1> HIDE DEF k, e
<1>5. /\ store \in Seq(Entry) /\ LeastRecentFirst(store, recent) /\ Len(store) \in Nat
      /\ Len(store) <= MaxEntries /\ MaxEntries \in Nat \ {0}
  BY LenProperties DEF MetricInv, CacheAssumption
<1>6. /\ room \in Seq(Entry) /\ LeastRecentFirst(room, recent)
      /\ Len(Without(room, k)) \in Nat /\ Len(Without(room, k)) < MaxEntries
  <2>1. CASE Len(store) >= MaxEntries /\ Find(k) = {}
    <3>1. store # <<>>
      BY <1>5, <2>1, EmptySeq
    <3>2. /\ room \in Seq(Entry) /\ Len(room) = Len(store) - 1
          /\ \A i \in 1 .. Len(room) : room[i] = store[i + 1]
      BY <1>5, <2>1, <3>1, HeadTailProperties
    <3> HIDE DEF room
    <3>3. DOMAIN room = 1 .. Len(room) /\ DOMAIN store = 1 .. Len(store)
      BY <1>5, <3>2, LenProperties
    <3>4. LeastRecentFirst(room, recent)
      <4> SUFFICES ASSUME NEW i \in DOMAIN room, NEW j \in DOMAIN room, i < j
                   PROVE  UsedBefore(room[i].key, room[j].key, recent)
        BY DEF LeastRecentFirst
      <4>1. i + 1 \in DOMAIN store /\ j + 1 \in DOMAIN store /\ i + 1 < j + 1
        BY <1>5, <3>2, <3>3
      <4>2. room[i] = store[i + 1] /\ room[j] = store[j + 1]
        BY <3>2, <3>3
      <4> QED BY <1>5, <4>1, <4>2 DEF LeastRecentFirst
    <3>5. Len(Without(room, k)) \in Nat /\ Len(Without(room, k)) <= Len(room)
      BY <3>2, <3>4, WithoutType
    <3> QED BY <1>5, <3>2, <3>4, <3>5
  <2>2. CASE Len(store) < MaxEntries
    <3>1. room = store
      BY <1>5, <2>2
    <3>2. Len(Without(store, k)) \in Nat /\ Len(Without(store, k)) <= Len(store)
      BY <1>5, WithoutType
    <3> QED BY <1>5, <2>2, <3>1, <3>2
  <2>3. CASE Find(k) # {}
    <3>1. room = store
      BY <2>3
    <3>2. \E x \in Range(store) : x.key = k
      BY <2>3 DEF Find
    <3>3. Len(Without(store, k)) \in Nat /\ Len(Without(store, k)) < Len(store)
      BY <1>5, <3>2, WithoutType
    <3> QED BY <1>5, <3>1, <3>3
  <2> QED BY <1>5, <2>1, <2>2, <2>3
<1> HIDE DEF room
<1>7. /\ Without(room, k) \in Seq(Entry) /\ LeastRecentFirst(Without(room, k), recent)
      /\ \A i \in DOMAIN Without(room, k) : Without(room, k)[i].key # k
  BY <1>6, WithoutType
<1>8. /\ store' \in Seq(Entry) /\ LeastRecentFirst(store', recent') /\ Len(store') = Len(Without(room, k)) + 1
  BY <1>2, <1>3, <1>4, <1>7, UsedLast
<1>9. Len(store') <= MaxEntries
  BY <1>5, <1>6, <1>8
<1> QED BY <1>1, <1>8, <1>9, NextKeyType DEF MetricInv

LEMMA SecondPassesStep ==
  ASSUME MetricInv, SecondPasses
  PROVE  MetricInv'
<1>1. /\ store' = [i \in 1 .. Len(store) |->
                    [store[i] EXCEPT !.left = IF store[i].left > 0 THEN store[i].left - 1 ELSE 0]]
      /\ UNCHANGED <<user, recent>>
  BY DEF SecondPasses
<1>2. /\ Len(store) \in Nat /\ DOMAIN store = 1 .. Len(store)
      /\ \A i \in 1 .. Len(store) : store[i] \in Entry
  BY LenProperties, ElementOfSeq DEF MetricInv
<1>3. DOMAIN store' = 1 .. Len(store)
      /\ \A i \in 1 .. Len(store) : store'[i] \in Entry /\ store'[i].key = store[i].key
  BY <1>1, <1>2 DEF Entry
<1>4. store' \in [1 .. Len(store) -> Entry]
  BY <1>1, <1>3
<1>5. store' \in Seq(Entry) /\ Len(store') = Len(store)
  BY <1>2, <1>4, IsASeq, LenProperties
<1>6. LeastRecentFirst(store', recent)
  BY <1>2, <1>3 DEF MetricInv, LeastRecentFirst
<1> QED BY <1>1, <1>5, <1>6 DEF MetricInv

LEMMA MetricStepInv ==
  ASSUME CacheAssumption, MetricInv, [MetricNext]_metricVars
  PROVE  MetricInv'
<1>1. CASE MetricNext
  BY <1>1, CallStep, GetStep, AnswerFailsStep, AnswerStep, SecondPassesStep DEF MetricNext
<1>2. CASE UNCHANGED metricVars
  BY <1>2 DEF metricVars, MetricInv
<1> QED BY <1>1, <1>2

\* For any number of threads, any lists of metrics and any size of the cache, an
\* entry's key is in glassnode.py's cache once, and the entries lie in the
\* order of last use: set of a key fetched twice at once evicts what was used
\* least recently.
THEOREM CacheKeepsTheRecentHolds == MetricSpec => []CacheKeepsTheRecent
<1>1. MetricInit => MetricInv
  BY MetricInitInv, CacheAssumption
<1>2. MetricInv /\ [MetricNext]_metricVars => MetricInv'
  BY MetricStepInv, CacheAssumption
<1>3. MetricInv => CacheKeepsTheRecent
  BY DEF MetricInv, LeastRecentFirst, UsedBefore, CacheKeepsTheRecent
<1> QED BY <1>1, <1>2, <1>3, PTL DEF MetricSpec

(***************************************************************************)
(* Signals                                                                 *)
(***************************************************************************)

Event == [of : Nat, by : Workers, type : {"bid_imbalance", "ask_imbalance", "spread_widening"},
          severity : {"critical", "high", "medium", "low"}]

\* What a worker sees of a book, and what it makes of that.
View(by, b) == IF by = "depth" THEN DepthImbalance(b) ELSE SnapshotImbalance(b)
IsOpinion(e, i) ==
    \/ AtLeast(i, 1, 4) /\ e.type = "bid_imbalance" /\ e.severity = Severity(e.by, i)
    \/ /\ ~AtLeast(i, 1, 4) /\ AtLeast(Opposite(i), 1, 4)
       /\ e.type = "ask_imbalance" /\ e.severity = Severity(e.by, Opposite(i))

\* An announcement is what its worker makes of the book it is about.
Genuine(e, bs) ==
    /\ e \in Event /\ e.of \in 1 .. Len(bs)
    /\ e.type = "spread_widening" \/ IsOpinion(e, View(e.by, bs[e.of]))

OnImbalance(e, n, w) == e.of = n /\ e.by = w /\ e.type # "spread_widening"

\* The announcements so far are genuine, and on the imbalance of a book a worker
\* made at most one.
Sound(q, bs) ==
    /\ q \in Seq(Event)
    /\ \A i \in DOMAIN q : Genuine(q[i], bs)
    /\ \A i, j \in DOMAIN q : OnImbalance(q[i], q[j].of, q[j].by) /\ q[j].type # "spread_widening" => i = j

Silent(q, n, w) == \A i \in DOMAIN q : ~OnImbalance(q[i], n, w)

\* What is left to announce is of the book of the moment, an imbalance first.
LeftToAnnounce(todo, bs) ==
    /\ todo \in Seq(Event)
    /\ \A i \in DOMAIN todo :
          /\ Genuine(todo[i], bs) /\ todo[i].of = Len(bs) /\ todo[i].by = "snapshot"
          /\ i # 1 => todo[i].type = "spread_widening"

SignalInv ==
    /\ books \in Seq(Books) /\ looking \subseteq Workers
    /\ heard \in Seq(Event) /\ channel \in Seq(Event)
    /\ Sound(heard \o channel, books)
    /\ LeftToAnnounce(announcing, books)
    /\ \A w \in looking : Silent(heard \o channel, Len(books), w)
    /\ announcing # <<>> /\ announcing[1].type # "spread_widening" =>
          Silent(heard \o channel, Len(books), "snapshot")
    /\ announcing # <<>> => "snapshot" \notin looking
    /\ looking # {} => Len(books) > 0

-----------------------------------------------------------------------------
(* Two texts of one rule.                                                  *)

LEMMA ThresholdOrder ==
  ASSUME NEW i, i.total \in Nat, i.surplus \in Int, NEW m \in Nat, NEW n \in Nat, m <= n,
         AtLeast(i, n, 100)
  PROVE  AtLeast(i, m, 100)
<1> DEFINE t == i.total
           s == i.surplus
<1>1. t \in Nat /\ s \in Int /\ t > 0 /\ 100 * s >= n * t
  BY DEF AtLeast
<1> HIDE DEF t, s
<1>2. m * t <= n * t
  <2>1. \A a, b, c \in Nat : a <= b => a * c <= b * c
    OBVIOUS
  <2> QED BY <1>1, <2>1
<1>3. m * t \in Nat /\ n * t \in Nat
  BY <1>1
<1>4. 100 * s >= m * t
  BY <1>1, <1>2, <1>3
<1> QED BY <1>1, <1>4 DEF AtLeast, t, s

\* The class with the highest threshold reached is that of the cascade.
LEMMA SeveritiesAgree ==
  ASSUME NEW i, i.total \in Nat, i.surplus \in Int, AtLeast(i, 1, 4)
  PROVE  /\ DepthSeverity(i) = SnapshotSeverity(i)
         /\ DepthSeverity(i) \in {"critical", "high", "medium", "low"}
<1> DEFINE classes == {<<60, "critical">>, <<45, "high">>, <<35, "medium">>, <<0, "low">>}
           reached == {c \in classes : AtLeast(i, c[1], 100)}
           best == CHOOSE c \in reached : \A d \in reached : c[1] >= d[1]
<1>1. SnapshotSeverity(i) = best[2]
  BY DEF SnapshotSeverity
<1>2. AtLeast(i, 0, 100)
  <2>1. i.total > 0 /\ 4 * i.surplus >= 1 * i.total
    BY DEF AtLeast
  <2>2. 100 * i.surplus >= 0 * i.total
    BY <2>1
  <2> QED BY <2>1, <2>2 DEF AtLeast
<1>3. /\ AtLeast(i, 60, 100) => AtLeast(i, 45, 100)
      /\ AtLeast(i, 45, 100) => AtLeast(i, 35, 100)
  BY ThresholdOrder
<1> HIDE DEF best
<1>4. CASE AtLeast(i, 60, 100)
  <2>1. <<60, "critical">> \in reached /\ \A d \in reached : 60 >= d[1]
    BY <1>4
  <2>2. best \in reached /\ \A d \in reached : best[1] >= d[1]
    <3> HIDE DEF reached
    <3>1. \E c \in reached : \A d \in reached : c[1] >= d[1]
      BY <2>1
    <3> QED BY <3>1 DEF best
  <2>3. best = <<60, "critical">>
    BY <2>1, <2>2
  <2> QED BY <1>1, <1>3, <1>4, <2>3 DEF DepthSeverity
<1>5. CASE ~AtLeast(i, 60, 100) /\ AtLeast(i, 45, 100)
  <2>1. <<45, "high">> \in reached /\ <<60, "critical">> \notin reached
        /\ \A d \in reached : 45 >= d[1]
    BY <1>5
  <2>2. best \in reached /\ \A d \in reached : best[1] >= d[1]
    <3> HIDE DEF reached
    <3>1. \E c \in reached : \A d \in reached : c[1] >= d[1]
      BY <2>1
    <3> QED BY <3>1 DEF best
  <2>3. best = <<45, "high">>
    BY <2>1, <2>2
  <2> QED BY <1>1, <1>3, <1>5, <2>3 DEF DepthSeverity
<1>6. CASE ~AtLeast(i, 45, 100) /\ AtLeast(i, 35, 100)
  <2>1. <<35, "medium">> \in reached /\ <<60, "critical">> \notin reached
        /\ <<45, "high">> \notin reached /\ \A d \in reached : 35 >= d[1]
    BY <1>3, <1>6
  <2>2. best \in reached /\ \A d \in reached : best[1] >= d[1]
    <3> HIDE DEF reached
    <3>1. \E c \in reached : \A d \in reached : c[1] >= d[1]
      BY <2>1
    <3> QED BY <3>1 DEF best
  <2>3. best = <<35, "medium">>
    BY <2>1, <2>2
  <2> QED BY <1>1, <1>3, <1>6, <2>3 DEF DepthSeverity
<1>7. CASE ~AtLeast(i, 35, 100)
  <2>1. reached = {<<0, "low">>}
    BY <1>2, <1>3, <1>7
  <2>2. best = <<0, "low">>
    BY <2>1 DEF best
  <2> QED BY <1>1, <1>3, <1>7, <2>2 DEF DepthSeverity
<1> QED BY <1>3, <1>4, <1>5, <1>6, <1>7

\* The two views of a book are imbalances, and one and the same if it has no
\* deeper levels.
LEMMA ViewTypes ==
  ASSUME NEW b \in Book, NEW w \in Workers
  PROVE  /\ View(w, b).total \in Nat /\ View(w, b).surplus \in Int
         /\ Opposite(View(w, b)).total \in Nat /\ Opposite(View(w, b)).surplus \in Int
         /\ b.deepBids = 0 /\ b.deepAsks = 0 => DepthImbalance(b) = SnapshotImbalance(b)
<1>1. /\ b.bids \in Nat /\ b.asks \in Nat /\ b.deepBids \in Nat /\ b.deepAsks \in Nat
  BY DEF Book
<1>2. /\ DepthImbalance(b) = [surplus |-> b.bids - b.asks, total |-> b.bids + b.asks]
      /\ SnapshotImbalance(b) = [surplus |-> (b.bids + b.deepBids) - (b.asks + b.deepAsks),
                                 total |-> (b.bids + b.deepBids) + (b.asks + b.deepAsks)]
  BY DEF DepthImbalance, SnapshotImbalance, Imbalance
<1>3. View(w, b).total \in Nat /\ View(w, b).surplus \in Int /\ DOMAIN View(w, b) = {"surplus", "total"}
  BY <1>1, <1>2 DEF View
<1>4. Opposite(View(w, b)).total \in Nat /\ Opposite(View(w, b)).surplus \in Int
  BY <1>3 DEF Opposite
<1>5. b.deepBids = 0 /\ b.deepAsks = 0 => DepthImbalance(b) = SnapshotImbalance(b)
  BY <1>1, <1>2
<1> QED BY <1>3, <1>4, <1>5

\* What a worker announces of the imbalance of the last book is genuine.
LEMMA OpinionIsGenuine ==
  ASSUME SignalAssumption, books \in Seq(Books), Len(books) > 0, NEW w \in Workers,
         NEW found, found = ImbalanceAnomaly(w, View(w, Last(books)))
  PROVE  \/ found = <<>>
         \/ \E e \in Event : /\ found = <<e>> /\ Genuine(e, books)
                             /\ OnImbalance(e, Len(books), w)
<1> DEFINE b == books[Len(books)]
           i == View(w, b)
<1>1. Len(books) \in Nat /\ Last(books) = b /\ Len(books) \in 1 .. Len(books)
  BY DEF Last
<1>2. b \in Book
  BY <1>1, ElementOfSeq DEF SignalAssumption
<1>3. /\ i.total \in Nat /\ i.surplus \in Int
      /\ Opposite(i).total \in Nat /\ Opposite(i).surplus \in Int
  BY <1>2, ViewTypes
<1> HIDE DEF i, b
<1>4. ASSUME NEW j, j.total \in Nat, j.surplus \in Int, AtLeast(j, 1, 4)
      PROVE  Severity(w, j) \in {"critical", "high", "medium", "low"}
  BY <1>4, SeveritiesAgree DEF Severity
<1>5. found = CASE AtLeast(i, 1, 4) -> <<Anomaly(w, "bid_imbalance", Severity(w, i))>>
                [] AtLeast(Opposite(i), 1, 4) -> <<Anomaly(w, "ask_imbalance", Severity(w, Opposite(i)))>>
                [] OTHER -> <<>>
  BY <1>1 DEF ImbalanceAnomaly, i
<1>6. ~(AtLeast(i, 1, 4) /\ AtLeast(Opposite(i), 1, 4))
  <2> SUFFICES ASSUME AtLeast(i, 1, 4), AtLeast(Opposite(i), 1, 4) PROVE FALSE
    OBVIOUS
  <2>1. Opposite(i).surplus = -i.surplus
    <3>1. DOMAIN i = {"surplus", "total"}
      BY DEF i, View, DepthImbalance, SnapshotImbalance, Imbalance
    <3> QED BY <3>1 DEF Opposite
  <2>2. 4 * i.surplus >= 1 * i.total /\ i.total > 0 /\ 4 * Opposite(i).surplus >= 1 * Opposite(i).total
        /\ Opposite(i).total > 0
    BY DEF AtLeast
  <2> QED BY <1>3, <2>1, <2>2, SMTT(30)
<1>7. CASE AtLeast(i, 1, 4)
  <2> DEFINE e == Anomaly(w, "bid_imbalance", Severity(w, i))
  <2>1. found = <<e>>
    BY <1>5, <1>6, <1>7
  <2>2. e = [of |-> Len(books), by |-> w, type |-> "bid_imbalance", severity |-> Severity(w, i)]
    BY DEF Anomaly
  <2>3. e \in Event /\ e.of = Len(books) /\ e.by = w /\ e.type = "bid_imbalance"
        /\ e.severity = Severity(w, i)
    BY <1>1, <1>3, <1>4, <1>7, <2>2 DEF Event
  <2> HIDE DEF e
  <2>4. IsOpinion(e, View(e.by, books[e.of]))
    BY <1>7, <2>3 DEF IsOpinion, i, b
  <2> QED BY <1>1, <2>1, <2>3, <2>4 DEF Genuine, OnImbalance
<1>8. CASE ~AtLeast(i, 1, 4) /\ AtLeast(Opposite(i), 1, 4)
  <2> DEFINE e == Anomaly(w, "ask_imbalance", Severity(w, Opposite(i)))
  <2>1. found = <<e>>
    BY <1>5, <1>8
  <2>2. e = [of |-> Len(books), by |-> w, type |-> "ask_imbalance", severity |-> Severity(w, Opposite(i))]
    BY DEF Anomaly
  <2>3. e \in Event /\ e.of = Len(books) /\ e.by = w /\ e.type = "ask_imbalance"
        /\ e.severity = Severity(w, Opposite(i))
    BY <1>1, <1>3, <1>4, <1>8, <2>2 DEF Event
  <2> HIDE DEF e
  <2>4. IsOpinion(e, View(e.by, books[e.of]))
    BY <1>8, <2>3 DEF IsOpinion, i, b
  <2> QED BY <1>1, <2>1, <2>3, <2>4 DEF Genuine, OnImbalance
<1>9. CASE ~AtLeast(i, 1, 4) /\ ~AtLeast(Opposite(i), 1, 4)
  BY <1>5, <1>9
<1> QED BY <1>7, <1>8, <1>9

\* A spread that widened is announced as such.
LEMMA SpreadIsGenuine ==
  ASSUME SignalAssumption, books \in Seq(Books), Len(books) > 0,
         NEW found, found = SpreadAnomaly(Last(books))
  PROVE  \/ found = <<>>
         \/ \E e \in Event : /\ found = <<e>> /\ Genuine(e, books) /\ e.of = Len(books)
                             /\ e.by = "snapshot" /\ e.type = "spread_widening"
<1>1. SUFFICES ASSUME found # <<>> PROVE
         \E e \in Event : /\ found = <<e>> /\ Genuine(e, books) /\ e.of = Len(books)
                         /\ e.by = "snapshot" /\ e.type = "spread_widening"
  OBVIOUS
<1>2. PICK severity \in {"medium", "high"} :
         found = <<Anomaly("snapshot", "spread_widening", severity)>>
  <2> DEFINE spread == Last(books).ask - Last(books).bid
             middle == Last(books).ask + Last(books).bid
  <2>1. found = IF middle = 0 \/ 2000 * spread <= middle THEN <<>>
                ELSE <<Anomaly("snapshot", "spread_widening",
                               IF 400 * spread < middle THEN "medium" ELSE "high")>>
    BY DEF SpreadAnomaly
  <2> HIDE DEF spread, middle
  <2>2. found = <<Anomaly("snapshot", "spread_widening",
                          IF 400 * spread < middle THEN "medium" ELSE "high")>>
    BY <1>1, <2>1
  <2>3. (IF 400 * spread < middle THEN "medium" ELSE "high") \in {"medium", "high"}
    OBVIOUS
  <2> QED BY <2>2, <2>3
<1> DEFINE e == [of |-> Len(books), by |-> "snapshot", type |-> "spread_widening", severity |-> severity]
<1>3. found = <<e>>
  BY <1>2 DEF Anomaly
<1>4. e \in Event
  BY DEF Event, Workers
<1>5. Genuine(e, books)
  <2>1. Len(books) \in 1 .. Len(books)
    OBVIOUS
  <2> QED BY <1>4, <2>1 DEF Genuine
<1> QED BY <1>3, <1>4, <1>5

-----------------------------------------------------------------------------
(* One more announcement, and one more book.                               *)

LEMMA OneMore ==
  ASSUME NEW q, NEW bs, Sound(q, bs), NEW e \in Event, Genuine(e, bs),
         e.type = "spread_widening" \/ Silent(q, e.of, e.by)
  PROVE  /\ Sound(Append(q, e), bs)
         /\ \A n, w : Silent(q, n, w) /\ ~OnImbalance(e, n, w) => Silent(Append(q, e), n, w)
<1> DEFINE a == Append(q, e)
<1>1. q \in Seq(Event)
  BY DEF Sound
<1>2. /\ a \in Seq(Event) /\ Len(q) \in Nat /\ DOMAIN q = 1 .. Len(q)
      /\ DOMAIN a = 1 .. Len(q) + 1
      /\ \A i \in 1 .. Len(q) : a[i] = q[i]
      /\ a[Len(q) + 1] = e
  BY <1>1, AppendProperties, LenProperties
<1>3. \A i \in DOMAIN a : (i \in DOMAIN q /\ a[i] = q[i]) \/ (i = Len(q) + 1 /\ a[i] = e)
  BY <1>2
<1> HIDE DEF a
<1>4. \A i \in DOMAIN a : Genuine(a[i], bs)
  BY <1>3 DEF Sound
<1>5. ASSUME NEW i \in DOMAIN a, NEW j \in DOMAIN a,
             OnImbalance(a[i], a[j].of, a[j].by), a[j].type # "spread_widening"
      PROVE  i = j
  <2>1. CASE i \in DOMAIN q /\ j \in DOMAIN q
    BY <1>3, <1>5, <2>1, <1>2 DEF Sound
  <2>2. CASE i \notin DOMAIN q /\ j \notin DOMAIN q
    BY <1>3, <2>2
  <2>3. CASE i \in DOMAIN q /\ j \notin DOMAIN q
    <3>1. a[i] = q[i] /\ a[j] = e
      BY <1>2, <1>3, <2>3
    <3>2. Silent(q, e.of, e.by)
      BY <1>5, <3>1
    <3> QED BY <1>5, <2>3, <3>1, <3>2 DEF Silent
  <2>4. CASE i \notin DOMAIN q /\ j \in DOMAIN q
    <3>1. a[i] = e /\ a[j] = q[j]
      BY <1>2, <1>3, <2>4
    <3>2. e.type # "spread_widening" /\ e.of = q[j].of /\ e.by = q[j].by
      BY <1>5, <3>1 DEF OnImbalance
    <3>3. Silent(q, e.of, e.by)
      BY <3>2
    <3> QED BY <1>5, <2>4, <3>1, <3>2, <3>3 DEF Silent, OnImbalance
  <2> QED BY <2>1, <2>2, <2>3, <2>4
<1>6. Sound(a, bs)
  BY <1>2, <1>4, <1>5 DEF Sound
<1>7. \A n, w : Silent(q, n, w) /\ ~OnImbalance(e, n, w) => Silent(a, n, w)
  BY <1>3 DEF Silent
<1> QED BY <1>6, <1>7 DEF a

LEMMA FewerAreSound ==
  ASSUME NEW h \in Seq(Event), NEW c \in Seq(Event), NEW bs, Sound(h \o c, bs)
  PROVE  /\ Sound(h, bs) /\ \A n, w : Silent(h \o c, n, w) => Silent(h, n, w)
         /\ h \o <<>> = h
<1>1. /\ Len(h) \in Nat /\ DOMAIN h = 1 .. Len(h)
      /\ Len(c) \in Nat /\ h \o c \in Seq(Event) /\ DOMAIN (h \o c) = 1 .. Len(h) + Len(c)
      /\ \A i \in 1 .. Len(h) + Len(c) : (h \o c)[i] = IF i <= Len(h) THEN h[i] ELSE c[i - Len(h)]
  BY ConcatProperties, LenProperties
<1>2. \A i \in DOMAIN h : i \in DOMAIN (h \o c) /\ (h \o c)[i] = h[i]
  BY <1>1
<1>3. \A i \in DOMAIN h : Genuine(h[i], bs)
  BY <1>2 DEF Sound
<1>4. \A i, j \in DOMAIN h : OnImbalance(h[i], h[j].of, h[j].by) /\ h[j].type # "spread_widening" => i = j
  BY <1>2 DEF Sound
<1>5. \A n, w : Silent(h \o c, n, w) => Silent(h, n, w)
  BY <1>2 DEF Silent
<1>6. h \o <<>> = h
  BY ConcatEmptySeq
<1> QED BY <1>3, <1>4, <1>5, <1>6 DEF Sound

\* With one more book, what was announced stays genuine, and of the new book
\* nothing has been announced.
LEMMA BookComes ==
  ASSUME NEW q, NEW bs \in Seq(Books), NEW b \in Books, Sound(q, bs)
  PROVE  /\ Sound(q, Append(bs, b))
         /\ \A w : Silent(q, Len(Append(bs, b)), w)
<1>1. /\ Len(bs) \in Nat /\ Len(Append(bs, b)) = Len(bs) + 1
      /\ \A k \in 1 .. Len(bs) : Append(bs, b)[k] = bs[k]
  BY AppendProperties, LenProperties
<1>2. \A i \in DOMAIN q : q[i].of \in 1 .. Len(bs)
  BY DEF Sound, Genuine
<1>3. \A i \in DOMAIN q : Genuine(q[i], Append(bs, b))
  <2>1. ASSUME NEW i \in DOMAIN q PROVE Genuine(q[i], Append(bs, b))
    <3>1. Genuine(q[i], bs)
      BY DEF Sound
    <3>2. q[i].of \in 1 .. Len(Append(bs, b)) /\ Append(bs, b)[q[i].of] = bs[q[i].of]
      BY <1>1, <1>2
    <3> QED BY <3>1, <3>2 DEF Genuine
  <2> QED BY <2>1
<1>4. \A w : Silent(q, Len(Append(bs, b)), w)
  <2>1. \A i \in DOMAIN q : q[i].of # Len(Append(bs, b))
    BY <1>1, <1>2
  <2> QED BY <2>1 DEF Silent, OnImbalance
<1> QED BY <1>3, <1>4 DEF Sound

-----------------------------------------------------------------------------

LEMMA SignalInitInv == ASSUME SignalInit PROVE SignalInv
<1>1. <<>> \in Seq(Event) /\ <<>> \o <<>> = <<>>
  BY ConcatEmptySeq, EmptySeq
<1>2. \A bs : Sound(<<>>, bs) /\ LeftToAnnounce(<<>>, bs)
  BY DEF Sound, LeftToAnnounce
<1> QED BY <1>1, <1>2 DEF SignalInit, SignalInv

LEMMA NewBookStep ==
  ASSUME SignalAssumption, SignalInv, NEW b \in Books, NewBook(b)
  PROVE  SignalInv'
<1>1. /\ books' = Append(books, b) /\ books \in Seq(Books) /\ books' \in Seq(Books)
      /\ looking' = Workers /\ announcing = <<>>
      /\ UNCHANGED <<announcing, channel, heard>>
  BY AppendProperties DEF NewBook, SignalInv
<1>2. Sound(heard \o channel, books') /\ \A w : Silent(heard \o channel, Len(books'), w)
  BY <1>1, BookComes DEF SignalInv
<1>3. LeftToAnnounce(<<>>, books')
  BY DEF LeftToAnnounce
<1>4. Len(books') > 0
  BY <1>1, AppendProperties, LenProperties
<1> QED BY <1>1, <1>2, <1>3, <1>4 DEF SignalInv

\* What reaches the connection, one announcement or none.
LEMMA PublishedLine ==
  ASSUME heard \in Seq(Event), channel \in Seq(Event), NEW e \in Event,
         Publish(<<e>>) \/ UNCHANGED channel
  PROVE  /\ channel' \in Seq(Event)
         /\ \/ heard \o channel' = heard \o channel
            \/ heard \o channel' = Append(heard \o channel, e)
<1>1. CASE channel' = channel
  BY <1>1
<1>2. CASE channel' = channel \o <<e>>
  <2>1. <<e>> \in Seq(Event) /\ heard \o channel \in Seq(Event)
    BY ConcatProperties
  <2>2. channel' \in Seq(Event)
    BY <1>2, <2>1, ConcatProperties
  <2>3. heard \o channel' = (heard \o channel) \o <<e>>
    BY <1>2, <2>1, ConcatAssociative
  <2> QED BY <2>1, <2>2, <2>3, AppendIsConcat
<1> QED BY <1>1, <1>2 DEF Publish

LEMMA DepthStep ==
  ASSUME SignalAssumption, SignalInv, HandleOrderbookUpdate
  PROVE  SignalInv'
<1>1. /\ "depth" \in looking /\ looking' = looking \ {"depth"}
      /\ Publish(ImbalanceAnomaly("depth", DepthImbalance(Last(books)))) \/ UNCHANGED channel
      /\ UNCHANGED <<books, announcing, heard>>
  BY DEF HandleOrderbookUpdate
<1>2. /\ books \in Seq(Books) /\ heard \in Seq(Event) /\ channel \in Seq(Event)
      /\ Sound(heard \o channel, books) /\ Silent(heard \o channel, Len(books), "depth")
      /\ LeftToAnnounce(announcing, books)
  BY <1>1 DEF SignalInv
<1> DEFINE found == ImbalanceAnomaly("depth", DepthImbalance(Last(books)))
<1>3. CASE channel' = channel
  BY <1>1, <1>3 DEF SignalInv
<1>4. CASE channel' # channel
  <2>1. found # <<>> /\ Publish(found)
    <3>1. found = <<>> => channel' = channel
      BY <1>1, <1>2, ConcatEmptySeq DEF Publish
    <3> QED BY <1>1, <1>4, <3>1
  <2>2. Len(books) > 0
    BY <1>1 DEF SignalInv
  <2>3. View("depth", Last(books)) = DepthImbalance(Last(books)) /\ "depth" \in Workers
    BY DEF View, Workers
  <2> HIDE DEF found
  <2>4. PICK e \in Event : found = <<e>> /\ Genuine(e, books) /\ OnImbalance(e, Len(books), "depth")
    BY <1>2, <2>1, <2>2, <2>3, OpinionIsGenuine DEF found
  <2>5. /\ channel' \in Seq(Event)
        /\ \/ heard \o channel' = heard \o channel
           \/ heard \o channel' = Append(heard \o channel, e)
    BY <1>2, <2>1, <2>4, PublishedLine
  <2>6. /\ Sound(Append(heard \o channel, e), books)
        /\ \A n, w : Silent(heard \o channel, n, w) /\ ~OnImbalance(e, n, w)
                     => Silent(Append(heard \o channel, e), n, w)
    <3>1. e.of = Len(books) /\ e.by = "depth"
      BY <2>4 DEF OnImbalance
    <3> QED BY <1>2, <2>4, <3>1, OneMore
  <2>7. \A n, w : w # "depth" => ~OnImbalance(e, n, w)
    BY <2>4 DEF OnImbalance
  <2>8. /\ Sound(heard \o channel', books)
        /\ \A n, w : w # "depth" /\ Silent(heard \o channel, n, w) => Silent(heard \o channel', n, w)
    BY <1>2, <2>5, <2>6, <2>7
  <2> QED BY <1>1, <1>2, <2>5, <2>8 DEF SignalInv
<1> QED BY <1>3, <1>4

LEMMA SnapshotStep ==
  ASSUME SignalAssumption, SignalInv, DetectAndPersist
  PROVE  SignalInv'
<1>1. /\ "snapshot" \in looking /\ looking' = looking \ {"snapshot"}
      /\ announcing' \in {DetectAnomalies(Last(books)), <<>>}
      /\ UNCHANGED <<books, channel, heard>>
  BY DEF DetectAndPersist
<1>2. books \in Seq(Books) /\ Silent(heard \o channel, Len(books), "snapshot")
  BY <1>1 DEF SignalInv
<1>3. LeftToAnnounce(announcing', books)
  <2>1. CASE announcing' = <<>>
    BY <2>1 DEF LeftToAnnounce
  <2>2. CASE announcing' # <<>>
    <3> DEFINE first == ImbalanceAnomaly("snapshot", SnapshotImbalance(Last(books)))
               second == SpreadAnomaly(Last(books))
    <3>1. announcing' = first \o second
      BY <1>1, <2>2 DEF DetectAnomalies
    <3>2. Len(books) > 0
      BY <1>1 DEF SignalInv
    <3>3. View("snapshot", Last(books)) = SnapshotImbalance(Last(books)) /\ "snapshot" \in Workers
      BY DEF View, Workers
    <3> HIDE DEF first, second
    <3>4. \/ first = <<>>
          \/ \E e \in Event : /\ first = <<e>> /\ Genuine(e, books)
                              /\ OnImbalance(e, Len(books), "snapshot")
      BY <1>2, <3>2, <3>3, OpinionIsGenuine DEF first
    <3>5. \/ second = <<>>
          \/ \E e \in Event : /\ second = <<e>> /\ Genuine(e, books) /\ e.of = Len(books)
                              /\ e.by = "snapshot" /\ e.type = "spread_widening"
      BY <1>2, <3>2, SpreadIsGenuine DEF second
    <3>6. ASSUME NEW e \in Event, announcing' = <<e>>, Genuine(e, books), e.of = Len(books),
                 e.by = "snapshot"
          PROVE  LeftToAnnounce(announcing', books)
      BY <3>6 DEF LeftToAnnounce
    <3>7. ASSUME NEW e \in Event, NEW f \in Event, announcing' = <<e, f>>,
                 Genuine(e, books), e.of = Len(books), e.by = "snapshot",
                 Genuine(f, books), f.of = Len(books), f.by = "snapshot", f.type = "spread_widening"
          PROVE  LeftToAnnounce(announcing', books)
      BY <3>7 DEF LeftToAnnounce
    <3>8. ASSUME NEW e \in Event
          PROVE  <<>> \o <<e>> = <<e>> /\ <<e>> \o <<>> = <<e>>
      BY ConcatEmptySeq
    <3>9. ASSUME NEW e \in Event, NEW f \in Event
          PROVE  <<e>> \o <<f>> = <<e, f>>
      <4>1. /\ <<e>> \in Seq(Event) /\ <<f>> \in Seq(Event) /\ <<e, f>> \in Seq(Event)
            /\ Len(<<e>>) = 1 /\ Len(<<f>>) = 1 /\ Len(<<e, f>>) = 2
        OBVIOUS
      <4> DEFINE q == <<e>> \o <<f>>
      <4>2. /\ q \in Seq(Event) /\ Len(q) = 2
            /\ \A i \in 1 .. 2 : q[i] = IF i <= 1 THEN <<e>>[i] ELSE <<f>>[i - 1]
        BY <4>1, ConcatProperties
      <4> HIDE DEF q
      <4>3. q[1] = e /\ q[2] = f
        BY <4>2
      <4>4. \A i \in 1 .. Len(q) : q[i] = <<e, f>>[i]
        BY <4>2, <4>3
      <4>5. q = <<e, f>>
        BY <4>1, <4>2, <4>4, SeqEqual
      <4> QED BY <4>5 DEF q
    <3>10. CASE first = <<>>
      <4>1. PICK e \in Event : second = <<e>> /\ Genuine(e, books) /\ e.of = Len(books)
                               /\ e.by = "snapshot"
        BY <2>2, <3>1, <3>5, <3>10, ConcatEmptySeq
      <4> QED BY <3>1, <3>6, <3>8, <3>10, <4>1
    <3>11. CASE first # <<>>
      <4>1. PICK e \in Event : first = <<e>> /\ Genuine(e, books) /\ e.of = Len(books)
                               /\ e.by = "snapshot"
        BY <3>4, <3>11 DEF OnImbalance
      <4>2. CASE second = <<>>
        BY <3>1, <3>6, <3>8, <4>1, <4>2
      <4>3. CASE second # <<>>
        <5>1. PICK f \in Event : second = <<f>> /\ Genuine(f, books) /\ f.of = Len(books)
                                 /\ f.by = "snapshot" /\ f.type = "spread_widening"
          BY <3>5, <4>3
        <5>2. announcing' = <<e, f>>
          BY <3>1, <3>9, <4>1, <5>1
        <5> QED BY <3>7, <4>1, <5>1, <5>2
      <4> QED BY <4>2, <4>3
    <3> QED BY <3>10, <3>11
  <2> QED BY <2>1, <2>2
<1> QED BY <1>1, <1>2, <1>3 DEF SignalInv

LEMMA PublishAnomalyStep ==
  ASSUME SignalAssumption, SignalInv, PublishAnomaly
  PROVE  SignalInv'
<1> DEFINE e == Head(announcing)
           rest == Tail(announcing)
<1>1. /\ announcing # <<>> /\ announcing' = rest
      /\ Publish(<<e>>) \/ UNCHANGED channel
      /\ UNCHANGED <<books, looking, heard>>
  BY DEF PublishAnomaly
<1>2. /\ heard \in Seq(Event) /\ channel \in Seq(Event) /\ announcing \in Seq(Event)
      /\ Sound(heard \o channel, books) /\ LeftToAnnounce(announcing, books)
      /\ "snapshot" \notin looking
  BY <1>1 DEF SignalInv, LeftToAnnounce
<1>3. /\ e = announcing[1] /\ 1 \in DOMAIN announcing /\ e \in Event
      /\ rest \in Seq(Event)
      /\ \A i \in DOMAIN rest : i + 1 \in DOMAIN announcing /\ rest[i] = announcing[i + 1]
                               /\ i + 1 # 1
  <2>1. /\ Len(announcing) \in Nat /\ DOMAIN announcing = 1 .. Len(announcing)
        /\ Len(announcing) # 0
    BY <1>1, <1>2, LenProperties, EmptySeq
  <2>2. /\ rest \in Seq(Event) /\ Len(rest) = Len(announcing) - 1
        /\ \A i \in 1 .. Len(rest) : rest[i] = announcing[i + 1]
        /\ e = announcing[1] /\ e \in Event
    BY <1>1, <1>2, HeadTailProperties
  <2>3. DOMAIN rest = 1 .. Len(rest)
    BY <2>2, LenProperties
  <2> QED BY <2>1, <2>2, <2>3
<1> HIDE DEF e, rest
<1>4. /\ Genuine(e, books) /\ e.of = Len(books) /\ e.by = "snapshot"
      /\ e.type = "spread_widening" \/ Silent(heard \o channel, e.of, e.by)
  BY <1>1, <1>2, <1>3 DEF LeftToAnnounce, SignalInv
<1>5. LeftToAnnounce(rest, books) /\ \A i \in DOMAIN rest : rest[i].type = "spread_widening"
  BY <1>2, <1>3 DEF LeftToAnnounce
<1>6. rest # <<>> => rest[1].type = "spread_widening"
  <2>1. rest # <<>> => 1 \in DOMAIN rest
    BY <1>3, EmptySeq, LenProperties
  <2> QED BY <1>5, <2>1
<1>7. /\ channel' \in Seq(Event)
      /\ \/ heard \o channel' = heard \o channel
         \/ heard \o channel' = Append(heard \o channel, e)
  BY <1>1, <1>2, <1>3, PublishedLine
<1>8. /\ Sound(Append(heard \o channel, e), books)
      /\ \A n, w : Silent(heard \o channel, n, w) /\ ~OnImbalance(e, n, w)
                   => Silent(Append(heard \o channel, e), n, w)
  BY <1>2, <1>3, <1>4, OneMore
<1>9. \A n, w : w # "snapshot" => ~OnImbalance(e, n, w)
  BY <1>4 DEF OnImbalance
<1>10. /\ Sound(heard \o channel', books)
       /\ \A w \in looking : Silent(heard \o channel', Len(books), w)
  BY <1>2, <1>7, <1>8, <1>9 DEF SignalInv
<1> QED BY <1>1, <1>2, <1>5, <1>6, <1>7, <1>10 DEF SignalInv

LEMMA GetMessageStep ==
  ASSUME SignalInv, GetMessage
  PROVE  SignalInv'
<1>1. /\ channel # <<>> /\ heard' = Append(heard, Head(channel)) /\ channel' = Tail(channel)
      /\ UNCHANGED <<books, looking, announcing>>
  BY DEF GetMessage
<1>2. heard \in Seq(Event) /\ channel \in Seq(Event)
  BY DEF SignalInv
<1>3. /\ Head(channel) \in Event /\ Tail(channel) \in Seq(Event)
      /\ <<Head(channel)>> \o Tail(channel) = channel
  <2>1. /\ Head(channel) \in Event /\ Tail(channel) \in Seq(Event)
        /\ Len(Tail(channel)) = Len(channel) - 1 /\ Head(channel) = channel[1]
        /\ \A i \in 1 .. Len(Tail(channel)) : Tail(channel)[i] = channel[i + 1]
    BY <1>1, <1>2, HeadTailProperties
  <2> DEFINE h == Head(channel)
             t == Tail(channel)
             u == <<h>> \o t
  <2> HIDE DEF h, t
  <2>2. <<h>> \in Seq(Event) /\ t \in Seq(Event) /\ h \in Event
    BY <2>1 DEF h, t
  <2>3. /\ u \in Seq(Event) /\ Len(u) = 1 + Len(t)
        /\ \A i \in 1 .. Len(u) : u[i] = IF i <= 1 THEN h ELSE t[i - 1]
    BY <2>2, ConcatProperties
  <2> HIDE DEF u
  <2>4. Len(channel) \in Nat /\ Len(t) \in Nat /\ Len(t) = Len(channel) - 1
    BY <1>2, <2>1, <2>2, LenProperties DEF t
  <2>5. Len(u) = Len(channel) /\ \A i \in 1 .. Len(u) : u[i] = channel[i]
    <3>1. ASSUME NEW i \in 1 .. Len(u) PROVE u[i] = channel[i]
      <4>1. CASE i = 1
        BY <2>1, <2>3, <4>1 DEF h
      <4>2. CASE i # 1
        <5>1. i - 1 \in 1 .. Len(t) /\ (i - 1) + 1 = i
          BY <2>3, <2>4, <4>2
        <5>2. u[i] = t[i - 1]
          BY <2>3, <4>2
        <5>3. t[i - 1] = channel[(i - 1) + 1]
          BY <2>1, <5>1 DEF t
        <5> QED BY <5>1, <5>2, <5>3
      <4> QED BY <4>1, <4>2
    <3> QED BY <2>3, <2>4, <3>1
  <2>6. u = channel
    BY <1>2, <2>3, <2>5, SeqEqual
  <2> QED BY <2>1, <2>6 DEF u, h, t
<1>4. heard' = heard \o <<Head(channel)>> /\ heard' \in Seq(Event)
  BY <1>1, <1>2, <1>3, AppendIsConcat, AppendProperties
<1>5. heard' \o channel' = heard \o channel
  <2>1. <<Head(channel)>> \in Seq(Event)
    BY <1>3
  <2> QED BY <1>1, <1>2, <1>3, <1>4, <2>1, ConcatAssociative
<1> QED BY <1>1, <1>3, <1>4, <1>5 DEF SignalInv

LEMMA ConnectionBreaksStep ==
  ASSUME SignalInv, ConnectionBreaks
  PROVE  SignalInv'
<1>1. channel' = <<>> /\ UNCHANGED <<books, looking, announcing, heard>>
  BY DEF ConnectionBreaks
<1>2. /\ Sound(heard, books) /\ heard \o <<>> = heard
      /\ \A n, w : Silent(heard \o channel, n, w) => Silent(heard, n, w)
  BY FewerAreSound DEF SignalInv
<1> QED BY <1>1, <1>2, EmptySeq DEF SignalInv

LEMMA SignalStepInv ==
  ASSUME SignalAssumption, SignalInv, [SignalNext]_signalVars
  PROVE  SignalInv'
<1>1. CASE \E b \in Books : NewBook(b)
  BY <1>1, NewBookStep
<1>2. CASE \E w \in Workers : Overlooked(w)
  BY <1>2 DEF Overlooked, SignalInv
<1>3. CASE Subscribe \/ Resubscribes
  BY <1>3 DEF Subscribe, Resubscribes, SignalInv
<1>4. CASE UNCHANGED signalVars
  BY <1>4 DEF signalVars, SignalInv
<1> QED BY <1>1, <1>2, <1>3, <1>4, DepthStep, SnapshotStep, PublishAnomalyStep, GetMessageStep,
           ConnectionBreaksStep DEF SignalNext

LEMMA SignalInvSuffices ==
  ASSUME SignalAssumption, SignalInv
  PROVE  NoMixedSignals
<1>1. Sound(heard, books) /\ heard \in Seq(Event) /\ books \in Seq(Books)
  BY FewerAreSound DEF SignalInv
<1> SUFFICES ASSUME NEW i \in DOMAIN heard, NEW j \in DOMAIN heard, i # j,
                    heard[i].of = heard[j].of,
                    books[heard[i].of].deepBids = 0, books[heard[i].of].deepAsks = 0,
                    heard[i].type # "spread_widening", heard[j].type # "spread_widening"
             PROVE  /\ heard[i].by # heard[j].by /\ heard[i].type = heard[j].type
                    /\ heard[i].severity = heard[j].severity
  BY DEF NoMixedSignals
<1> DEFINE d == heard[i]
           e == heard[j]
           b == books[d.of]
<1>2. d.by # e.by
  BY <1>1 DEF Sound, OnImbalance
<1>3. /\ Genuine(d, books) /\ Genuine(e, books)
  BY <1>1 DEF Sound
<1>4. /\ d.by \in Workers /\ e.by \in Workers /\ b \in Book
      /\ IsOpinion(d, View(d.by, b)) /\ IsOpinion(e, View(e.by, b))
  <2>1. d.of \in 1 .. Len(books)
    BY <1>3 DEF Genuine
  <2>2. b \in Book
    BY <1>1, <2>1, ElementOfSeq DEF SignalAssumption
  <2> QED BY <1>3, <2>2 DEF Genuine, Event
<1>5. b.deepBids = 0 /\ b.deepAsks = 0
  OBVIOUS
<1> HIDE DEF d, e, b
<1> DEFINE v == View("depth", b)
<1>6. View(d.by, b) = v /\ View(e.by, b) = v
  BY <1>4, <1>5, ViewTypes DEF View
<1>7. /\ v.total \in Nat /\ v.surplus \in Int
      /\ Opposite(v).total \in Nat /\ Opposite(v).surplus \in Int
  BY <1>4, ViewTypes DEF Workers
<1>8. IsOpinion(d, v) /\ IsOpinion(e, v)
  BY <1>4, <1>6
<1> HIDE DEF v
<1>9. /\ AtLeast(v, 1, 4) => Severity(d.by, v) = Severity(e.by, v)
      /\ AtLeast(Opposite(v), 1, 4) => Severity(d.by, Opposite(v)) = Severity(e.by, Opposite(v))
  BY <1>7, SeveritiesAgree DEF Severity
<1>10. d.type = e.type /\ d.severity = e.severity
  BY <1>8, <1>9 DEF IsOpinion
<1> QED BY <1>2, <1>10 DEF d, e

\* For any books, however many, a listener hears of the imbalance of a book of at
\* most twenty levels once from each of the two scanner workers at most, and they
\* agree on its side and severity, whatever it missed while its connection broke.
THEOREM NoMixedSignalsHolds == SignalSpec => []NoMixedSignals
<1>1. SignalInit => SignalInv
  BY SignalInitInv
<1>2. SignalInv /\ [SignalNext]_signalVars => SignalInv'
  BY SignalStepInv, SignalAssumption
<1>3. SignalInv => NoMixedSignals
  BY SignalInvSuffices, SignalAssumption
<1> QED BY <1>1, <1>2, <1>3, PTL DEF SignalSpec

(***************************************************************************)
(* CandleHistory                                                           *)
(***************************************************************************)

(* Pages.                                                                  *)

LEMMA CountUp ==
  ASSUME NEW a \in Int, NEW b \in Int
  PROVE  /\ Run(a, b) \in Seq(Int) /\ DOMAIN Run(a, b) = 1 .. b - a + 1
         /\ Len(Run(a, b)) = (IF a <= b THEN b - a + 1 ELSE 0)
         /\ \A k \in 1 .. b - a + 1 : Run(a, b)[k] = a + k - 1
<1> DEFINE n == IF a <= b THEN b - a + 1 ELSE 0
<1>1. n \in Nat /\ 1 .. n = 1 .. b - a + 1 /\ Later(0, b - a + 1) = n
  BY DEF Later
<1>2. \A k \in 1 .. b - a + 1 : a + k - 1 \in Int
  OBVIOUS
<1>3. Run(a, b) = [k \in 1 .. n |-> a + k - 1]
  BY <1>1 DEF Run
<1>4. Run(a, b) \in [1 .. n -> Int]
  BY <1>1, <1>2, <1>3
<1>5. Run(a, b) \in Seq(Int)
  BY <1>1, <1>4, SeqDef
<1>6. Len(Run(a, b)) = n
  BY <1>1, <1>4, <1>5, LenProperties
<1> QED BY <1>1, <1>3, <1>5, <1>6

LEMMA RunLength ==
  ASSUME NEW a \in Int, NEW b \in Int
  PROVE  /\ Len(Run(a, b)) \in Int
         /\ a <= b => Len(Run(a, b)) = b - a + 1
         /\ b < a => Len(Run(a, b)) = 0
<1>1. Len(Run(a, b)) = IF a <= b THEN b - a + 1 ELSE 0
  BY CountUp
<1> QED BY <1>1

LEMMA RunAt ==
  ASSUME NEW a \in Int, NEW b \in Int, NEW k \in 1 .. b - a + 1
  PROVE  Run(a, b)[k] = a + k - 1
BY CountUp

\* A sequence of integers that counts up from a to b is that run.
LEMMA IsRun ==
  ASSUME NEW s \in Seq(Int), NEW a \in Int, NEW b \in Int,
         Len(s) = IF a <= b THEN b - a + 1 ELSE 0,
         \A k \in 1 .. Len(s) : s[k] = a + k - 1
  PROVE  s = Run(a, b)
<1> DEFINE t == Run(a, b)
<1>1. t \in Seq(Int) /\ Len(t) = Len(s)
  BY CountUp
<1>2. \A k \in 1 .. Len(s) : t[k] = a + k - 1
  BY CountUp
<1> HIDE DEF t
<1>3. \A k \in 1 .. Len(s) : s[k] = t[k]
  BY <1>2
<1>4. s = t
  BY <1>1, <1>3, SeqEqual
<1> QED BY <1>4 DEF t
\* No candles are a run that ends before it begins.
LEMMA NoCandles ==
  ASSUME NEW a \in Int, NEW b \in Int
  PROVE  Run(a, b) = <<>> <=> b < a
<1>1. Run(a, b) = <<>> <=> Len(Run(a, b)) = 0
  BY CountUp, EmptySeq
<1>2. CASE b < a
  BY <1>1, <1>2, RunLength
<1>3. CASE a <= b
  <2>1. Len(Run(a, b)) = b - a + 1
    BY <1>3, RunLength
  <2>2. b - a + 1 # 0 /\ ~(b < a)
    BY <1>3
  <2> QED BY <1>1, <2>1, <2>2
<1> QED BY <1>2, <1>3

LEMMA Ends ==
  ASSUME NEW a \in Int, NEW b \in Int, a <= b
  PROVE  Last(Run(a, b)) = b
<1> DEFINE k == b - a + 1
<1>1. k \in 1 .. b - a + 1 /\ a + k - 1 = b
  OBVIOUS
<1> HIDE DEF k
<1>2. Run(a, b)[k] = b
  BY <1>1, RunAt
<1>3. Len(Run(a, b)) = k
  BY RunLength DEF k
<1> QED BY <1>2, <1>3 DEF Last

\* A part of a run is a run.
LEMMA PartOfRun ==
  ASSUME NEW a \in Int, NEW b \in Int, NEW m \in Int, NEW n \in Int, 1 <= m, n <= Len(Run(a, b))
  PROVE  SubSeq(Run(a, b), m, n) = Run(a + m - 1, a + n - 1)
<1> DEFINE s == Run(a, b)
           t == SubSeq(s, m, n)
<1>1. \A i \in m .. n : i \in 1 .. b - a + 1
  <2>1. Len(s) \in Int /\ (a <= b => Len(s) = b - a + 1) /\ (b < a => Len(s) = 0)
    BY RunLength
  <2> HIDE DEF s
  <2>2. n <= Len(s)
    BY DEF s
  <2> QED BY <2>1, <2>2
<1>2. \A i \in m .. n : s[i] = a + i - 1 /\ s[i] \in Int
  <2> TAKE i \in m .. n
  <2>1. s[i] = a + i - 1
    BY <1>1, RunAt
  <2> QED BY <2>1
<1> HIDE DEF s
<1>3. /\ t \in Seq(Int) /\ Len(t) = (IF m <= n THEN n - m + 1 ELSE 0)
      /\ \A i \in 1 .. n - m + 1 : t[i] = s[m + i - 1]
  BY <1>2, SubSeqProperties
<1>4. \A i \in 1 .. Len(t) : t[i] = (a + m - 1) + i - 1
  <2> TAKE i \in 1 .. Len(t)
  <2>1. i \in 1 .. n - m + 1 /\ m + i - 1 \in m .. n
    BY <1>3
  <2>2. t[i] = a + (m + i - 1) - 1
    BY <1>2, <1>3, <2>1
  <2> QED BY <2>1, <2>2
<1> DEFINE x == a + m - 1
           y == a + n - 1
<1>5. x \in Int /\ y \in Int /\ Len(t) = (IF x <= y THEN y - x + 1 ELSE 0)
  BY <1>3
<1> HIDE DEF t, x, y
<1>6. \A i \in 1 .. Len(t) : t[i] = x + i - 1
  BY <1>4 DEF x
<1>7. t = Run(x, y)
  BY <1>3, <1>5, <1>6, IsRun
<1> QED BY <1>7 DEF t, x, y, s

LEMMA FirstOfRun ==
  ASSUME NEW a \in Int, NEW b \in Int, NEW n \in Nat, 0 < n
  PROVE  FirstOf(Run(a, b), n) = Run(a, Sooner(b, a + n - 1))
<1>1. CASE Len(Run(a, b)) < n
  <2> DEFINE l == Len(Run(a, b))
  <2>2. l \in Int /\ l = IF a <= b THEN b - a + 1 ELSE 0
    BY RunLength
  <2>3. FirstOf(Run(a, b), n) = SubSeq(Run(a, b), 1, l)
    BY <1>1 DEF FirstOf
  <2> HIDE DEF l
  <2>4. l = Len(Run(a, b))
    BY DEF l
  <2>5. SubSeq(Run(a, b), 1, l) = Run(a + 1 - 1, a + l - 1)
    <3>1. 1 \in Int /\ l \in Int /\ 1 <= 1 /\ l <= Len(Run(a, b))
      BY <2>2, <2>4
    <3> QED BY <3>1, PartOfRun, ZenonT(30)
  <2>6. CASE a <= b
    <3>1. a + 1 - 1 = a /\ a + l - 1 = b /\ Sooner(b, a + n - 1) = b
      BY <1>1, <2>2, <2>4, <2>6 DEF Sooner
    <3> QED BY <2>3, <2>5, <3>1
  <2>7. CASE b < a
    <3>1. Run(a + 1 - 1, a + l - 1) = <<>>
      <4>1. a + 1 - 1 = a /\ a + l - 1 = a - 1 /\ a - 1 \in Int /\ a - 1 < a
        BY <2>2, <2>7
      <4> QED BY <4>1, NoCandles
    <3>2. Sooner(b, a + n - 1) \in Int /\ Sooner(b, a + n - 1) < a
      BY <2>7 DEF Sooner
    <3>3. Run(a, Sooner(b, a + n - 1)) = <<>>
      BY <3>2, NoCandles
    <3> QED BY <2>3, <2>5, <3>1, <3>3
  <2> QED BY <2>6, <2>7
<1>2. CASE n <= Len(Run(a, b))
  <2>1. a <= b /\ n <= b - a + 1 /\ ~(Len(Run(a, b)) < n)
    <3> DEFINE l == Len(Run(a, b))
    <3>1. l \in Int /\ (a <= b => l = b - a + 1) /\ (b < a => l = 0)
      BY RunLength
    <3>2. n <= l
      BY <1>2
    <3> HIDE DEF l
    <3>3. a <= b /\ n <= b - a + 1 /\ ~(l < n)
      BY <3>1, <3>2
    <3> QED BY <3>3 DEF l
  <2>3. FirstOf(Run(a, b), n) = SubSeq(Run(a, b), 1, n)
    BY <2>1 DEF FirstOf
  <2>4. SubSeq(Run(a, b), 1, n) = Run(a + 1 - 1, a + n - 1)
    <3>1. 1 \in Int /\ n \in Int /\ 1 <= 1
      OBVIOUS
    <3> QED BY <1>2, <3>1, PartOfRun, ZenonT(30)
  <2>5. a + 1 - 1 = a /\ Sooner(b, a + n - 1) = a + n - 1
    BY <2>1 DEF Sooner
  <2> QED BY <2>3, <2>4, <2>5
<1> QED BY <1>1, <1>2, RunLength

LEMMA LastOfRun ==
  ASSUME NEW a \in Int, NEW b \in Int, NEW n \in Nat, 0 < n
  PROVE  LastOf(Run(a, b), n) = Run(Later(a, b - n + 1), b)
<1> DEFINE l == Len(Run(a, b))
<1>1. l \in Int /\ l = IF a <= b THEN b - a + 1 ELSE 0
  BY RunLength
<1>2. LastOf(Run(a, b), n) = SubSeq(Run(a, b), IF l < n THEN 1 ELSE l - n + 1, l)
  BY DEF LastOf
<1> HIDE DEF l
<1>3. l = Len(Run(a, b))
  BY DEF l
<1>4. CASE b < a
  <2>1. l = 0
    BY <1>1, <1>4
  <2>2. SubSeq(Run(a, b), IF l < n THEN 1 ELSE l - n + 1, l) = <<>>
    <3>1. (IF l < n THEN 1 ELSE l - n + 1) = 1
      BY <2>1
    <3> QED BY <2>1, <3>1, SubSeqEmpty
  <2>3. Later(a, b - n + 1) \in Int /\ b < Later(a, b - n + 1)
    BY <1>4 DEF Later
  <2>4. Run(Later(a, b - n + 1), b) = <<>>
    BY <2>3, NoCandles
  <2> QED BY <1>2, <2>2, <2>4
<1>5. CASE a <= b /\ l < n
  <2>1. SubSeq(Run(a, b), 1, l) = Run(a + 1 - 1, a + l - 1)
    <3>1. 1 \in Int /\ l \in Int /\ 1 <= 1 /\ l <= Len(Run(a, b))
      BY <1>1, <1>3
    <3> QED BY <3>1, PartOfRun, ZenonT(30)
  <2>2. a + 1 - 1 = a /\ a + l - 1 = b /\ Later(a, b - n + 1) = a
    BY <1>1, <1>5 DEF Later
  <2> QED BY <1>2, <1>5, <2>1, <2>2
<1>6. CASE a <= b /\ ~(l < n)
  <2>1. SubSeq(Run(a, b), l - n + 1, l) = Run(a + (l - n + 1) - 1, a + l - 1)
    <3> DEFINE m == l - n + 1
    <3>1. m \in Int /\ 1 <= m
      BY <1>1, <1>6
    <3> HIDE DEF m
    <3>2. l <= Len(Run(a, b))
      BY <1>1, <1>3
    <3>3. SubSeq(Run(a, b), m, l) = Run(a + m - 1, a + l - 1)
      <4>1. l \in Int
        BY <1>1
      <4> QED BY <3>1, <3>2, <4>1, PartOfRun, ZenonT(30)
    <3> QED BY <3>3 DEF m
  <2>2. a + (l - n + 1) - 1 = b - n + 1 /\ a + l - 1 = b /\ Later(a, b - n + 1) = b - n + 1
    BY <1>1, <1>6 DEF Later
  <2> QED BY <1>2, <1>6, <2>1, <2>2
<1> QED BY <1>4, <1>5, <1>6

-----------------------------------------------------------------------------
(* A part of the candles from a to b, in their order.                      *)

Ascends(t, n) == \A i, j \in 1 .. n : i < j => t[i] < t[j]

\* s is a series of candles from a to b, and what it leaves out is in u.
Part(s, a, b, u) ==
    /\ s \in Seq(Int) /\ Ascends(s, Len(s))
    /\ \A k \in 1 .. Len(s) : a <= s[k] /\ s[k] <= b
    /\ \A i \in a .. b : i \in u \/ \E k \in 1 .. Len(s) : s[k] = i

LEMMA PartOfNothing ==
  ASSUME NEW a \in Int, NEW b \in Int, b < a, NEW u
  PROVE  Part(<<>>, a, b, u)
<1>1. <<>> \in Seq(Int) /\ Len(<<>>) = 0
  BY EmptySeq
<1>2. 1 .. 0 = {} /\ a .. b = {}
  OBVIOUS
<1> QED BY <1>1, <1>2 DEF Part, Ascends

LEMMA EmptyPart == \A u : Part(<<>>, 1, 0, u)
  BY PartOfNothing

LEMMA RunIsPart ==
  ASSUME NEW a \in Int, NEW b \in Int, NEW u
  PROVE  Part(Run(a, b), a, b, u)
<1> DEFINE s == Run(a, b)
           n == Len(s)
<1>1. s \in Seq(Int) /\ n = (IF a <= b THEN b - a + 1 ELSE 0)
      /\ \A k \in 1 .. b - a + 1 : s[k] = a + k - 1
  BY CountUp
<1> HIDE DEF s
<1>2. \A k \in 1 .. n : k \in 1 .. b - a + 1 /\ s[k] = a + k - 1 /\ a <= b
  BY <1>1
<1>3. Ascends(s, n) /\ \A k \in 1 .. n : a <= s[k] /\ s[k] <= b
  <2>1. ASSUME NEW k \in 1 .. n PROVE a <= s[k] /\ s[k] <= b
    BY <1>2
  <2>2. ASSUME NEW i \in 1 .. n, NEW j \in 1 .. n, i < j PROVE s[i] < s[j]
    <3>1. s[i] = a + i - 1 /\ s[j] = a + j - 1
      BY <1>2
    <3> QED BY <2>2, <3>1
  <2> QED BY <2>1, <2>2 DEF Ascends
<1>4. ASSUME NEW i \in a .. b PROVE \E k \in 1 .. n : s[k] = i
  <2>1. i - a + 1 \in 1 .. n /\ a + (i - a + 1) - 1 = i
    BY <1>1
  <2>2. s[i - a + 1] = i
    BY <1>2, <2>1
  <2> QED BY <2>1, <2>2
<1> QED BY <1>1, <1>3, <1>4 DEF Part, s

\* Pages that follow each other make a longer part.
LEMMA PartsJoin ==
  ASSUME NEW a \in Int, NEW b \in Int, NEW c \in Int, a <= b + 1, b <= c,
         NEW s, NEW t, NEW u, NEW v, Part(s, a, b, u), Part(t, b + 1, c, v)
  PROVE  Part(s \o t, a, c, u \cup v)
<1> DEFINE m == Len(s)
           n == Len(t)
           r == s \o t
<1>1. /\ s \in Seq(Int) /\ t \in Seq(Int) /\ m \in Nat /\ n \in Nat
      /\ \A k \in 1 .. m : s[k] \in Int /\ a <= s[k] /\ s[k] <= b
      /\ \A k \in 1 .. n : t[k] \in Int /\ b + 1 <= t[k] /\ t[k] <= c
      /\ \A i, j \in 1 .. m : i < j => s[i] < s[j]
      /\ \A i, j \in 1 .. n : i < j => t[i] < t[j]
  <2>1. s \in Seq(Int) /\ t \in Seq(Int)
    BY DEF Part
  <2>2. /\ \A k \in 1 .. m : a <= s[k] /\ s[k] <= b
        /\ \A k \in 1 .. n : b + 1 <= t[k] /\ t[k] <= c
        /\ \A i, j \in 1 .. m : i < j => s[i] < s[j]
        /\ \A i, j \in 1 .. n : i < j => t[i] < t[j]
    BY DEF Part, Ascends
  <2>3. m \in Nat /\ n \in Nat /\ (\A k \in 1 .. m : s[k] \in Int) /\ \A k \in 1 .. n : t[k] \in Int
    BY <2>1, LenProperties, ElementOfSeq
  <2> QED BY <2>1, <2>2, <2>3
<1>2. /\ r \in Seq(Int) /\ Len(r) = m + n
      /\ \A i \in 1 .. m + n : r[i] = IF i <= m THEN s[i] ELSE t[i - m]
  BY <1>1, ConcatProperties
<1>3. /\ \A i \in 1 .. m : i \in 1 .. m + n /\ r[i] = s[i]
      /\ \A i \in 1 .. n : m + i \in 1 .. m + n /\ r[m + i] = t[i]
      /\ \A i \in 1 .. m + n : i \in 1 .. m \/ (i - m \in 1 .. n /\ i = m + (i - m))
  <2>1. \A i \in 1 .. m : i \in 1 .. m + n /\ i <= m
    BY <1>1
  <2>2. \A i \in 1 .. n : m + i \in 1 .. m + n /\ ~(m + i <= m) /\ (m + i) - m = i
    BY <1>1
  <2>3. \A i \in 1 .. m + n : i \in 1 .. m \/ (i - m \in 1 .. n /\ i = m + (i - m))
    BY <1>1
  <2>4. \A i \in 1 .. n : r[m + i] = t[(m + i) - m]
    BY <1>2, <2>2
  <2> QED BY <1>2, <2>1, <2>2, <2>3, <2>4
<1> HIDE DEF m, n, r
<1>4. ASSUME NEW k \in 1 .. m + n PROVE a <= r[k] /\ r[k] <= c
  <2>1. CASE k \in 1 .. m
    <3>1. r[k] = s[k] /\ s[k] \in Int /\ a <= s[k] /\ s[k] <= b
      BY <1>1, <1>3, <2>1
    <3> QED BY <3>1
  <2>2. CASE k - m \in 1 .. n /\ k = m + (k - m)
    <3>1. r[k] = t[k - m] /\ t[k - m] \in Int /\ b + 1 <= t[k - m] /\ t[k - m] <= c
      BY <1>1, <1>3, <2>2
    <3> QED BY <3>1
  <2> QED BY <1>3, <2>1, <2>2
<1>5. ASSUME NEW i \in 1 .. m + n, NEW j \in 1 .. m + n, i < j PROVE r[i] < r[j]
  <2>1. CASE j \in 1 .. m
    <3>1. i \in 1 .. m
      BY <1>1, <1>5, <2>1
    <3> QED BY <1>1, <1>3, <1>5, <2>1, <3>1
  <2>2. CASE i \in 1 .. m /\ j - m \in 1 .. n /\ j = m + (j - m)
    <3>1. r[i] = s[i] /\ s[i] \in Int /\ s[i] <= b
      BY <1>1, <1>3, <2>2
    <3>2. r[j] = t[j - m] /\ t[j - m] \in Int /\ b + 1 <= t[j - m]
      BY <1>1, <1>3, <2>2
    <3> QED BY <3>1, <3>2
  <2>3. CASE i - m \in 1 .. n /\ i = m + (i - m) /\ j - m \in 1 .. n /\ j = m + (j - m)
    <3>1. i - m < j - m
      BY <1>1, <1>5
    <3>2. t[i - m] < t[j - m]
      BY <1>1, <2>3, <3>1
    <3>3. r[i] = t[i - m] /\ r[j] = t[j - m]
      BY <1>3, <2>3
    <3> QED BY <3>2, <3>3
  <2> QED BY <1>3, <2>1, <2>2, <2>3
<1>6. ASSUME NEW i \in a .. c PROVE i \in u \cup v \/ \E k \in 1 .. m + n : r[k] = i
  <2>1. CASE i \in a .. b
    <3>1. i \in u \/ \E k \in 1 .. m : s[k] = i
      BY <2>1 DEF Part, m
    <3> QED BY <1>3, <3>1
  <2>2. CASE i \in b + 1 .. c
    <3>1. i \in v \/ \E k \in 1 .. n : t[k] = i
      BY <2>2 DEF Part, n
    <3>2. ASSUME NEW k \in 1 .. n, t[k] = i PROVE \E q \in 1 .. m + n : r[q] = i
      <4>1. m + k \in 1 .. m + n /\ r[m + k] = i
        BY <1>3, <3>2
      <4> QED BY <4>1
    <3> QED BY <3>1, <3>2
  <2> QED BY <2>1, <2>2
<1>7. Ascends(r, m + n)
  BY <1>5 DEF Ascends
<1> QED BY <1>2, <1>4, <1>6, <1>7 DEF Part, r

\* The last n candles of a part.
LEMMA LastOfPart ==
  ASSUME NEW a \in Int, NEW b \in Int, NEW s, NEW u, Part(s, a, b, u), NEW n \in Nat, 0 < n
  PROVE  \E c \in Int : a <= c /\ Part(LastOf(s, n), c, b, u)
<1> DEFINE l == Len(s)
           d == l - n
           t == SubSeq(s, d + 1, l)
<1>1. s \in Seq(Int) /\ l \in Nat /\ \A k \in 1 .. l : s[k] \in Int
  <2>1. s \in Seq(Int)
    BY DEF Part
  <2> QED BY <2>1, LenProperties, ElementOfSeq
<1>2. CASE l < n
  <2>1. LastOf(s, n) = SubSeq(s, 1, l)
    BY <1>2 DEF LastOf
  <2>2. LastOf(s, n) = s
    BY <1>1, <2>1, SubSeqFull
  <2> QED BY <2>2
<1>3. CASE ~(l < n)
  <2>1. LastOf(s, n) = t
    <3>1. l - n + 1 = d + 1
      OBVIOUS
    <3>2. LastOf(s, n) = SubSeq(s, l - n + 1, l)
      BY <1>3 DEF LastOf
    <3> QED BY <3>1, <3>2
  <2>2. d \in Nat /\ d + n = l /\ d + 1 \in 1 .. l /\ (\A k \in 1 .. n : d + k \in 1 .. l)
    BY <1>1, <1>3
  <2> HIDE DEF d
  <2>3. t \in Seq(Int) /\ Len(t) = n /\ \A k \in 1 .. n : t[k] = s[d + k]
    <3>1. \A i \in d + 1 .. l : s[i] \in Int
      BY <1>1, <2>2
    <3>2. /\ SubSeq(s, d + 1, l) \in Seq(Int)
          /\ Len(SubSeq(s, d + 1, l)) = (IF d + 1 <= l THEN l - (d + 1) + 1 ELSE 0)
          /\ \A i \in 1 .. l - (d + 1) + 1 : SubSeq(s, d + 1, l)[i] = s[(d + 1) + i - 1]
      <4>1. d + 1 \in Int /\ l \in Int
        BY <1>1, <2>2
      <4> QED BY <3>1, <4>1, SubSeqProperties
    <3>3. l - (d + 1) + 1 = n /\ d + 1 <= l /\ \A k \in 1 .. n : (d + 1) + k - 1 = d + k
      BY <1>1, <2>2
    <3> HIDE DEF l
    <3> QED BY <3>2, <3>3
  <2> DEFINE c == s[d + 1]
  <2>4. /\ \A k \in 1 .. l : a <= s[k] /\ s[k] <= b
        /\ \A i, j \in 1 .. l : i < j => s[i] < s[j]
        /\ \A i \in a .. b : i \in u \/ \E k \in 1 .. l : s[k] = i
    BY DEF Part, Ascends
  <2> HIDE DEF l, t
  <2>5. c \in Int /\ a <= c
    BY <1>1, <2>2, <2>4
  <2>6. \A k \in d + 1 .. l : c <= s[k]
    <3> SUFFICES ASSUME NEW k \in d + 1 .. l PROVE c <= s[k]
      OBVIOUS
    <3>1. k \in 1 .. l /\ (k = d + 1 \/ d + 1 < k)
      BY <1>1, <2>2
    <3>2. s[k] \in Int /\ (d + 1 < k => s[d + 1] < s[k])
      BY <1>1, <2>2, <2>4, <3>1
    <3> QED BY <2>5, <3>1, <3>2
  <2>7. ASSUME NEW k \in 1 .. n PROVE c <= t[k] /\ t[k] <= b
    <3>1. d + k \in d + 1 .. l /\ d + k \in 1 .. l
      BY <1>1, <2>2
    <3> QED BY <2>3, <2>4, <2>6, <3>1
  <2>8. ASSUME NEW i \in 1 .. n, NEW j \in 1 .. n, i < j PROVE t[i] < t[j]
    <3>1. d + i < d + j /\ d + i \in 1 .. l /\ d + j \in 1 .. l
      BY <2>2, <2>8
    <3>2. s[d + i] < s[d + j]
      BY <2>4, <3>1
    <3> QED BY <2>3, <3>2
  <2>9. ASSUME NEW i \in c .. b PROVE i \in u \/ \E k \in 1 .. n : t[k] = i
    <3>1. i \in a .. b
      BY <2>5
    <3>2. ASSUME NEW k \in 1 .. l, s[k] = i PROVE \E q \in 1 .. n : t[q] = i
      <4>1. ~(k < d + 1)
        <5>1. k < d + 1 => s[k] < c
          BY <2>2, <2>4
        <5>2. c <= i
          OBVIOUS
        <5> QED BY <2>5, <3>2, <5>1, <5>2
      <4>2. k - d \in 1 .. n /\ d + (k - d) = k
        BY <1>1, <2>2, <4>1
      <4>3. t[k - d] = s[d + (k - d)]
        BY <2>3, <4>2
      <4> QED BY <3>2, <4>2, <4>3
    <3> QED BY <2>4, <3>1, <3>2
  <2>10. Part(t, c, b, u)
    BY <2>3, <2>7, <2>8, <2>9 DEF Part, Ascends
  <2> HIDE DEF c
  <2> QED BY <2>1, <2>5, <2>10
<1> QED BY <1>2, <1>3

-----------------------------------------------------------------------------
(* The rows of a page that can be read.                                    *)

\* Everything that was asked for is picked.
LEMMA PickedAll ==
  ASSUME NEW S, NEW s \in Seq(S), NEW where, NEW x \in DOMAIN s, x \in where
  PROVE  \E k \in 1 .. Len(Picked(s, where)) : Picked(s, where)[k] = s[x]
<1> DEFINE n == Len(s)
<1>1. PICK g : /\ Picked(s, where) = g[n] /\ g[0] = <<>>
              /\ \A i \in 1 .. n : g[i] = IF i \in where THEN Append(g[i - 1], s[i]) ELSE g[i - 1]
  BY PickingExists
<1>2. n \in Nat /\ DOMAIN s = 1 .. n /\ \A i \in 1 .. n : s[i] \in S
  BY LenProperties, ElementOfSeq
<1> DEFINE P == {k \in 0 .. n : g[k] \in Seq(S) /\ (x <= k => \E j \in 1 .. Len(g[k]) : g[k][j] = s[x])}
<1>3. 0 \in P
  <2>1. 0 \in 0 .. n /\ ~(x <= 0)
    BY <1>2
  <2>2. g[0] \in Seq(S)
    BY <1>1, EmptySeq
  <2> QED BY <2>1, <2>2
<1>4. ASSUME NEW k \in 0 .. n - 1, k \in P PROVE k + 1 \in P
  <2>1. k + 1 \in 1 .. n /\ k + 1 \in 0 .. n /\ (k + 1) - 1 = k /\ (x <= k + 1 => x <= k \/ x = k + 1)
    BY <1>2
  <2>2. g[k + 1] = IF k + 1 \in where THEN Append(g[k], s[k + 1]) ELSE g[k]
    BY <1>1, <2>1
  <2>3. g[k] \in Seq(S) /\ Len(g[k]) \in Nat /\ (x <= k => \E j \in 1 .. Len(g[k]) : g[k][j] = s[x])
    BY <1>4, LenProperties
  <2>4. CASE k + 1 \in where
    <3> DEFINE h == g[k]
               e == s[k + 1]
               a == Append(h, e)
    <3>1. e \in S /\ h \in Seq(S) /\ Len(h) \in Nat
      BY <1>2, <2>1, <2>3
    <3> HIDE DEF h, e
    <3>2. /\ a \in Seq(S) /\ Len(a) = Len(h) + 1
          /\ \A i \in 1 .. Len(h) : a[i] = h[i]
          /\ a[Len(h) + 1] = e
      BY <3>1, AppendProperties
    <3> HIDE DEF a
    <3>3. \A i \in 1 .. Len(h) : i \in 1 .. Len(a)
      BY <3>1, <3>2
    <3>4. Len(h) + 1 \in 1 .. Len(a)
      BY <3>1, <3>2
    <3>5. x <= k => \E j \in 1 .. Len(a) : a[j] = s[x]
      BY <2>3, <3>2, <3>3 DEF h
    <3>6. x = k + 1 => \E j \in 1 .. Len(a) : a[j] = s[x]
      BY <3>2, <3>4 DEF e
    <3>7. g[k + 1] = a
      BY <2>2, <2>4 DEF a, h, e
    <3> QED BY <2>1, <3>2, <3>5, <3>6, <3>7
  <2>5. CASE k + 1 \notin where
    BY <2>1, <2>2, <2>3, <2>5
  <2> QED BY <2>4, <2>5
<1> HIDE DEF P
<1>5. n \in P
  <2>1. \A k \in 0 .. n : k \in P
    <3> HIDE DEF n
    <3> QED BY <1>2, <1>3, <1>4, Upto
  <2> QED BY <1>2, <2>1
<1>6. x <= n
  BY <1>2
<1> QED BY <1>1, <1>5, <1>6 DEF P

LEMMA ReadableIsPart ==
  ASSUME NEW a \in Int, NEW b \in Int, NEW bad
  PROVE  Part(Readable(Run(a, b), bad), a, b, bad)
<1> DEFINE s == Run(a, b)
           where == {k \in DOMAIN s : s[k] \notin bad}
           r == Picked(s, where)
           n == Len(r)
           R == {p \in (Int \X Int) : p[1] < p[2]}
<1>1. Readable(s, bad) = r
  BY DEF Readable
<1>2. /\ s \in Seq(Int) /\ DOMAIN s = 1 .. b - a + 1
      /\ \A k \in DOMAIN s : s[k] = a + k - 1 /\ s[k] \in a .. b
  <2>1. /\ s \in Seq(Int) /\ DOMAIN s = 1 .. b - a + 1
        /\ \A k \in 1 .. b - a + 1 : s[k] = a + k - 1
    BY CountUp
  <2>2. \A k \in 1 .. b - a + 1 : a + k - 1 \in a .. b
    OBVIOUS
  <2> HIDE DEF s
  <2> QED BY <2>1, <2>2
<1> HIDE DEF s
<1>3. r \in Seq(a .. b)
  BY <1>2, PickedType
<1>4. \A i, j \in DOMAIN r : i < j => <<r[i], r[j]>> \in R
  <2>1. \A i, j \in DOMAIN s : i < j => s[i] \in Int /\ s[j] \in Int /\ s[i] < s[j]
    BY <1>2
  <2>2. \A i, j \in DOMAIN s : i < j /\ i \in where /\ j \in where => <<s[i], s[j]>> \in R
    BY <2>1
  <2> HIDE DEF where, R
  <2> QED BY <1>2, <2>2, PickedOrder
<1>5. ASSUME NEW i \in a .. b, i \notin bad PROVE \E k \in 1 .. n : r[k] = i
  <2>1. i - a + 1 \in DOMAIN s /\ s[i - a + 1] = i
    <3>1. i - a + 1 \in 1 .. b - a + 1 /\ a + (i - a + 1) - 1 = i
      OBVIOUS
    <3> QED BY <1>2, <3>1
  <2>2. i - a + 1 \in where
    BY <1>5, <2>1
  <2> HIDE DEF where
  <2> QED BY <1>2, <2>1, <2>2, PickedAll
<1> HIDE DEF where, r
<1>6. r \in Seq(Int) /\ DOMAIN r = 1 .. n /\ \A k \in 1 .. n : a <= r[k] /\ r[k] <= b
  <2>1. DOMAIN r = 1 .. n /\ \A k \in 1 .. n : r[k] \in a .. b
    BY <1>3, LenProperties, ElementOfSeq
  <2>2. r \in Seq(Int)
    <3>1. r \in [1 .. n -> a .. b] /\ n \in Nat
      BY <1>3, LenProperties
    <3>2. r \in [1 .. n -> Int]
      BY <3>1
    <3> QED BY <3>1, <3>2, SeqDef
  <2> QED BY <2>1, <2>2
<1>7. Ascends(r, n)
  BY <1>4, <1>6 DEF Ascends
<1>8. Part(r, a, b, bad)
  BY <1>5, <1>6, <1>7 DEF Part
<1> QED BY <1>1, <1>8 DEF s

-----------------------------------------------------------------------------
(* Sorting.                                                                *)

\* t takes every value from a to b, in n places, as many as there are values.
Covers(t, n, a, b) ==
    /\ a <= b /\ n = b - a + 1 /\ t \in [1 .. n -> a .. b]
    /\ \A v \in a .. b : \E k \in 1 .. n : t[k] = v

\* A sequence as long as the interval it takes its values from, and strictly
\* ascending over all of it, counts up through it.
LEMMA AscentIsRun ==
  ASSUME NEW a \in Int, NEW b \in Int, NEW n, NEW t, Covers(t, n, a, b), Ascends(t, n)
  PROVE  t = Run(a, b)
<1> USE DEF Covers, Ascends
<1>1. n \in Nat /\ n # 0 /\ \A k \in 1 .. n : t[k] \in Int /\ a <= t[k] /\ t[k] <= b
  OBVIOUS
<1>2. t[1] = a
  <2>1. PICK k \in 1 .. n : t[k] = a
    OBVIOUS
  <2>2. 1 \in 1 .. n
    BY <1>1
  <2>3. t[1] < t[k] \/ k = 1
    BY <2>2
  <2> QED BY <1>1, <2>1, <2>2, <2>3
<1>3. ASSUME NEW k \in 1 .. n - 1 PROVE t[k + 1] = t[k] + 1
  <2>1. k \in 1 .. n /\ k + 1 \in 1 .. n /\ k < k + 1
    BY <1>1
  <2>2. t[k] < t[k + 1] /\ t[k] \in Int /\ t[k + 1] \in Int
    BY <1>1, <2>1
  <2>3. t[k] + 1 \in a .. b
    BY <1>1, <2>1, <2>2, SMTT(30)
  <2>4. PICK m \in 1 .. n : t[m] = t[k] + 1
    BY <2>3
  <2>5. ~(m <= k)
    <3> SUFFICES ASSUME m <= k PROVE FALSE
      OBVIOUS
    <3>1. m = k \/ m < k
      BY <2>1
    <3>2. m < k => t[m] < t[k]
      BY <2>1
    <3> QED BY <2>2, <2>4, <3>1, <3>2, SMTT(30)
  <2>6. ~(k + 1 < m)
    <3> SUFFICES ASSUME k + 1 < m PROVE FALSE
      OBVIOUS
    <3>1. t[k + 1] < t[m]
      BY <2>1
    <3> QED BY <2>2, <2>4, <3>1
  <2>7. m = k + 1
    BY <2>1, <2>5, <2>6
  <2> QED BY <2>4, <2>7
<1> DEFINE P == {k \in 0 .. n : k # 0 => t[k] = a + k - 1}
<1>4. 0 \in P
  BY <1>1
<1>5. ASSUME NEW k \in 0 .. n - 1, k \in P PROVE k + 1 \in P
  <2>1. k + 1 \in 0 .. n /\ k \in Int
    BY <1>1
  <2>2. CASE k = 0
    BY <1>2, <2>1, <2>2
  <2>3. CASE k # 0
    <3>1. k \in 1 .. n - 1
      BY <2>1, <2>3
    <3>2. t[k + 1] = t[k] + 1 /\ t[k] = a + k - 1
      BY <1>3, <1>5, <2>3, <3>1
    <3> QED BY <2>1, <3>2
  <2> QED BY <2>2, <2>3
<1> HIDE DEF P
<1>6. \A k \in 0 .. n : k \in P
  BY <1>1, <1>4, <1>5, Upto
<1>7. \A k \in 1 .. n : t[k] = a + k - 1
  <2> TAKE k \in 1 .. n
  <2>1. k \in 0 .. n /\ k # 0
    BY <1>1
  <2> QED BY <1>6, <2>1 DEF P
<1>8. t = [k \in 1 .. n |-> a + k - 1]
  BY <1>7
<1>9. Later(0, b - a + 1) = n
  BY DEF Later
<1> QED BY <1>8, <1>9 DEF Run

\* Sorting a series that ascends leaves it as it is.
LEMMA PartSorted ==
  ASSUME NEW a \in Int, NEW b \in Int, NEW s, NEW u, Part(s, a, b, u)
  PROVE  Sorted(s) = s
<1> DEFINE n == Len(s)
           IsOrder(p) == \A i, j \in 1 .. n : i < j => s[p[i]] <= s[p[j]]
           order == CHOOSE p \in Bijection(1 .. n, 1 .. n) : IsOrder(p)
           id == [k \in 1 .. n |-> k]
<1>1. s \in Seq(Int) /\ n \in Nat /\ DOMAIN s = 1 .. n /\ s = [k \in 1 .. n |-> s[k]]
      /\ \A k \in 1 .. n : s[k] \in Int
  <2>1. s \in Seq(Int)
    BY DEF Part
  <2>2. n \in Nat /\ s \in [1 .. n -> Int]
    BY <2>1, LenProperties
  <2> QED BY <2>1, <2>2
<1>2. \A i, j \in 1 .. n : i < j => s[i] < s[j]
  BY DEF Part, Ascends
<1> HIDE DEF n
<1>3. id \in Bijection(1 .. n, 1 .. n)
  <2>1. id \in [1 .. n -> 1 .. n] /\ (\A k \in 1 .. n : id[k] = k)
    OBVIOUS
  <2> HIDE DEF id
  <2>2. (\A i, j \in 1 .. n : id[i] = id[j] => i = j) /\ \A k \in 1 .. n : \E m \in 1 .. n : id[m] = k
    BY <2>1
  <2> QED BY <2>1, <2>2, ZenonT(30) DEF Bijection, Injection, Surjection, IsInjective
<1>4. IsOrder(id)
  <2> SUFFICES ASSUME NEW i \in 1 .. n, NEW j \in 1 .. n, i < j PROVE s[id[i]] <= s[id[j]]
    OBVIOUS
  <2>1. s[i] < s[j] /\ s[i] \in Int /\ s[j] \in Int
    BY <1>1, <1>2
  <2> QED BY <2>1
<1>5. order \in Bijection(1 .. n, 1 .. n) /\ IsOrder(order)
  <2> HIDE DEF IsOrder, id
  <2> QED BY <1>3, <1>4
<1>6. Sorted(s) = [k \in 1 .. n |-> s[order[k]]]
  BY <1>1 DEF Sorted
<1> HIDE DEF order, id
<1>7. /\ order \in [1 .. n -> 1 .. n]
      /\ \A k \in 1 .. n : \E m \in 1 .. n : order[m] = k
      /\ \A i, j \in 1 .. n : order[i] = order[j] => i = j
  BY <1>5, ZenonT(30) DEF Bijection, Injection, Surjection, IsInjective
<1>8. ASSUME NEW i \in 1 .. n, NEW j \in 1 .. n, i < j PROVE order[i] < order[j]
  <2>0. i # j
    BY <1>1, <1>8
  <2>1. order[i] \in 1 .. n /\ order[j] \in 1 .. n /\ order[i] # order[j]
    BY <1>7, <2>0
  <2>2. s[order[i]] <= s[order[j]]
    BY <1>5, <1>8
  <2>3. ~(order[j] < order[i])
    <3> SUFFICES ASSUME order[j] < order[i] PROVE FALSE
      OBVIOUS
    <3>1. s[order[j]] < s[order[i]]
      BY <1>2, <2>1
    <3>2. s[order[i]] \in Int /\ s[order[j]] \in Int
      BY <1>1, <2>1
    <3> QED BY <2>2, <3>1, <3>2
  <2> QED BY <1>1, <2>1, <2>3
<1>9. ASSUME n # 0 PROVE \A k \in 1 .. n : order[k] = k
  <2>0. 1 <= n /\ n = n - 1 + 1 /\ 1 \in Int /\ n \in Int
    BY <1>1, <1>9
  <2>1. Covers(order, n, 1, n)
    BY <1>7, <2>0, Zenon DEF Covers
  <2>2. Ascends(order, n)
    BY <1>8 DEF Ascends
  <2>3. order = Run(1, n)
    <3>1. 1 \in Int /\ n \in Int
      BY <1>1
    <3> QED BY <2>1, <2>2, <3>1, AscentIsRun
  <2>4. \A k \in 1 .. n : Run(1, n)[k] = k
    <3>1. \A k \in 1 .. n - 1 + 1 : Run(1, n)[k] = 1 + k - 1
      BY <2>0, CountUp
    <3>2. 1 .. n - 1 + 1 = 1 .. n /\ \A k \in 1 .. n : 1 + k - 1 = k
      BY <1>1
    <3> QED BY <3>1, <3>2
  <2> QED BY <2>3, <2>4
<1>10. \A k \in 1 .. n : order[k] = k
  BY <1>1, <1>9
<1>11. [k \in 1 .. n |-> s[order[k]]] = [k \in 1 .. n |-> s[k]]
  BY <1>10
<1> QED BY <1>1, <1>6, <1>11

-----------------------------------------------------------------------------
(* The invariant.                                                          *)

Request ==
    [by : {"binance", "simple", "okx", "klines"}, from : Nat, to : Nat, most : Nat,
     began : Nat, at : Int, tries : Nat, pages : Nat, got : Seq(Int), unread : SUBSET Int,
     phase : {"idle", "paging", "done", "raised"}, faulty : BOOLEAN, local : BOOLEAN,
     key : Nat \X Nat]

\* The fields of a request, and what the constants are.
LEMMA RequestFields ==
  ASSUME NEW f \in Request
  PROVE  /\ f.from \in Nat /\ f.to \in Nat /\ f.at \in Int /\ f.got \in Seq(Int)
         /\ f.unread \in SUBSET Int /\ f.pages \in Nat
  BY DEF Request

LEMMA Sizes ==
  ASSUME CandleAssumption
  PROVE  /\ PageSize \in Nat /\ 2 <= PageSize /\ Listed \in Nat /\ 1 <= Listed
         /\ LastCandle \in Nat
  BY DEF CandleAssumption

\* Pages that go forward: the candles so far, with those that could not be read,
\* are all from the first that was asked for and exists up to the cursor.
Climbs(f) ==
    \/ f.got = <<>> /\ f.at = f.from
    \/ \E a, b \in Int :
          /\ Part(f.got, a, b, f.unread) /\ a <= b /\ f.at = b + 1
          /\ Listed <= a /\ f.from <= a /\ (0 < f.from => a = Later(f.from, Listed))
          /\ 0 < f.to => b < f.to

\* From OKX nothing is ever kept.
Pages(f) ==
    /\ f.by = "okx" => f.got = <<>> /\ f.at = f.to
    /\ f.by # "okx" => Climbs(f)
    /\ f.by # "klines" => 0 < f.from /\ 0 < f.to

\* A saved series, and the fetch that is about to be saved, lies within the dates
\* of its key; an end of 0 is the day it was fetched.
InKey(a, b, key) == key[1] <= a /\ b <= (IF key[2] = 0 THEN now ELSE key[2])

SavedWhole ==
    \A x \in saved :
       /\ x.unread \in SUBSET Int
       /\ \E a, b \in Int : Part(x.candles, a, b, x.unread) /\ (a <= b => InKey(a, b, x.key))

KeyFits(f) ==
    f.by = "simple" => f.key[1] = f.from /\ f.to <= (IF f.key[2] = 0 THEN now ELSE f.key[2])

\* What SeriesIsWhole says of a fetch that is done.
Within(f, a, b) == a <= b => f.from <= a /\ (f.to = 0 \/ b <= f.to)

Clean(f) ==
    ~f.faulty /\ ~f.local /\ f.most = 0 /\ 0 < f.from /\ f.from < f.to /\ f.by # "okx"

AskedFor(f) == {i \in f.from .. f.to : Listed <= i /\ i < f.began}

Whole(f) ==
    \E a, b \in Int : /\ Part(f.got, a, b, f.unread) /\ Within(f, a, b)
                      /\ Clean(f) => AskedFor(f) \subseteq a .. b

CandleInv ==
    /\ now \in Nat /\ Listed <= now /\ lake \in Nat \X Nat /\ cacheFile.parses = FALSE
    /\ SavedWhole
    /\ fetch \in Request /\ fetch.began <= now
    /\ fetch.phase = "paging" => Pages(fetch) /\ KeyFits(fetch)
    /\ fetch.phase = "done" => Whole(fetch)

LEMMA PartIsWhole ==
  ASSUME CandleInv PROVE SeriesIsWhole
<1> SUFFICES ASSUME fetch.phase = "done" PROVE SeriesIsWhole
  BY DEF SeriesIsWhole
<1>1. PICK a \in Int, b \in Int :
         /\ Part(fetch.got, a, b, fetch.unread) /\ Within(fetch, a, b)
         /\ Clean(fetch) => AskedFor(fetch) \subseteq a .. b
  BY DEF CandleInv, Whole
<1>2. fetch.from \in Int /\ fetch.to \in Int
  BY DEF CandleInv, Request
<1> DEFINE got == fetch.got
           n == Len(got)
           u == fetch.unread
<1>3. /\ n \in Nat /\ DOMAIN got = 1 .. n
      /\ \A k \in 1 .. n : got[k] \in Int /\ a <= got[k] /\ got[k] <= b
      /\ \A i, j \in 1 .. n : i < j => got[i] < got[j]
      /\ \A i \in a .. b : i \in u \/ \E k \in 1 .. n : got[k] = i
  <2>1. /\ got \in Seq(Int)
        /\ \A k \in 1 .. n : a <= got[k] /\ got[k] <= b
        /\ \A i, j \in 1 .. n : i < j => got[i] < got[j]
        /\ \A i \in a .. b : i \in u \/ \E k \in 1 .. n : got[k] = i
    BY <1>1 DEF Part, Ascends
  <2>2. n \in Nat /\ DOMAIN got = 1 .. n /\ \A k \in 1 .. n : got[k] \in Int
    BY <2>1, LenProperties, ElementOfSeq
  <2> QED BY <2>1, <2>2
<1> HIDE DEF got, n, u
<1>4. ASSUME NEW k \in 1 .. n - 1
      PROVE  got[k] < got[k + 1] /\ got[k] + 1 .. got[k + 1] - 1 \subseteq u
  <2>1. k \in 1 .. n /\ k + 1 \in 1 .. n /\ k < k + 1
    BY <1>3
  <2>2. got[k] < got[k + 1] /\ got[k] \in Int /\ got[k + 1] \in Int /\ a <= got[k] /\ got[k + 1] <= b
    BY <1>3, <2>1
  <2>3. ASSUME NEW i \in got[k] + 1 .. got[k + 1] - 1 PROVE i \in u
    <3>1. i \in a .. b /\ got[k] < i /\ i < got[k + 1]
      BY <2>2
    <3>2. ASSUME NEW j \in 1 .. n, got[j] = i PROVE FALSE
      <4>1. j < k \/ j = k \/ j = k + 1 \/ k + 1 < j
        BY <2>1
      <4>2. (j < k => got[j] < got[k]) /\ (k + 1 < j => got[k + 1] < got[j])
        BY <1>3, <2>1
      <4> QED BY <2>2, <3>1, <3>2, <4>1, <4>2
    <3> QED BY <1>3, <3>1, <3>2
  <2> QED BY <2>2, <2>3
<1>5. \A k \in 1 .. n : fetch.from <= got[k] /\ (fetch.to = 0 \/ got[k] <= fetch.to)
  <2> TAKE k \in 1 .. n
  <2>1. a <= got[k] /\ got[k] <= b /\ got[k] \in Int
    BY <1>3
  <2>2. fetch.from <= a /\ (fetch.to = 0 \/ b <= fetch.to)
    BY <1>1, <2>1 DEF Within
  <2> QED BY <1>2, <2>1, <2>2
<1>6. a .. b \subseteq Range(got) \cup u
  BY <1>3 DEF Range
<1>7. Untroubled /\ fetch.by # "okx" => Wanted(fetch.to) \subseteq Range(got) \cup u
  <2>1. Untroubled /\ fetch.by # "okx" => Clean(fetch)
    BY DEF Untroubled, Clean
  <2>2. Wanted(fetch.to) = AskedFor(fetch)
    BY DEF Wanted, AskedFor
  <2> QED BY <1>1, <1>6, <2>1, <2>2
<1> QED BY <1>3, <1>4, <1>5, <1>7 DEF SeriesIsWhole, got, n, u

\* What EndHistory makes of a part: its last candles, sorted.
LEMMA TrimmedPart ==
  ASSUME NEW f \in Request, NEW a \in Int, NEW b \in Int, Part(f.got, a, b, f.unread)
  PROVE  \E c \in Int : a <= c /\ Part(Trimmed(f), c, b, f.unread) /\ (f.most = 0 => c = a)
<1>1. Sorted(f.got) = f.got
  BY PartSorted
<1>2. f.most \in Nat
  BY DEF Request
<1>3. CASE f.most = 0
  BY <1>1, <1>3 DEF Trimmed
<1>4. CASE 0 < f.most
  <2>1. PICK c \in Int : a <= c /\ Part(LastOf(f.got, f.most), c, b, f.unread)
    BY <1>2, <1>4, LastOfPart
  <2>2. Trimmed(f) = LastOf(f.got, f.most) /\ f.most # 0
    BY <1>1, <1>4 DEF Trimmed
  <2> QED BY <2>1, <2>2
<1> QED BY <1>2, <1>3, <1>4

\* So what EndHistory returns and saves is whole, if the pages were.
LEMMA HistoryEnds ==
  ASSUME CandleAssumption, CandleInv, NEW f \in Request, EndHistory(f),
         UNCHANGED <<now, lake, fetched>>, f.began <= now, KeyFits(f), 0 < f.to,
         NEW a \in Int, NEW b \in Int, Part(f.got, a, b, f.unread),
         Within(f, a, b), Clean(f) => AskedFor(f) \subseteq a .. b
  PROVE  CandleInv'
<1>1. PICK c \in Int : a <= c /\ Part(Trimmed(f), c, b, f.unread) /\ (f.most = 0 => c = a)
  BY TrimmedPart
<1> DEFINE g == [f EXCEPT !.got = Trimmed(f), !.phase = "done"]
<1>2. fetch' = g /\ now' = now /\ lake' = lake
  BY DEF EndHistory
<1>3. Trimmed(f) \in Seq(Int)
  BY <1>1 DEF Part
<1>4. /\ g \in Request /\ g.got = Trimmed(f) /\ g.phase = "done" /\ g.from = f.from /\ g.to = f.to
      /\ g.by = f.by /\ g.began = f.began /\ g.most = f.most /\ g.faulty = f.faulty
      /\ g.local = f.local /\ g.unread = f.unread
  BY <1>3 DEF Request
<1> HIDE DEF g
<1>5. c <= b => a <= b
  BY <1>1
<1>6. f.from \in Nat /\ f.to \in Nat /\ f.unread \in SUBSET Int
  BY DEF Request
<1>7. Within(g, c, b)
  BY <1>1, <1>4, <1>5, <1>6 DEF Within
<1>8. Clean(g) => AskedFor(g) \subseteq c .. b
  <2> SUFFICES ASSUME Clean(g) PROVE AskedFor(g) \subseteq c .. b
    OBVIOUS
  <2>1. Clean(f) /\ c = a
    BY <1>1, <1>4 DEF Clean
  <2>2. AskedFor(g) = AskedFor(f)
    BY <1>4 DEF AskedFor
  <2> QED BY <2>1, <2>2
<1>9. Whole(g)
  BY <1>1, <1>4, <1>7, <1>8 DEF Whole
<1>10. cacheFile'.parses = FALSE
  BY DEF EndHistory, SaveToCache, Torn, None, CandleInv
<1>11. SavedWhole'
  <2> SUFFICES ASSUME NEW x \in saved'
               PROVE  /\ x.unread \in SUBSET Int
                      /\ \E p, q \in Int : Part(x.candles, p, q, x.unread)
                                           /\ (p <= q => InKey(p, q, x.key))
    BY <1>2 DEF SavedWhole, InKey
  <2>1. CASE x \in saved
    BY <2>1 DEF CandleInv, SavedWhole
  <2>2. CASE f.by = "simple" /\ x = [key |-> f.key, candles |-> Trimmed(f), unread |-> f.unread]
    <3>1. c <= b => InKey(c, b, f.key)
      <4> SUFFICES ASSUME c <= b PROVE InKey(c, b, f.key)
        OBVIOUS
      <4>1. f.key[1] = f.from /\ f.to <= (IF f.key[2] = 0 THEN now ELSE f.key[2])
        BY <2>2 DEF KeyFits
      <4>2. f.from <= a /\ b <= f.to
        BY <1>5, <1>6 DEF Within
      <4>3. f.key[2] \in Nat /\ now \in Nat
        BY DEF Request, CandleInv
      <4> QED BY <1>1, <1>6, <4>1, <4>2, <4>3 DEF InKey
    <3> QED BY <1>1, <1>6, <2>2, <3>1
  <2> QED BY <2>1, <2>2 DEF EndHistory
<1> QED BY <1>2, <1>4, <1>9, <1>10, <1>11 DEF CandleInv

-----------------------------------------------------------------------------
(* A page that goes forward.                                               *)

\* Candles from the next that exists on make a longer part of those in hand.
LEMMA Extends ==
  ASSUME CandleAssumption, NEW f \in Request, Climbs(f)
  PROVE  LET lo == Later(f.at, Listed)
         IN  \E a \in Int :
               /\ a <= lo /\ Listed <= a /\ f.from <= a /\ (0 < f.from => a = Later(f.from, Listed))
               /\ \A c \in Int : \A t, v : lo <= c /\ Part(t, lo, c, v)
                                         => Part(f.got \o t, a, c, f.unread \cup v)
<1> DEFINE lo == Later(f.at, Listed)
           Good(a) == \A c \in Int : \A t, v : lo <= c /\ Part(t, lo, c, v)
                                             => Part(f.got \o t, a, c, f.unread \cup v)
<1> SUFFICES \E x \in Int : /\ x <= lo /\ Listed <= x /\ f.from <= x
                            /\ 0 < f.from => x = Later(f.from, Listed)
                            /\ Good(x)
  OBVIOUS
<1>1. /\ f.at \in Int /\ f.from \in Nat /\ Listed \in Nat /\ lo \in Int
      /\ f.at <= lo /\ Listed <= lo /\ (lo = f.at \/ lo = Listed)
  BY DEF CandleAssumption, Request, Later
<1>2. CASE f.got = <<>> /\ f.at = f.from
  <2>1. f.from <= lo /\ lo = Later(f.from, Listed)
    BY <1>1, <1>2
  <2> HIDE DEF lo
  <2>2. ASSUME NEW c \in Int, NEW t, NEW v, Part(t, lo, c, v)
        PROVE  Part(f.got \o t, lo, c, f.unread \cup v)
    <3>1. t \in Seq(Int)
      BY <2>2 DEF Part
    <3>2. f.got \o t = t
      BY <1>2, <3>1, ConcatEmptySeq
    <3> QED BY <2>2, <3>2 DEF Part
  <2>3. Good(lo)
    BY <2>2
  <2> HIDE DEF Good
  <2> QED BY <1>1, <2>1, <2>3
<1>3. ASSUME NEW a \in Int, NEW b \in Int, Part(f.got, a, b, f.unread), a <= b, f.at = b + 1,
             Listed <= a, f.from <= a, 0 < f.from => a = Later(f.from, Listed)
      PROVE  \E x \in Int : /\ x <= lo /\ Listed <= x /\ f.from <= x
                            /\ 0 < f.from => x = Later(f.from, Listed)
                            /\ Good(x)
  <2>1. lo = b + 1 /\ a <= lo
    BY <1>1, <1>3
  <2>2. ASSUME NEW c \in Int, NEW t, NEW v, lo <= c, Part(t, lo, c, v)
        PROVE  Part(f.got \o t, a, c, f.unread \cup v)
    <3>1. a <= b + 1 /\ b <= c /\ Part(t, b + 1, c, v)
      BY <1>3, <2>1, <2>2
    <3> QED BY <1>3, <3>1, PartsJoin
  <2>3. Good(a)
    BY <2>2
  <2> HIDE DEF Good, lo
  <2> QED BY <1>3, <2>1, <2>3
<1> HIDE DEF lo, Good
<1> QED BY <1>2, <1>3 DEF Climbs

\* What the exchange answers: candles from the next that exists, up to the end.
LEMMA FirstPiece ==
  ASSUME NEW a \in Int, NEW b \in Int, NEW m \in Nat
  PROVE  FirstOf(Run(a, b), m) = <<>> \/ \E d \in Int : a <= d /\ d <= b /\ FirstOf(Run(a, b), m) = Run(a, d)
<1>1. CASE m = 0
  <2>1. FirstOf(Run(a, b), m) = SubSeq(Run(a, b), 1, 0)
    <3>1. ~(Len(Run(a, b)) < 0)
      BY CountUp, LenProperties
    <3> QED BY <1>1, <3>1 DEF FirstOf
  <2> QED BY <2>1, SubSeqEmpty
<1>2. CASE m # 0
  <2> DEFINE d == Sooner(b, a + m - 1)
  <2>1. FirstOf(Run(a, b), m) = Run(a, d) /\ d \in Int /\ d <= b
    BY <1>2, FirstOfRun DEF Sooner
  <2> HIDE DEF d
  <2>2. CASE d < a
    BY <2>1, <2>2, NoCandles
  <2> QED BY <2>1, <2>2
<1> QED BY <1>1, <1>2

LEMMA PageJoins ==
  ASSUME CandleAssumption, NEW f \in Request, Climbs(f), NEW top \in Int, NEW n \in Nat, 2 <= n
  PROVE  LET answer == FirstOf(Run(Later(f.at, Listed), top), n)
         IN  \/ answer = <<>> /\ top < Later(f.at, Listed)
             \/ \E a, c \in Int :
                   /\ answer # <<>> /\ Last(answer) = c /\ a <= c /\ c <= top
                   /\ Listed <= a /\ f.from <= a /\ (0 < f.from => a = Later(f.from, Listed))
                   /\ Len(answer) < n => c = top
                   /\ f.at = f.from /\ c <= f.at => c = top
                   /\ \A bad : Part(f.got \o Readable(answer, bad), a, c, f.unread \cup bad)
<1> DEFINE lo == Later(f.at, Listed)
           hi == Sooner(top, lo + n - 1)
           answer == FirstOf(Run(lo, top), n)
           Joins(a) == \A c \in Int : \A t, v : lo <= c /\ Part(t, lo, c, v)
                                                 => Part(f.got \o t, a, c, f.unread \cup v)
           Right(a, c) ==
              /\ answer # <<>> /\ Last(answer) = c /\ a <= c /\ c <= top
              /\ Listed <= a /\ f.from <= a /\ (0 < f.from => a = Later(f.from, Listed))
              /\ Len(answer) < n => c = top
              /\ f.at = f.from /\ c <= f.at => c = top
              /\ \A bad : Part(f.got \o Readable(answer, bad), a, c, f.unread \cup bad)
<1> SUFFICES (answer = <<>> /\ top < lo) \/ \E a, c \in Int : Right(a, c)
  OBVIOUS
<1>1. f.at \in Int /\ f.from \in Nat /\ Listed \in Nat /\ lo \in Int /\ f.at <= lo
  BY DEF CandleAssumption, Request, Later
<1>2. PICK a \in Int : /\ a <= lo /\ Listed <= a /\ f.from <= a
                       /\ 0 < f.from => a = Later(f.from, Listed)
                       /\ Joins(a)
  BY Extends
<1> HIDE DEF lo, Joins
<1>3. hi \in Int /\ hi <= top /\ (hi = top \/ hi = lo + n - 1)
  BY <1>1 DEF Sooner
<1>4. answer = Run(lo, hi)
  BY <1>1, FirstOfRun
<1>5. CASE top < lo
  <2>1. hi < lo
    BY <1>1, <1>3, <1>5
  <2> HIDE DEF hi
  <2>2. answer = <<>>
    BY <1>1, <1>3, <1>4, <2>1, NoCandles
  <2> QED BY <1>5, <2>2
<1>6. CASE lo <= top
  <2>1. lo <= hi
    BY <1>1, <1>3, <1>6
  <2> HIDE DEF hi, answer
  <2>2. answer # <<>> /\ Last(answer) = hi /\ Len(answer) = hi - lo + 1
    <3>1. Run(lo, hi) # <<>>
      <4>1. ~(hi < lo)
        BY <1>1, <1>3, <2>1
      <4> QED BY <1>1, <1>3, <4>1, NoCandles
    <3>2. Last(Run(lo, hi)) = hi /\ Len(Run(lo, hi)) = hi - lo + 1
      BY <1>1, <1>3, <2>1, Ends, RunLength
    <3> QED BY <1>4, <3>1, <3>2
  <2>3. /\ Len(answer) < n => hi = top
        /\ hi <= f.at => hi = top
    BY <1>1, <1>3, <2>1, <2>2
  <2>4. ASSUME NEW bad PROVE Part(f.got \o Readable(answer, bad), a, hi, f.unread \cup bad)
    <3>1. Part(Readable(answer, bad), lo, hi, bad)
      BY <1>1, <1>3, <1>4, ReadableIsPart
    <3> QED BY <1>2, <1>3, <2>1, <3>1 DEF Joins
  <2>5. a <= hi
    BY <1>1, <1>2, <1>3, <2>1
  <2>6. Right(a, hi)
    BY <1>2, <1>3, <2>2, <2>3, <2>4, <2>5
  <2> QED BY <1>3, <2>6
<1>7. top < lo \/ lo <= top
  BY <1>1
<1> QED BY <1>5, <1>6, <1>7

LEMMA AskedForward ==
  ASSUME CandleAssumption, CandleInv, NEW f \in Request, f.began <= now,
         NEW a \in Int, NEW c \in Int, a = Later(f.from, Listed), Sooner(f.to, now) <= c
  PROVE  AskedFor(f) \subseteq a .. c
<1>1. f.from \in Nat /\ f.to \in Nat /\ f.began \in Nat /\ Listed \in Nat /\ now \in Nat
  BY DEF CandleAssumption, CandleInv, Request
<1>2. ASSUME NEW i \in AskedFor(f) PROVE i \in a .. c
  <2>1. i \in f.from .. f.to /\ Listed <= i /\ i < f.began
    BY <1>2 DEF AskedFor
  <2>2. i \in Int /\ f.from <= i /\ i <= f.to /\ i <= now
    BY <1>1, <2>1
  <2>3. a <= i
    BY <1>1, <2>1, <2>2 DEF Later
  <2>4. i <= c
    BY <1>1, <2>2 DEF Sooner
  <2> QED BY <2>2, <2>3, <2>4
<1> QED BY <1>2

-----------------------------------------------------------------------------
(* The steps.                                                              *)

LEMMA CandleInitLemma ==
  ASSUME CandleAssumption, CandleInit PROVE CandleInv
<1>1. now \in Nat /\ Listed <= now /\ lake \in Nat \X Nat
  BY DEF CandleAssumption, CandleInit
<1>2. fetch \in Request /\ fetch.began <= now /\ fetch.phase = "idle"
  <2>1. <<>> \in Seq(Int)
    BY EmptySeq
  <2> QED BY <1>1, <2>1 DEF CandleInit, Idle, Request
<1>3. SavedWhole /\ cacheFile.parses = FALSE
  BY DEF CandleInit, SavedWhole, None
<1> QED BY <1>1, <1>2, <1>3 DEF CandleInv

LEMMA PeriodStep ==
  ASSUME CandleAssumption, CandleInv, Period PROVE CandleInv'
<1>1. now \in Nat /\ now' = now + 1 /\ fetch' = fetch /\ saved' = saved
      /\ lake' = lake /\ cacheFile' = cacheFile /\ Listed \in Nat
  BY DEF Period, CandleInv, CandleAssumption
<1>2. fetch \in Request /\ fetch.began \in Nat /\ fetch.began <= now
  BY DEF CandleInv, Request
<1>3. SavedWhole'
  <2> SUFFICES ASSUME NEW x \in saved
               PROVE  /\ x.unread \in SUBSET Int
                      /\ \E p, q \in Int : Part(x.candles, p, q, x.unread)
                                           /\ (p <= q => InKey(p, q, x.key)')
    BY <1>1 DEF SavedWhole, InKey
  <2>1. PICK p \in Int, q \in Int : Part(x.candles, p, q, x.unread) /\ (p <= q => InKey(p, q, x.key))
    BY DEF CandleInv, SavedWhole
  <2>2. InKey(p, q, x.key) => InKey(p, q, x.key)'
    BY <1>1 DEF InKey
  <2>3. x.unread \in SUBSET Int
    BY DEF CandleInv, SavedWhole
  <2> QED BY <2>1, <2>2, <2>3
<1>4. ASSUME fetch.phase = "paging" PROVE Pages(fetch)' /\ KeyFits(fetch)'
  <2>1. Pages(fetch) /\ KeyFits(fetch)
    BY <1>4 DEF CandleInv
  <2>2. Climbs(fetch)' <=> Climbs(fetch)
    BY <1>1 DEF Climbs
  <2>3. KeyFits(fetch)'
    <3>1. fetch.to \in Nat /\ fetch.key[2] \in Nat
      BY <1>2 DEF Request
    <3> QED BY <1>1, <2>1, <3>1 DEF KeyFits
  <2> QED BY <1>1, <2>1, <2>2, <2>3 DEF Pages
<1>5. ASSUME fetch.phase = "done" PROVE Whole(fetch)'
  <2>1. Whole(fetch)
    BY <1>5 DEF CandleInv
  <2> QED BY <1>1, <2>1 DEF Whole, Within, Clean, AskedFor
<1>6. now' \in Nat /\ Listed <= now' /\ fetch.began <= now' /\ lake' \in Nat \X Nat
      /\ cacheFile'.parses = FALSE
  BY <1>1, <1>2 DEF CandleInv
<1> QED BY <1>1, <1>2, <1>3, <1>4, <1>5, <1>6 DEF CandleInv

\* A fetch that begins: a request with nothing in hand, or the answer of a file.
LEMMA Begins ==
  ASSUME CandleAssumption, CandleInv, UNCHANGED <<now, lake, cacheFile, saved>>,
         fetch' \in Request, fetch'.began <= now,
         fetch'.phase = "paging" => Pages(fetch') /\ KeyFits(fetch'),
         fetch'.phase = "done" => Whole(fetch')
  PROVE  CandleInv'
<1>1. now' = now /\ saved' = saved /\ lake' = lake /\ cacheFile' = cacheFile
  OBVIOUS
<1>2. SavedWhole'
  BY <1>1 DEF CandleInv, SavedWhole, InKey
<1>3. fetch'.phase = "paging" => Pages(fetch)' /\ KeyFits(fetch)'
  BY <1>1 DEF Pages, Climbs, KeyFits
<1>4. fetch'.phase = "done" => Whole(fetch)'
  BY <1>1 DEF Whole, Within, Clean, AskedFor
<1> QED BY <1>1, <1>2, <1>3, <1>4 DEF CandleInv

LEMMA AskedRequest ==
  ASSUME CandleInv, NEW by \in {"binance", "simple", "okx", "klines"}, NEW from \in Nat, NEW to \in Nat,
         NEW most \in Nat, NEW at \in Nat, NEW key \in Nat \X Nat
  PROVE  Asked(by, from, to, most, at, key) \in Request
<1>1. <<>> \in Seq(Int) /\ now \in Nat
  BY EmptySeq DEF CandleInv
<1> QED BY <1>1 DEF Asked, Request

LEMMA FetchHistoryStep ==
  ASSUME CandleAssumption, CandleInv, UNCHANGED <<now, lake, cacheFile, saved>>,
         NEW by \in {"binance", "okx"}, NEW from \in Nat, NEW to \in Nat, 0 < from, 0 < to,
         NEW most \in Limits, FetchHistory(by, from, to, most)
  PROVE  CandleInv'
<1> DEFINE at == IF by = "okx" THEN to ELSE from
           g == Asked(by, from, to, most, at, <<0, 0>>)
<1>1. LoadFromCache(from, to) = <<>>
  BY DEF LoadFromCache, CandleInv
<1>2. fetch' = g
  BY <1>1 DEF FetchHistory
<1>3. now \in Nat /\ most \in Nat
  BY DEF CandleInv, CandleAssumption
<1>4. g \in Request
  <2>1. at \in Nat
    OBVIOUS
  <2> QED BY <1>3, <2>1, AskedRequest
<1>5. /\ g.got = <<>> /\ g.by = by /\ g.at = (IF by = "okx" THEN to ELSE from)
      /\ g.from = from /\ g.to = to /\ g.began = now /\ g.phase = "paging"
  BY DEF Asked
<1> HIDE DEF g
<1>6. Pages(g) /\ KeyFits(g)
  BY <1>5 DEF Pages, Climbs, KeyFits
<1> QED BY <1>2, <1>3, <1>4, <1>5, <1>6, Begins

LEMMA FetchBinanceStep ==
  ASSUME CandleAssumption, CandleInv, UNCHANGED <<now, lake, cacheFile, saved>>,
         NEW from \in Nat, NEW to \in Nat, 0 < from, NEW most \in Limits,
         FetchBinanceHistory(from, to, most)
  PROVE  CandleInv'
<1> DEFINE end == IF to = 0 THEN now ELSE to
           files == {f \in saved : f.key = <<from, to>>}
           g == Asked("simple", from, end, most, from, <<from, to>>)
<1>1. now \in Nat /\ most \in Nat /\ end \in Nat /\ 0 < end
  BY DEF CandleInv, CandleAssumption
<1> HIDE DEF end
<1>2. g \in Request
  BY <1>1, AskedRequest
<1>3. CASE files = {}
  <2> DEFINE h == g
  <2>1. fetch' = h
    BY <1>3 DEF FetchBinanceHistory, end
  <2>2. h \in Request
    BY <1>2
  <2>3. /\ h.got = <<>> /\ h.by = "simple" /\ h.at = from /\ h.from = from /\ h.to = end
        /\ h.began = now /\ h.key = <<from, to>> /\ h.phase = "paging"
    BY DEF Asked
  <2> HIDE DEF h
  <2>4. Pages(h) /\ KeyFits(h)
    BY <1>1, <2>3 DEF Pages, Climbs, KeyFits, end
  <2> QED BY <1>1, <2>1, <2>2, <2>3, <2>4, Begins
<1>4. CASE files # {}
  <2> DEFINE x == CHOOSE f \in files : TRUE
             got == IF most > 0 THEN LastOf(x.candles, most) ELSE x.candles
             h == [g EXCEPT !.phase = "done", !.local = TRUE, !.unread = x.unread, !.got = got]
  <2>1. fetch' = h
    BY <1>4 DEF FetchBinanceHistory, end
  <2>2. x \in saved /\ x.key = <<from, to>>
    BY <1>4
  <2> HIDE DEF x
  <2>3. PICK a \in Int, b \in Int : Part(x.candles, a, b, x.unread) /\ (a <= b => InKey(a, b, x.key))
    BY <2>2 DEF CandleInv, SavedWhole
  <2>4. PICK c \in Int : a <= c /\ Part(got, c, b, x.unread)
    <3>1. CASE most > 0
      <4>1. most \in Nat /\ 0 < most
        BY <1>1, <3>1
      <4>2. PICK c \in Int : a <= c /\ Part(LastOf(x.candles, most), c, b, x.unread)
        BY <2>3, <4>1, LastOfPart
      <4> QED BY <3>1, <4>2
    <3>2. CASE ~(most > 0)
      BY <2>3, <3>2
    <3> QED BY <3>1, <3>2
  <2> HIDE DEF got
  <2>5. h \in Request
    <3>1. got \in Seq(Int) /\ x.unread \in SUBSET Int
      BY <2>2, <2>4 DEF Part, CandleInv, SavedWhole
    <3> QED BY <1>2, <3>1 DEF Request
  <2>6. /\ h.got = got /\ h.from = from /\ h.to = end /\ h.began = now
        /\ h.phase = "done" /\ h.local = TRUE /\ h.unread = x.unread
    BY DEF Asked
  <2> HIDE DEF h
  <2>7. Within(h, c, b)
    <3> SUFFICES ASSUME c <= b PROVE from <= c /\ b <= end
      BY <2>6 DEF Within
    <3>1. a <= b
      BY <2>4
    <3>2. from <= a /\ b <= end
      BY <2>2, <2>3, <3>1 DEF InKey, end
    <3> QED BY <2>4, <3>2
  <2>8. Whole(h)
    BY <2>4, <2>6, <2>7 DEF Whole, Clean
  <2> QED BY <1>1, <2>1, <2>5, <2>6, <2>8, Begins
<1> QED BY <1>3, <1>4

LEMMA FetchKlinesStep ==
  ASSUME CandleAssumption, CandleInv, UNCHANGED <<now, lake, cacheFile, saved>>,
         NEW from \in Nat, NEW to \in Nat, NEW fits \in BOOLEAN, FetchKlines(from, to, fits)
  PROVE  CandleInv'
<1> DEFINE g == Asked("klines", from, to, 0, from, <<0, 0>>)
<1>1. now \in Nat /\ lake[1] \in Nat /\ lake[2] \in Nat /\ PageSize \in Nat /\ 0 < PageSize
  BY DEF CandleInv, CandleAssumption
<1>2. g \in Request
  BY <1>1, AskedRequest
<1>3. CASE ~(lake[1] <= lake[2] /\ fits)
  <2> DEFINE h == g
  <2>1. fetch' = h
    BY <1>3 DEF FetchKlines
  <2>2. h \in Request
    BY <1>2
  <2>3. /\ h.got = <<>> /\ h.by = "klines" /\ h.at = from /\ h.from = from
        /\ h.began = now /\ h.phase = "paging"
    BY DEF Asked
  <2> HIDE DEF h
  <2>4. Pages(h) /\ KeyFits(h)
    BY <2>3 DEF Pages, Climbs, KeyFits
  <2> QED BY <1>1, <2>1, <2>2, <2>3, <2>4, Begins
<1>4. CASE lake[1] <= lake[2] /\ fits
  <2> DEFINE a == Later(lake[1], from)
             b == IF to = 0 THEN lake[2] ELSE Sooner(lake[2], to)
             got == LastOf(Run(a, b), PageSize)
             h == [g EXCEPT !.got = got, !.phase = "done", !.local = TRUE]
  <2>1. fetch' = h
    BY <1>4 DEF FetchKlines
  <2>2. a \in Int /\ b \in Int /\ from <= a /\ (to = 0 \/ b <= to)
    BY <1>1 DEF Later, Sooner
  <2> HIDE DEF a, b
  <2>3. PICK c \in Int : a <= c /\ Part(got, c, b, {})
    BY <1>1, <2>2, RunIsPart, LastOfPart
  <2> HIDE DEF got
  <2>4. h \in Request
    <3>1. got \in Seq(Int)
      BY <2>3 DEF Part
    <3> QED BY <1>2, <3>1 DEF Request
  <2>5. /\ h.got = got /\ h.from = from /\ h.to = to /\ h.began = now
        /\ h.phase = "done" /\ h.local = TRUE /\ h.unread = {}
    BY DEF Asked
  <2> HIDE DEF h
  <2>6. Within(h, c, b)
    <3> SUFFICES ASSUME c <= b PROVE from <= c /\ (to = 0 \/ b <= to)
      BY <2>5 DEF Within
    <3> QED BY <2>2, <2>3
  <2>7. Whole(h)
    BY <2>2, <2>3, <2>5, <2>6 DEF Whole, Clean
  <2> QED BY <1>1, <2>1, <2>4, <2>5, <2>7, Begins
<1> QED BY <1>3, <1>4

LEMMA BeginStep ==
  ASSUME CandleAssumption, CandleInv, Begin PROVE CandleInv'
<1>1. UNCHANGED <<now, lake, cacheFile, saved>>
  BY DEF Begin
<1>2. PICK from \in 0 .. LastCandle, to \in 0 .. LastCandle :
          \/ /\ from > 0 /\ to > 0
             /\ \E by \in {"binance", "okx"}, most \in Limits : FetchHistory(by, from, to, most)
          \/ from > 0 /\ \E most \in Limits : FetchBinanceHistory(from, to, most)
          \/ \E fits \in BOOLEAN : FetchKlines(from, to, fits)
  BY DEF Begin
<1>3. from \in Nat /\ to \in Nat
  BY DEF CandleAssumption
<1> QED BY <1>1, <1>2, <1>3, FetchHistoryStep, FetchBinanceStep, FetchKlinesStep

\* A fetch of which only the candles, the rows passed over, the cursor, the mark of
\* a fault and the counters differ from the one in hand.
Continues(f) ==
    /\ f \in Request /\ f.by = fetch.by /\ f.from = fetch.from /\ f.to = fetch.to
    /\ f.most = fetch.most /\ f.began = fetch.began /\ f.key = fetch.key /\ f.local = fetch.local

LEMMA GoesOn ==
  ASSUME CandleAssumption, CandleInv, fetch.phase = "paging", UNCHANGED <<now, lake, fetched>>,
         fetch.by # "okx", NEW f, Continues(f), GoOn(f), f.phase = "paging", Climbs(f)
  PROVE  CandleInv'
<1>1. fetch' = f /\ UNCHANGED <<now, lake, cacheFile, saved>>
  BY DEF GoOn
<1>2. Pages(fetch) /\ KeyFits(fetch) /\ fetch.began <= now
  BY DEF CandleInv
<1>3. f \in Request /\ f.began <= now /\ Pages(f) /\ KeyFits(f)
  BY <1>2 DEF Continues, Pages, KeyFits
<1> QED BY <1>1, <1>3, Begins

LEMMA LoopEnds ==
  ASSUME CandleAssumption, CandleInv, fetch.phase = "paging", fetch.by # "klines",
         UNCHANGED <<now, lake, fetched>>, NEW f, Continues(f), EndHistory(f),
         NEW a \in Int, NEW b \in Int, Part(f.got, a, b, f.unread), Within(fetch, a, b),
         f.faulty \/ f.faulty = fetch.faulty,
         f.faulty \/ (Clean(fetch) => AskedFor(fetch) \subseteq a .. b)
  PROVE  CandleInv'
<1>1. Pages(fetch) /\ KeyFits(fetch) /\ fetch.began <= now
  BY DEF CandleInv
<1>2. f \in Request /\ f.began <= now /\ KeyFits(f) /\ 0 < f.to /\ Within(f, a, b)
  BY <1>1 DEF Continues, Pages, KeyFits, Within
<1>3. Clean(f) => AskedFor(f) \subseteq a .. b
  BY DEF Continues, Clean, AskedFor
<1> QED BY <1>2, <1>3, HistoryEnds

\* What a loop has when it stops early.
LEMMA SoFar ==
  ASSUME CandleAssumption, NEW f \in Request, f.got = <<>> \/ Climbs(f)
  PROVE  \E a, b \in Int : Part(f.got, a, b, f.unread) /\ Within(f, a, b)
<1>1. f.from \in Nat /\ f.to \in Nat
  BY DEF Request
<1>2. CASE f.got = <<>>
  <2>1. Part(<<>>, 1, 0, f.unread)
    BY EmptyPart
  <2>2. 1 \in Int /\ 0 \in Int /\ Within(f, 1, 0)
    BY DEF Within
  <2> QED BY <1>2, <2>1, <2>2
<1>3. CASE f.got # <<>>
  <2>1. PICK a \in Int, b \in Int : /\ Part(f.got, a, b, f.unread) /\ f.from <= a
                                    /\ 0 < f.to => b < f.to
    BY <1>3 DEF Climbs
  <2>2. Within(f, a, b)
    BY <1>1, <2>1 DEF Within
  <2> QED BY <2>1, <2>2
<1> QED BY <1>2, <1>3

\* What a forward loop has when the exchange has no more.
LEMMA NothingMore ==
  ASSUME CandleAssumption, CandleInv, NEW f \in Request, f.began <= now, Climbs(f),
         NEW top \in Int, top < Later(f.at, Listed), 0 < f.to => top = Sooner(f.to, now)
  PROVE  \E a, b \in Int : /\ Part(f.got, a, b, f.unread) /\ Within(f, a, b)
                           /\ Clean(f) => AskedFor(f) \subseteq a .. b
<1>1. f.from \in Nat /\ f.to \in Nat /\ f.at \in Int /\ Listed \in Nat
  BY DEF CandleAssumption, Request
<1> DEFINE a == Later(f.from, Listed)
<1>2. a \in Int
  BY <1>1 DEF Later
<1>3. CASE f.got = <<>> /\ f.at = f.from
  <2>2. top < a
    BY <1>3
  <2> HIDE DEF a
  <2>3. Part(f.got, a, top, f.unread)
    BY <1>2, <1>3, <2>2, PartOfNothing
  <2>4. Within(f, a, top)
    BY <1>2, <2>2 DEF Within
  <2>5. Clean(f) => AskedFor(f) \subseteq a .. top
    <3> SUFFICES ASSUME Clean(f) PROVE AskedFor(f) \subseteq a .. top
      OBVIOUS
    <3>1. 0 < f.to
      BY <1>1 DEF Clean
    <3>2. Sooner(f.to, now) <= top
      BY <3>1
    <3> QED BY <1>2, <3>2, AskedForward DEF a
  <2> QED BY <1>2, <2>3, <2>4, <2>5
<1>4. ASSUME NEW p \in Int, NEW q \in Int,
             Part(f.got, p, q, f.unread) /\ p <= q /\ f.at = q + 1,
             Listed <= p /\ f.from <= p /\ (0 < f.from => p = Later(f.from, Listed)),
             0 < f.to => q < f.to
      PROVE  Within(f, p, q) /\ (Clean(f) => AskedFor(f) \subseteq p .. q)
  <2>2. Within(f, p, q)
    BY <1>1, <1>4 DEF Within
  <2>3. top <= q
    BY <1>1, <1>4 DEF Later
  <2>4. Clean(f) => AskedFor(f) \subseteq p .. q
    <3> SUFFICES ASSUME Clean(f) PROVE AskedFor(f) \subseteq p .. q
      OBVIOUS
    <3>1. 0 < f.to /\ p = Later(f.from, Listed)
      BY <1>1, <1>4 DEF Clean
    <3>2. Sooner(f.to, now) <= q
      BY <2>3, <3>1
    <3> QED BY <3>1, <3>2, AskedForward
  <2> QED BY <2>2, <2>4
<1> HIDE DEF a
<1> QED BY <1>3, <1>4 DEF Climbs

LEMMA EmptyStep ==
  ASSUME CandleAssumption, CandleInv, NEW by \in {"binance", "simple", "okx"}, Empty(by)
  PROVE  CandleInv'
<1>1. /\ fetch.phase = "paging" /\ fetch.by = by /\ UNCHANGED <<now, lake, fetched>>
      /\ EndHistory(fetch)
      /\ IF by = "okx" THEN ~(fetch.from < fetch.at)
         ELSE fetch.at = fetch.from /\ ~(fetch.at < fetch.to)
  BY DEF Empty, Paging, InRange
<1>2. fetch \in Request /\ Pages(fetch)
  BY <1>1 DEF CandleInv
<1>3. PICK a \in Int, b \in Int : Part(fetch.got, a, b, fetch.unread) /\ Within(fetch, a, b)
  BY <1>1, <1>2, SoFar DEF Pages
<1>4. ~Clean(fetch)
  BY <1>1 DEF Clean
<1>5. Continues(fetch) /\ fetch.by # "klines"
  BY <1>1, <1>2 DEF Continues
<1> QED BY <1>1, <1>3, <1>4, <1>5, LoopEnds

\* An end that a fault brings about.
LEMMA FaultEnds ==
  ASSUME CandleAssumption, CandleInv, fetch.phase = "paging", fetch.by # "klines",
         UNCHANGED <<now, lake, fetched>>, EndHistory([fetch EXCEPT !.faulty = TRUE])
  PROVE  CandleInv'
<1> DEFINE f == [fetch EXCEPT !.faulty = TRUE]
<1>1. fetch \in Request /\ Pages(fetch)
  BY DEF CandleInv
<1>2. Continues(f) /\ f.got = fetch.got /\ f.unread = fetch.unread /\ f.faulty = TRUE
  BY <1>1 DEF Request, Continues
<1>3. PICK a \in Int, b \in Int : Part(fetch.got, a, b, fetch.unread) /\ Within(fetch, a, b)
  BY <1>1, SoFar DEF Pages
<1>4. EndHistory(f)
  OBVIOUS
<1> HIDE DEF f
<1>5. Part(f.got, a, b, f.unread)
  BY <1>2, <1>3
<1> QED BY <1>2, <1>3, <1>4, <1>5, LoopEnds

\* What Binance answers is a run of candles, up to the end that was asked for.
LEMMA AnswerIsRun ==
  ASSUME CandleAssumption, CandleInv
  PROVE  LET lo == Later(fetch.at, Listed)
             hi == Sooner(Sooner(fetch.to, now), lo + PageSize - 1)
         IN  lo \in Int /\ hi \in Int /\ hi <= fetch.to /\ PageShown = Run(lo, hi)
<1> DEFINE lo == Later(fetch.at, Listed)
           top == Sooner(fetch.to, now)
           hi == Sooner(top, lo + PageSize - 1)
<1>1. /\ fetch.to \in Nat /\ fetch.at \in Int /\ Listed \in Nat /\ now \in Nat
      /\ PageSize \in Nat /\ 0 < PageSize
  BY DEF Request, CandleInv, CandleAssumption
<1>2. lo \in Int /\ top \in Int /\ hi \in Int /\ hi <= fetch.to
  BY <1>1 DEF Later, Sooner
<1>3. PageShown = FirstOf(Run(lo, top), PageSize)
  BY DEF PageShown, Served
<1> HIDE DEF lo, top
<1>4. PageShown = Run(lo, hi)
  BY <1>1, <1>2, <1>3, FirstOfRun
<1> QED BY <1>2, <1>4 DEF lo, top

\* The rows before the one that cannot be read are a part of what was asked.
LEMMA SomeOfPage ==
  ASSUME CandleAssumption, CandleInv, fetch.by = "binance", Climbs(fetch), 0 < fetch.to, NEW m \in Nat
  PROVE  \E a, b \in Int : /\ Part(fetch.got \o FirstOf(PageShown, m), a, b, fetch.unread)
                           /\ Within(fetch, a, b)
<1> DEFINE lo == Later(fetch.at, Listed)
           hi == Sooner(Sooner(fetch.to, now), lo + PageSize - 1)
           piece == FirstOf(Run(lo, hi), m)
<1>1. fetch \in Request /\ fetch.from \in Nat /\ fetch.to \in Nat /\ fetch.got \in Seq(Int)
  BY DEF Request, CandleInv
<1>2. lo \in Int /\ hi \in Int /\ hi <= fetch.to /\ PageShown = Run(lo, hi)
  BY AnswerIsRun
<1>3. PageShown = Run(lo, hi)
  BY <1>2
<1>4. piece = <<>> \/ \E d \in Int : lo <= d /\ d <= hi /\ piece = Run(lo, d)
  <2> HIDE DEF lo, hi
  <2> QED BY <1>2, FirstPiece
<1>5. PICK a \in Int : /\ fetch.from <= a
                       /\ \A c \in Int : \A t, v : lo <= c /\ Part(t, lo, c, v)
                                            => Part(fetch.got \o t, a, c, fetch.unread \cup v)
  BY <1>1, Extends
<1> HIDE DEF lo, hi, piece
<1>6. CASE piece = <<>>
  <2>1. fetch.got \o piece = fetch.got
    BY <1>1, <1>6, ConcatEmptySeq
  <2>2. PICK p \in Int, q \in Int : Part(fetch.got, p, q, fetch.unread) /\ Within(fetch, p, q)
    BY <1>1, SoFar
  <2> QED BY <1>3, <2>1, <2>2 DEF piece
<1>7. ASSUME NEW d \in Int, lo <= d, d <= hi, piece = Run(lo, d)
      PROVE  \E p, q \in Int : Part(fetch.got \o piece, p, q, fetch.unread) /\ Within(fetch, p, q)
  <2>1. Part(piece, lo, d, {})
    BY <1>2, <1>7, RunIsPart
  <2>2. Part(fetch.got \o piece, a, d, fetch.unread \cup {})
    BY <1>5, <1>7, <2>1
  <2>3. fetch.unread \cup {} = fetch.unread
    OBVIOUS
  <2>4. Within(fetch, a, d)
    BY <1>1, <1>2, <1>5, <1>7 DEF Within
  <2> QED BY <2>2, <2>3, <2>4
<1> QED BY <1>3, <1>4, <1>6, <1>7 DEF piece

LEMMA BinanceFaultStep ==
  ASSUME CandleAssumption, CandleInv, BinanceFault PROVE CandleInv'
<1>1. fetch.phase = "paging" /\ fetch.by = "binance" /\ UNCHANGED <<now, lake, fetched>>
  BY DEF BinanceFault, Paging
<1>2. fetch \in Request /\ Pages(fetch) /\ Climbs(fetch) /\ 0 < fetch.to
  BY <1>1 DEF CandleInv, Pages
<1>3. CASE GoOn([fetch EXCEPT !.tries = @ + 1])
  <2> DEFINE f == [fetch EXCEPT !.tries = @ + 1]
  <2>1. fetch.tries + 1 \in Nat
    BY <1>2 DEF Request
  <2>2. /\ Continues(f) /\ f.got = fetch.got /\ f.at = fetch.at /\ f.unread = fetch.unread
        /\ f.phase = fetch.phase
    BY <1>2, <2>1 DEF Request, Continues
  <2>3. GoOn(f)
    BY <1>3
  <2> HIDE DEF f
  <2>4. Climbs(f)
    BY <1>2, <2>2 DEF Climbs, Continues
  <2>5. fetch.by # "okx" /\ f.phase = "paging"
    BY <1>1, <2>2
  <2> QED BY <1>1, <2>2, <2>3, <2>4, <2>5, GoesOn
<1>4. ASSUME NEW k \in DOMAIN PageShown \cup {1},
             EndHistory([fetch EXCEPT !.got = @ \o FirstOf(PageShown, k - 1), !.faulty = TRUE])
      PROVE  CandleInv'
  <2> DEFINE got == fetch.got \o FirstOf(PageShown, k - 1)
             f == [fetch EXCEPT !.got = got, !.faulty = TRUE]
  <2>1. k - 1 \in Nat
    <3>1. PICK lo \in Int, hi \in Int : PageShown = Run(lo, hi)
      BY AnswerIsRun
    <3>2. DOMAIN PageShown = 1 .. hi - lo + 1
      BY <3>1, CountUp
    <3> QED BY <1>4, <3>2
  <2>2. PICK a \in Int, b \in Int : Part(got, a, b, fetch.unread) /\ Within(fetch, a, b)
    BY <1>1, <1>2, <2>1, SomeOfPage
  <2>3. EndHistory(f)
    BY <1>4
  <2> HIDE DEF got
  <2>4. Continues(f) /\ f.got = got /\ f.unread = fetch.unread /\ f.faulty = TRUE
    <3>1. got \in Seq(Int)
      BY <2>2 DEF Part
    <3> QED BY <1>2, <3>1 DEF Request, Continues
  <2> HIDE DEF f
  <2>5. Part(f.got, a, b, f.unread) /\ fetch.by # "klines"
    BY <1>1, <2>2, <2>4
  <2> QED BY <1>1, <2>2, <2>3, <2>4, <2>5, LoopEnds
<1> QED BY <1>3, <1>4 DEF BinanceFault

LEMMA SimpleFaultStep ==
  ASSUME CandleAssumption, CandleInv, SimpleFault PROVE CandleInv'
<1>1. fetch.phase = "paging" /\ fetch.by = "simple" /\ UNCHANGED <<now, lake, fetched>>
  BY DEF SimpleFault, Paging
<1>2. ASSUME NEW phase \in {"done", "raised"},
             fetch' = [fetch EXCEPT !.got = <<>>, !.phase = phase, !.faulty = TRUE],
             UNCHANGED <<cacheFile, saved>>
      PROVE  CandleInv'
  <2> DEFINE f == [fetch EXCEPT !.got = <<>>, !.phase = phase, !.faulty = TRUE]
  <2>1. fetch \in Request /\ fetch.began <= now /\ <<>> \in Seq(Int)
    BY EmptySeq DEF CandleInv
  <2>2. f \in Request /\ f.began <= now /\ f.phase = phase /\ f.faulty = TRUE /\ f.got = <<>>
    BY <2>1 DEF Request
  <2>3. fetch' = f
    BY <1>2
  <2> HIDE DEF f
  <2>4. PICK a \in Int, b \in Int : Part(f.got, a, b, f.unread) /\ Within(f, a, b)
    BY <2>2, SoFar
  <2>5. Whole(f)
    BY <2>2, <2>4 DEF Whole, Clean
  <2>6. f.phase # "paging"
    BY <2>2
  <2> QED BY <1>1, <1>2, <2>2, <2>3, <2>5, <2>6, Begins
<1>3. CASE EndHistory([fetch EXCEPT !.faulty = TRUE])
  BY <1>1, <1>3, FaultEnds
<1> QED BY <1>2, <1>3 DEF SimpleFault

LEMMA OkxFaultStep ==
  ASSUME CandleAssumption, CandleInv, OkxFault PROVE CandleInv'
<1>1. fetch.phase = "paging" /\ fetch.by = "okx" /\ UNCHANGED <<now, lake, fetched>>
      /\ EndHistory([fetch EXCEPT !.faulty = TRUE])
  BY DEF OkxFault, Paging
<1> QED BY <1>1, FaultEnds

\* An answer from OKX is past the end: it adds nothing, and is the last.
LEMMA OkxPageStep ==
  ASSUME CandleAssumption, CandleInv, OkxPage PROVE CandleInv'
<1> DEFINE lo == Later(fetch.at + 1, Listed)
           hi == Sooner(now, now)
           newest == LastOf(Run(lo, hi), PageSize)
           answer == Reverse(newest)
           inside == {k \in DOMAIN answer : fetch.from <= answer[k] /\ answer[k] <= fetch.to}
           got == fetch.got \o Picked(answer, inside)
           f == [fetch EXCEPT !.got = got]
<1>1. fetch.phase = "paging" /\ fetch.by = "okx" /\ UNCHANGED <<now, lake, fetched>>
  BY DEF OkxPage, Paging
<1>2. /\ fetch \in Request /\ fetch.got = <<>> /\ fetch.at = fetch.to /\ fetch.to \in Nat
      /\ Listed \in Nat /\ now \in Nat /\ PageSize \in Nat /\ 0 < PageSize
  <2>1. fetch \in Request /\ now \in Nat
    BY DEF CandleInv
  <2>2. fetch.got = <<>> /\ fetch.at = fetch.to
    BY <1>1 DEF CandleInv, Pages
  <2>3. PageSize \in Nat /\ 0 < PageSize /\ Listed \in Nat
    BY Sizes
  <2> QED BY <2>1, <2>2, <2>3, RequestFields
<1>3. lo \in Int /\ hi \in Int /\ fetch.to < lo
  BY <1>2 DEF Later, Sooner
<1>4. newest \in Seq(lo .. hi)
  <2> HIDE DEF lo, hi
  <2>1. PICK c \in Int : lo <= c /\ Part(newest, c, hi, {})
    BY <1>2, <1>3, RunIsPart, LastOfPart
  <2> HIDE DEF newest
  <2>2. newest \in Seq(Int) /\ \A k \in 1 .. Len(newest) : c <= newest[k] /\ newest[k] <= hi
    BY <2>1 DEF Part
  <2>3. /\ newest \in [1 .. Len(newest) -> Int] /\ Len(newest) \in Nat
    BY <2>2, LenProperties
  <2>4. \A k \in 1 .. Len(newest) : newest[k] \in lo .. hi
    BY <1>3, <2>1, <2>2, <2>3
  <2>5. newest \in [1 .. Len(newest) -> lo .. hi]
    BY <2>3, <2>4
  <2> QED BY <2>3, <2>5, SeqDef
<1> HIDE DEF newest
<1>5. answer \in Seq(lo .. hi) /\ Len(answer) = Len(newest) /\ Len(answer) \in Nat
      /\ DOMAIN answer = 1 .. Len(answer) /\ \A k \in 1 .. Len(answer) : answer[k] \in lo .. hi
  <2> DEFINE n == Len(newest)
  <2>1. n \in Nat /\ \A k \in 1 .. n : newest[k] \in lo .. hi
    BY <1>4, LenProperties, ElementOfSeq
  <2>2. answer = [k \in 1 .. n |-> newest[(n - k) + 1]]
    BY DEF Reverse
  <2> HIDE DEF n, lo, hi
  <2>3. \A k \in 1 .. n : (n - k) + 1 \in 1 .. n
    BY <2>1
  <2>4. answer \in [1 .. n -> lo .. hi]
    BY <2>1, <2>2, <2>3
  <2> HIDE DEF answer
  <2>5. answer \in Seq(lo .. hi)
    BY <2>1, <2>4, SeqDef
  <2>6. Len(answer) = n
    BY <2>1, <2>4, <2>5, LenProperties
  <2> QED BY <2>1, <2>4, <2>5, <2>6 DEF n
<1> HIDE DEF lo, hi, answer
<1>6. got = <<>>
  <2>1. \A k \in DOMAIN answer : k \in inside => answer[k] \in {}
    BY <1>2, <1>3, <1>5
  <2> HIDE DEF inside
  <2>2. Picked(answer, inside) \in Seq({})
    BY <1>5, <2>1, PickedType
  <2>3. Picked(answer, inside) = <<>>
    <3> DEFINE p == Picked(answer, inside)
    <3>1. Len(p) \in Nat /\ \A k \in 1 .. Len(p) : p[k] \in {}
      BY <2>2, LenProperties, ElementOfSeq
    <3> HIDE DEF p
    <3>2. Len(p) = 0
      BY <3>1
    <3> QED BY <2>2, <3>2, EmptySeq DEF p
  <2> QED BY <1>2, <2>3, EmptySeq, ConcatEmptySeq
<1>7. answer = <<>> \/ Last(answer) >= fetch.at
  <2> SUFFICES ASSUME answer # <<>> PROVE Last(answer) >= fetch.at
    OBVIOUS
  <2>1. Len(answer) \in 1 .. Len(answer)
    BY <1>5, EmptySeq
  <2>2. answer[Len(answer)] \in lo .. hi
    BY <1>5, <2>1
  <2> QED BY <1>2, <1>3, <2>2 DEF Last
<1>8. EndHistory(f)
  BY <1>7 DEF OkxPage, Served, lo, hi, newest, answer
<1> HIDE DEF got, inside
<1>9. f = fetch
  BY <1>2, <1>6 DEF Request
<1>10. PICK a \in Int, b \in Int : Part(fetch.got, a, b, fetch.unread) /\ Within(fetch, a, b)
  BY <1>2, SoFar
<1>11. Continues(fetch) /\ ~Clean(fetch) /\ fetch.by # "klines"
  BY <1>1, <1>2 DEF Continues, Clean
<1> QED BY <1>1, <1>8, <1>9, <1>10, <1>11, LoopEnds

\* Of an answer without candles nothing is read, and nothing is passed over.
LEMMA NothingReadable ==
  ASSUME NEW s \in Seq(Int), NEW u, NEW bad \in SUBSET Range(<<>>)
  PROVE  s \o Readable(<<>>, bad) = s /\ u \cup bad = u
<1> DEFINE r == Readable(<<>>, bad)
<1>1. Part(r, 1, 0, bad)
  <2>1. Part(Readable(Run(1, 0), bad), 1, 0, bad) /\ Run(1, 0) = <<>>
    BY ReadableIsPart, NoCandles
  <2> QED BY <2>1
<1> HIDE DEF r
<1>2. r \in Seq(Int) /\ \A k \in 1 .. Len(r) : 1 <= r[k] /\ r[k] <= 0
  BY <1>1 DEF Part
<1>3. Len(r) \in Nat /\ \A k \in 1 .. Len(r) : r[k] \in Int
  BY <1>2, LenProperties, ElementOfSeq
<1>4. \A k \in 1 .. Len(r) : FALSE
  BY <1>2, <1>3
<1>5. Len(r) = 0
  BY <1>3, <1>4
<1>6. r = <<>>
  BY <1>2, <1>5, EmptySeq
<1>7. bad = {}
  BY EmptySeq DEF Range
<1> QED BY <1>6, <1>7, ConcatEmptySeq DEF r

LEMMA BinancePageStep ==
  ASSUME CandleAssumption, CandleInv, NEW by \in {"binance", "simple"}, BinancePage(by)
  PROVE  CandleInv'
<1> DEFINE top == Sooner(fetch.to, now)
           stops == PageShown = <<>> \/ (fetch.at = fetch.from /\ Last(PageShown) <= fetch.at)
<1>1. fetch.phase = "paging" /\ fetch.by = by /\ fetch.by # "klines" /\ fetch.by # "okx"
      /\ UNCHANGED <<now, lake, fetched>>
  BY DEF BinancePage, Paging
<1>2. PICK bad \in IF by = "simple" THEN SUBSET Range(PageShown) ELSE {{}} :
         LET got == fetch.got \o Readable(PageShown, bad)
             read == [fetch EXCEPT !.got = got, !.unread = @ \cup bad, !.tries = 0]
             onward == [read EXCEPT !.at = Last(PageShown) + 1]
         IN  IF stops THEN EndHistory(read)
             ELSE IF \/ fetch.most > 0 /\ Len(got) >= fetch.most
                     \/ Last(PageShown) >= fetch.to
                  THEN EndHistory(onward)
                  ELSE GoOn(onward)
  BY DEF BinancePage
<1> DEFINE got == fetch.got \o Readable(PageShown, bad)
           unread == fetch.unread \cup bad
           full == (fetch.most > 0 /\ Len(got) >= fetch.most) \/ Last(PageShown) >= fetch.to
           read == [fetch EXCEPT !.got = got, !.unread = unread, !.tries = 0]
           onward == [read EXCEPT !.at = Last(PageShown) + 1]
<1>3. IF stops THEN EndHistory(read) ELSE IF full THEN EndHistory(onward) ELSE GoOn(onward)
  BY <1>2
<1>4. fetch \in Request /\ Climbs(fetch) /\ fetch.began <= now /\ 0 < fetch.from /\ 0 < fetch.to
  BY <1>1 DEF CandleInv, Pages
<1>5. /\ fetch.from \in Nat /\ fetch.to \in Nat /\ fetch.at \in Int /\ fetch.unread \in SUBSET Int
      /\ fetch.most \in Nat /\ now \in Nat /\ PageSize \in Nat /\ 2 <= PageSize
  BY <1>4 DEF Request, CandleInv, CandleAssumption
<1>6. top \in Int /\ top <= fetch.to
  BY <1>5 DEF Sooner
<1>7. unread \in SUBSET Int
  <2>1. PICK lo \in Int, hi \in Int : PageShown = Run(lo, hi)
    BY AnswerIsRun
  <2>2. Range(PageShown) \subseteq Int
    BY <2>1, CountUp DEF Run, Range
  <2> QED BY <1>5, <2>2
<1>8. ASSUME NEW a \in Int, NEW b \in Int, Part(got, a, b, unread), Within(fetch, a, b), stops,
             Clean(fetch) => AskedFor(fetch) \subseteq a .. b
      PROVE  CandleInv'
  <2> HIDE DEF got, unread
  <2>1. got \in Seq(Int)
    BY <1>8 DEF Part
  <2>2. /\ Continues(read) /\ read.got = got /\ read.unread = unread /\ read.faulty = fetch.faulty
    BY <1>4, <1>7, <2>1 DEF Request, Continues
  <2>3. EndHistory(read)
    BY <1>3, <1>8
  <2> HIDE DEF read, stops
  <2>4. Part(read.got, a, b, read.unread)
    BY <1>8, <2>2
  <2> QED BY <1>1, <1>8, <2>2, <2>3, <2>4, LoopEnds
<1>9. CASE PageShown = <<>> /\ top < Later(fetch.at, Listed)
  <2>1. stops
    BY <1>9
  <2>3. got = fetch.got /\ unread = fetch.unread
    BY <1>4, <1>9, NothingReadable DEF Request
  <2> HIDE DEF got, unread, stops
  <2>4. PICK a \in Int, b \in Int : /\ Part(fetch.got, a, b, fetch.unread) /\ Within(fetch, a, b)
                                    /\ Clean(fetch) => AskedFor(fetch) \subseteq a .. b
    BY <1>4, <1>6, <1>9, NothingMore DEF top
  <2> QED BY <1>8, <2>1, <2>3, <2>4
<1>10. ASSUME NEW a \in Int, NEW c \in Int,
              PageShown # <<>> /\ Last(PageShown) = c /\ a <= c /\ c <= top,
              Listed <= a /\ fetch.from <= a /\ (0 < fetch.from => a = Later(fetch.from, Listed)),
              fetch.at = fetch.from /\ c <= fetch.at => c = top,
              Part(got, a, c, unread)
       PROVE  CandleInv'
  <2> HIDE DEF top, got, unread
  <2>1. Within(fetch, a, c)
    BY <1>5, <1>6, <1>10 DEF Within
  <2>2. top <= c => AskedFor(fetch) \subseteq a .. c
    BY <1>4, <1>10, AskedForward DEF top
  <2>3. CASE stops
    <3>1. c = top
      BY <1>10, <2>3
    <3>2. AskedFor(fetch) \subseteq a .. c
      BY <1>6, <2>2, <3>1
    <3> HIDE DEF stops
    <3> QED BY <1>8, <1>10, <2>1, <2>3, <3>2
  <2>4. CASE ~stops
    <3> HIDE DEF stops
    <3>1. got \in Seq(Int) /\ c + 1 \in Int
      BY <1>10 DEF Part
    <3>2. /\ Continues(onward) /\ onward.got = got /\ onward.unread = unread
          /\ onward.faulty = fetch.faulty /\ onward.at = c + 1 /\ onward.phase = fetch.phase
      <4>1. onward = [fetch EXCEPT !.got = got, !.unread = unread, !.tries = 0, !.at = c + 1]
        BY <1>10
      <4> HIDE DEF onward
      <4>2. onward \in Request
        BY <1>4, <1>7, <3>1, <4>1 DEF Request
      <4>3. /\ onward.got = got /\ onward.unread = unread /\ onward.at = c + 1
            /\ onward.faulty = fetch.faulty /\ onward.phase = fetch.phase
        BY <1>4, <4>1 DEF Request
      <4>4. /\ onward.by = fetch.by /\ onward.from = fetch.from /\ onward.to = fetch.to
            /\ onward.most = fetch.most /\ onward.began = fetch.began /\ onward.key = fetch.key
            /\ onward.local = fetch.local
        BY <1>4, <4>1 DEF Request
      <4> QED BY <4>2, <4>3, <4>4 DEF Continues
    <3>3. IF full THEN EndHistory(onward) ELSE GoOn(onward)
      BY <1>3, <2>4
    <3> HIDE DEF read, onward
    <3>4. Part(onward.got, a, c, onward.unread)
      BY <1>10, <3>2
    <3>5. CASE full
      <4>1. Clean(fetch) => AskedFor(fetch) \subseteq a .. c
        <5> SUFFICES ASSUME Clean(fetch) PROVE top <= c
          BY <2>2
        <5>1. fetch.most = 0
          BY DEF Clean
        <5>2. c >= fetch.to
          BY <1>10, <3>5, <5>1
        <5> QED BY <1>5, <1>6, <5>2
      <4>2. EndHistory(onward)
        BY <3>3, <3>5
      <4> HIDE DEF full
      <4> QED BY <1>1, <2>1, <3>2, <3>4, <4>1, <4>2, LoopEnds
    <3>6. CASE ~full
      <4>1. c < fetch.to
        BY <1>5, <1>10, <3>6
      <4>2. GoOn(onward)
        BY <3>3, <3>6
      <4> HIDE DEF full
      <4>3. Climbs(onward)
        BY <1>10, <3>2, <3>4, <4>1 DEF Climbs, Continues
      <4>4. onward.phase = "paging"
        BY <1>1, <3>2
      <4> QED BY <1>1, <3>2, <4>2, <4>3, <4>4, GoesOn
    <3> QED BY <3>5, <3>6
  <2> QED BY <2>3, <2>4
<1>11. PageShown = FirstOf(Run(Later(fetch.at, Listed), top), PageSize)
  BY DEF PageShown, Served
<1> HIDE DEF top
<1>12. \/ PageShown = <<>> /\ top < Later(fetch.at, Listed)
       \/ \E a, c \in Int :
             /\ PageShown # <<>> /\ Last(PageShown) = c /\ a <= c /\ c <= top
             /\ Listed <= a /\ fetch.from <= a /\ (0 < fetch.from => a = Later(fetch.from, Listed))
             /\ fetch.at = fetch.from /\ c <= fetch.at => c = top
             /\ Part(got, a, c, unread)
  BY <1>4, <1>5, <1>6, <1>11, PageJoins
<1> HIDE DEF got, unread, stops
<1> QED BY <1>9, <1>10, <1>12

\* fetch_klines returns what it has.
LEMMA KlinesEnds ==
  ASSUME CandleAssumption, CandleInv, fetch.phase = "paging", UNCHANGED <<now, lake, fetched>>,
         NEW f, Continues(f), EndKlines(f, "done"), NEW a \in Int, NEW b \in Int,
         Part(f.got, a, b, f.unread), Within(fetch, a, b), f.faulty \/ f.faulty = fetch.faulty,
         f.faulty \/ (Clean(fetch) => AskedFor(fetch) \subseteq a .. b)
  PROVE  CandleInv'
<1> DEFINE g == [f EXCEPT !.phase = "done"]
<1>1. fetch' = g /\ UNCHANGED <<now, lake, cacheFile, saved>>
  BY DEF EndKlines
<1>2. fetch.began <= now
  BY DEF CandleInv
<1>3. /\ g \in Request /\ g.got = f.got /\ g.from = fetch.from /\ g.to = fetch.to /\ g.by = fetch.by
      /\ g.began = fetch.began /\ g.most = fetch.most /\ g.faulty = f.faulty /\ g.local = fetch.local
      /\ g.phase = "done" /\ g.unread = f.unread
  BY DEF Continues, Request
<1> HIDE DEF g
<1>4. Whole(g)
  BY <1>3 DEF Whole, Within, Clean, AskedFor
<1> QED BY <1>1, <1>2, <1>3, <1>4, Begins

LEMMA KlinesFaultStep ==
  ASSUME CandleAssumption, CandleInv, KlinesFault PROVE CandleInv'
<1>1. fetch.phase = "paging" /\ fetch.by = "klines" /\ UNCHANGED <<now, lake, fetched>>
  BY DEF KlinesFault, Paging
<1>2. fetch \in Request /\ Climbs(fetch) /\ fetch.began <= now
  BY <1>1 DEF CandleInv, Pages
<1>3. CASE GoOn([fetch EXCEPT !.tries = @ + 1])
  <2> DEFINE f == [fetch EXCEPT !.tries = @ + 1]
  <2>1. fetch.tries + 1 \in Nat
    BY <1>2 DEF Request
  <2>2. /\ Continues(f) /\ f.got = fetch.got /\ f.at = fetch.at /\ f.unread = fetch.unread
        /\ f.phase = fetch.phase
    BY <1>2, <2>1 DEF Request, Continues
  <2>3. GoOn(f)
    BY <1>3
  <2> HIDE DEF f
  <2>4. Climbs(f)
    BY <1>2, <2>2 DEF Climbs, Continues
  <2>5. fetch.by # "okx" /\ f.phase = "paging"
    BY <1>1, <2>2
  <2> QED BY <1>1, <2>2, <2>3, <2>4, <2>5, GoesOn
<1>4. CASE EndKlines([fetch EXCEPT !.got = <<>>], "raised")
  <2> DEFINE g == [[fetch EXCEPT !.got = <<>>] EXCEPT !.phase = "raised"]
  <2>1. fetch' = g /\ UNCHANGED <<now, lake, cacheFile, saved>>
    BY <1>1, <1>4 DEF EndKlines
  <2>2. <<>> \in Seq(Int)
    BY EmptySeq
  <2>3. g \in Request /\ g.began <= now /\ g.phase = "raised"
    BY <1>2, <2>2 DEF Request
  <2> HIDE DEF g
  <2> QED BY <2>1, <2>3, Begins
<1>5. CASE EndKlines([fetch EXCEPT !.faulty = TRUE], "done")
  <2> DEFINE f == [fetch EXCEPT !.faulty = TRUE]
  <2>1. Continues(f) /\ f.got = fetch.got /\ f.unread = fetch.unread /\ f.faulty = TRUE
    BY <1>2 DEF Request, Continues
  <2>2. EndKlines(f, "done")
    BY <1>5
  <2> HIDE DEF f
  <2>3. PICK a \in Int, b \in Int : Part(fetch.got, a, b, fetch.unread) /\ Within(fetch, a, b)
    BY <1>2, SoFar
  <2>4. Part(f.got, a, b, f.unread)
    BY <2>1, <2>3
  <2> QED BY <1>1, <2>1, <2>2, <2>3, <2>4, KlinesEnds
<1> QED BY <1>3, <1>4, <1>5 DEF KlinesFault

LEMMA KlinesPageStep ==
  ASSUME CandleAssumption, CandleInv, KlinesPage PROVE CandleInv'
<1> DEFINE upTo == IF fetch.to = 0 THEN LastCandle ELSE fetch.to
           top == Sooner(upTo, now)
           shown == Served(fetch.at, upTo)
           answer == IF fetch.at = 0 THEN LastOf(shown, PageSize) ELSE FirstOf(shown, PageSize)
           cut == [fetch EXCEPT !.faulty = TRUE]
           last == Len(answer) < PageSize \/ (fetch.to > 0 /\ Last(answer) >= fetch.to)
<1>1. fetch.phase = "paging" /\ fetch.by = "klines" /\ UNCHANGED <<now, lake, fetched>>
  BY DEF KlinesPage, Paging
<1>2. IF fetch.pages = MaxPages THEN EndKlines(cut, "done")
      ELSE \E bad \in SUBSET Range(answer) :
           LET f == [fetch EXCEPT !.got = @ \o Readable(answer, bad), !.unread = @ \cup bad,
                                  !.pages = @ + 1, !.tries = 0]
           IN  IF last THEN EndKlines(f, "done") ELSE GoOn([f EXCEPT !.at = Last(answer) + 1])
  BY DEF KlinesPage
<1>3. fetch \in Request /\ Climbs(fetch) /\ fetch.began <= now
  BY <1>1 DEF CandleInv, Pages
<1>4. /\ fetch.from \in Nat /\ fetch.to \in Nat /\ fetch.at \in Int /\ fetch.got \in Seq(Int)
      /\ fetch.unread \in SUBSET Int
      /\ now \in Nat /\ PageSize \in Nat /\ 2 <= PageSize /\ Listed \in Nat /\ 1 <= Listed
      /\ LastCandle \in Nat /\ fetch.pages \in Nat
  <2>1. now \in Nat
    BY DEF CandleInv
  <2> QED BY <1>3, <2>1, RequestFields, Sizes
<1>5. top \in Int /\ (0 < fetch.to => top <= fetch.to /\ top = Sooner(fetch.to, now))
  BY <1>4 DEF Sooner
<1>6. shown = Run(Later(fetch.at, Listed), top)
  BY DEF Served
<1>7. CASE fetch.pages = MaxPages
  <2>1. Continues(cut) /\ cut.got = fetch.got /\ cut.unread = fetch.unread /\ cut.faulty = TRUE
    BY <1>3 DEF Request, Continues
  <2>2. EndKlines(cut, "done")
    BY <1>2, <1>7
  <2> HIDE DEF cut
  <2>3. PICK a \in Int, b \in Int : Part(fetch.got, a, b, fetch.unread) /\ Within(fetch, a, b)
    BY <1>3, SoFar
  <2>4. Part(cut.got, a, b, cut.unread)
    BY <2>1, <2>3
  <2> QED BY <1>1, <2>1, <2>2, <2>3, <2>4, KlinesEnds
<1>8. CASE fetch.pages # MaxPages
  <2> HIDE DEF top, shown
  <2>1. PICK bad \in SUBSET Range(answer) :
           LET f == [fetch EXCEPT !.got = @ \o Readable(answer, bad), !.unread = @ \cup bad,
                                  !.pages = @ + 1, !.tries = 0]
           IN  IF last THEN EndKlines(f, "done") ELSE GoOn([f EXCEPT !.at = Last(answer) + 1])
    BY <1>2, <1>8
  <2> DEFINE got == fetch.got \o Readable(answer, bad)
             unread == fetch.unread \cup bad
             f == [fetch EXCEPT !.got = got, !.unread = unread, !.pages = @ + 1, !.tries = 0]
             moved == [f EXCEPT !.at = Last(answer) + 1]
  <2>2. IF last THEN EndKlines(f, "done") ELSE GoOn(moved)
    BY <2>1
  <2>3. unread \in SUBSET Int
    <3>1. PICK lo \in Int, hi \in Int : answer = Run(lo, hi)
      <4> DEFINE lo == Later(fetch.at, Listed)
      <4>1. lo \in Int /\ shown = Run(lo, top)
        BY <1>4, <1>6 DEF Later
      <4> HIDE DEF lo
      <4>2. FirstOf(Run(lo, top), PageSize) = Run(lo, Sooner(top, lo + PageSize - 1))
            /\ Sooner(top, lo + PageSize - 1) \in Int
        <5>1. PageSize \in Nat /\ 0 < PageSize /\ top \in Int /\ lo \in Int
          BY <1>4, <1>5, <4>1
        <5>2. Sooner(top, lo + PageSize - 1) \in Int
          BY <5>1 DEF Sooner
        <5> QED BY <5>1, <5>2, FirstOfRun
      <4>3. LastOf(Run(lo, top), PageSize) = Run(Later(lo, top - PageSize + 1), top)
            /\ Later(lo, top - PageSize + 1) \in Int
        BY <1>4, <1>5, <4>1, LastOfRun DEF Later
      <4> QED BY <1>5, <4>1, <4>2, <4>3
    <3> HIDE DEF answer
    <3>2. Range(answer) \subseteq Int
      BY <3>1, CountUp DEF Run, Range
    <3> QED BY <1>4, <3>2
  <2> HIDE DEF answer, unread, got
  <2>4. ASSUME got \in Seq(Int)
        PROVE  /\ Continues(f) /\ f.got = got /\ f.unread = unread /\ f.phase = "paging"
               /\ f.faulty = fetch.faulty
    <3>1. fetch.pages + 1 \in Nat
      BY <1>4
    <3> QED BY <1>1, <1>3, <2>3, <2>4, <3>1 DEF Request, Continues
  <2> HIDE DEF f
  <2>5. ASSUME NEW a \in Int, NEW c \in Int, Part(got, a, c, unread), Within(fetch, a, c), last,
               Clean(fetch) => AskedFor(fetch) \subseteq a .. c
        PROVE  CandleInv'
    <3> HIDE DEF last
    <3>1. Continues(f) /\ f.got = got /\ f.unread = unread /\ f.faulty = fetch.faulty
      BY <2>4, <2>5 DEF Part
    <3>2. EndKlines(f, "done") /\ Part(f.got, a, c, f.unread)
      BY <2>2, <2>5, <3>1
    <3> QED BY <1>1, <2>5, <3>1, <3>2, KlinesEnds
  <2>6. ASSUME NEW a \in Int, NEW c \in Int, Part(got, a, c, unread), a <= c, Last(answer) = c,
               Listed <= a, fetch.from <= a, 0 < fetch.from => a = Later(fetch.from, Listed), ~last
        PROVE  CandleInv'
    <3>1. 0 < fetch.to => c < fetch.to
      BY <1>4, <2>6
    <3> HIDE DEF last
    <3>2. /\ Continues(f) /\ f.got = got /\ f.unread = unread /\ f.phase = "paging"
      BY <2>4, <2>6 DEF Part
    <3>3. moved = [f EXCEPT !.at = c + 1] /\ c + 1 \in Int
      BY <2>6
    <3>4. GoOn(moved)
      BY <2>2, <2>6
    <3> HIDE DEF moved
    <3>5. /\ Continues(moved) /\ moved.got = got /\ moved.unread = unread /\ moved.at = c + 1
          /\ moved.phase = "paging"
      BY <3>2, <3>3 DEF Request, Continues
    <3>6. Climbs(moved)
      BY <2>6, <3>1, <3>5 DEF Climbs, Continues
    <3> QED BY <1>1, <3>4, <3>5, <3>6, GoesOn
  <2>7. CASE fetch.at = 0
    <3> DEFINE a == Later(Listed, top - PageSize + 1)
    <3>1. fetch.got = <<>> /\ fetch.from = 0
      <4>1. ASSUME NEW p \in Int, NEW q \in Int, p <= q, fetch.at = q + 1, Listed <= p PROVE FALSE
        BY <1>4, <2>7, <4>1
      <4> QED BY <1>3, <2>7, <4>1 DEF Climbs
    <3>2. a \in Int /\ Listed <= a
      BY <1>4, <1>5 DEF Later
    <3>3. answer = Run(a, top)
      <4>1. shown = Run(Listed, top)
        BY <1>4, <1>6, <2>7 DEF Later
      <4>2. LastOf(Run(Listed, top), PageSize) = Run(a, top)
        BY <1>4, <1>5, LastOfRun
      <4> QED BY <2>7, <4>1, <4>2 DEF answer
    <3> HIDE DEF a
    <3>4. Part(got, a, top, unread)
      <4>1. Part(Readable(answer, bad), a, top, bad)
        BY <1>5, <3>2, <3>3, ReadableIsPart
      <4>2. got = Readable(answer, bad)
        BY <3>1, <4>1, ConcatEmptySeq DEF got, Part
      <4> QED BY <4>1, <4>2 DEF Part, unread
    <3>5. fetch.from <= a /\ ~(0 < fetch.from)
      BY <1>4, <3>1, <3>2
    <3>6. CASE last
      <4>1. Within(fetch, a, top)
        BY <1>4, <1>5, <3>5 DEF Within
      <4>2. ~Clean(fetch)
        BY <3>5 DEF Clean
      <4> HIDE DEF last
      <4> QED BY <1>5, <2>5, <3>2, <3>4, <3>6, <4>1, <4>2
    <3>7. CASE ~last
      <4>1. a <= top
        <5>1. ~(Len(answer) < PageSize)
          BY <3>7
        <5>2. top < a => Len(answer) = 0
          BY <1>5, <3>2, <3>3, RunLength
        <5> QED BY <1>4, <1>5, <3>2, <5>1, <5>2
      <4>2. Last(answer) = top
        BY <1>5, <3>2, <3>3, <4>1, Ends
      <4> HIDE DEF last
      <4> QED BY <1>5, <2>6, <3>2, <3>4, <3>5, <3>7, <4>1, <4>2
    <3> QED BY <3>6, <3>7
  <2>8. CASE fetch.at # 0
    <3>1. answer = FirstOf(Run(Later(fetch.at, Listed), top), PageSize)
      BY <1>6, <2>8 DEF answer
    <3>2. \/ answer = <<>> /\ top < Later(fetch.at, Listed)
          \/ \E a, c \in Int :
                /\ answer # <<>> /\ Last(answer) = c /\ a <= c /\ c <= top
                /\ Listed <= a /\ fetch.from <= a /\ (0 < fetch.from => a = Later(fetch.from, Listed))
                /\ Len(answer) < PageSize => c = top
                /\ Part(got, a, c, unread)
      BY <1>3, <1>4, <1>5, <3>1, PageJoins DEF got, unread
    <3>3. CASE answer = <<>> /\ top < Later(fetch.at, Listed)
      <4>1. PICK a \in Int, b \in Int : /\ Part(fetch.got, a, b, fetch.unread) /\ Within(fetch, a, b)
                                        /\ Clean(fetch) => AskedFor(fetch) \subseteq a .. b
        BY <1>3, <1>5, <3>3, NothingMore
      <4>2. last
        BY <1>4, <3>3, EmptySeq
      <4>3. got = fetch.got /\ unread = fetch.unread
        BY <1>4, <3>3, NothingReadable DEF got, unread
      <4> HIDE DEF last
      <4> QED BY <2>5, <4>1, <4>2, <4>3
    <3>4. ASSUME NEW a \in Int, NEW c \in Int, Last(answer) = c, a <= c, c <= top,
                 Listed <= a, fetch.from <= a, 0 < fetch.from => a = Later(fetch.from, Listed),
                 Len(answer) < PageSize => c = top, Part(got, a, c, unread)
          PROVE  CandleInv'
      <4>1. Within(fetch, a, c)
        BY <1>4, <1>5, <3>4 DEF Within
      <4>2. CASE last
        <5>1. Clean(fetch) => AskedFor(fetch) \subseteq a .. c
          <6> SUFFICES ASSUME Clean(fetch) PROVE AskedFor(fetch) \subseteq a .. c
            OBVIOUS
          <6>1. 0 < fetch.to /\ a = Later(fetch.from, Listed)
            BY <1>4, <3>4 DEF Clean
          <6>2. Sooner(fetch.to, now) <= c
            BY <1>4, <1>5, <3>4, <4>2, <6>1
          <6> QED BY <1>3, <6>1, <6>2, AskedForward
        <5> HIDE DEF last
        <5> QED BY <2>5, <3>4, <4>1, <4>2, <5>1
      <4>3. CASE ~last
        <5> HIDE DEF last
        <5> QED BY <2>6, <3>4, <4>3
      <4> QED BY <4>2, <4>3
    <3> HIDE DEF last
    <3> QED BY <3>2, <3>3, <3>4
  <2> QED BY <2>7, <2>8
<1> QED BY <1>7, <1>8

LEMMA CandleStep ==
  ASSUME CandleAssumption, CandleInv, [CandleNext]_candleVars PROVE CandleInv'
<1>1. CASE UNCHANGED candleVars
  BY <1>1, Begins DEF candleVars, CandleInv
<1>2. CASE CandleNext
  <2>1. ASSUME NEW by \in {"binance", "simple"}, BinancePage(by) \/ BinanceEmpty(by) PROVE CandleInv'
    BY <2>1, BinancePageStep, EmptyStep DEF BinanceEmpty
  <2>2. CASE OkxPage \/ OkxEmpty \/ OkxFault
    BY <2>2, OkxPageStep, EmptyStep, OkxFaultStep DEF OkxEmpty
  <2> QED BY <1>2, <2>1, <2>2, PeriodStep, BeginStep, BinanceFaultStep, SimpleFaultStep,
             KlinesPageStep, KlinesFaultStep DEF CandleNext
<1> QED BY <1>1, <1>2

\* What a fetch that is done returns ascends inside the range asked for; a candle
\* it leaves out between two others is one whose row could not be read; and
\* without a fault, a cut or a local file, every closed candle of the range is
\* returned by the three loops over Binance, or could not be read, however the
\* pages fell. Of OKX the theorem says the order and the range only.
THEOREM SeriesIsWholeHolds == CandleSpec => []SeriesIsWhole
<1>1. CandleInit => CandleInv
  BY CandleInitLemma, CandleAssumption
<1>2. CandleInv /\ [CandleNext]_candleVars => CandleInv'
  BY CandleStep, CandleAssumption
<1>3. CandleInv => SeriesIsWhole
  BY PartIsWhole
<1> QED BY <1>1, <1>2, <1>3, PTL DEF CandleSpec

(***************************************************************************)
(* LlmClient                                                               *)
(***************************************************************************)

\* The callers whose call is under way.
Calling == {c \in Callers : call[c].at = "calling"}

\* Each call under way may prolong an outage once more.
LlmInv ==
    /\ open \in 0 .. Cooldown /\ outage \in Nat
    /\ call \in [Callers -> [at : {"idle", "calling"}, kind : Kinds, prompt : Prompts \union {NoCall.prompt},
                             tries : Nat]]
    /\ open = 0 => outage = 0
    /\ open > 0 => outage + open + Cooldown * Cardinality(Calling) <= LongestOutage

LEMMA CallingFacts ==
    ASSUME LlmAssumption
    PROVE  /\ IsFiniteSet(Calling) /\ Cardinality(Calling) \in Nat /\ Cardinality(Callers) \in Nat
           /\ Cardinality(Calling) <= Cardinality(Callers) /\ LongestOutage \in Nat
<1>1. IsFiniteSet(Callers) /\ Cooldown \in Nat
  BY DEF LlmAssumption
<1>2. Calling \subseteq Callers
  BY DEF Calling
<1>3. IsFiniteSet(Calling) /\ Cardinality(Calling) <= Cardinality(Callers)
  BY <1>1, <1>2, FS_Subset
<1>4. Cardinality(Calling) \in Nat /\ Cardinality(Callers) \in Nat
  BY <1>1, <1>3, FS_CardinalityType
<1> QED BY <1>1, <1>3, <1>4 DEF LongestOutage

\* A call that ends leaves one caller less who can prolong the outage.
LEMMA ReturnFrees ==
    ASSUME LlmAssumption, LlmInv, NEW c \in Callers, NEW r, Return(c, r)
    PROVE  /\ call' \in [Callers -> [at : {"idle", "calling"}, kind : Kinds,
                                     prompt : Prompts \union {NoCall.prompt}, tries : Nat]]
           /\ Calling' = Calling \ {c}
           /\ Cardinality(Calling') \in Nat /\ Cardinality(Calling') <= Cardinality(Calling)
           /\ c \in Calling => Cardinality(Calling') = Cardinality(Calling) - 1
<1>1. call' = [call EXCEPT ![c] = NoCall]
  BY DEF Return
<1>2. NoCall \in [at : {"idle", "calling"}, kind : Kinds, prompt : Prompts \union {NoCall.prompt},
                  tries : Nat]
  BY DEF NoCall, Kinds
<1>3. NoCall.at = "idle"
  BY DEF NoCall
<1> HIDE DEF NoCall
<1>4. Calling' = Calling \ {c}
  BY <1>1, <1>3 DEF LlmInv, Calling
<1>5. IsFiniteSet(Calling) /\ Cardinality(Calling) \in Nat
  BY CallingFacts
<1>6. Cardinality(Calling \ {c}) = IF c \in Calling THEN Cardinality(Calling) - 1
                                   ELSE Cardinality(Calling)
  BY <1>5, FS_RemoveElement
<1>7. IsFiniteSet(Calling \ {c}) /\ Cardinality(Calling \ {c}) \in Nat
  BY <1>5, FS_RemoveElement, FS_CardinalityType
<1> QED BY <1>1, <1>2, <1>4, <1>5, <1>6, <1>7 DEF LlmInv

\* Fewer calls under way leave the bound as it is.
LEMMA FewerCalls ==
    ASSUME LlmAssumption, NEW k \in Nat, NEW m \in Nat, m <= k
    PROVE  Cooldown * m \in Nat /\ Cooldown * k \in Nat /\ Cooldown * m <= Cooldown * k
<1>1. Cooldown \in Nat
  BY DEF LlmAssumption
<1> QED BY <1>1, MulMonotone

LEMMA LlmStepKeeps ==
    ASSUME LlmAssumption, LlmInv, [LlmNext]_llmVars
    PROVE  LlmInv'
<1> USE CallingFacts
<1>1. open \in Nat /\ open <= Cooldown /\ Cooldown \in Nat \ {0} /\ outage \in Nat
  BY DEF LlmInv, LlmAssumption
<1>2. LongestOutage \in Nat /\ LongestOutage = Cooldown * Cardinality(Callers)
  BY DEF LongestOutage
<1>3. CASE UNCHANGED llmVars
  BY <1>3 DEF llmVars, LlmInv, Calling
<1>4. ASSUME NEW c \in Callers, NEW k \in Kinds, NEW p \in Prompts, Ask(c, k, p)
      PROVE  LlmInv'
  <2>1. UNCHANGED <<open, outage>>
    BY <1>4 DEF Ask, Refusal
  <2>2. CASE \E r : Return(c, r)
    <3>1. PICK r : Return(c, r)
      BY <2>2
    <3>2. /\ Cardinality(Calling') \in Nat /\ Cardinality(Calling') <= Cardinality(Calling)
          /\ call' \in [Callers -> [at : {"idle", "calling"}, kind : Kinds,
                                    prompt : Prompts \union {NoCall.prompt}, tries : Nat]]
      BY <3>1, ReturnFrees
    <3>3. /\ Cooldown * Cardinality(Calling') \in Nat /\ Cooldown * Cardinality(Calling) \in Nat
          /\ Cooldown * Cardinality(Calling') <= Cooldown * Cardinality(Calling)
      BY <3>2, FewerCalls
    <3> QED BY <1>1, <1>2, <2>1, <3>2, <3>3 DEF LlmInv
  <2>3. CASE /\ open = 0
             /\ call' = [call EXCEPT ![c] = [at |-> "calling", kind |-> k, prompt |-> p,
                                             tries |-> 1]]
    <3>1. call' \in [Callers -> [at : {"idle", "calling"}, kind : Kinds,
                                 prompt : Prompts \union {NoCall.prompt}, tries : Nat]]
      BY <2>3 DEF LlmInv
    <3> QED BY <1>1, <2>1, <2>3, <3>1 DEF LlmInv
  <2> QED BY <1>1, <1>4, <2>2, <2>3 DEF Ask
<1>5. ASSUME NEW c \in Callers, Retry(c) PROVE LlmInv'
  <2>1. UNCHANGED <<open, outage>> /\ call' = [call EXCEPT ![c].tries = @ + 1]
    BY <1>5 DEF Retry
  <2>2. /\ call' \in [Callers -> [at : {"idle", "calling"}, kind : Kinds,
                                  prompt : Prompts \union {NoCall.prompt}, tries : Nat]]
        /\ Calling' = Calling
    BY <2>1 DEF LlmInv, Calling
  <2> QED BY <2>1, <2>2 DEF LlmInv
<1>6. ASSUME NEW c \in Callers, GiveUp(c) PROVE LlmInv'
  <2>1. /\ c \in Calling /\ UNCHANGED outage /\ (open' = Cooldown \/ open' = open)
        /\ Return(c, Fallback(call[c].kind))
    BY <1>6 DEF GiveUp, Calling
  <2>2. /\ Cardinality(Calling') \in Nat /\ Cardinality(Calling') = Cardinality(Calling) - 1
        /\ call' \in [Callers -> [at : {"idle", "calling"}, kind : Kinds,
                                  prompt : Prompts \union {NoCall.prompt}, tries : Nat]]
    BY <2>1, ReturnFrees
  <2> DEFINE k == Cardinality(Calling)
             n == Cardinality(Callers)
  <2>3. k \in Nat /\ n \in Nat /\ k <= n /\ k - 1 \in Nat
    BY <2>2
  <2> HIDE DEF k, n
  <2>4. /\ Cooldown * (k - 1) = Cooldown * k - Cooldown /\ Cooldown * k <= Cooldown * n
        /\ Cooldown * k \in Nat /\ Cooldown * n \in Nat /\ Cooldown * (k - 1) \in Nat
    BY <1>1, <2>3, FewerCalls
  <2>5. LongestOutage = Cooldown * n /\ Cooldown * Cardinality(Calling') = Cooldown * (k - 1)
    BY <1>2, <2>2 DEF k, n
  <2>6. open' \in 0 .. Cooldown /\ (open' = 0 => open = 0)
    BY <1>1, <2>1
  <2>7. open = 0 => outage = 0
    BY DEF LlmInv
  <2>8. open > 0 => outage + open + Cooldown * k <= LongestOutage
    BY DEF LlmInv, k
  <2>9. outage + open' + Cooldown * (k - 1) <= LongestOutage \/ open' = 0
    <3>1. CASE open = 0
      BY <1>1, <2>1, <2>4, <2>5, <2>7, <3>1
    <3>2. CASE open > 0
      BY <1>1, <2>1, <2>4, <2>5, <2>8, <3>2
    <3> QED BY <1>1, <3>1, <3>2
  <2> QED BY <1>1, <2>1, <2>2, <2>5, <2>6, <2>7, <2>9 DEF LlmInv
<1>7. ASSUME NEW c \in Callers, NEW r, Return(c, r), UNCHANGED <<open, outage>> PROVE LlmInv'
  <2>1. /\ Cardinality(Calling') \in Nat /\ Cardinality(Calling') <= Cardinality(Calling)
        /\ call' \in [Callers -> [at : {"idle", "calling"}, kind : Kinds,
                                  prompt : Prompts \union {NoCall.prompt}, tries : Nat]]
    BY <1>7, ReturnFrees
  <2>2. /\ Cooldown * Cardinality(Calling') \in Nat /\ Cooldown * Cardinality(Calling) \in Nat
        /\ Cooldown * Cardinality(Calling') <= Cooldown * Cardinality(Calling)
    BY <2>1, FewerCalls
  <2> QED BY <1>1, <1>2, <1>7, <2>1, <2>2 DEF LlmInv
<1>8. ASSUME NEW c \in Callers, ApiError(c) PROVE LlmInv'
  BY <1>7, <1>8 DEF ApiError
<1>9. ASSUME NEW c \in Callers, NEW a \in Answers, Answered(c, a) PROVE LlmInv'
  BY <1>7, <1>9 DEF Answered
<1>10. CASE Tick
  <2>1. /\ open' = (IF open > 0 THEN open - 1 ELSE 0) /\ call' = call
        /\ outage' = IF open' = 0 THEN 0 ELSE IF outage > LongestOutage THEN outage ELSE outage + 1
    BY <1>10 DEF Tick
  <2>2. Calling' = Calling
    BY <2>1 DEF Calling
  <2>3. Cooldown * Cardinality(Calling) \in Nat
    BY FewerCalls
  <2> QED BY <1>1, <1>2, <2>1, <2>2, <2>3 DEF LlmInv
<1> QED BY <1>3, <1>4, <1>5, <1>6, <1>8, <1>9, <1>10 DEF LlmNext

\* For any callers, prompts, answers and retries, and whatever the provider does:
\* the breaker of LLMClient is never open for longer than one cooldown per caller,
\* since chat and async_chat start nothing while it is open.
THEOREM OutageIsBoundedHolds == LlmInit /\ [][LlmNext]_llmVars => []OutageIsBounded
<1>1. LlmInit => LlmInv
  <2> SUFFICES ASSUME LlmInit PROVE LlmInv
    OBVIOUS
  <2>1. open = 0 /\ outage = 0 /\ call = [c \in Callers |-> NoCall]
    BY DEF LlmInit
  <2>2. NoCall \in [at : {"idle", "calling"}, kind : Kinds, prompt : Prompts \union {NoCall.prompt},
                    tries : Nat]
    BY DEF NoCall, Kinds
  <2>3. Cooldown \in Nat
    BY LlmAssumption DEF LlmAssumption
  <2> QED BY <2>1, <2>2, <2>3 DEF LlmInv
<1>2. LlmInv /\ [LlmNext]_llmVars => LlmInv'
  BY LlmStepKeeps, LlmAssumption
<1>3. LlmInv => OutageIsBounded
  <2> SUFFICES ASSUME LlmInv PROVE OutageIsBounded
    OBVIOUS
  <2>1. LongestOutage \in Nat /\ Cardinality(Calling) \in Nat
    BY CallingFacts, LlmAssumption
  <2>2. Cooldown * Cardinality(Calling) \in Nat
    BY <2>1, FewerCalls, LlmAssumption
  <2> QED BY <2>1, <2>2 DEF LlmInv, OutageIsBounded
<1> QED BY <1>1, <1>2, <1>3, PTL

(***************************************************************************)
(* RateLimiter                                                             *)
(***************************************************************************)

\* Names for what is not a calling thread.
WaitersAreThreads == {NoOne, Replenisher} \intersect Waiters = {}

\* Whoever makes the semaphore holds the lock from then on, waiting for it; the
\* others wait for it too, and no timer was ever started.
Seized ==
    /\ place \in [LimiterThreads -> {"idle", "enter", "start"}]
    /\ place[Replenisher] = "idle" /\ ~ticking
    /\ permits = NoSemaphore <=> lock = NoOne
    /\ lock # NoOne => lock \in Waiters
    /\ \A c \in Waiters : place[c] = "start" => lock = c

LEMMA SeizedAtFirst == ASSUME WaitersAreThreads, LimiterInit PROVE Seized
BY DEF LimiterInit, Seized, WaitersAreThreads, LimiterThreads, NoOne, Replenisher, NoSemaphore

LEMMA SeizedStep ==
  ASSUME WaitersAreThreads, Seized, [LimiterNext]_limiterVars
  PROVE  Seized'
<1> USE DEF WaitersAreThreads, LimiterThreads
<1>1. ASSUME NEW c \in Waiters, CallWait(c) PROVE Seized'
  BY <1>1 DEF CallWait, Goto, Seized
<1>2. ASSUME NEW c \in Waiters, Enter(c) PROVE Seized'
  <2>1. permits = NoSemaphore /\ lock = NoOne
    BY <1>2 DEF Enter, Seized
  <2>2. permits' = 1 /\ lock' = c /\ place' = [place EXCEPT ![c] = "start"] /\ ticking' = ticking
    BY <1>2, <2>1 DEF Enter, Goto
  <2>3. c # NoOne /\ c # Replenisher
    OBVIOUS
  <2> QED BY <2>1, <2>2, <2>3 DEF Seized, NoSemaphore
<1>3. ASSUME NEW c \in Waiters, StartReplenisher(c) PROVE FALSE
  BY <1>3 DEF StartReplenisher, Seized
<1>4. ASSUME NEW c \in Waiters, Leave(c) \/ Acquire(c) PROVE FALSE
  BY <1>4 DEF Leave, Acquire, Seized
<1>5. ~Replenish /\ ~Restart
  BY DEF Replenish, Restart, Seized
<1>6. CASE UNCHANGED limiterVars
  BY <1>6 DEF limiterVars, Seized
<1> QED BY <1>1, <1>2, <1>3, <1>4, <1>5, <1>6 DEF LimiterNext, WaitStep

\* Nobody ever gets through wait(): its first caller blocks on the lock it holds,
\* every other on the same lock, and no thread ever comes to ask for a permit or
\* puts one back.  This is safety, so that no scheduler can help.
NobodyGetsThrough ==
    \A t \in LimiterThreads : place[t] \notin {"leave", "acquire", "restart"}

THEOREM NobodyGetsThroughHolds ==
  ASSUME WaitersAreThreads
  PROVE  LimiterSpec => []NobodyGetsThrough
<1>1. Seized => NobodyGetsThrough
  BY DEF Seized, NobodyGetsThrough
<1> QED BY <1>1, SeizedAtFirst, SeizedStep, PTL DEF LimiterSpec
===============================================================================
