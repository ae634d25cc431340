-------------------------------- MODULE Signals --------------------------------
(***************************************************************************)
(* From order books to listeners (src/engine/realtime_pipeline.py,         *)
(* src/engine/scanner_worker.py): IdempotentScannerWorker looks at the     *)
(* depth updates of the exchange, ScannerWorker at the snapshots in the    *)
(* order book stream, each with its own reading of a book; both announce   *)
(* anomalies on one pub/sub channel, which RealtimeSignalSubscriber turns  *)
(* into an iterator of events. How entries reach the workers is the matter *)
(* of module SignalStream: here each worker gets a book once or never.     *)
(***************************************************************************)
EXTENDS Integers, Sequences, SequencesExt

CONSTANTS
    Books,      \* order books: best prices (0: none) and quantities by depth
    MaxBooks,   \* bound: books looked at
    MaxBreaks   \* bound: times the subscriber's connection breaks

Book == [bid : Nat, ask : Nat, bids : Nat, asks : Nat, deepBids : Nat, deepAsks : Nat]
SignalAssumption == Books \subseteq Book /\ MaxBooks \in Nat /\ MaxBreaks \in Nat
ASSUME SignalAssumption

VARIABLES
    books,       \* the books there have been, the one of the moment last
    looking,     \* which workers still have the book to look at
    announcing,  \* the anomalies ScannerWorker found and has not announced
    listener,    \* the subscriber: "off", "on" or "broken"
    channel,     \* messages its connection holds
    heard,       \* the events it yielded
    breaks

signalVars == <<books, looking, announcing, listener, channel, heard, breaks>>

Workers == {"depth", "snapshot"}

SignalInit ==
    /\ books = <<>>
    /\ looking = {}
    /\ announcing = <<>>
    /\ listener = "off"
    /\ channel = <<>>
    /\ heard = <<>>
    /\ breaks = 0

(***************************************************************************)
(* What each worker makes of a book                                        *)
(***************************************************************************)

\* The imbalance is surplus / total, 0 without any quantity.
Imbalance(bids, asks) == [surplus |-> bids - asks, total |-> bids + asks]
AtLeast(i, num, den) == i.total > 0 /\ den * i.surplus >= num * i.total
Opposite(i) == [i EXCEPT !.surplus = -i.surplus]

\* The depth worker counts the first twenty levels of each side.
DepthImbalance(b) == Imbalance(b.bids, b.asks)

\* The snapshot worker counts all of them.
SnapshotImbalance(b) == Imbalance(b.bids + b.deepBids, b.asks + b.deepAsks)

\* Classes that begin above their thresholds.
ExclusiveSeverity(i) ==
    LET Beyond(n) == 100 * i.surplus > n * i.total
    IN CASE Beyond(60) -> "critical" [] ~Beyond(60) /\ Beyond(45) -> "high"
         [] ~Beyond(45) /\ Beyond(35) -> "medium" [] OTHER -> "low"

\* _imbalance_severity of the depth worker.
DepthSeverity(i) ==
    CASE AtLeast(i, 60, 100) -> "critical"
      [] ~AtLeast(i, 60, 100) /\ AtLeast(i, 45, 100) -> "high"
      [] ~AtLeast(i, 45, 100) /\ AtLeast(i, 35, 100) -> "medium"
      [] OTHER -> "low"

\* _imbalance_to_severity of the snapshot worker.
SnapshotSeverity(i) ==
    LET classes == {<<60, "critical">>, <<45, "high">>, <<35, "medium">>, <<0, "low">>}
        reached == {c \in classes : AtLeast(i, c[1], 100)}
    IN (CHOOSE c \in reached : \A d \in reached : c[1] >= d[1])[2]

Anomaly(by, type, severity) == [of |-> Len(books), by |-> by, type |-> type, severity |-> severity]

Severity(by, i) == IF by = "depth" THEN DepthSeverity(i) ELSE SnapshotSeverity(i)

ImbalanceAnomaly(by, i) ==
    CASE AtLeast(i, 1, 4) -> <<Anomaly(by, "bid_imbalance", Severity(by, i))>>
      [] AtLeast(Opposite(i), 1, 4) -> <<Anomaly(by, "ask_imbalance", Severity(by, Opposite(i)))>>
      [] OTHER -> <<>>

\* Ten basis points of the middle; a side without orders counts as price 0, so
\* a book without bids is wide and one without asks is not.
SpreadAnomaly(b) ==
    LET spread == b.ask - b.bid
        middle == b.ask + b.bid    \* twice the middle
    IN IF middle = 0 \/ 2000 * spread <= middle THEN <<>>
       ELSE <<Anomaly("snapshot", "spread_widening", IF 400 * spread < middle THEN "medium" ELSE "high")>>

DetectAnomalies(b) == ImbalanceAnomaly("snapshot", SnapshotImbalance(b)) \o SpreadAnomaly(b)

(***************************************************************************)
(* The workers                                                             *)
(***************************************************************************)

NewBook(b) ==
    /\ looking = {} /\ announcing = <<>> /\ Len(books) < MaxBooks
    /\ books' = Append(books, b)
    /\ looking' = Workers
    /\ UNCHANGED <<announcing, listener, channel, heard, breaks>>

\* A book that is lost on the way to one of them, or that it cannot parse.
Overlooked(w) ==
    /\ w \in looking
    /\ looking' = looking \ {w}
    /\ UNCHANGED <<books, announcing, listener, channel, heard, breaks>>

\* PUBLISH reaches whoever is subscribed at this moment.
Publish(events) == channel' = IF listener = "on" THEN channel \o events ELSE channel

\* _handle_orderbook_update; a failed publication is logged.
HandleOrderbookUpdate ==
    /\ "depth" \in looking
    /\ looking' = looking \ {"depth"}
    /\ \/ Publish(ImbalanceAnomaly("depth", DepthImbalance(Last(books))))
       \/ UNCHANGED channel
    /\ UNCHANGED <<books, announcing, listener, heard, breaks>>

\* _detect_anomalies, and _persist_snapshot that decides whether to announce.
DetectAndPersist ==
    /\ "snapshot" \in looking
    /\ looking' = looking \ {"snapshot"}
    /\ announcing' \in {DetectAnomalies(Last(books)), <<>>}
    /\ UNCHANGED <<books, listener, channel, heard, breaks>>

\* _publish_anomaly, one at a time; a failure skips this one only.
PublishAnomaly ==
    /\ announcing # <<>>
    /\ announcing' = Tail(announcing)
    /\ Publish(<<Head(announcing)>>) \/ UNCHANGED channel
    /\ UNCHANGED <<books, looking, listener, heard, breaks>>

(***************************************************************************)
(* The subscriber                                                          *)
(***************************************************************************)

\* connect and the first step of subscribe.
Subscribe ==
    /\ listener = "off"
    /\ listener' = "on"
    /\ UNCHANGED <<books, looking, announcing, channel, heard, breaks>>

GetMessage ==
    /\ listener = "on" /\ channel # <<>>
    /\ heard' = Append(heard, Head(channel))
    /\ channel' = Tail(channel)
    /\ UNCHANGED <<books, looking, announcing, listener, breaks>>

\* A RedisError: what the connection held is gone; after a second get_message
\* connects and subscribes again.
ConnectionBreaks ==
    /\ listener = "on" /\ breaks < MaxBreaks
    /\ listener' = "broken"
    /\ channel' = <<>>
    /\ breaks' = breaks + 1
    /\ UNCHANGED <<books, looking, announcing, heard>>

Resubscribes ==
    /\ listener = "broken"
    /\ listener' = "on"
    /\ UNCHANGED <<books, looking, announcing, channel, heard, breaks>>

SignalNext ==
    \/ \E b \in Books : NewBook(b)
    \/ \E w \in Workers : Overlooked(w)
    \/ HandleOrderbookUpdate \/ DetectAndPersist \/ PublishAnomaly
    \/ Subscribe \/ GetMessage \/ ConnectionBreaks \/ Resubscribes

SignalSpec == SignalInit /\ [][SignalNext]_signalVars

(***************************************************************************)
(* Properties                                                              *)
(***************************************************************************)

\* A listener never hears two opinions on the imbalance of one book: of a book
\* of at most twenty levels the two workers announce the same side and the same
\* severity, and a book's imbalance is announced by either of them once
\* (realtime_pipeline.py 437-453, scanner_worker.py 385-412: two texts of one
\* rule, one with literals, one with named thresholds).
NoMixedSignals ==
    \A i, j \in DOMAIN heard :
        LET d == heard[i]
            e == heard[j]
            b == books[d.of]
        IN i # j /\ d.of = e.of /\ b.deepBids = 0 /\ b.deepAsks = 0
                 /\ d.type # "spread_widening" /\ e.type # "spread_widening"
           => d.by # e.by /\ d.type = e.type /\ d.severity = e.severity
=============================================================================
