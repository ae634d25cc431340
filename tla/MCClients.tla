------------------------------- MODULE MCClients -------------------------------
(***************************************************************************)
(* The clients of outside services, the lessons quoted to the model and    *)
(* the signals announced to listeners. They share nothing, so each is      *)
(* explored with the others as they started.                               *)
(***************************************************************************)
EXTENDS CandleHistory, LlmClient, MarketFeed, MetricCache, Signals, Lessons

CONSTANTS smc, flow

allVars == <<candleVars, llmVars, feedVars, metricVars, signalVars, lessonVars>>

Said(json, whole, side, n, stop, target) ==
    [json |-> json, whole |-> whole, side |-> side, confidence |-> n, leverage |-> n,
     stop |-> stop, target |-> target]

\* Not JSON; a field missing and the stop on the winning side; no target; a
\* direction of the adviser in a persona's answer; a target just far enough.
AnswersTried ==
    {Said(FALSE, FALSE, "LONG", 5, -100, 150), Said(TRUE, FALSE, "SHORT", 5, 100, 150),
     Said(TRUE, TRUE, "LONG", 500, -100, 0), Said(TRUE, TRUE, "BUY", 5, -100, 150),
     Said(TRUE, TRUE, "SHORT", -3, -60, 90)}

MetricsAsked == <<"mvrv", "sopr", "active_addresses">>

StudentSeq == <<smc, flow>>

BookOf(bid, ask, bids, asks, deepBids, deepAsks) ==
    [bid |-> bid, ask |-> ask, bids |-> bids, asks |-> asks,
     deepBids |-> deepBids, deepAsks |-> deepAsks]

\* Exactly 60 % on the bid side; the same on the other with a wide spread; no
\* bids; balanced; exactly 45 %; a side that only the deeper levels turn over.
BookSet ==
    {BookOf(1000, 1001, 8, 2, 0, 0), BookOf(1000, 1006, 2, 8, 0, 0), BookOf(0, 1000, 0, 5, 0, 0),
     BookOf(1000, 1001, 11, 9, 0, 0), BookOf(1000, 1001, 11, 29, 0, 0),
     BookOf(999, 1001, 5, 3, 0, 9)}

candlesIdle == fetched = 0 /\ now = Listed
llmIdle == open = 0 /\ failures = 0 /\ \A c \in Callers : call[c] = NoCall /\ result[c] = Stay("macro")
           /\ \A p \in Prompts : cache[p] = [answer |-> NoAnswer, age |-> CacheTtl]
feedIdle == sent = 0 /\ drain = NoDrain /\ \A t \in Threads : thread[t] = "new"
metricsIdle == asked = 0 /\ \A u \in Users : user[u].todo = <<>>

signalsIdle == books = <<>> /\ listener = "off"
lessonsIdle == losses = 0

Init == CandleInit /\ LlmInit /\ FeedInit /\ MetricInit /\ SignalInit /\ LessonInit

Next ==
    \/ llmIdle /\ feedIdle /\ metricsIdle /\ signalsIdle /\ lessonsIdle
       /\ CandleNext /\ UNCHANGED <<llmVars, feedVars, metricVars, signalVars, lessonVars>>
    \/ candlesIdle /\ feedIdle /\ metricsIdle /\ signalsIdle /\ lessonsIdle
       /\ LlmNext /\ UNCHANGED <<candleVars, feedVars, metricVars, signalVars, lessonVars>>
    \/ candlesIdle /\ llmIdle /\ metricsIdle /\ signalsIdle /\ lessonsIdle
       /\ FeedNext /\ UNCHANGED <<candleVars, llmVars, metricVars, signalVars, lessonVars>>
    \/ candlesIdle /\ llmIdle /\ feedIdle /\ signalsIdle /\ lessonsIdle
       /\ MetricNext /\ UNCHANGED <<candleVars, llmVars, feedVars, signalVars, lessonVars>>
    \/ candlesIdle /\ llmIdle /\ feedIdle /\ metricsIdle /\ lessonsIdle
       /\ SignalNext /\ UNCHANGED <<candleVars, llmVars, feedVars, metricVars, lessonVars>>
    \/ candlesIdle /\ llmIdle /\ feedIdle /\ metricsIdle /\ signalsIdle
       /\ LessonNext /\ UNCHANGED <<candleVars, llmVars, feedVars, metricVars, signalVars>>

Spec == Init /\ [][Next]_allVars
=============================================================================
