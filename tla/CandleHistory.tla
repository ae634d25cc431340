---------------------------- MODULE CandleHistory ----------------------------
(***************************************************************************)
(* Fetching a series of candles: DataClient with its disk cache and its    *)
(* two providers, fetch_binance_history with a cache of its own, and       *)
(* fetch_klines with the local data lake and its retries, page by page     *)
(* while the market goes on.                                               *)
(* A candle is the number of its period. The exchange serves the candle    *)
(* that is still open, number now, along with the closed ones.             *)
(***************************************************************************)
EXTENDS Integers, Sequences, SequencesExt, Selection

CONSTANTS
    LastCandle,   \* the last period of an instance: a bound
    Listed,       \* the first candle the exchange has of the symbol
    PageSize,     \* most candles of one answer (1000 at Binance, 100 at OKX)
    Retries,      \* attempts per page before the fetch gives up
    MaxPages,     \* max_iterations of fetch_klines
    MaxFetches,   \* fetches in an instance: a bound
    Limits        \* the values of max_candles tried; 0 is None

CandleAssumption ==
    /\ LastCandle \in Nat /\ Listed \in 1 .. LastCandle
    /\ PageSize \in Nat \ {0, 1} /\ Retries \in Nat \ {0} /\ MaxPages \in Nat
    /\ MaxFetches \in Nat /\ Limits \subseteq Nat
ASSUME CandleAssumption

VARIABLES
    now,        \* the open candle
    lake,       \* data/historical: a first and a last candle, or 1 and 0
    cacheFile,  \* the file of data_cache for the symbol, None or Torn
    saved,      \* files of data/cache: the dates asked, and the candles
    fetch,      \* the fetch in hand, or the last one
    fetched     \* how many fetches have begun

candleVars == <<now, lake, cacheFile, saved, fetch, fetched>>

\* A cache file that is not there, one that breaks off, and a readable one.
None == [exists |-> FALSE, parses |-> FALSE, candles |-> <<>>]
Torn == [None EXCEPT !.exists = TRUE]
Holding(candles) == [exists |-> TRUE, parses |-> TRUE, candles |-> candles]

Later(a, b) == IF a < b THEN b ELSE a
Sooner(a, b) == IF a < b THEN a ELSE b

\* The candles from a to b, oldest first; none if a is after b.
Run(a, b) == [k \in 1 .. Later(0, b - a + 1) |-> a + k - 1]

\* Those of them that the exchange has and would show.
Served(a, b) == Run(Later(a, Listed), Sooner(b, now))

\* A list sorted by time.
Sorted(s) ==
    LET order == CHOOSE p \in Bijection(DOMAIN s, DOMAIN s) :
                    \A i, j \in DOMAIN s : i < j => s[p[i]] <= s[p[j]]
    IN  [k \in DOMAIN s |-> s[order[k]]]

FirstOf(s, n) == SubSeq(s, 1, IF Len(s) < n THEN Len(s) ELSE n)
LastOf(s, n) == SubSeq(s, IF Len(s) < n THEN 1 ELSE Len(s) - n + 1, Len(s))

Idle == [by |-> "klines", from |-> 0, to |-> 0, most |-> 0, began |-> 0, at |-> 0,
         tries |-> 0, pages |-> 0, got |-> <<>>, unread |-> {}, phase |-> "idle",
         faulty |-> FALSE, local |-> FALSE, key |-> <<0, 0>>]

\* A fetch that begins now, its cursor at the first page. Its unread are the
\* candles whose rows it passed over: what the properties account for, not a
\* thing the code keeps.
Asked(by, from, to, most, at, key) ==
    [by |-> by, from |-> from, to |-> to, most |-> most, began |-> now, at |-> at,
     tries |-> 0, pages |-> 0, got |-> <<>>, unread |-> {}, phase |-> "paging",
     faulty |-> FALSE, local |-> FALSE, key |-> key]

\* The lake is whatever scripts/download_data.py left there some time ago.
CandleInit ==
    /\ now \in Listed .. LastCandle
    /\ lake \in {<<1, 0>>} \cup {<<Listed, b>> : b \in Listed .. now - 1}
    /\ cacheFile = None
    /\ saved = {}
    /\ fetch = Idle
    /\ fetched = 0

Period == now < LastCandle /\ now' = now + 1 /\ UNCHANGED <<lake, cacheFile, saved, fetch, fetched>>

\* A cache that can be written: the closed candles of the fetch.
SavesWhole(f) == IF f.got = <<>> \/ f.by # "binance" THEN cacheFile
                 ELSE Holding(Picked(f.got, {k \in DOMAIN f.got : f.got[k] < now}))

\* json.dump meets the datetime object of the first candle and raises after it
\* has written the bytes before it; the exception is swallowed. What comes from
\* OKX goes to a file that is never looked at.
SaveToCache(f) == IF f.got = <<>> \/ f.by # "binance" THEN cacheFile ELSE Torn

\* A file that does not parse is no answer; one that did would be cut to the
\* range and to the closed candles and served whole.
LoadFromCache(from, to) ==
    IF ~cacheFile.parses THEN <<>>
    ELSE LET all == cacheFile.candles
         IN  Picked(all, {k \in DOMAIN all : from <= all[k] /\ all[k] <= to /\ all[k] < now})

\* DataClient.fetch_history. Without an end date the end is the start of the
\* open candle, which the exchange takes to include that candle.
FetchHistory(by, from, to, most) ==
    LET cached == LoadFromCache(from, to)
        request == Asked(by, from, to, most, IF by = "okx" THEN to ELSE from, <<0, 0>>)
    IN  fetch' = IF cached # <<>> THEN [request EXCEPT !.got = cached, !.phase = "done"]
                 ELSE request

\* fetch_binance_history: what was saved under the same dates is served for
\* ever, also when the end was "now" or the fetch of then had broken off.
FetchBinanceHistory(from, to, most) ==
    LET end == IF to = 0 THEN now ELSE to
        files == {f \in saved : f.key = <<from, to>>}
        request == Asked("simple", from, end, most, from, <<from, to>>)
        file == CHOOSE f \in files : TRUE
    IN  fetch' = IF files = {} THEN request
                 ELSE [request EXCEPT !.phase = "done", !.local = TRUE, !.unread = file.unread,
                         !.got = IF most > 0 THEN LastOf(file.candles, most) ELSE file.candles]

\* fetch_klines takes the lake if there is a file it can read, however old it
\* is. A start or an end of 0 is none.
FetchKlines(from, to, lakeFits) ==
    LET inLake == Run(Later(lake[1], from), IF to = 0 THEN lake[2] ELSE Sooner(lake[2], to))
        request == Asked("klines", from, to, 0, from, <<0, 0>>)
    IN  fetch' = IF lake[1] <= lake[2] /\ lakeFits
                 THEN [request EXCEPT !.got = LastOf(inLake, PageSize), !.phase = "done",
                                      !.local = TRUE]
                 ELSE request

Begin ==
    /\ fetch.phase \in {"idle", "done", "raised"} /\ fetched < MaxFetches
    /\ fetched' = fetched + 1
    /\ \E from \in 0 .. LastCandle, to \in 0 .. LastCandle :
          \/ /\ from > 0 /\ to > 0
             /\ \E by \in {"binance", "okx"}, most \in Limits : FetchHistory(by, from, to, most)
          \/ from > 0 /\ \E most \in Limits : FetchBinanceHistory(from, to, most)
          \/ \E fits \in BOOLEAN : FetchKlines(from, to, fits)
    /\ UNCHANGED <<now, lake, cacheFile, saved>>

(***************************************************************************)
(* The end of a fetch                                                      *)
(***************************************************************************)

Trimmed(f) == IF f.most > 0 THEN LastOf(Sorted(f.got), f.most) ELSE Sorted(f.got)

\* All loops over Binance and OKX end here, whatever made them stop.
EndHistory(f) ==
    /\ fetch' = [f EXCEPT !.got = Trimmed(f), !.phase = "done"]
    /\ cacheFile' = SaveToCache([f EXCEPT !.got = Trimmed(f)])
    /\ saved' = IF f.by = "simple"
                THEN saved \cup {[key |-> f.key, candles |-> Trimmed(f), unread |-> f.unread]}
                ELSE saved

EndKlines(f, phase) == fetch' = [f EXCEPT !.phase = phase] /\ UNCHANGED <<cacheFile, saved>>

GoOn(f) == fetch' = f /\ UNCHANGED <<cacheFile, saved>>

Paging(by) == fetch.phase = "paging" /\ fetch.by = by /\ UNCHANGED <<now, lake, fetched>>

(***************************************************************************)
(* A page                                                                  *)
(***************************************************************************)

\* The condition of the loop; a cursor that has moved is within the range.
InRange == IF fetch.by = "okx" THEN fetch.from < fetch.at
           ELSE fetch.at # fetch.from \/ fetch.at < fetch.to

Empty(by) == Paging(by) /\ ~InRange /\ EndHistory(fetch)

\* The rows that can be read, of an answer with some that cannot.
Readable(answer, bad) == Picked(answer, {k \in DOMAIN answer : answer[k] \notin bad})

PageShown == FirstOf(Served(fetch.at, fetch.to), PageSize)

\* _fetch_binance and fetch_binance_history: the cursor is one millisecond after
\* the last candle, so that the loop ends with the page that holds the end. The
\* second passes over a row it cannot read.
BinancePage(by) ==
    \E bad \in IF by = "simple" THEN SUBSET Range(PageShown) ELSE {{}} :
       LET got == fetch.got \o Readable(PageShown, bad)
           read == [fetch EXCEPT !.got = got, !.unread = @ \cup bad, !.tries = 0]
           onward == [read EXCEPT !.at = Last(PageShown) + 1]
       IN  /\ Paging(by) /\ InRange
           /\ IF \/ PageShown = <<>>
                 \/ fetch.at = fetch.from /\ Last(PageShown) <= fetch.at
              THEN EndHistory(read)
              ELSE IF \/ fetch.most > 0 /\ Len(got) >= fetch.most
                      \/ Last(PageShown) >= fetch.to
                   THEN EndHistory(onward)
                   ELSE GoOn(onward)

BinanceEmpty(by) == Empty(by)

\* An answer that is not 200, or blank, is tried again; when the attempts are
\* used up the loop ends with what it has. An exception, or an error object of
\* the API, ends it at once: also a row that cannot be read, after the rows
\* before it were kept. None of this is reported to the caller.
BinanceFault ==
    /\ Paging("binance") /\ InRange
    /\ \/ fetch.tries + 1 < Retries /\ GoOn([fetch EXCEPT !.tries = @ + 1])
       \/ \E k \in DOMAIN PageShown \cup {1} :
             EndHistory([fetch EXCEPT !.got = @ \o FirstOf(PageShown, k - 1), !.faulty = TRUE])

\* fetch_binance_history gives up its candles when a call raises, raises itself
\* when the last row has no time, and keeps, and saves, the candles it has when
\* the answer is an error object.
SimpleFault ==
    /\ Paging("simple") /\ InRange
    /\ \/ /\ \E phase \in {"done", "raised"} :
                fetch' = [fetch EXCEPT !.got = <<>>, !.phase = phase, !.faulty = TRUE]
          /\ UNCHANGED <<cacheFile, saved>>
       \/ EndHistory([fetch EXCEPT !.faulty = TRUE])

\* _fetch_okx takes the parameter before for the way back from the end; the
\* client it calls, and the exchange, answer with candles newer than it, the
\* newest first. They are past the end, and the last of them is no step back.
OkxPage ==
    LET answer == Reverse(LastOf(Served(fetch.at + 1, now), PageSize))
        inside == {k \in DOMAIN answer : fetch.from <= answer[k] /\ answer[k] <= fetch.to}
        got == fetch.got \o Picked(answer, inside)
    IN  /\ Paging("okx") /\ InRange
        /\ IF \/ answer = <<>>
              \/ Last(answer) >= fetch.at
              \/ fetch.most > 0 /\ Len(got) >= fetch.most
           THEN EndHistory([fetch EXCEPT !.got = got])
           ELSE GoOn([fetch EXCEPT !.got = got, !.at = Last(answer)])

OkxEmpty == Empty("okx")

OkxFault == Paging("okx") /\ InRange /\ EndHistory([fetch EXCEPT !.faulty = TRUE])

\* fetch_klines goes on from the close of the last candle while pages are full,
\* and passes over a row it cannot read; without a start the first page is the
\* newest one.
KlinesPage ==
    LET upTo == IF fetch.to = 0 THEN LastCandle ELSE fetch.to
        shown == Served(fetch.at, upTo)
        answer == IF fetch.at = 0 THEN LastOf(shown, PageSize) ELSE FirstOf(shown, PageSize)
    IN  /\ Paging("klines")
        /\ IF fetch.pages = MaxPages THEN EndKlines([fetch EXCEPT !.faulty = TRUE], "done")
           ELSE \E bad \in SUBSET Range(answer) :
                LET f == [fetch EXCEPT !.got = @ \o Readable(answer, bad), !.unread = @ \cup bad,
                                       !.pages = @ + 1, !.tries = 0]
                IN  IF Len(answer) < PageSize \/ (fetch.to > 0 /\ Last(answer) >= fetch.to)
                    THEN EndKlines(f, "done")
                    ELSE GoOn([f EXCEPT !.at = Last(answer) + 1])

\* Timeouts, broken connections and 429 are tried again and then raised; any
\* other error, and a last row that breaks off, raises at once. An object
\* instead of a list ends the fetch as if there were no more candles.
KlinesFault ==
    /\ Paging("klines") /\ fetch.pages < MaxPages
    /\ \/ fetch.tries + 1 < Retries /\ GoOn([fetch EXCEPT !.tries = @ + 1])
       \/ EndKlines([fetch EXCEPT !.got = <<>>], "raised")
       \/ EndKlines([fetch EXCEPT !.faulty = TRUE], "done")

CandleNext ==
    \/ Period \/ Begin
    \/ \E by \in {"binance", "simple"} : BinancePage(by) \/ BinanceEmpty(by)
    \/ BinanceFault \/ SimpleFault
    \/ OkxPage \/ OkxEmpty \/ OkxFault
    \/ KlinesPage \/ KlinesFault

CandleSpec == CandleInit /\ [][CandleNext]_candleVars

(***************************************************************************)
(* Properties                                                              *)
(***************************************************************************)

\* The candles asked of a fetch that were closed when it began.
Wanted(end) == {i \in fetch.from .. end : Listed <= i /\ i < fetch.began}

\* The fetch is over, no call failed, nothing was cut to max_candles, and neither
\* the lake nor a file saved by an earlier fetch was served.
Untroubled ==
    /\ fetch.phase = "done" /\ ~fetch.faulty /\ ~fetch.local
    /\ fetch.most = 0 /\ 0 < fetch.from /\ fetch.from < fetch.to

\* What a fetch returns ascends inside the range that was asked, and leaves out
\* between two candles only those whose rows could not be read, over page ends,
\* retries, faults in the middle of a page and a moving market; an untroubled
\* fetch from Binance returns every candle of the range that was closed when it
\* began and could be read.
SeriesIsWhole ==
    LET got == fetch.got IN
    fetch.phase = "done" =>
       /\ \A k \in 1 .. Len(got) - 1 :
             got[k] < got[k + 1] /\ got[k] + 1 .. got[k + 1] - 1 \subseteq fetch.unread
       /\ \A k \in DOMAIN got : fetch.from <= got[k] /\ (fetch.to = 0 \/ got[k] <= fetch.to)
       /\ Untroubled /\ fetch.by # "okx" => Wanted(fetch.to) \subseteq Range(got) \cup fetch.unread
=============================================================================
