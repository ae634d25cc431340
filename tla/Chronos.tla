-------------------------------- MODULE Chronos --------------------------------
(***************************************************************************)
(* The event-driven backtest of src/backtest/chronos_engine.py: runs over  *)
(* scanner events, the vote of the personas and what overrides it, the     *)
(* trend filter, the win-rate gate, the RiskGuard in front of every trade, *)
(* the close-only outcome, and the books it is entered in.                 *)
(*                                                                         *)
(* Money is in dollars, price distances are in basis points of the entry   *)
(* price.  The risk guard is module RiskGuard itself, instantiated on the  *)
(* equity the engine reports to it.  A run's events, the personas' answers *)
(* and the price path are inputs.  Events skipped for a short history or a *)
(* repeated candle index change nothing and are stuttering steps.  The     *)
(* signals kept for pairs trading are left out: a blended vote carries no  *)
(* "entry", so SpreadTrader.evaluate always answers None.                  *)
(***************************************************************************)
EXTENDS Integers, Sequences, FiniteSets, Functions

CONSTANTS
    Symbols,        \* universe
    Personas,       \* PERSONAS, a sequence; the first one leads
    Votes,          \* what a persona may answer: [direction, confidence]
    Events,         \* what the scanner may report
    Gaps,           \* how far beyond its level a closing price may lie
    InitialEquity,  \* initial_equity
    MinConfidence,  \* min_confidence
    Compound,       \* compound
    WinRateCheck,   \* win_rate_check
    MinSamples,     \* MoEWeighter.allocate: min_samples
    Share,          \* granularity of the weights, which add up to it
    GateTrades,     \* decided trades before the win-rate gate judges (25)
    GatePct,        \* the win rate it asks for, in percent (30)
    FeeBps,         \* entry and exit fee together, in basis points (4)
    MinimumEquity, HaltPct, HardStopPct, Cooldown,  \* limits of RiskGuard,
    MaxNotional, TotalCapPct, MaxLeverage, MinNotional, MaxStops, \* dry-run mode
    MaxRuns,        \* bound: runs of one engine
    MaxEvents       \* bound: events processed in all of them

PersonaSet == Range(Personas)
Lead == Personas[1]
GatePersonas == {Personas[1], Personas[2]}

Directions == {"LONG", "SHORT", "NEUTRAL"}
Triggers == {"BULLISH", "BEARISH", "NEUTRAL"}
Results == {"WIN", "LOSS", "HOLD"}

ConstantsOK ==
    /\ Personas \in Seq(PersonaSet) /\ Len(Personas) >= 2
    /\ Cardinality(PersonaSet) = Len(Personas)
    /\ Votes \subseteq [direction : Directions, confidence : 0 .. 100]
    /\ Events \subseteq [symbol : Symbols, trigger : Triggers,
                         trend : {"UP", "DOWN", "SIDEWAYS"},
                         anomaly : {"sweep", "extreme", "squeeze"},
                         atr : Nat, stretched : BOOLEAN]
    /\ Gaps \subseteq Nat
    /\ InitialEquity \in Nat \ {0}
    /\ MinConfidence \in 1 .. 100
    /\ Compound \in BOOLEAN /\ WinRateCheck \in BOOLEAN
    /\ MinSamples \in Nat \ {0}
    /\ Share \in Nat \ {0} /\ Share % Len(Personas) = 0
    /\ GateTrades \in Nat \ {0} /\ GatePct \in Nat /\ FeeBps \in Nat
    /\ MinimumEquity \in Nat /\ HaltPct \in Nat \ {0} /\ HardStopPct \in Nat \ {0}
    /\ MaxStops \in Nat /\ Cooldown \in Nat \ {0}
    /\ MaxRuns \in Nat /\ MaxEvents \in Nat

ASSUME ChronosAssumption == ConstantsOK

\* The limits of dry-run mode leave no room for a stop that the fees exceed: one
\* percent of the equity, which is at least the survival floor, divided by the
\* width of the stop is capped.
TrainingCap == TotalCapPct[TRUE]

LimitsFit ==
    /\ IsFiniteSet(Symbols)
    /\ MinimumEquity >= 100 /\ TrainingCap \in Nat
    /\ FeeBps * (199 * TrainingCap + 100) <= 100 * 10000

ASSUME LimitsAssumption == LimitsFit

VARIABLES
    phase,       \* "idle", "running", or "aborted" by an exception
    runs,        \* run_backtest calls so far
    events,      \* events processed so far
    equity,      \* _equity
    realized,    \* _realized_equity
    totalPnl,    \* _total_pnl
    trades,      \* _trades, with the votes and the trigger behind each
    tally,       \* _allocator._states: wins and losses per persona
    samples,     \* _symbol_weights[s]._returns: how many, up to MinSamples
    peak,        \* the guard's _peak_equity
    stops, killActive, killAge, permanent, quiet   \* see RiskGuard

books == <<equity, realized, totalPnl, trades>>
guard == <<peak, stops, killActive, killAge, permanent, quiet>>
vars == <<phase, runs, events, books, tally, samples, guard>>

-----------------------------------------------------------------------------
(* The vote.                                                               *)

Side == [BULLISH |-> "LONG", BEARISH |-> "SHORT"]
Muted == [direction |-> "NEUTRAL", confidence |-> 0]

Conflicts(vote, trigger) ==
    trigger # "NEUTRAL" /\ vote.direction \notin {"NEUTRAL", Side[trigger]}

\* A slip: only the lead's answer is held against the trigger.
LeadAligned(votes, trigger) ==
    [p \in PersonaSet |->
        IF p = Lead /\ Conflicts(votes[p], trigger) THEN Muted ELSE votes[p]]

\* A vote against the trigger becomes NEUTRAL, the lead's as everybody's.
Aligned(votes, trigger) ==
    [p \in PersonaSet |->
        IF Conflicts(votes[p], trigger) THEN Muted ELSE votes[p]]

\* One more return for each persona of P; beyond MinSamples how many makes no
\* difference.
Sampled(counts, P) ==
    [p \in PersonaSet |->
        IF p \in P /\ counts[p] < MinSamples THEN counts[p] + 1 ELSE counts[p]]

\* The lead's veto counts as a return of its own, before the weights are read.
AfterVeto(e, votes) ==
    IF Conflicts(votes[Lead], e.trigger)
    THEN Sampled(samples[e.symbol], {Lead})
    ELSE samples[e.symbol]

\* Weights by softmax over those with enough returns, whatever their Sharpe
\* ratios; everybody else weighs nothing, unless nobody has enough.
Weights(counts) ==
    LET active == {p \in PersonaSet : counts[p] >= MinSamples}
    IN  IF active = {}
        THEN {[p \in PersonaSet |-> Share \div Len(Personas)]}
        ELSE {w \in [PersonaSet -> 0 .. Share] :
                 /\ SumFunction(w) = Share
                 /\ \A p \in PersonaSet \ active : w[p] = 0}

Score(signals, w, d) ==
    SumFunctionOnSet([p \in PersonaSet |-> w[p] * signals[p].confidence],
        {p \in PersonaSet : signals[p].direction = d})

BlendedVote(signals, w) ==
    LET long == Score(signals, w, "LONG")
        short == Score(signals, w, "SHORT")
    IN  IF long > short
        THEN [direction |-> "LONG", confidence |-> long \div Share]
        ELSE IF short > long
        THEN [direction |-> "SHORT", confidence |-> short \div Share]
        ELSE Muted

AgainstTrend(direction, trend) ==
    \/ direction = "LONG" /\ trend = "DOWN"
    \/ direction = "SHORT" /\ trend = "UP"

\* Both gate personas have lost too often over enough decided trades.
GateClosed ==
    /\ WinRateCheck
    /\ \A p \in GatePersonas :
          /\ tally[p].wins + tally[p].losses >= GateTrades
          /\ 100 * tally[p].wins < GatePct * (tally[p].wins + tally[p].losses)

-----------------------------------------------------------------------------
(* Sizing, and the guard before the trade.                                 *)

\* ATR multiples in tenths; a stretched RSI lets the target run and tightens
\* the stop.
StopBps(e) ==
    ([sweep |-> 10, extreme |-> 15, squeeze |-> 15][e.anomaly]
        * (IF e.stretched THEN 8 ELSE 10) * e.atr) \div 100
TargetBps(e) ==
    ([sweep |-> 20, extreme |-> 35, squeeze |-> 40][e.anomaly]
        * (IF e.stretched THEN 12 ELSE 10) * e.atr) \div 100

\* A slip: every trade is sized, and reported to the guard, as the first one.
AlwaysInitial == InitialEquity

WorkingEquity == IF Compound THEN realized ELSE InitialEquity

RiskUsd == WorkingEquity \div 100
Notional(e) == (RiskUsd * 10000) \div StopBps(e)

\* The guard as update_equity(working_equity) leaves it, before check_all.
\* Dry-run mode has no cap on correlated exposure, and nothing is ever booked
\* as exposure.
Unlimited == 10000   \* percent of equity, far beyond the total cap
Guard == INSTANCE RiskGuard WITH
    equity <- WorkingEquity,
    peakEquity <- IF peak >= WorkingEquity THEN peak ELSE WorkingEquity,
    dailyPeak <- InitialEquity, dayOver <- FALSE,
    session <- [open |-> TRUE, start |-> InitialEquity, current |-> WorkingEquity],
    exposure <- [s \in Symbols |-> [long |-> 0, short |-> 0]],
    verdict <- "approved",
    InitialCapital <- InitialEquity, Equities <- Nat \ {0}, FlattenPct <- 5,
    BetaSymbols <- {}, BetaCapPct <- Unlimited, AltCapPct <- Unlimited,
    MinDistance <- [major |-> 15, small |-> 25],
    Proposals <- {}, FillNotionals <- {}, MaxOpen <- 0

Proposal(e) ==
    [symbol |-> e.symbol,
     notional |-> Notional(e) + (Notional(e) * FeeBps) \div 20000,
     leverage |-> -((-Notional(e)) \div WorkingEquity),
     environment |-> "moderate_risk", distance |-> 100, coin |-> "major",
     training |-> TRUE]

\* A slip: the sizes are never put to the guard.
SizesUnchecked(e) ==
    ~Guard!Halted /\ ~Guard!SessionHit /\ ~Guard!FloorHit(WorkingEquity)

\* What check_all answers to the trade.
GuardAllows(e) ==
    WorkingEquity > 0 /\ Guard!Breaches(Proposal(e), WorkingEquity) = {}

\* update_equity, then the side effects of every check of check_all.
ConsultGuard ==
    /\ peak' = IF peak >= WorkingEquity THEN peak ELSE WorkingEquity
    /\ Guard!SwitchAfter(TRUE, Guard!SessionHit, Guard!FloorHit(WorkingEquity), FALSE)

-----------------------------------------------------------------------------
(* Runs.                                                                   *)

Init ==
    /\ phase = "idle" /\ runs = 0 /\ events = 0
    /\ equity = InitialEquity /\ realized = InitialEquity /\ totalPnl = 0
    /\ trades = <<>>
    /\ tally = [p \in PersonaSet |-> [wins |-> 0, losses |-> 0]]
    /\ samples = [s \in Symbols |-> [p \in PersonaSet |-> 0]]
    /\ peak = InitialEquity /\ stops = 0 /\ killActive = FALSE
    /\ killAge = Guard!NoTime /\ permanent = FALSE /\ quiet = Cooldown

\* A slip: a new run sizes its trades by what the last one had earned.
KeepsRealized ==
    /\ phase # "running" /\ runs < MaxRuns
    /\ phase' = "running" /\ runs' = runs + 1
    /\ equity' = InitialEquity /\ totalPnl' = 0 /\ trades' = <<>>
    /\ samples' = [s \in Symbols |-> [p \in PersonaSet |-> 0]]
    /\ peak' = InitialEquity /\ stops' = 0 /\ killActive' = FALSE
    /\ killAge' = Guard!NoTime /\ permanent' = FALSE /\ quiet' = Cooldown
    /\ UNCHANGED <<events, tally, realized>>

\* run_backtest resets the books, the weighters and the guard; the allocator
\* stays as the last run left it.
StartRun ==
    /\ phase # "running" /\ runs < MaxRuns
    /\ phase' = "running" /\ runs' = runs + 1
    /\ equity' = InitialEquity /\ realized' = InitialEquity /\ totalPnl' = 0
    /\ trades' = <<>>
    /\ samples' = [s \in Symbols |-> [p \in PersonaSet |-> 0]]
    /\ peak' = InitialEquity /\ stops' = 0 /\ killActive' = FALSE
    /\ killAge' = Guard!NoTime /\ permanent' = FALSE /\ quiet' = Cooldown
    /\ UNCHANGED <<events, tally>>

FinishRun ==
    /\ phase = "running"
    /\ phase' = "idle"
    /\ UNCHANGED <<runs, events, books, tally, samples, guard>>

-----------------------------------------------------------------------------
(* One event.                                                              *)

NextEvent ==
    /\ phase = "running" /\ events < MaxEvents
    /\ events' = events + 1 /\ UNCHANGED runs

\* _update_skip_weights: a return of zero for everybody, which is neither a
\* win nor a loss.
Skip(e, votes) ==
    /\ samples' = [samples EXCEPT
                     ![e.symbol] = Sampled(AfterVeto(e, votes), PersonaSet)]
    /\ UNCHANGED <<phase, books, tally>>

SkipAgainstTrend(e, votes, blended) ==
    /\ AgainstTrend(blended.direction, e.trend)
    /\ Skip(e, votes) /\ UNCHANGED guard

SkipLowWinRate(e, votes, blended) ==
    /\ ~AgainstTrend(blended.direction, e.trend)
    /\ GateClosed
    /\ Skip(e, votes) /\ UNCHANGED guard

Passes(e, blended) == ~AgainstTrend(blended.direction, e.trend) /\ ~GateClosed

SkipUnsure(e, votes, blended) ==
    /\ Passes(e, blended) /\ blended.confidence < MinConfidence
    /\ Skip(e, votes) /\ UNCHANGED guard

SkipWithoutStop(e, votes, blended) ==
    /\ Passes(e, blended) /\ blended.confidence >= MinConfidence
    /\ StopBps(e) = 0
    /\ Skip(e, votes) /\ UNCHANGED guard

Proposed(e, blended) ==
    /\ Passes(e, blended) /\ blended.confidence >= MinConfidence
    /\ StopBps(e) > 0

SkipRefused(e, votes, blended) ==
    /\ Proposed(e, blended) /\ ~GuardAllows(e)
    /\ ConsultGuard
    /\ Skip(e, votes)

\* The first closing price beyond the stop or the target within 48 candles,
\* gap beyond it; without one the trade is worth nothing, not even its fees.
PnL(e, result, gap) ==
    IF result = "HOLD" THEN 0
    ELSE (RiskUsd * ((IF result = "WIN" THEN TargetBps(e) + gap
                                        ELSE -(StopBps(e) + gap)) - FeeBps))
            \div StopBps(e)

\* A persona's return: the trade's if it agreed, the opposite if it did not.
Credit(t, direction, traded, pnl) ==
    LET ret == IF direction = "NEUTRAL" THEN 0
               ELSE IF direction = traded THEN pnl ELSE -pnl
    IN  [wins |-> t.wins + (IF ret > 0 THEN 1 ELSE 0),
         losses |-> t.losses + (IF ret < 0 THEN 1 ELSE 0)]

\* recalibrate_scanner hands the optimizer's default configuration back when
\* ATR / price is between 0.7 and 2.0 times 2 %, and update_config rejects it:
\* its sweep threshold is below the floor.
RecalibrationFails(e) == e.atr >= 140 /\ e.atr <= 400

Reflects(result, pnl) == result = "LOSS" /\ -100 * pnl > WorkingEquity

\* Where a trade leaves the run: saving the weights may fail, and after a loss
\* storing the lesson may, or the recalibration does.
PhaseAfter(e, result, pnl, saved) ==
    CASE ~saved -> {"aborted"}
      [] saved /\ ~Reflects(result, pnl) -> {"running"}
      [] OTHER -> IF RecalibrationFails(e) THEN {"aborted"}
                                           ELSE {"running", "aborted"}

\* The trade is booked before the weights are saved to the memory bank, which
\* may fail; the allocator hears of the trade only after that.
Trade(e, votes, blended, result, gap, saved) ==
    LET signals == Aligned(votes, e.trigger)
        pnl == PnL(e, result, gap)
    IN  /\ Proposed(e, blended) /\ GuardAllows(e)
        /\ ConsultGuard
        /\ trades' = Append(trades,
                [direction |-> blended.direction, trigger |-> e.trigger,
                 trend |-> e.trend, result |-> result, pnl |-> pnl,
                 votes |-> [p \in PersonaSet |-> signals[p].direction]])
        /\ equity' = equity + pnl
        /\ realized' = realized + pnl
        /\ totalPnl' = totalPnl + pnl
        /\ samples' = [samples EXCEPT ![e.symbol] =
                Sampled(AfterVeto(e, votes),
                        {p \in PersonaSet : signals[p].direction # "NEUTRAL"})]
        /\ tally' = IF saved
                    THEN [p \in PersonaSet |->
                            Credit(tally[p], signals[p].direction,
                                   blended.direction, pnl)]
                    ELSE tally
        /\ phase' \in PhaseAfter(e, result, pnl, saved)

ProcessEvent ==
    /\ NextEvent
    /\ \E e \in Events, votes \in [PersonaSet -> Votes] :
          \E w \in Weights(AfterVeto(e, votes)) :
              LET blended == BlendedVote(Aligned(votes, e.trigger), w)
              IN  \/ SkipAgainstTrend(e, votes, blended)
                  \/ SkipLowWinRate(e, votes, blended)
                  \/ SkipUnsure(e, votes, blended)
                  \/ SkipWithoutStop(e, votes, blended)
                  \/ SkipRefused(e, votes, blended)
                  \/ \E result \in Results, gap \in Gaps, saved \in BOOLEAN :
                        Trade(e, votes, blended, result, gap, saved)

\* The guard's clock is the wall clock; asking real models takes minutes.
MinutePasses ==
    /\ phase = "running"
    /\ killAge' = IF killAge \in 0 .. Cooldown - 1 THEN killAge + 1 ELSE killAge
    /\ quiet' = IF quiet < Cooldown THEN quiet + 1 ELSE quiet
    /\ UNCHANGED <<phase, runs, events, books, tally, samples, peak, stops,
                   killActive, permanent>>

Next == StartRun \/ FinishRun \/ ProcessEvent \/ MinutePasses

Spec == Init /\ [][Next]_vars

-----------------------------------------------------------------------------
(* Properties.                                                             *)

\* Every variable keeps its type; nothing is sampled beyond what the weights
\* tell apart.
TypeOK ==
    /\ phase \in {"idle", "running", "aborted"}
    /\ runs \in 0 .. MaxRuns /\ events \in 0 .. MaxEvents
    /\ equity \in Int /\ realized \in Int /\ totalPnl \in Int
    /\ trades \in Seq([direction : Directions, trigger : Triggers,
                       trend : {"UP", "DOWN", "SIDEWAYS"}, result : Results,
                       pnl : Int, votes : [PersonaSet -> Directions]])
    /\ tally \in [PersonaSet -> [wins : Nat, losses : Nat]]
    /\ samples \in [Symbols -> [PersonaSet -> 0 .. MinSamples]]
    /\ peak \in Int /\ stops \in 0 .. MaxStops
    /\ killActive \in BOOLEAN /\ permanent \in BOOLEAN
    /\ killAge \in {Guard!NoTime} \union (0 .. Cooldown)
    /\ quiet \in 0 .. Cooldown

\* The curve _build_equity_curve draws from the trades ends at the equity the
\* sizes were computed from, in every run however the last one ended.
CurveAfter(n) ==
    InitialEquity + SumFunctionOnSet([i \in DOMAIN trades |-> trades[i].pnl], 1 .. n)
CurveMatchesEquity ==
    /\ equity = CurveAfter(Len(trades))
    /\ realized = equity /\ totalPnl = equity - InitialEquity

\* No trade counters the trigger or the trend, or is entered without a
\* persona that asked for it: the overrides hold through every vote and weight.
TradesAreBacked ==
    \A i \in DOMAIN trades : LET t == trades[i] IN
        /\ t.direction # "NEUTRAL"
        /\ t.trigger # "NEUTRAL" => t.direction = Side[t.trigger]
        /\ ~AgainstTrend(t.direction, t.trend)
        /\ \E p \in PersonaSet : t.votes[p] = t.direction

\* A trade that reached its target made money after fees, and one that was
\* stopped out lost: the guard's limits keep stops so wide that the fees never
\* eat up the target.
ResultsMatchPnL ==
    \A i \in DOMAIN trades :
        /\ trades[i].result = "WIN" => trades[i].pnl > 0
        /\ trades[i].result = "LOSS" => trades[i].pnl < 0

\* With compounding, no trade is entered while closed equity is HaltPct below
\* the highest it closed at in this run, whatever the cooldown of the kill
\* switch does in between.
HighWater ==
    CHOOSE h \in {CurveAfter(n) : n \in 0 .. Len(trades)} :
        \A n \in 0 .. Len(trades) : CurveAfter(n) <= h
NoTradeInDrawdown ==
    [][Compound /\ Len(trades') > Len(trades) =>
          100 * (realized - HighWater) > -(HaltPct * HighWater)]_vars
=============================================================================
