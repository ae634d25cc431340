---------------------------- MODULE Chronos_proofs ----------------------------
(***************************************************************************)
(* Proofs about Chronos: its types, that every trade is backed by a vote   *)
(* on the side of trigger and trend, that the books agree with the curve   *)
(* drawn from the trades, that a trade pays as its result says, and that a *)
(* compounding run does not trade in a drawdown.                           *)
(***************************************************************************)
EXTENDS Chronos, DataTheorems

Signals == [PersonaSet -> [direction : Directions, confidence : 0 .. 100]]
WeightVectors == [PersonaSet -> 0 .. Share]
TradeRecords == [direction : Directions, trigger : Triggers,
                 trend : {"UP", "DOWN", "SIDEWAYS"}, result : Results,
                 pnl : Int, votes : [PersonaSet -> Directions]]
Counts == [PersonaSet -> 0 .. MinSamples]

\* The committee is finite.
LEMMA FinitePersonas ==
    ASSUME ConstantsOK
    PROVE  IsFiniteSet(PersonaSet) /\ Lead \in PersonaSet
<1>1. Personas \in Seq(PersonaSet) /\ Len(Personas) \in Nat /\ Len(Personas) >= 2
  BY DEF ConstantsOK
<1>2. Personas \in Surjection(1 .. Len(Personas), PersonaSet)
  BY <1>1 DEF Surjection, PersonaSet, Range
<1>3. IsFiniteSet(1 .. Len(Personas))
  BY <1>1, FS_Interval
<1>4. Lead \in PersonaSet
  BY <1>1 DEF Lead, PersonaSet, Range
<1> QED BY <1>2, <1>3, <1>4, FS_Surjection

\* What alignment leaves is a set of answers without one against the trigger.
LEMMA AlignedVotes ==
    ASSUME ConstantsOK, NEW votes \in [PersonaSet -> Votes],
           NEW trigger \in Triggers
    PROVE  /\ Aligned(votes, trigger) \in Signals
           /\ \A p \in PersonaSet : trigger # "NEUTRAL" =>
                 Aligned(votes, trigger)[p].direction \in {"NEUTRAL", Side[trigger]}
<1>1. votes \in Signals
  BY DEF ConstantsOK, Signals
<1>2. Muted \in [direction : Directions, confidence : 0 .. 100]
  BY DEF Muted, Directions
<1>3. Aligned(votes, trigger) \in Signals
  BY <1>1, <1>2 DEF Aligned, Signals
<1>4. ASSUME NEW p \in PersonaSet, trigger # "NEUTRAL"
      PROVE  Aligned(votes, trigger)[p].direction \in {"NEUTRAL", Side[trigger]}
  BY <1>4 DEF Aligned, Conflicts, Muted
<1> QED BY <1>3, <1>4

\* A confidence is a natural number.
LEMMA ConfidenceType ==
    ASSUME NEW signals \in Signals, NEW p \in PersonaSet
    PROVE  signals[p].confidence \in Nat
<1>1. signals[p] \in [direction : Directions, confidence : 0 .. 100]
  BY DEF Signals
<1> QED BY <1>1

\* A score is a natural number, and nothing without a vote.
LEMMA ScoreType ==
    ASSUME ConstantsOK, NEW signals \in Signals, NEW w \in WeightVectors, NEW d
    PROVE  /\ Score(signals, w, d) \in Nat
           /\ (\A p \in PersonaSet : signals[p].direction # d) => Score(signals, w, d) = 0
<1> DEFINE f == [p \in PersonaSet |-> w[p] * signals[p].confidence]
           S == {p \in PersonaSet : signals[p].direction = d}
<1>1. Share \in Nat
  BY DEF ConstantsOK
<1>2. \A p \in S : f[p] \in Nat
  <2> SUFFICES ASSUME NEW p \in S PROVE f[p] \in Nat
    OBVIOUS
  <2>1. w[p] \in Nat /\ signals[p].confidence \in Nat
    <3>1. p \in PersonaSet
      OBVIOUS
    <3>2. w[p] \in 0 .. Share
      BY <3>1 DEF WeightVectors
    <3>4. signals[p].confidence \in Nat
      BY <3>1, ConfidenceType
    <3>5. w[p] \in Nat
      BY <1>1, <3>2
    <3> QED BY <3>4, <3>5
  <2>2. \A a, b \in Nat : a * b \in Nat
    OBVIOUS
  <2> QED BY <2>1, <2>2
<1>3. IsFiniteSet(S)
  BY FinitePersonas, FS_Subset
<1>4. Score(signals, w, d) = SumFunctionOnSet(f, S)
  BY DEF Score
<1>5. (\A p \in PersonaSet : signals[p].direction # d) => S = {}
  OBVIOUS
<1> HIDE DEF f, S
<1> QED BY <1>2, <1>3, <1>4, <1>5, SumNat, SumOfNothing

\* A blended vote with a direction has a persona that asked for it; one
\* without has no confidence.
LEMMA BlendedIsBacked ==
    ASSUME ConstantsOK, NEW signals \in Signals, NEW w \in WeightVectors
    PROVE  LET b == BlendedVote(signals, w)
           IN  /\ b.direction \in Directions /\ b.confidence \in Nat
               /\ b.confidence > 0 => b.direction # "NEUTRAL"
               /\ b.direction # "NEUTRAL" =>
                     \E p \in PersonaSet : signals[p].direction = b.direction
<1> DEFINE long == Score(signals, w, "LONG")
           short == Score(signals, w, "SHORT")
<1>1. long \in Nat /\ short \in Nat
  BY ScoreType
<1>2. Share \in Nat \ {0}
  BY DEF ConstantsOK
<1>3. long \div Share \in Nat /\ short \div Share \in Nat
  <2> HIDE DEF long, short
  <2> QED BY <1>1, <1>2
<1>4. CASE long > short
  <2>1. \E p \in PersonaSet : signals[p].direction = "LONG"
    BY <1>1, <1>4, ScoreType
  <2>2. BlendedVote(signals, w) = [direction |-> "LONG", confidence |-> long \div Share]
    BY <1>4 DEF BlendedVote
  <2> HIDE DEF long, short
  <2> QED BY <1>3, <2>1, <2>2 DEF Directions
<1>5. CASE ~(long > short) /\ short > long
  <2>1. \E p \in PersonaSet : signals[p].direction = "SHORT"
    BY <1>1, <1>5, ScoreType
  <2>2. BlendedVote(signals, w) = [direction |-> "SHORT", confidence |-> short \div Share]
    BY <1>5 DEF BlendedVote
  <2> HIDE DEF long, short
  <2> QED BY <1>3, <2>1, <2>2 DEF Directions
<1>6. CASE ~(long > short) /\ ~(short > long)
  <2>1. BlendedVote(signals, w) = Muted
    BY <1>6 DEF BlendedVote
  <2> QED BY <2>1 DEF Muted, Directions
<1> QED BY <1>4, <1>5, <1>6

\* Weights are weight vectors.
LEMMA WeightsType ==
    ASSUME ConstantsOK, NEW counts, NEW w \in Weights(counts)
    PROVE  w \in WeightVectors
<1>1. Share \in Nat /\ Len(Personas) \in Nat /\ Len(Personas) >= 2
  BY DEF ConstantsOK
<1>2. Share \div Len(Personas) \in 0 .. Share
  <2>1. \A a, n \in Nat : n >= 2 => a \div n \in 0 .. a
    OBVIOUS
  <2> QED BY <1>1, <2>1
<1> QED BY <1>2 DEF Weights, WeightVectors

\* Sampling keeps the counts within MinSamples.
LEMMA SampledType ==
    ASSUME ConstantsOK, NEW counts \in Counts, NEW P
    PROVE  Sampled(counts, P) \in Counts
BY DEF ConstantsOK, Counts, Sampled

-----------------------------------------------------------------------------
(* Types.                                                                  *)

\* A trade is worth a number of dollars.
LEMMA PnLType ==
    ASSUME ConstantsOK, TypeOK, NEW e \in Events, NEW result \in Results,
           NEW gap \in Gaps, StopBps(e) > 0
    PROVE  PnL(e, result, gap) \in Int
<1>1. WorkingEquity \in Int /\ gap \in Int /\ FeeBps \in Int
  BY DEF ConstantsOK, TypeOK, WorkingEquity
<1>2. RiskUsd \in Int
  BY <1>1 DEF RiskUsd
<1>3. /\ e.atr \in Nat
      /\ [sweep |-> 10, extreme |-> 15, squeeze |-> 15][e.anomaly] \in Nat
      /\ [sweep |-> 20, extreme |-> 35, squeeze |-> 40][e.anomaly] \in Nat
  BY DEF ConstantsOK
<1>4. StopBps(e) \in Nat \ {0} /\ TargetBps(e) \in Nat
  <2> DEFINE Bps(a, b) == (a * b * e.atr) \div 100
  <2>1. ASSUME NEW a \in Nat, NEW b \in Nat PROVE Bps(a, b) \in Nat
    <3>1. \A m, n \in Nat : m * n \in Nat
      OBVIOUS
    <3>2. a * b * e.atr \in Nat
      <4>1. a * b \in Nat
        BY <3>1
      <4> QED BY <1>3, <3>1, <4>1
    <3>3. \A m \in Nat : m \div 100 \in Nat
      OBVIOUS
    <3> QED BY <3>2, <3>3
  <2>2. StopBps(e) \in Nat
    <3> DEFINE a == [sweep |-> 10, extreme |-> 15, squeeze |-> 15][e.anomaly]
               b == IF e.stretched THEN 8 ELSE 10
    <3>1. a \in Nat /\ b \in Nat
      BY <1>3
    <3>2. StopBps(e) = Bps(a, b)
      BY DEF StopBps
    <3> HIDE DEF a, b, Bps
    <3> QED BY <2>1, <3>1, <3>2
  <2>3. TargetBps(e) \in Nat
    <3> DEFINE a == [sweep |-> 20, extreme |-> 35, squeeze |-> 40][e.anomaly]
               b == IF e.stretched THEN 12 ELSE 10
    <3>1. a \in Nat /\ b \in Nat
      BY <1>3
    <3>2. TargetBps(e) = Bps(a, b)
      BY DEF TargetBps
    <3> HIDE DEF a, b, Bps
    <3> QED BY <2>1, <3>1, <3>2
  <2> QED BY <2>2, <2>3
<1>5. \A r, m \in Int, s \in Nat \ {0} : (r * m) \div s \in Int
  OBVIOUS
<1> DEFINE move == (IF result = "WIN" THEN TargetBps(e) + gap
                                    ELSE -(StopBps(e) + gap)) - FeeBps
<1>6. move \in Int
  BY <1>1, <1>4
<1>7. PnL(e, result, gap) = IF result = "HOLD" THEN 0
                            ELSE (RiskUsd * move) \div StopBps(e)
  BY DEF PnL
<1> HIDE DEF move
<1> QED BY <1>2, <1>4, <1>5, <1>6, <1>7

\* Whatever the checks found, the guard keeps its types.
LEMMA GuardTypes ==
    ASSUME ConstantsOK, TypeOK, ConsultGuard
    PROVE  /\ peak' \in Int /\ stops' \in 0 .. MaxStops
           /\ killActive' \in BOOLEAN /\ permanent' \in BOOLEAN
           /\ killAge' \in {Guard!NoTime} \union (0 .. Cooldown)
           /\ quiet' \in 0 .. Cooldown
<1>1. Cooldown \in Nat /\ MaxStops \in Nat
  BY DEF ConstantsOK
<1>2. peak' \in Int
  BY DEF ConsultGuard, TypeOK, WorkingEquity, ConstantsOK
<1>3. stops' \in 0 .. MaxStops
  BY <1>1 DEF ConsultGuard, TypeOK, Guard!SwitchAfter
<1>4. killActive' \in BOOLEAN
  BY DEF ConsultGuard, Guard!SwitchAfter
<1>5. permanent' \in BOOLEAN
  BY DEF ConsultGuard, Guard!SwitchAfter
<1>6. quiet' \in 0 .. Cooldown
  BY <1>1 DEF ConsultGuard, TypeOK, Guard!SwitchAfter
<1>7. killAge' \in {Guard!NoTime} \union (0 .. Cooldown)
  BY <1>1 DEF ConsultGuard, TypeOK, Guard!SwitchAfter
<1> QED BY <1>2, <1>3, <1>4, <1>5, <1>6, <1>7

\* The facts about one event that every case needs.
LEMMA EventFacts ==
    ASSUME ConstantsOK, TypeOK, NEW e \in Events,
           NEW votes \in [PersonaSet -> Votes], NEW w \in Weights(AfterVeto(e, votes))
    PROVE  LET signals == Aligned(votes, e.trigger)
               b == BlendedVote(signals, w)
           IN  /\ signals \in Signals /\ AfterVeto(e, votes) \in Counts
               /\ b.direction \in Directions /\ b.confidence \in Nat
               /\ b.confidence >= MinConfidence =>
                     /\ b.direction # "NEUTRAL"
                     /\ \E p \in PersonaSet : signals[p].direction = b.direction
                     /\ e.trigger # "NEUTRAL" => b.direction = Side[e.trigger]
<1>1. e.trigger \in Triggers /\ e.symbol \in Symbols
  BY DEF ConstantsOK
<1>2. AfterVeto(e, votes) \in Counts
  <2>1. samples[e.symbol] \in Counts
    BY <1>1 DEF TypeOK, Counts
  <2> QED BY <2>1, SampledType DEF AfterVeto
<1>3. w \in WeightVectors
  BY WeightsType
<1>4. /\ Aligned(votes, e.trigger) \in Signals
      /\ \A p \in PersonaSet : e.trigger # "NEUTRAL" =>
            Aligned(votes, e.trigger)[p].direction \in {"NEUTRAL", Side[e.trigger]}
  BY <1>1, AlignedVotes
<1>5. MinConfidence \in Nat /\ MinConfidence >= 1
  BY DEF ConstantsOK
<1> DEFINE signals == Aligned(votes, e.trigger)
           b == BlendedVote(signals, w)
<1>6. /\ b.direction \in Directions /\ b.confidence \in Nat
      /\ b.confidence > 0 => b.direction # "NEUTRAL"
      /\ b.direction # "NEUTRAL" => \E p \in PersonaSet : signals[p].direction = b.direction
  BY <1>3, <1>4, BlendedIsBacked
<1> HIDE DEF b, signals
<1>7. b.confidence >= MinConfidence => b.direction # "NEUTRAL"
  BY <1>5, <1>6
<1>8. signals \in Signals /\ \A p \in PersonaSet : e.trigger # "NEUTRAL" =>
            signals[p].direction \in {"NEUTRAL", Side[e.trigger]}
  BY <1>4 DEF signals
<1> QED BY <1>2, <1>6, <1>7, <1>8 DEF b, signals

\* What the cases of an event come down to: it is skipped, with or without the
\* guard having been asked, or traded.
LEMMA EventSplit ==
    ASSUME ProcessEvent
    PROVE  /\ NextEvent
           /\ \E e \in Events, votes \in [PersonaSet -> Votes] :
                 \E w \in Weights(AfterVeto(e, votes)) :
                    \/ Skip(e, votes) /\ (ConsultGuard \/ UNCHANGED guard)
                    \/ \E result \in Results, gap \in Gaps, saved \in BOOLEAN :
                          Trade(e, votes, BlendedVote(Aligned(votes, e.trigger), w),
                                result, gap, saved)
<1>1. PICK e \in Events, votes \in [PersonaSet -> Votes] :
        \E w \in Weights(AfterVeto(e, votes)) :
              LET blended == BlendedVote(Aligned(votes, e.trigger), w)
              IN  \/ SkipAgainstTrend(e, votes, blended)
                  \/ SkipLowWinRate(e, votes, blended)
                  \/ SkipUnsure(e, votes, blended)
                  \/ SkipWithoutStop(e, votes, blended)
                  \/ SkipRefused(e, votes, blended)
                  \/ \E result \in Results, gap \in Gaps, saved \in BOOLEAN :
                        Trade(e, votes, blended, result, gap, saved)
  BY DEF ProcessEvent
<1>2. NextEvent
  BY DEF ProcessEvent
<1> QED
  BY <1>1, <1>2 DEF SkipAgainstTrend, SkipLowWinRate, SkipUnsure,
                    SkipWithoutStop, SkipRefused

\* The initial state has the right types.
LEMMA InitTypes ==
    ASSUME ConstantsOK, Init
    PROVE  TypeOK
<1>1. /\ InitialEquity \in Int /\ MinSamples \in Nat /\ MaxStops \in Nat
      /\ Cooldown \in Nat /\ MaxRuns \in Nat /\ MaxEvents \in Nat
  BY DEF ConstantsOK
<1>2. tally \in [PersonaSet -> [wins : Nat, losses : Nat]]
  BY DEF Init
<1>3. samples \in [Symbols -> [PersonaSet -> 0 .. MinSamples]]
  BY <1>1 DEF Init
<1>4. trades \in Seq(TradeRecords)
  BY DEF Init
<1>5. /\ phase \in {"idle", "running", "aborted"}
      /\ runs \in 0 .. MaxRuns /\ events \in 0 .. MaxEvents
      /\ equity \in Int /\ realized \in Int /\ totalPnl \in Int /\ peak \in Int
  BY <1>1 DEF Init
<1>6. stops \in 0 .. MaxStops /\ quiet \in 0 .. Cooldown
  BY <1>1 DEF Init
<1>7. /\ killActive \in BOOLEAN /\ permanent \in BOOLEAN
      /\ killAge \in {Guard!NoTime} \union (0 .. Cooldown)
  BY DEF Init
<1> QED BY <1>2, <1>3, <1>4, <1>5, <1>6, <1>7 DEF TypeOK, TradeRecords

\* Trade t has a direction that somebody asked for and nothing overrides.
Backed(t) ==
    /\ t.direction # "NEUTRAL"
    /\ t.trigger # "NEUTRAL" => t.direction = Side[t.trigger]
    /\ ~AgainstTrend(t.direction, t.trend)
    /\ \E p \in PersonaSet : t.votes[p] = t.direction

\* The step appends trade t and books what it is worth.
Books(t) ==
    /\ trades' = Append(trades, t)
    /\ equity' = equity + t.pnl /\ realized' = realized + t.pnl
    /\ totalPnl' = totalPnl + t.pnl

\* What a trade books is a backed trade of the right type.
LEMMA TradeTypes ==
    ASSUME ConstantsOK, TypeOK, NEW e \in Events,
           NEW votes \in [PersonaSet -> Votes], NEW w \in Weights(AfterVeto(e, votes)),
           NEW result \in Results, NEW gap \in Gaps, NEW saved \in BOOLEAN,
           Trade(e, votes, BlendedVote(Aligned(votes, e.trigger), w), result, gap, saved)
    PROVE  \E t \in TradeRecords : Backed(t) /\ Books(t)
<1> DEFINE signals == Aligned(votes, e.trigger)
           b == BlendedVote(signals, w)
           pnl == PnL(e, result, gap)
           t == [direction |-> b.direction, trigger |-> e.trigger,
                 trend |-> e.trend, result |-> result, pnl |-> pnl,
                 votes |-> [p \in PersonaSet |-> signals[p].direction]]
<1>1. /\ Proposed(e, b)
      /\ trades' = Append(trades, t)
      /\ equity' = equity + pnl /\ realized' = realized + pnl
      /\ totalPnl' = totalPnl + pnl
  BY DEF Trade
<1>2. /\ signals \in Signals /\ b.direction \in Directions
      /\ b.confidence >= MinConfidence =>
            /\ b.direction # "NEUTRAL"
            /\ \E p \in PersonaSet : signals[p].direction = b.direction
            /\ e.trigger # "NEUTRAL" => b.direction = Side[e.trigger]
  BY EventFacts
<1>3. /\ b.confidence >= MinConfidence /\ StopBps(e) > 0
      /\ ~AgainstTrend(b.direction, e.trend)
  BY <1>1 DEF Proposed, Passes
<1>4. pnl \in Int
  BY <1>3, PnLType
<1>5. e.trigger \in Triggers /\ e.trend \in {"UP", "DOWN", "SIDEWAYS"}
  BY DEF ConstantsOK
<1>7. [p \in PersonaSet |-> signals[p].direction] \in [PersonaSet -> Directions]
  BY <1>2 DEF Signals
<1> HIDE DEF b, signals, pnl
<1>8. t \in TradeRecords
  BY <1>2, <1>4, <1>5, <1>7 DEF TradeRecords
<1>9. \E p \in PersonaSet : t.votes[p] = t.direction
  BY <1>2, <1>3
<1> QED BY <1>1, <1>2, <1>3, <1>8, <1>9 DEF Backed, Books

\* The sums of the guard are sums.
LEMMA GuardSums ==
    ASSUME NEW f, NEW S
    PROVE  Guard!SumFunctionOnSet(f, S) = SumFunctionOnSet(f, S)
BY DEF Guard!SumFunctionOnSet, Guard!FoldFunctionOnSet, Guard!MapThenFoldSet,
       SumFunctionOnSet, FoldFunctionOnSet, MapThenFoldSet

\* What the guard lets through has a stop wider than the fees.
LEMMA StopsAreWide ==
    ASSUME ConstantsOK, LimitsFit, TypeOK, NEW e \in Events, StopBps(e) \in Nat \ {0},
           GuardAllows(e)
    PROVE  RiskUsd \in Nat \ {0} /\ FeeBps < StopBps(e)
<1> DEFINE W == WorkingEquity
           R == RiskUsd
           S == StopBps(e)
           cap == TrainingCap
           N == Notional(e)
           asked == N + (N * FeeBps) \div 20000
           M == 100 * 10000
<1>1. W \in Int /\ FeeBps \in Nat /\ cap \in Nat /\ S \in Nat \ {0}
  <2>1. W \in Int /\ FeeBps \in Nat
    BY DEF ConstantsOK, TypeOK, WorkingEquity
  <2>2. cap \in Nat
    BY DEF LimitsFit
  <2> QED BY <2>1, <2>2
<1>2. W >= 100 /\ 100 * (Guard!NetExposure(Symbols) + asked) <= W * cap
  <2>1. Guard!Breaches(Proposal(e), W) = {}
    BY DEF GuardAllows
  <2>2. "fat_finger_notional" \in Guard!Limits /\ "absolute_equity_floor" \in Guard!Limits
    BY DEF Guard!Limits
  <2>3. Guard!NotionalOK(Proposal(e)) /\ ~Guard!FloorHit(W)
    BY <2>1, <2>2 DEF Guard!Breaches
  <2>4. Proposal(e).notional = asked /\ Proposal(e).training = TRUE
    BY DEF Proposal
  <2>5. W >= 100
    BY <1>1, <2>3 DEF Guard!FloorHit, LimitsFit, ConstantsOK
  <2> HIDE DEF asked, W
  <2> QED BY <2>3, <2>4, <2>5 DEF Guard!NotionalOK, W, TrainingCap
<1>3. Guard!NetExposure(Symbols) = 0
  <2> DEFINE f == [s \in Symbols |-> [t \in Symbols |-> [long |-> 0, short |-> 0]][s].long
                                     - [t \in Symbols |-> [long |-> 0, short |-> 0]][s].short]
  <2>1. Guard!NetExposure(Symbols) = SumFunctionOnSet(f, Symbols)
    <3>1. Guard!NetExposure(Symbols) = Guard!SumFunctionOnSet(f, Symbols)
      BY DEF Guard!NetExposure
    <3> HIDE DEF f
    <3> QED BY <3>1, GuardSums
  <2>2. \A s \in Symbols : f[s] = 0
    OBVIOUS
  <2> HIDE DEF f
  <2>3. SumFunctionOnSet(f, Symbols) = 0 * Cardinality(Symbols)
    BY <2>2, SumOfConstant DEF LimitsFit
  <2>4. Cardinality(Symbols) \in Nat
    BY FS_CardinalityType DEF LimitsFit
  <2> QED BY <2>1, <2>3, <2>4
<1>4. R \in Nat \ {0} /\ W <= 100 * R + 99
  <2>1. R = W \div 100
    BY DEF RiskUsd
  <2> HIDE DEF R, W
  <2> QED BY <1>1, <1>2, <2>1
<1>5. N \in Nat /\ R * 10000 < S * N + S
  <2>1. N = (R * 10000) \div S
    BY DEF Notional
  <2> HIDE DEF N, R, S
  <2>2. R * 10000 \in Nat
    BY <1>4
  <2>3. N \in Int /\ S * N <= R * 10000 /\ R * 10000 < S * N + S
    BY <1>1, <2>1, <2>2, DivFacts
  <2>4. \A m \in Nat, n \in Nat \ {0} : m \div n \in Nat
    OBVIOUS
  <2>5. N \in Nat
    BY <1>1, <2>1, <2>2, <2>4
  <2> QED BY <2>3, <2>5
<1>6. asked \in Nat /\ asked >= N
  <2>1. \A m, n \in Nat : m * n \in Nat /\ m \div 20000 \in Nat
    OBVIOUS
  <2>2. N * FeeBps \in Nat
    BY <1>1, <1>5, <2>1
  <2>3. (N * FeeBps) \div 20000 \in Nat
    BY <2>1, <2>2
  <2> HIDE DEF N
  <2> QED BY <1>5, <2>3
<1>7. FeeBps * (199 * cap + 100) <= M /\ M = 100 * 10000 /\ M \in Nat
  BY DEF LimitsFit
<1> HIDE DEF W, R, S, cap, N, asked, M
<1>8. 100 * N <= (100 * R + 99) * cap
  <2>1. 100 * asked <= W * cap
    BY <1>1, <1>2, <1>3, <1>6
  <2>2. W * cap <= (100 * R + 99) * cap
    <3> DEFINE b == 100 * R + 99
    <3>1. b \in Int /\ W <= b
      BY <1>4
    <3> HIDE DEF b
    <3>2. W * cap <= b * cap
      BY <1>1, <3>1, MulMonotone
    <3> QED BY <3>2 DEF b
  <2>3. W * cap \in Int /\ (100 * R + 99) * cap \in Int
    BY <1>1, <1>4
  <2> QED BY <1>5, <1>6, <2>1, <2>2, <2>3
<1>9. M < S * (199 * cap + 100)
  <2> DEFINE k == 199 * cap + 100
             p == 100 * N + 100
  <2>1. k \in Nat /\ p \in Nat
    BY <1>1, <1>5
  <2>2. p <= R * k
    <3>1. (100 * R + 99) * cap + 100 <= R * (199 * cap + 100)
      <4>1. cap <= R * cap /\ 1 <= R
        <5>1. 1 <= R
          BY <1>4
        <5>2. 1 * cap <= R * cap
          BY <1>1, <1>4, <5>1, MulMonotone
        <5> QED BY <1>1, <5>1, <5>2
      <4>2. (100 * R + 99) * cap = 100 * (R * cap) + 99 * cap
            /\ R * (199 * cap + 100) = 199 * (R * cap) + 100 * R /\ R * cap \in Nat
        BY <1>1, <1>4
      <4> QED BY <1>1, <1>4, <4>1, <4>2
    <3>2. (100 * R + 99) * cap \in Int /\ R * (199 * cap + 100) \in Int
      BY <1>1, <1>4
    <3> QED BY <1>5, <1>8, <3>1, <3>2
  <2>3. R * M < S * p
    <3>1. S * p = 100 * (S * N + S) /\ S * N \in Int
      BY <1>1, <1>5
    <3> HIDE DEF p
    <3>2. R * M = 100 * (R * 10000)
      BY <1>4, <1>7
    <3>3. R * 10000 \in Nat
      BY <1>4
    <3> QED BY <1>1, <1>5, <3>1, <3>2, <3>3
  <2>4. S * p <= S * (R * k)
    <3> DEFINE q == R * k
    <3>1. q \in Int
      BY <1>4, <2>1
    <3> HIDE DEF k, p, q
    <3>2. S * p <= S * q
      BY <1>1, <2>1, <2>2, <3>1, MulMonotone DEF q
    <3> QED BY <3>2 DEF q
  <2> HIDE DEF k, p
  <2> DEFINE r == S * k
  <2>5. S * (R * k) = R * r /\ r \in Int /\ S * p \in Int
    BY <1>1, <1>4, <2>1
  <2> HIDE DEF r
  <2>6. R * M < R * r
    <3>1. R * r \in Int
      BY <1>4, <2>5
    <3>2. R * M \in Int /\ S * (R * k) \in Int
      BY <1>4, <1>7, <2>5, <3>1
    <3> QED BY <2>3, <2>4, <2>5, <3>1, <3>2
  <2>7. ~(r <= M)
    <3>1. r <= M => R * r <= R * M
      BY <1>4, <1>7, <2>5, MulMonotone
    <3>2. R * r \in Int /\ R * M \in Int
      BY <1>4, <1>7, <2>5
    <3> QED BY <1>4, <2>6, <3>1, <3>2
  <2> QED BY <1>7, <2>5, <2>7 DEF k, r
<1>10. FeeBps < S
  <2> DEFINE k == 199 * cap + 100
  <2>1. k \in Nat
    BY <1>1
  <2> HIDE DEF k
  <2>2. S <= FeeBps => S * k <= FeeBps * k
    BY <1>1, <2>1, MulMonotone
  <2>3. S * k \in Int /\ FeeBps * k \in Int
    BY <1>1, <2>1
  <2>4. M < S * k /\ FeeBps * k <= M
    BY <1>7, <1>9 DEF k
  <2> QED BY <1>1, <1>7, <2>2, <2>3, <2>4
<1> QED BY <1>4, <1>10 DEF R, S

\* The target is at least twice as far away as the stop.
LEMMA TargetIsFar ==
    ASSUME ConstantsOK, NEW e \in Events
    PROVE  StopBps(e) \in Nat /\ TargetBps(e) \in Nat /\ TargetBps(e) >= 2 * StopBps(e)
<1> DEFINE a == [sweep |-> 10, extreme |-> 15, squeeze |-> 15][e.anomaly]
           b == IF e.stretched THEN 8 ELSE 10
           c == [sweep |-> 20, extreme |-> 35, squeeze |-> 40][e.anomaly]
           d == IF e.stretched THEN 12 ELSE 10
           x == e.atr
<1>1. /\ a \in Nat /\ b \in Nat /\ c \in Nat /\ d \in Nat /\ x \in Nat
      /\ 2 * a <= c /\ b <= d
  BY DEF ConstantsOK
<1>2. StopBps(e) = (a * b * x) \div 100 /\ TargetBps(e) = (c * d * x) \div 100
  BY DEF StopBps, TargetBps
<1> HIDE DEF a, b, c, d, x
<1> DEFINE p == a * b
           q == c * d
<1>3. p \in Nat /\ q \in Nat /\ 2 * p <= q
  <2> DEFINE a2 == 2 * a
  <2>1. a2 \in Nat /\ a2 <= c /\ a2 * b = 2 * p
    BY <1>1
  <2> HIDE DEF a2, p
  <2>2. a2 * b <= a2 * d
    BY <1>1, <2>1, MulMonotone
  <2>3. a2 * d <= c * d
    BY <1>1, <2>1, MulMonotone
  <2>4. p \in Nat /\ q \in Nat /\ a2 * b \in Nat /\ a2 * d \in Nat
    BY <1>1, <2>1 DEF p
  <2> QED BY <2>1, <2>2, <2>3, <2>4
<1> HIDE DEF p, q
<1> DEFINE u == p * x
           v == q * x
<1>4. u \in Nat /\ v \in Nat /\ 2 * u <= v
  <2> DEFINE p2 == 2 * p
  <2>1. p2 \in Nat /\ p2 <= q /\ p2 * x = 2 * u
    BY <1>1, <1>3
  <2> HIDE DEF p2, u
  <2>2. p2 * x <= q * x
    BY <1>1, <1>3, <2>1, MulMonotone
  <2> QED BY <1>1, <1>3, <2>1, <2>2 DEF u
<1> HIDE DEF u, v
<1>5. u \div 100 \in Nat /\ v \div 100 \in Nat /\ v \div 100 >= 2 * (u \div 100)
  BY <1>4
<1> QED BY <1>2, <1>5 DEF p, q, u, v

\* A trade that reached its target won, one that was stopped out lost.
Pays(t) ==
    /\ t.result = "WIN" => t.pnl > 0
    /\ t.result = "LOSS" => t.pnl < 0

LEMMA TradePays ==
    ASSUME ConstantsOK, LimitsFit, TypeOK, NEW e \in Events, NEW votes, NEW blended,
           NEW result \in Results, NEW gap \in Gaps, NEW saved,
           Trade(e, votes, blended, result, gap, saved)
    PROVE  \E t : trades' = Append(trades, t) /\ Pays(t)
<1> DEFINE t == [direction |-> blended.direction, trigger |-> e.trigger,
                 trend |-> e.trend, result |-> result, pnl |-> PnL(e, result, gap),
                 votes |-> [p \in PersonaSet |-> Aligned(votes, e.trigger)[p].direction]]
<1>1. Proposed(e, blended) /\ GuardAllows(e) /\ trades' = Append(trades, t)
  BY DEF Trade
<1>2. StopBps(e) \in Nat \ {0} /\ TargetBps(e) \in Nat /\ TargetBps(e) >= 2 * StopBps(e)
  BY <1>1, TargetIsFar DEF Proposed
<1>3. RiskUsd \in Nat \ {0} /\ FeeBps < StopBps(e)
  BY <1>1, <1>2, StopsAreWide
<1>4. gap \in Nat /\ FeeBps \in Nat
  BY DEF ConstantsOK
<1> DEFINE R == RiskUsd
           S == StopBps(e)
           won == (TargetBps(e) + gap) - FeeBps
           lost == -(S + gap) - FeeBps
<1>5. /\ result = "WIN" => PnL(e, result, gap) = (R * won) \div S
      /\ result = "LOSS" => PnL(e, result, gap) = (R * lost) \div S
  <2>1. CASE result = "WIN"
    BY <2>1 DEF PnL
  <2>2. CASE result = "LOSS"
    BY <2>2 DEF PnL
  <2>3. CASE result = "HOLD"
    BY <2>3
  <2> QED BY <2>1, <2>2, <2>3 DEF Results
<1>6. won \in Int /\ lost \in Int /\ S <= won /\ lost < 0 /\ R \in Nat \ {0} /\ S \in Nat \ {0}
  BY <1>2, <1>3, <1>4
<1> HIDE DEF R, S, won, lost
<1> DEFINE x == R * won
           y == R * lost
<1>7. x \in Int /\ y \in Int /\ S <= x /\ y < 0
  <2>1. 1 * won <= R * won
    <3>1. 1 <= R /\ won \in Nat
      BY <1>6
    <3> QED BY <1>6, <3>1, MulMonotone
  <2>2. R * lost <= R * (-1)
    <3>1. lost <= -1
      BY <1>6
    <3> QED BY <1>6, <3>1, MulMonotone
  <2>3. x \in Int /\ y \in Int
    BY <1>6
  <2> QED BY <1>6, <2>1, <2>2, <2>3
<1> HIDE DEF x, y
<1>8. x \div S > 0
  <2>1. x \div S \in Int /\ x < S * (x \div S) + S
    BY <1>6, <1>7, DivFacts
  <2> DEFINE d == x \div S
  <2>2. d \in Int /\ S < S * d + S
    BY <1>6, <1>7, <2>1
  <2> HIDE DEF d
  <2>3. ~(d <= 0)
    <3>1. d <= 0 => S * d <= S * 0
      BY <1>6, <2>2, MulMonotone
    <3>2. S * d \in Int
      BY <1>6, <2>2
    <3> QED BY <1>6, <2>2, <3>1, <3>2
  <2> QED BY <2>2, <2>3 DEF d
<1>9. y \div S < 0
  <2>1. y \div S \in Int /\ S * (y \div S) <= y
    BY <1>6, <1>7, DivFacts
  <2> DEFINE d == y \div S
  <2>2. d \in Int /\ S * d < 0
    <3>1. S * (y \div S) \in Int
      BY <1>6, <2>1
    <3> QED BY <1>7, <2>1, <3>1
  <2> HIDE DEF d
  <2>3. ~(d >= 0)
    <3>1. d >= 0 => S * d \in Nat
      BY <1>6, <2>2
    <3> QED BY <2>2, <3>1
  <2> QED BY <2>2, <2>3 DEF d
<1>10. Pays(t)
  BY <1>5, <1>8, <1>9 DEF Pays, x, y
<1> QED BY <1>1, <1>10

\* Every step keeps the types.
LEMMA TypeStep ==
    ASSUME ConstantsOK, TypeOK, [Next]_vars
    PROVE  TypeOK'
<1>1. /\ InitialEquity \in Int /\ MinSamples \in Nat /\ MaxStops \in Nat
      /\ Cooldown \in Nat /\ MaxRuns \in Nat /\ MaxEvents \in Nat
  BY DEF ConstantsOK
<1>2. CASE StartRun
  <2>1. samples' \in [Symbols -> [PersonaSet -> 0 .. MinSamples]]
    BY <1>1, <1>2 DEF StartRun
  <2>2. trades' \in Seq(TradeRecords)
    BY <1>2 DEF StartRun
  <2>3. /\ phase' \in {"idle", "running", "aborted"}
        /\ runs' \in 0 .. MaxRuns /\ events' \in 0 .. MaxEvents
        /\ equity' \in Int /\ realized' \in Int /\ totalPnl' \in Int /\ peak' \in Int
    BY <1>1, <1>2 DEF StartRun, TypeOK
  <2>4. stops' \in 0 .. MaxStops /\ quiet' \in 0 .. Cooldown
    BY <1>1, <1>2 DEF StartRun
  <2>6. /\ killActive' \in BOOLEAN /\ permanent' \in BOOLEAN
        /\ killAge' \in {Guard!NoTime} \union (0 .. Cooldown)
    BY <1>2 DEF StartRun
  <2>5. tally' \in [PersonaSet -> [wins : Nat, losses : Nat]]
    BY <1>2 DEF StartRun, TypeOK
  <2> QED BY <2>1, <2>2, <2>3, <2>4, <2>5, <2>6 DEF TypeOK, TradeRecords
<1>3. CASE FinishRun
  BY <1>3 DEF FinishRun, TypeOK, books, guard
<1>4. CASE ProcessEvent
  <2>0. PICK e \in Events, votes \in [PersonaSet -> Votes] :
           \E w \in Weights(AfterVeto(e, votes)) :
          \/ Skip(e, votes) /\ (ConsultGuard \/ UNCHANGED guard)
          \/ \E result \in Results, gap \in Gaps, saved \in BOOLEAN :
                Trade(e, votes, BlendedVote(Aligned(votes, e.trigger), w),
                      result, gap, saved)
    BY <1>4, EventSplit
  <2>1. PICK w \in Weights(AfterVeto(e, votes)) :
          \/ Skip(e, votes) /\ (ConsultGuard \/ UNCHANGED guard)
          \/ \E result \in Results, gap \in Gaps, saved \in BOOLEAN :
                Trade(e, votes, BlendedVote(Aligned(votes, e.trigger), w),
                      result, gap, saved)
    BY <2>0
  <2>2. runs' \in 0 .. MaxRuns /\ events' \in 0 .. MaxEvents /\ phase = "running"
    BY <1>1, <1>4 DEF ProcessEvent, NextEvent, TypeOK
  <2>3. AfterVeto(e, votes) \in Counts /\ e.symbol \in Symbols
    BY EventFacts DEF ConstantsOK
  <2>4. ASSUME NEW P,
               samples' = [samples EXCEPT ![e.symbol] = Sampled(AfterVeto(e, votes), P)]
        PROVE  samples' \in [Symbols -> [PersonaSet -> 0 .. MinSamples]]
    <3>1. Sampled(AfterVeto(e, votes), P) \in Counts
      BY <2>3, SampledType
    <3> QED BY <2>3, <2>4, <3>1 DEF TypeOK, Counts
  <2>5. ASSUME ConsultGuard \/ UNCHANGED guard
        PROVE  /\ peak' \in Int /\ stops' \in 0 .. MaxStops
               /\ killActive' \in BOOLEAN /\ permanent' \in BOOLEAN
               /\ killAge' \in {Guard!NoTime} \union (0 .. Cooldown)
               /\ quiet' \in 0 .. Cooldown
    BY <2>5, GuardTypes DEF TypeOK, guard
  <2>6. CASE Skip(e, votes) /\ (ConsultGuard \/ UNCHANGED guard)
    <3>1. samples' \in [Symbols -> [PersonaSet -> 0 .. MinSamples]]
      BY <2>4, <2>6 DEF Skip
    <3> QED BY <2>2, <2>5, <2>6, <3>1 DEF Skip, TypeOK, books
  <2>7. ASSUME NEW result \in Results, NEW gap \in Gaps, NEW saved \in BOOLEAN,
               Trade(e, votes, BlendedVote(Aligned(votes, e.trigger), w),
                     result, gap, saved)
        PROVE  TypeOK'
    <3>1. PICK t \in TradeRecords : Backed(t) /\ Books(t)
      BY <2>7, TradeTypes
    <3>2. trades \in Seq(TradeRecords) /\ t.pnl \in Int
      BY DEF TypeOK, TradeRecords
    <3>7. trades' \in Seq(TradeRecords)
      BY <3>1, <3>2 DEF Books
    <3>8. equity' \in Int /\ realized' \in Int /\ totalPnl' \in Int
      <4>1. equity \in Int /\ realized \in Int /\ totalPnl \in Int
        BY DEF TypeOK
      <4>2. /\ equity' = equity + t.pnl /\ realized' = realized + t.pnl
            /\ totalPnl' = totalPnl + t.pnl
        BY <3>1 DEF Books
      <4> QED BY <3>2, <4>1, <4>2
    <3> DEFINE signals == Aligned(votes, e.trigger)
               b == BlendedVote(signals, w)
               pnl == PnL(e, result, gap)
    <3>3. samples' \in [Symbols -> [PersonaSet -> 0 .. MinSamples]]
      BY <2>4, <2>7 DEF Trade
    <3>4. tally' \in [PersonaSet -> [wins : Nat, losses : Nat]]
      <4>1. \A d, traded, x : \A r \in [wins : Nat, losses : Nat] :
               Credit(r, d, traded, x) \in [wins : Nat, losses : Nat]
        BY DEF Credit
      <4>2. tally' = tally \/ tally' = [p \in PersonaSet |->
                            Credit(tally[p], signals[p].direction, b.direction, pnl)]
        BY <2>7 DEF Trade
      <4> HIDE DEF signals, b, pnl
      <4> QED BY <4>1, <4>2 DEF TypeOK
    <3>5. phase' \in {"idle", "running", "aborted"}
      BY <2>2, <2>7 DEF Trade, PhaseAfter
    <3>6. ConsultGuard
      BY <2>7 DEF Trade
    <3> QED BY <2>2, <2>5, <3>3, <3>4, <3>5, <3>6, <3>7, <3>8 DEF TypeOK, TradeRecords
  <2> QED BY <2>1, <2>6, <2>7
<1>5. CASE MinutePasses
  <2>1. killAge' \in {Guard!NoTime} \union (0 .. Cooldown) /\ quiet' \in 0 .. Cooldown
    BY <1>1, <1>5 DEF MinutePasses, TypeOK
  <2> QED BY <1>5, <2>1 DEF MinutePasses, TypeOK, books
<1>6. CASE UNCHANGED vars
  BY <1>6 DEF vars, books, guard, TypeOK
<1> QED BY <1>2, <1>3, <1>4, <1>5, <1>6 DEF Next

-----------------------------------------------------------------------------
(* The curve and its high-water mark.                                      *)

\* The curve after the first n of the trades in s.
Curve(s, n) == InitialEquity + SumFunctionOnSet([i \in DOMAIN s |-> s[i].pnl], 1 .. n)

\* The curve has integer points and starts at the initial equity.
LEMMA CurveType ==
    ASSUME ConstantsOK, NEW s \in Seq(TradeRecords), NEW n \in 0 .. Len(s)
    PROVE  Curve(s, n) \in Int /\ Curve(s, 0) = InitialEquity
<1> DEFINE f == [i \in DOMAIN s |-> s[i].pnl]
<1>1. IsFiniteSet(1 .. n)
  BY FS_Interval
<1>2. \A i \in 1 .. n : f[i] \in Int
  <2>1. \A i \in 1 .. n : i \in DOMAIN s /\ s[i] \in TradeRecords
    OBVIOUS
  <2> QED BY <2>1 DEF TradeRecords
<1>3. 1 .. 0 = {}
  OBVIOUS
<1>4. InitialEquity \in Int
  BY DEF ConstantsOK
<1> HIDE DEF f
<1>5. SumFunctionOnSet(f, 1 .. n) \in Int /\ SumFunctionOnSet(f, 1 .. 0) = 0
  BY <1>1, <1>2, <1>3, SumType, SumOfNothing
<1> QED BY <1>4, <1>5 DEF Curve, f

\* One more trade prolongs the curve and leaves its old points alone.
LEMMA CurveGrows ==
    ASSUME ConstantsOK, NEW s \in Seq(TradeRecords), NEW t \in TradeRecords
    PROVE  /\ \A n \in 0 .. Len(s) : Curve(Append(s, t), n) = Curve(s, n)
           /\ Curve(Append(s, t), Len(s) + 1) = Curve(s, Len(s)) + t.pnl
<1> DEFINE u == Append(s, t)
           f == [i \in DOMAIN s |-> s[i].pnl]
           g == [i \in DOMAIN u |-> u[i].pnl]
           N == Len(s)
<1>1. /\ u \in Seq(TradeRecords) /\ N \in Nat /\ Len(u) = N + 1 /\ u[N + 1] = t
      /\ \A i \in 1 .. N : u[i] = s[i] /\ s[i] \in TradeRecords
      /\ DOMAIN s = 1 .. N /\ DOMAIN u = 1 .. (N + 1)
  OBVIOUS
<1>2. \A i \in 1 .. N : f[i] \in Int /\ g[i] = f[i]
  BY <1>1 DEF TradeRecords
<1>3. g[N + 1] = t.pnl /\ t.pnl \in Int
  BY <1>1 DEF TradeRecords
<1>4. \A n \in 0 .. N : Curve(s, n) = InitialEquity + SumFunctionOnSet(f, 1 .. n)
  BY DEF Curve
<1>5. \A n \in 0 .. N + 1 : Curve(u, n) = InitialEquity + SumFunctionOnSet(g, 1 .. n)
  BY DEF Curve
<1>6. InitialEquity \in Int
  BY DEF ConstantsOK
<1> HIDE DEF f, g, u, N
<1>12. \A n \in 0 .. N + 1 : IsFiniteSet(1 .. n)
  <2> TAKE n \in 0 .. N + 1
  <2>1. 1 \in Int /\ n \in Int
    OBVIOUS
  <2> QED BY <2>1, FS_Interval
<1>7. \A n \in 0 .. N : SumFunctionOnSet(g, 1 .. n) = SumFunctionOnSet(f, 1 .. n)
  <2> TAKE n \in 0 .. N
  <2>1. \A i \in 1 .. n : f[i] \in Int /\ g[i] = f[i]
    BY <1>1, <1>2
  <2>2. IsFiniteSet(1 .. n)
    BY <1>1, <1>12
  <2> QED BY <2>1, <2>2, SumOfEquals
<1>8. SumFunctionOnSet(g, 1 .. (N + 1)) = g[N + 1] + SumFunctionOnSet(g, 1 .. N)
  <2> DEFINE I == 1 .. (N + 1)
  <2>1. N + 1 \in I /\ \A i \in I : i \in 1 .. N \/ i = N + 1
    BY <1>1
  <2>2. IsFiniteSet(I)
    BY <1>1, <1>12
  <2>4. SumFunctionOnSet(g, I) = g[N + 1] + SumFunctionOnSet(g, I \ {N + 1})
    <3>1. \A i \in I : g[i] \in Int
      BY <1>2, <1>3, <2>1
    <3> HIDE DEF I
    <3> QED BY <2>1, <2>2, <3>1, SumRemove
  <2>3. (1 .. (N + 1)) \ {N + 1} = 1 .. N
    BY <1>1
  <2> QED BY <2>4, <2>3
<1>9. SumFunctionOnSet(f, 1 .. N) \in Int
  <2>1. IsFiniteSet(1 .. N)
    BY <1>1, <1>12
  <2> QED BY <1>2, <2>1, SumType
<1>10. \A n \in 0 .. N : Curve(u, n) = Curve(s, n)
  BY <1>1, <1>4, <1>5, <1>7
<1>11. Curve(u, N + 1) = Curve(s, N) + t.pnl
  <2>1. N \in 0 .. N /\ N + 1 \in 0 .. N + 1
    BY <1>1
  <2> QED BY <1>3, <1>4, <1>5, <1>6, <1>7, <1>8, <1>9, <2>1
<1> QED BY <1>10, <1>11 DEF u, N

\* The mark the guard measures drawdowns from when it is next consulted.
Mark == IF peak >= realized THEN peak ELSE realized

\* With compounding, that mark is the highest point of the run's curve.
MarkIsHighest ==
    /\ \E n \in 0 .. Len(trades) : Mark = Curve(trades, n)
    /\ \A n \in 0 .. Len(trades) : Curve(trades, n) <= Mark

-----------------------------------------------------------------------------
(* The invariant.                                                          *)

Inv ==
    /\ TypeOK
    /\ CurveMatchesEquity
    /\ TradesAreBacked
    /\ Compound => MarkIsHighest

\* Books without trades agree with a curve of one point.
LEMMA EmptyBooks ==
    ASSUME ConstantsOK, trades = <<>>, equity = InitialEquity,
           realized = InitialEquity, totalPnl = 0, peak = InitialEquity
    PROVE  CurveMatchesEquity /\ TradesAreBacked /\ MarkIsHighest
<1>1. /\ trades \in Seq(TradeRecords) /\ Len(trades) = 0 /\ DOMAIN trades = {}
      /\ 0 \in 0 .. Len(trades)
  OBVIOUS
<1>2. Curve(trades, 0) = InitialEquity /\ InitialEquity \in Int
  BY <1>1, CurveType DEF ConstantsOK
<1>3. CurveMatchesEquity
  BY <1>1, <1>2 DEF CurveMatchesEquity, CurveAfter, Curve
<1>4. TradesAreBacked
  BY <1>1 DEF TradesAreBacked
<1>5. MarkIsHighest
  BY <1>1, <1>2 DEF MarkIsHighest, Mark
<1> QED BY <1>3, <1>4, <1>5

\* The initial state satisfies the invariant.
LEMMA InitInv ==
    ASSUME ConstantsOK, Init
    PROVE  Inv
<1>1. TypeOK
  BY InitTypes
<1>2. CurveMatchesEquity /\ TradesAreBacked /\ MarkIsHighest
  BY EmptyBooks DEF Init
<1> QED BY <1>1, <1>2 DEF Inv

\* Trade t keeps the books, the backing and the mark.
LEMMA TradeKeepsInv ==
    ASSUME ConstantsOK, Inv, NEW t \in TradeRecords, Backed(t), Books(t), ConsultGuard
    PROVE  CurveMatchesEquity' /\ TradesAreBacked' /\ (Compound => MarkIsHighest')
<1> DEFINE N == Len(trades)
<1>1. /\ trades \in Seq(TradeRecords) /\ N \in Nat
      /\ equity \in Int /\ realized \in Int /\ totalPnl \in Int /\ peak \in Int
  BY DEF Inv, TypeOK, TradeRecords
<1>2. t.pnl \in Int /\ InitialEquity \in Int
  BY DEF TradeRecords, ConstantsOK
<1>3. /\ trades' = Append(trades, t) /\ equity' = equity + t.pnl
      /\ realized' = realized + t.pnl /\ totalPnl' = totalPnl + t.pnl
  BY DEF Books
<1>4. /\ Len(trades') = N + 1 /\ trades'[N + 1] = t
      /\ DOMAIN trades' = 1 .. (N + 1) /\ DOMAIN trades = 1 .. N
      /\ \A i \in 1 .. N : trades'[i] = trades[i]
  BY <1>1, <1>3
<1>5. /\ \A n \in 0 .. N : Curve(trades', n) = Curve(trades, n) /\ Curve(trades, n) \in Int
      /\ Curve(trades', N + 1) = Curve(trades, N) + t.pnl
  BY <1>1, <1>3, CurveGrows, CurveType
<1>6. /\ equity = Curve(trades, N) /\ realized = equity
      /\ totalPnl = equity - InitialEquity
  BY DEF Inv, CurveMatchesEquity, CurveAfter, Curve
<1>7. CurveMatchesEquity'
  <2>1. CurveAfter(Len(trades))' = Curve(trades', N + 1)
    BY <1>4 DEF CurveAfter, Curve
  <2>2. equity' = Curve(trades', N + 1) /\ realized' = equity'
    BY <1>3, <1>5, <1>6
  <2>3. totalPnl' = equity' - InitialEquity
    <3>1. \A x, y, z \in Int : (x - y) + z = (x + z) - y
      OBVIOUS
    <3>2. totalPnl' = (equity - InitialEquity) + t.pnl /\ equity' = equity + t.pnl
      BY <1>3, <1>6
    <3>3. equity \in Int /\ InitialEquity \in Int /\ t.pnl \in Int
      BY <1>1, <1>2
    <3> QED BY <3>1, <3>2, <3>3
  <2> HIDE DEF N
  <2> QED BY <2>1, <2>2, <2>3 DEF CurveMatchesEquity
<1>8. TradesAreBacked'
  <2>1. \A i \in DOMAIN trades : Backed(trades[i])
    BY DEF Inv, TradesAreBacked, Backed
  <2>2. \A i \in DOMAIN trades' : i \in DOMAIN trades \/ i = N + 1
    BY <1>1, <1>4
  <2>3. \A i \in DOMAIN trades' : Backed(trades'[i])
    BY <1>4, <2>1, <2>2
  <2> QED BY <2>3 DEF TradesAreBacked, Backed
<1>9. ASSUME Compound PROVE MarkIsHighest'
  <2>1. peak' = Mark
    BY <1>9 DEF ConsultGuard, WorkingEquity, Mark
  <2>2. /\ Mark \in Int
        /\ \E n \in 0 .. N : Mark = Curve(trades, n)
        /\ \A n \in 0 .. N : Curve(trades, n) <= Mark
    BY <1>1, <1>9 DEF Inv, MarkIsHighest, Mark
  <2>3. realized' = Curve(trades', N + 1) /\ realized' \in Int
    BY <1>1, <1>2, <1>3, <1>5, <1>6
  <2>4. /\ Mark' \in Int /\ Mark' >= Mark /\ Mark' >= realized'
        /\ Mark' = Mark \/ Mark' = realized'
    BY <2>1, <2>2, <2>3 DEF Mark
  <2>5. \A n \in 0 .. N + 1 : n \in 0 .. N \/ n = N + 1
    BY <1>1
  <2>6. \A n \in 0 .. N + 1 : Curve(trades', n) <= Mark'
    <3> TAKE n \in 0 .. N + 1
    <3>1. CASE n = N + 1
      BY <2>3, <2>4, <3>1
    <3>2. CASE n \in 0 .. N
      BY <1>5, <2>2, <2>4, <3>2
    <3> QED BY <2>5, <3>1, <3>2
  <2>7. \E n \in 0 .. N + 1 : Mark' = Curve(trades', n)
    <3>1. CASE Mark' = realized'
      <4>1. N + 1 \in 0 .. N + 1
        BY <1>1
      <4> QED BY <2>3, <3>1, <4>1
    <3>2. CASE Mark' = Mark
      <4>1. PICK n \in 0 .. N : Mark = Curve(trades, n)
        BY <2>2
      <4>2. n \in 0 .. N + 1
        BY <1>1
      <4> QED BY <1>5, <3>2, <4>1, <4>2
    <3> QED BY <2>4, <3>1, <3>2
  <2>8. MarkIsHighest' <=>
          /\ \E n \in 0 .. Len(trades') : Mark' = Curve(trades', n)
          /\ \A n \in 0 .. Len(trades') : Curve(trades', n) <= Mark'
    BY DEF MarkIsHighest, Curve
  <2> HIDE DEF N
  <2> QED BY <1>4, <2>6, <2>7, <2>8
<1> QED BY <1>7, <1>8, <1>9

\* A step that leaves the books alone and at most consults the guard keeps them.
LEMMA QuietStep ==
    ASSUME ConstantsOK, Inv, UNCHANGED books, ConsultGuard \/ peak' = peak
    PROVE  CurveMatchesEquity' /\ TradesAreBacked' /\ (Compound => MarkIsHighest')
<1>1. /\ equity' = equity /\ realized' = realized /\ totalPnl' = totalPnl
      /\ trades' = trades
  BY DEF books
<1>2. CurveMatchesEquity'
  BY <1>1 DEF Inv, CurveMatchesEquity, CurveAfter
<1>3. TradesAreBacked'
  BY <1>1 DEF Inv, TradesAreBacked
<1>4. ASSUME Compound PROVE MarkIsHighest'
  <2>1. peak \in Int /\ realized \in Int
    BY DEF Inv, TypeOK
  <2>2. Mark' = Mark
    BY <1>1, <1>4, <2>1 DEF ConsultGuard, WorkingEquity, Mark
  <2>3. MarkIsHighest
    BY <1>4 DEF Inv
  <2> QED BY <1>1, <2>2, <2>3 DEF MarkIsHighest, Curve
<1> QED BY <1>2, <1>3, <1>4

\* Every step keeps the invariant.
LEMMA InvStep ==
    ASSUME ConstantsOK, Inv, [Next]_vars
    PROVE  Inv'
<1>1. TypeOK'
  BY TypeStep DEF Inv
<1>2. CurveMatchesEquity' /\ TradesAreBacked' /\ (Compound => MarkIsHighest')
  <2>1. CASE StartRun
    <3>1. /\ trades' = <<>> /\ equity' = InitialEquity /\ realized' = InitialEquity
          /\ totalPnl' = 0 /\ peak' = InitialEquity
      BY <2>1 DEF StartRun
    <3>2. /\ trades' \in Seq(TradeRecords) /\ Len(trades') = 0 /\ DOMAIN trades' = {}
      BY <3>1
    <3>3. Curve(trades', 0) = InitialEquity /\ InitialEquity \in Int
      <4>1. 0 \in 0 .. Len(trades') /\ InitialEquity \in Int
        BY <3>2 DEF ConstantsOK
      <4> QED BY <3>2, <4>1, CurveType
    <3>4. CurveMatchesEquity'
      BY <3>1, <3>2, <3>3 DEF CurveMatchesEquity, CurveAfter, Curve
    <3>5. TradesAreBacked'
      BY <3>2 DEF TradesAreBacked
    <3>6. MarkIsHighest'
      <4>1. Mark' = InitialEquity
        BY <3>1 DEF Mark
      <4>2. MarkIsHighest' <=>
              /\ \E n \in 0 .. Len(trades') : Mark' = Curve(trades', n)
              /\ \A n \in 0 .. Len(trades') : Curve(trades', n) <= Mark'
        BY DEF MarkIsHighest, Curve
      <4>3. \A n : n \in 0 .. Len(trades') <=> n = 0
        BY <3>2
      <4> QED BY <3>3, <4>1, <4>2, <4>3
    <3> QED BY <3>4, <3>5, <3>6
  <2>2. CASE FinishRun
    BY <2>2, QuietStep DEF FinishRun, guard
  <2>3. CASE ProcessEvent
    <3>1. PICK e \in Events, votes \in [PersonaSet -> Votes] :
            \E w \in Weights(AfterVeto(e, votes)) :
              \/ Skip(e, votes) /\ (ConsultGuard \/ UNCHANGED guard)
              \/ \E result \in Results, gap \in Gaps, saved \in BOOLEAN :
                    Trade(e, votes, BlendedVote(Aligned(votes, e.trigger), w),
                          result, gap, saved)
      BY <2>3, EventSplit
    <3>2. PICK w \in Weights(AfterVeto(e, votes)) :
              \/ Skip(e, votes) /\ (ConsultGuard \/ UNCHANGED guard)
              \/ \E result \in Results, gap \in Gaps, saved \in BOOLEAN :
                    Trade(e, votes, BlendedVote(Aligned(votes, e.trigger), w),
                          result, gap, saved)
      BY <3>1
    <3>3. CASE Skip(e, votes) /\ (ConsultGuard \/ UNCHANGED guard)
      BY <3>3, QuietStep DEF Skip, guard
    <3>4. ASSUME NEW result \in Results, NEW gap \in Gaps, NEW saved \in BOOLEAN,
                 Trade(e, votes, BlendedVote(Aligned(votes, e.trigger), w),
                       result, gap, saved)
          PROVE  CurveMatchesEquity' /\ TradesAreBacked' /\ (Compound => MarkIsHighest')
      <4>1. PICK t \in TradeRecords : Backed(t) /\ Books(t)
        BY <3>4, TradeTypes DEF Inv
      <4>2. ConsultGuard
        BY <3>4 DEF Trade
      <4> QED BY <4>1, <4>2, TradeKeepsInv
    <3> QED BY <3>2, <3>3, <3>4
  <2>4. CASE MinutePasses
    BY <2>4, QuietStep DEF MinutePasses
  <2>5. CASE UNCHANGED vars
    BY <2>5, QuietStep DEF vars, guard
  <2> QED BY <2>1, <2>2, <2>3, <2>4, <2>5 DEF Next
<1> QED BY <1>1, <1>2 DEF Inv

\* With compounding, the mark is what the property calls the high-water mark.
LEMMA MarkIsHighWater ==
    ASSUME ConstantsOK, Inv, Compound
    PROVE  HighWater = Mark /\ Mark \in Nat \ {0}
<1> DEFINE P == {CurveAfter(n) : n \in 0 .. Len(trades)}
<1>1. /\ trades \in Seq(TradeRecords) /\ Len(trades) \in Nat
      /\ InitialEquity \in Nat \ {0}
  BY DEF Inv, TypeOK, TradeRecords, ConstantsOK
<1>2. \A n \in 0 .. Len(trades) : CurveAfter(n) = Curve(trades, n) /\ Curve(trades, n) \in Int
  BY <1>1, CurveType DEF CurveAfter, Curve
<1>3. Mark \in P /\ \A n \in 0 .. Len(trades) : CurveAfter(n) <= Mark
  BY <1>2 DEF Inv, MarkIsHighest
<1>4. \A h \in P : h \in Int
  BY <1>2
<1>5. \A h \in P : (\A n \in 0 .. Len(trades) : CurveAfter(n) <= h) => h = Mark
  <2> TAKE h \in P
  <2> HAVE \A n \in 0 .. Len(trades) : CurveAfter(n) <= h
  <2>1. Mark <= h /\ h <= Mark
    <3>1. \A x \in P : x <= h /\ x <= Mark
      BY <1>3
    <3> HIDE DEF P
    <3> QED BY <1>3, <3>1
  <2>2. h \in Int /\ Mark \in Int
    BY <1>3, <1>4
  <2> HIDE DEF P
  <2> QED BY <2>1, <2>2
<1>6. HighWater = Mark
  BY <1>3, <1>5 DEF HighWater
<1>7. InitialEquity <= Mark
  <2>1. 0 \in 0 .. Len(trades)
    BY <1>1
  <2>2. Curve(trades, 0) = InitialEquity
    BY <1>1, <2>1, CurveType
  <2> QED BY <1>2, <1>3, <2>1, <2>2
<1>8. Mark \in Int
  BY <1>3, <1>4
<1> QED BY <1>1, <1>6, <1>7, <1>8

\* A step that adds a trade found the run within the limit.
LEMMA DrawdownStep ==
    ASSUME ConstantsOK, Inv, [Next]_vars, Compound, Len(trades') > Len(trades)
    PROVE  100 * (realized - HighWater) > -(HaltPct * HighWater)
<1>1. trades \in Seq(TradeRecords) /\ Len(trades) \in Nat /\ realized \in Int
  BY DEF Inv, TypeOK, TradeRecords
<1>2. trades' # trades /\ trades' # <<>>
  BY <1>1
<1>3. ProcessEvent
  BY <1>2 DEF Next, StartRun, FinishRun, MinutePasses, vars, books
<1>4. PICK e \in Events : GuardAllows(e)
  <2>1. PICK e \in Events, votes \in [PersonaSet -> Votes] :
            \E w \in Weights(AfterVeto(e, votes)) :
              \/ Skip(e, votes) /\ (ConsultGuard \/ UNCHANGED guard)
              \/ \E result \in Results, gap \in Gaps, saved \in BOOLEAN :
                    Trade(e, votes, BlendedVote(Aligned(votes, e.trigger), w),
                          result, gap, saved)
    BY <1>3, EventSplit
  <2>2. ~Skip(e, votes)
    BY <1>2 DEF Skip, books
  <2>3. PICK w \in Weights(AfterVeto(e, votes)), result \in Results, gap \in Gaps,
             saved \in BOOLEAN :
           Trade(e, votes, BlendedVote(Aligned(votes, e.trigger), w), result, gap, saved)
    BY <2>1, <2>2
  <2> QED BY <2>3 DEF Trade
<1>5. ~Guard!FellBy(realized, Mark, HaltPct)
  <2>1. "global_drawdown" \notin Guard!Breaches(Proposal(e), WorkingEquity)
    BY <1>4 DEF GuardAllows
  <2>2. "global_drawdown" \in Guard!Limits
    BY DEF Guard!Limits
  <2> QED BY <2>1, <2>2 DEF Guard!Breaches, WorkingEquity, Mark
<1>6. HighWater = Mark /\ Mark \in Nat \ {0}
  BY MarkIsHighWater
<1>7. HaltPct * Mark \in Int /\ 100 * (realized - Mark) \in Int
  <2>1. \A a, b \in Nat : a * b \in Int
    OBVIOUS
  <2>2. HaltPct \in Nat
    BY DEF ConstantsOK
  <2> QED BY <1>1, <1>6, <2>1, <2>2
<1>8. ~(100 * (realized - Mark) <= -(HaltPct * Mark))
  BY <1>5, <1>6 DEF Guard!FellBy
<1> QED BY <1>6, <1>7, <1>8

\* Every trade of the list pays as its result says.
LEMMA ResultsInit == ASSUME Init PROVE ResultsMatchPnL
<1>1. trades = <<>> /\ DOMAIN trades = {}
  BY DEF Init
<1> QED BY <1>1 DEF ResultsMatchPnL

LEMMA ResultsStep ==
    ASSUME ConstantsOK, LimitsFit, Inv, ResultsMatchPnL, [Next]_vars
    PROVE  ResultsMatchPnL'
<1>1. CASE trades' = trades
  BY <1>1 DEF ResultsMatchPnL
<1>2. CASE trades' = <<>>
  <2>1. DOMAIN trades' = {}
    BY <1>2
  <2> QED BY <2>1 DEF ResultsMatchPnL
<1>3. CASE \E t : trades' = Append(trades, t) /\ Pays(t)
  <2>1. PICK t : trades' = Append(trades, t) /\ Pays(t)
    BY <1>3
  <2> DEFINE N == Len(trades)
  <2>2. trades \in Seq(TradeRecords) /\ N \in Nat
    BY DEF Inv, TypeOK, TradeRecords
  <2>3. /\ DOMAIN trades' = 1 .. (N + 1) /\ DOMAIN trades = 1 .. N /\ trades'[N + 1] = t
        /\ \A i \in 1 .. N : trades'[i] = trades[i]
    BY <2>1, <2>2
  <2> HIDE DEF N
  <2>4. \A i \in DOMAIN trades' : i \in DOMAIN trades \/ i = N + 1
    BY <2>2, <2>3
  <2>5. \A i \in DOMAIN trades : Pays(trades[i])
    BY DEF ResultsMatchPnL, Pays
  <2>6. \A i \in DOMAIN trades' : Pays(trades'[i])
    BY <2>1, <2>3, <2>4, <2>5
  <2> QED BY <2>6 DEF ResultsMatchPnL, Pays
<1>4. ASSUME ProcessEvent PROVE trades' = trades \/ \E t : trades' = Append(trades, t) /\ Pays(t)
  <2>1. PICK e \in Events, votes \in [PersonaSet -> Votes] :
          \E w \in Weights(AfterVeto(e, votes)) :
            \/ Skip(e, votes) /\ (ConsultGuard \/ UNCHANGED guard)
            \/ \E result \in Results, gap \in Gaps, saved \in BOOLEAN :
                  Trade(e, votes, BlendedVote(Aligned(votes, e.trigger), w), result, gap, saved)
    BY <1>4, EventSplit
  <2>2. CASE Skip(e, votes)
    BY <2>2 DEF Skip, books
  <2>3. CASE \E w \in Weights(AfterVeto(e, votes)), result \in Results, gap \in Gaps,
                saved \in BOOLEAN :
               Trade(e, votes, BlendedVote(Aligned(votes, e.trigger), w), result, gap, saved)
    <3>1. TypeOK
      BY DEF Inv
    <3> QED BY <2>3, <3>1, TradePays
  <2> QED BY <2>1, <2>2, <2>3
<1> QED BY <1>1, <1>2, <1>3, <1>4 DEF Next, StartRun, FinishRun, MinutePasses, vars, books

-----------------------------------------------------------------------------
(* Theorems.                                                               *)

\* The invariant holds throughout.
LEMMA Invariance == Spec => []Inv
<1>1. Init => Inv
  BY InitInv, ChronosAssumption
<1>2. Inv /\ [Next]_vars => Inv'
  BY InvStep, ChronosAssumption
<1> QED BY <1>1, <1>2, PTL DEF Spec

\* Every variable keeps its type, whatever the committee, the events and the
\* limits are.
THEOREM TypeCorrect == Spec => []TypeOK
<1>1. Inv => TypeOK
  BY DEF Inv
<1> QED BY <1>1, Invariance, PTL

\* The curve drawn from the trades ends at the equity they were sized by, in
\* every run, also when the last one ended in an exception.
THEOREM BooksAgree == Spec => []CurveMatchesEquity
<1>1. Inv => CurveMatchesEquity
  BY DEF Inv
<1> QED BY <1>1, Invariance, PTL

\* No trade counters the trigger or the trend, or lacks a persona that asked
\* for it, whatever the weights are.
THEOREM AllTradesBacked == Spec => []TradesAreBacked
<1>1. Inv => TradesAreBacked
  BY DEF Inv
<1> QED BY <1>1, Invariance, PTL

\* A compounding run never trades while it is down by the halting percentage
\* from the highest point of its curve.
THEOREM DrawdownHalts == Spec => NoTradeInDrawdown
<1>1. Inv /\ [Next]_vars =>
        (Compound /\ Len(trades') > Len(trades) =>
            100 * (realized - HighWater) > -(HaltPct * HighWater))
  BY DrawdownStep, ChronosAssumption
<1>2. Inv /\ [Next]_vars =>
        [Compound /\ Len(trades') > Len(trades) =>
            100 * (realized - HighWater) > -(HaltPct * HighWater)]_vars
  BY <1>1
<1> QED BY <1>2, Invariance, PTL DEF Spec, NoTradeInDrawdown

\* Whatever the volatility of an event: a trade that reached its target made money
\* after fees, and one that was stopped out lost. The cap on the total notional
\* keeps the stop of a trade the guard allows wider than the fees, and the survival
\* floor keeps the risk at least one unit.
THEOREM ResultsMatch == Spec => []ResultsMatchPnL
<1>1. Init => ResultsMatchPnL
  BY ResultsInit
<1>2. Inv /\ ResultsMatchPnL /\ [Next]_vars => ResultsMatchPnL'
  BY ResultsStep, ChronosAssumption, LimitsAssumption
<1> QED BY <1>1, <1>2, Invariance, PTL DEF Spec
===============================================================================
