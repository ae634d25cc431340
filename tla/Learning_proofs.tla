--------------------------- MODULE Learning_proofs ----------------------------
(***************************************************************************)
(* Proofs about the components that look for events and learn from the     *)
(* results: MetaLearning, Lessons and Scanner, for any number of           *)
(* processes, any population, any candles and any configurations.          *)
(***************************************************************************)
EXTENDS MetaLearning, Lessons, Scanner, DataTheorems

(***************************************************************************)
(* MetaLearning                                                            *)
(***************************************************************************)

\* The runner is applying a configuration.
Applying(r) == r.pc \in {"deactivate", "insert", "weights"}

\* What a runner's locals say of its population and of the tables.
Consistent(p) ==
    LET r == runner[p]
    IN  /\ r.pc = "evolve" => r.scores = ScoresOf(population[p]) /\ injected[p]
                              /\ r.source = "cycle"
        /\ Applying(r) => /\ r.elite \in Genes
                          /\ r.source = "cycle" => injected[p]
                          /\ walkForward /\ r.source = "cycle" => Accepts(r.elite)
        /\ r.pc = "insert" =>
              \A c \in Genes : configs[c] # NoRow /\ configs[c].by = p => ~configs[c].active
        /\ r.pc = "weights" =>
              /\ configs[r.elite] # NoRow /\ configs[r.elite].by = p
              /\ configs[r.elite].source = r.source

Inv ==
    /\ TypeOK
    /\ \A p \in Procs : Consistent(p)
    /\ CyclesStoreTheValidated
    /\ OneActivePerProcess
    /\ AppliedIsStored

Rows == [active : BOOLEAN, by : Procs, source : {"cycle", "live"}]

-----------------------------------------------------------------------------
(* Fitness and the genetic operators.                                      *)

LEMMA FitnessIsInt ==
    ASSUME MetaLearningAssumption, NEW o \in Outcome
    PROVE  Fitness(o) \in Int
BY DEF MetaLearningAssumption, Fitness, Outcome, Rejected

LEMMA TrainFitnessIsInt ==
    ASSUME MetaLearningAssumption, world \in Worlds, NEW c \in Genes
    PROVE  TrainFitness(c) \in Int
<1>1. world.train[c] \in Outcome BY DEF MetaLearningAssumption
<1>2. QED BY <1>1, FitnessIsInt DEF TrainFitness

LEMMA MutantsAreGenes ==
    ASSUME MetaLearningAssumption, NEW c \in Int
    PROVE  Mutate(c) \subseteq Genes
<1>1. SUFFICES ASSUME NEW d \in Noise PROVE Clip(c + d) \in Genes BY DEF Mutate
<1>2. c + d \in Int BY DEF MetaLearningAssumption
<1>3. QED BY <1>2 DEF MetaLearningAssumption, Clip, Genes

\* Whatever the scores, the next generation is within the bounds.
LEMMA EvolvedAreGenes ==
    ASSUME MetaLearningAssumption, NEW pop \in [Positions -> Genes], NEW scores,
           NEW next \in Evolved(pop, scores)
    PROVE  next \in [Positions -> Genes]
<1>1. Children(pop, scores) \subseteq Genes
  <2>1. SUFFICES ASSUME NEW a, NEW b, NEW x \in Crossover(a, b)
                 PROVE  Mutate(x) \subseteq Genes
    BY DEF Children
  <2>2. x \in Int BY DEF Crossover, Genes, MetaLearningAssumption
  <2>3. QED BY <2>2, MutantsAreGenes
<1>2. next \in [Positions -> {pop[i] : i \in Positions} \union Children(pop, scores)]
  BY DEF Evolved
<1>3. {pop[i] : i \in Positions} \subseteq Genes OBVIOUS
<1>4. QED BY <1>1, <1>2, <1>3

\* The first of the next generation was the best of this one.
LEMMA EvolvedElite ==
    ASSUME MetaLearningAssumption, world \in Worlds,
           NEW pop \in [Positions -> Genes], NEW next \in Evolved(pop, ScoresOf(pop))
    PROVE  TrainFitness(next[1]) >= TrainFitness(pop[1])
<1>1. PICK a \in Positions : /\ next[1] = pop[a]
                             /\ \A j \in Positions \ {a} : Ahead(pop, ScoresOf(pop), a, j)
  BY DEF Evolved
<1>2. 1 \in Positions BY DEF Positions, MetaLearningAssumption
<1>3. \A i \in Positions : ScoreOf(ScoresOf(pop), pop[i]) = TrainFitness(pop[i])
  BY DEF ScoreOf, ScoresOf
<1>4. TrainFitness(pop[1]) \in Int /\ TrainFitness(pop[a]) \in Int
  BY <1>2, TrainFitnessIsInt
<1>5. CASE a = 1 BY <1>1, <1>4, <1>5
<1>6. CASE a # 1
  <2>1. Ahead(pop, ScoresOf(pop), a, 1) BY <1>1, <1>2, <1>6
  <2>2. QED BY <1>1, <1>2, <1>3, <1>4, <2>1 DEF Ahead
<1>7. QED BY <1>5, <1>6

LEMMA ScoresAreTyped ==
    ASSUME MetaLearningAssumption, world \in Worlds, NEW pop \in [Positions -> Genes]
    PROVE  ScoresOf(pop) \in Scores
<1> DEFINE D == {pop[i] : i \in Positions}
<1>1. D \in SUBSET Genes OBVIOUS
<1> DEFINE F == {Fitness(o) : o \in Outcomes}
<1>2. ScoresOf(pop) \in [D -> F]
  <2>1. \A c \in Genes : world.train[c] \in Outcomes BY DEF MetaLearningAssumption
  <2>2. \A c \in D : TrainFitness(c) \in F BY <1>1, <2>1 DEF TrainFitness
  <2>3. QED BY <2>2 DEF ScoresOf
<1>3. QED BY <1>1, <1>2 DEF Scores

LEMMA AtOK ==
    ASSUME MetaLearningAssumption,
           NEW pc \in {"down", "idle", "evolve", "deactivate", "insert", "weights"}
    PROVE  At(pc) \in Locals
<1> DEFINE none == [c \in {} |-> 0]
<1>1. none \in [{} -> {Fitness(o) : o \in Outcomes}] OBVIOUS
<1>2. none \in Scores BY <1>1 DEF Scores
<1>3. QED BY <1>2 DEF At, Locals, MetaLearningAssumption

-----------------------------------------------------------------------------
(* Steps that leave evolved_configs alone.                                 *)

\* A process moves, with locals, a population and a flag of its own; the tables
\* lose nothing and no list of applied configurations grows.
LEMMA LocalStep ==
    ASSUME MetaLearningAssumption, Inv, NEW p \in Procs, NEW r \in Locals, Moves(p, r),
           NEW pop \in [Positions -> Genes], population' = [population EXCEPT ![p] = pop],
           NEW given \in BOOLEAN, injected' = [injected EXCEPT ![p] = given],
           applied' \in [Procs -> SUBSET Genes],
           \A q \in Procs : applied'[q] \subseteq applied[q],
           weights \subseteq weights', weights' \subseteq Procs \X {"backtest", "injected"},
           cycles' \in 0 .. MaxCycles, starts' \in 0 .. MaxStarts,
           UNCHANGED <<setting, configs>>, Consistent(p)'
    PROVE  Inv'
<1>1. /\ runner \in [Procs -> Locals] /\ population \in [Procs -> [Positions -> Genes]]
      /\ injected \in [Procs -> BOOLEAN]
  BY DEF Inv, TypeOK
<1>2. /\ runner' = [runner EXCEPT ![p] = r]
      /\ world' = world /\ walkForward' = walkForward /\ configs' = configs
  BY DEF Moves, setting
<1>3. TypeOK' BY <1>1, <1>2 DEF Inv, TypeOK
<1>4. \A q \in Procs : Consistent(q)'
  <2>1. SUFFICES ASSUME NEW q \in Procs, q # p PROVE Consistent(q)' OBVIOUS
  <2>2. Consistent(q) BY DEF Inv
  <2>3. runner'[q] = runner[q] /\ population'[q] = population[q] /\ injected'[q] = injected[q]
    BY <1>1, <1>2, <2>1
  <2>4. ScoresOf(population[q])' = ScoresOf(population[q])
    BY <1>2, <2>3 DEF ScoresOf, TrainFitness
  <2>5. \A c : Accepts(c)' <=> Accepts(c) BY <1>2 DEF Accepts
  <2>6. QED BY <1>2, <2>2, <2>3, <2>4, <2>5 DEF Consistent, Applying
<1>5. CyclesStoreTheValidated' BY <1>2 DEF Inv, CyclesStoreTheValidated, Accepts
<1>6. OneActivePerProcess' BY <1>2 DEF Inv, OneActivePerProcess
<1>7. AppliedIsStored'
  <2>1. SUFFICES ASSUME NEW q \in Procs, NEW c \in applied'[q]
                 PROVE  /\ configs[c] # NoRow /\ configs[c].by = q
                        /\ configs[c].source = "cycle" => <<q, "injected">> \in weights'
    BY <1>2 DEF AppliedIsStored
  <2>2. c \in applied[q] OBVIOUS
  <2>3. QED BY <2>2 DEF Inv, AppliedIsStored
<1>8. QED BY <1>3, <1>4, <1>5, <1>6, <1>7 DEF Inv

\* A process that is down or idle promises nothing.
LEMMA AtRest ==
    ASSUME NEW p \in Procs, NEW pc \in {"down", "idle"}, Moves(p, At(pc)),
           runner \in [Procs -> Locals]
    PROVE  Consistent(p)'
<1>1. runner'[p] = At(pc) BY DEF Moves
<1>2. runner'[p].pc = pc BY <1>1 DEF At
<1>3. QED BY <1>2 DEF Consistent, Applying

LEMMA WeightsTyped ==
    ASSUME Inv, NEW p \in Procs, NEW outcomes
    PROVE  weights \union WeightsOfBacktests(p, outcomes) \subseteq Procs \X {"backtest", "injected"}
BY DEF Inv, TypeOK, WeightsOfBacktests

LEMMA StopsAndStarts ==
    ASSUME MetaLearningAssumption, Inv, NEW p \in Procs,
           Start(p) \/ Crash(p) \/ DatabaseLocked(p)
    PROVE  Inv'
<1>1. /\ runner \in [Procs -> Locals] /\ population \in [Procs -> [Positions -> Genes]]
      /\ injected \in [Procs -> BOOLEAN] /\ applied \in [Procs -> SUBSET Genes]
      /\ cycles \in 0 .. MaxCycles /\ starts \in 0 .. MaxStarts
      /\ weights \subseteq Procs \X {"backtest", "injected"}
  BY DEF Inv, TypeOK
<1>2. PICK pc \in {"down", "idle"} : Moves(p, At(pc)) BY DEF Start, Crash, DatabaseLocked
<1>3. At(pc) \in Locals BY <1>2, AtOK
<1>4. Consistent(p)' BY <1>1, <1>2, AtRest
<1>5. CASE Start(p)
  <2>1. PICK pop \in [Positions -> Mutate(Seed)] : population' = [population EXCEPT ![p] = pop]
    BY <1>5 DEF Start
  <2>2. pop \in [Positions -> Genes]
    <3>1. Seed \in Int BY DEF Seed
    <3>2. Mutate(Seed) \subseteq Genes BY <3>1, MutantsAreGenes
    <3>3. QED BY <2>1, <3>2
  <2>3. starts' \in 0 .. MaxStarts BY <1>1, <1>5 DEF Start, MetaLearningAssumption
  <2>4. /\ applied' \in [Procs -> SUBSET Genes]
        /\ \A q \in Procs : applied'[q] \subseteq applied[q]
    BY <1>1, <1>5 DEF Start
  <2>5. injected' = [injected EXCEPT ![p] = FALSE] /\ UNCHANGED <<setting, tables, cycles>>
    BY <1>5 DEF Start
  <2>6. QED BY <1>1, <1>2, <1>3, <1>4, <2>1, <2>2, <2>3, <2>4, <2>5, LocalStep DEF tables
<1>6. CASE Crash(p) \/ DatabaseLocked(p)
  <2>1. UNCHANGED <<setting, population, applied, injected, tables, cycles, starts>>
    BY <1>6 DEF Crash, DatabaseLocked
  <2>2. /\ population' = [population EXCEPT ![p] = population[p]]
        /\ injected' = [injected EXCEPT ![p] = injected[p]]
    BY <1>1, <2>1
  <2>3. population[p] \in [Positions -> Genes] /\ injected[p] \in BOOLEAN BY <1>1
  <2>4. QED BY <1>1, <1>2, <1>3, <1>4, <2>1, <2>2, <2>3, LocalStep DEF tables
<1>7. QED BY <1>5, <1>6

\* A process that scored its population is where it should be.
LEMMA Scored ==
    ASSUME MetaLearningAssumption, Inv, NEW p \in Procs, NEW pop \in [Positions -> Genes],
           NEW r, Moves(p, r), r.pc = "evolve", r.scores = ScoresOf(pop), r.source = "cycle",
           population'[p] = pop, injected'[p], world' = world
    PROVE  Consistent(p)'
<1>1. runner'[p] = r BY DEF Inv, TypeOK, Moves
<1>2. runner'[p].scores = ScoresOf(population[p])' BY <1>1 DEF ScoresOf, TrainFitness
<1>3. QED BY <1>1, <1>2 DEF Consistent, Applying

LEMMA RunCycleStep ==
    ASSUME MetaLearningAssumption, Inv, NEW p \in Procs, RunCycle(p)
    PROVE  Inv'
<1> DEFINE pop == population[p]
           r == IF ScoringRaises(pop) THEN At("idle")
                ELSE [At("evolve") EXCEPT !.scores = ScoresOf(pop)]
<1>1. /\ runner \in [Procs -> Locals] /\ population \in [Procs -> [Positions -> Genes]]
      /\ injected \in [Procs -> BOOLEAN] /\ applied \in [Procs -> SUBSET Genes]
      /\ cycles \in 0 .. MaxCycles /\ starts \in 0 .. MaxStarts
  BY DEF Inv, TypeOK
<1>2. /\ Moves(p, r) /\ injected' = [injected EXCEPT ![p] = TRUE]
      /\ population' = [population EXCEPT ![p] = pop]
      /\ pop \in [Positions -> Genes] /\ population'[p] = pop
      /\ applied' = applied /\ UNCHANGED <<setting, configs>> /\ world' = world
  BY <1>1 DEF RunCycle, setting
<1>3. cycles' \in 0 .. MaxCycles /\ starts' \in 0 .. MaxStarts
  BY <1>1 DEF RunCycle, MetaLearningAssumption
<1>4. weights \subseteq weights' /\ weights' \subseteq Procs \X {"backtest", "injected"}
  BY WeightsTyped DEF RunCycle
<1>5. r \in Locals /\ Consistent(p)'
  <2>1. CASE ScoringRaises(pop) BY <1>1, <1>2, <2>1, AtOK, AtRest
  <2>2. CASE ~ScoringRaises(pop)
    <3>1. r = [At("evolve") EXCEPT !.scores = ScoresOf(pop)] BY <2>2
    <3>2. r \in Locals BY <1>2, <3>1, AtOK, ScoresAreTyped DEF Inv, TypeOK, Locals
    <3>3. r.pc = "evolve" /\ r.scores = ScoresOf(pop) /\ r.source = "cycle" BY <3>1 DEF At
    <3>4. injected'[p] BY <1>1, <1>2
    <3>5. QED
      <4> HIDE DEF r, pop
      <4>1. QED BY <1>2, <3>2, <3>3, <3>4, Scored
  <2>3. QED BY <2>1, <2>2
<1>6. QED
  <2> HIDE DEF r, pop
  <2>1. QED BY <1>1, <1>2, <1>3, <1>4, <1>5, LocalStep

LEMMA EvolveStep ==
    ASSUME MetaLearningAssumption, Inv, NEW p \in Procs, Evolve(p)
    PROVE  Inv'
<1>1. /\ runner \in [Procs -> Locals] /\ population \in [Procs -> [Positions -> Genes]]
      /\ injected \in [Procs -> BOOLEAN] /\ applied \in [Procs -> SUBSET Genes]
      /\ cycles \in 0 .. MaxCycles /\ starts \in 0 .. MaxStarts
      /\ runner[p] \in Locals /\ world \in Worlds
  BY DEF Inv, TypeOK
<1>2. PICK pop \in Evolved(population[p], runner[p].scores) :
        /\ population' = [population EXCEPT ![p] = pop]
        /\ weights' = weights \union WeightsOfBacktests(p, TrainOutcomes(pop))
        /\ Moves(p, IF ScoringRaises(pop) THEN At("idle")
                    ELSE [runner[p] EXCEPT !.scores = ScoresOf(pop), !.gens = @ + 1])
  BY DEF Evolve
<1>3. pop \in [Positions -> Genes] BY <1>1, <1>2, EvolvedAreGenes
<1>4. runner[p].source = "cycle" /\ runner[p].pc = "evolve" /\ injected[p]
  BY DEF Evolve, Inv, Consistent
<1>5. /\ injected' = [injected EXCEPT ![p] = injected[p]] /\ injected'[p]
      /\ injected[p] \in BOOLEAN /\ population'[p] = pop
      /\ applied' = applied /\ UNCHANGED <<setting, configs>> /\ world' = world
      /\ cycles' = cycles /\ starts' = starts
  BY <1>1, <1>2, <1>4 DEF Evolve, setting
<1>6. weights \subseteq weights' /\ weights' \subseteq Procs \X {"backtest", "injected"}
  BY <1>2, WeightsTyped
<1>7. PICK r \in Locals : Moves(p, r) /\ Consistent(p)'
  <2>1. CASE ScoringRaises(pop)
    <3>1. Moves(p, At("idle")) BY <1>2, <2>1
    <3>2. QED BY <3>1, <1>1, AtOK, AtRest
  <2>2. CASE ~ScoringRaises(pop)
    <3> DEFINE r == [runner[p] EXCEPT !.scores = ScoresOf(pop), !.gens = @ + 1]
    <3>1. Moves(p, r) BY <1>2, <2>2
    <3>2. runner[p].gens + 1 \in 0 .. Evolutions
      BY <1>1 DEF Evolve, Locals, MetaLearningAssumption
    <3>3. r \in Locals BY <1>1, <1>3, <3>2, ScoresAreTyped DEF Locals
    <3>4. r.pc = "evolve" /\ r.scores = ScoresOf(pop) /\ r.source = "cycle"
      BY <1>1, <1>4 DEF Locals
    <3>5. QED
      <4> HIDE DEF r
      <4>1. QED BY <1>3, <1>5, <3>1, <3>3, <3>4, Scored
  <2>3. QED BY <2>1, <2>2
<1>8. QED BY <1>1, <1>2, <1>3, <1>5, <1>6, <1>7, LocalStep

\* A process with a configuration to apply is where it should be.
LEMMA Chosen ==
    ASSUME Inv, NEW p \in Procs, NEW r, Moves(p, r), r.pc = "deactivate",
           r.elite \in Genes, r.source = "cycle" => injected'[p],
           walkForward /\ r.source = "cycle" => Accepts(r.elite), UNCHANGED setting
    PROVE  Consistent(p)'
<1>1. runner'[p] = r BY DEF Inv, TypeOK, Moves
<1>2. \A c : Accepts(c)' <=> Accepts(c) BY DEF Accepts, setting
<1>3. walkForward' = walkForward BY DEF setting
<1>4. QED BY <1>1, <1>2, <1>3 DEF Consistent, Applying

LEMMA ValidateStep ==
    ASSUME MetaLearningAssumption, Inv, NEW p \in Procs, ValidateWalkForward(p)
    PROVE  Inv'
<1>1. /\ runner \in [Procs -> Locals] /\ population \in [Procs -> [Positions -> Genes]]
      /\ injected \in [Procs -> BOOLEAN] /\ applied \in [Procs -> SUBSET Genes]
      /\ cycles \in 0 .. MaxCycles /\ starts \in 0 .. MaxStarts
  BY DEF Inv, TypeOK
<1>2. /\ injected' = [injected EXCEPT ![p] = injected[p]] /\ injected'[p]
      /\ injected[p] \in BOOLEAN
      /\ applied' = applied /\ UNCHANGED <<setting, configs>>
      /\ cycles' = cycles /\ starts' = starts
  BY <1>1 DEF ValidateWalkForward, Inv, Consistent
<1>3. weights \subseteq weights' /\ weights' \subseteq Procs \X {"backtest", "injected"}
  BY WeightsTyped DEF ValidateWalkForward
<1>4. CASE Moves(p, At("idle")) /\ UNCHANGED population
  <2>1. At("idle") \in Locals /\ Consistent(p)' BY <1>1, <1>4, AtOK, AtRest
  <2>2. /\ population' = [population EXCEPT ![p] = population[p]]
        /\ population[p] \in [Positions -> Genes]
    BY <1>1, <1>4
  <2>3. QED BY <1>1, <1>2, <1>3, <1>4, <2>1, <2>2, LocalStep
<1>5. ASSUME NEW next \in Evolved(population[p], ScoresOf(population[p])),
             population' = [population EXCEPT ![p] = next],
             \/ Moves(p, At("idle"))
             \/ Accepts(next[1]) /\ Moves(p, [At("deactivate") EXCEPT !.elite = next[1]])
      PROVE  Inv'
  <2>1. next \in [Positions -> Genes] BY <1>1, EvolvedAreGenes
  <2>2. next[1] \in Genes BY <2>1 DEF Positions, MetaLearningAssumption
  <2>3. PICK r \in Locals : Moves(p, r) /\ Consistent(p)'
    <3>1. CASE Moves(p, At("idle")) BY <1>1, <3>1, AtOK, AtRest
    <3>2. CASE Accepts(next[1]) /\ Moves(p, [At("deactivate") EXCEPT !.elite = next[1]])
      <4> DEFINE r == [At("deactivate") EXCEPT !.elite = next[1]]
      <4>1. r \in Locals /\ r.pc = "deactivate" /\ r.elite = next[1]
        BY <2>2, AtOK DEF At, Locals
      <4>2. QED
        <5> HIDE DEF r
        <5>1. Moves(p, r) BY <3>2 DEF r
        <5>2. QED BY <1>2, <2>2, <3>2, <4>1, <5>1, Chosen
    <3>3. QED BY <1>5, <3>1, <3>2
  <2>4. QED BY <1>1, <1>2, <1>3, <1>5, <2>1, <2>3, LocalStep
<1>6. QED BY <1>4, <1>5 DEF ValidateWalkForward

LEMMA SkipStep ==
    ASSUME MetaLearningAssumption, Inv, NEW p \in Procs, SkipValidation(p)
    PROVE  Inv'
<1> DEFINE r == [At("deactivate") EXCEPT !.elite = population[p][1]]
<1>1. /\ population[p] \in [Positions -> Genes] /\ injected[p] \in BOOLEAN
      /\ population' = [population EXCEPT ![p] = population[p]]
      /\ injected' = [injected EXCEPT ![p] = injected[p]] /\ injected'[p]
  BY DEF Inv, TypeOK, SkipValidation, Consistent
<1>2. population[p][1] \in Genes BY <1>1, SMTT(30) DEF Positions, MetaLearningAssumption
<1>3. r \in Locals /\ r.pc = "deactivate" /\ r.elite = population[p][1]
  BY <1>2, AtOK DEF At, Locals
<1>4. Moves(p, r) /\ ~walkForward /\ UNCHANGED setting BY DEF SkipValidation
<1>5. QED
  <2> HIDE DEF r
  <2>1. Consistent(p)' BY <1>1, <1>2, <1>3, <1>4, Chosen
  <2>2. QED BY <1>1, <1>3, <1>4, <2>1, LocalStep DEF SkipValidation, Inv, TypeOK, tables

LEMMA LiveStep ==
    ASSUME MetaLearningAssumption, Inv, NEW p \in Procs, ScoreLiveTrades(p)
    PROVE  Inv'
<1>1. /\ population[p] \in [Positions -> Genes] /\ injected[p] \in BOOLEAN
      /\ injected' = [injected EXCEPT ![p] = injected[p]]
  BY DEF Inv, TypeOK, ScoreLiveTrades
<1>2. PICK o \in Outcomes :
        \E next \in Evolved(population[p], [c \in {population[p][1]} |-> Fitness(o)]) :
           /\ population' = [population EXCEPT ![p] = next]
           /\ Moves(p, [At("deactivate") EXCEPT !.elite = next[1], !.source = "live"])
  BY DEF ScoreLiveTrades
<1>3. PICK next \in [Positions -> Genes] :
           /\ population' = [population EXCEPT ![p] = next]
           /\ Moves(p, [At("deactivate") EXCEPT !.elite = next[1], !.source = "live"])
  BY <1>1, <1>2, EvolvedAreGenes
<1> DEFINE r == [At("deactivate") EXCEPT !.elite = next[1], !.source = "live"]
<1>4. next[1] \in Genes BY <1>3 DEF Positions, MetaLearningAssumption
<1>5. r \in Locals /\ r.pc = "deactivate" /\ r.elite = next[1] /\ r.source = "live"
  BY <1>4, AtOK DEF At, Locals
<1>6. Moves(p, r) BY <1>3
<1>7. cycles' \in 0 .. MaxCycles
  BY DEF ScoreLiveTrades, Inv, TypeOK, MetaLearningAssumption
<1>8. QED
  <2> HIDE DEF r
  <2>1. Consistent(p)' BY <1>4, <1>5, <1>6, Chosen DEF ScoreLiveTrades
  <2>2. QED BY <1>1, <1>3, <1>5, <1>6, <1>7, <2>1, LocalStep
           DEF ScoreLiveTrades, Inv, TypeOK, tables

-----------------------------------------------------------------------------
(* Steps of _apply_config.                                                 *)

\* A process moves on and the rows may change, but no row is lost or loses its
\* writer or its source, and a row that becomes active is one of that process.
LEMMA OthersConsistent ==
    ASSUME MetaLearningAssumption, Inv, NEW p \in Procs, NEW r \in Locals, Moves(p, r),
           configs' \in [Genes -> {NoRow} \union Rows],
           \A c \in Genes : configs[c] # NoRow =>
              /\ configs'[c] # NoRow /\ configs'[c].by = configs[c].by
              /\ configs'[c].source = configs[c].source,
           \A c \in Genes : configs'[c] # NoRow /\ configs'[c].active /\ configs'[c].by # p =>
              configs[c] # NoRow /\ configs[c].active /\ configs[c].by = configs'[c].by,
           UNCHANGED <<setting, population, injected>>
    PROVE  \A q \in Procs \ {p} : Consistent(q)'
<1>1. SUFFICES ASSUME NEW q \in Procs \ {p} PROVE Consistent(q)' OBVIOUS
<1>2. Consistent(q) BY DEF Inv
<1>3. runner'[q] = runner[q] /\ runner[q] \in Locals BY DEF Inv, TypeOK, Moves
<1>4. ScoresOf(population[q])' = ScoresOf(population[q])
  BY DEF ScoresOf, TrainFitness, setting
<1>5. \A c : Accepts(c)' <=> Accepts(c) BY DEF Accepts, setting
<1>6. /\ population'[q] = population[q] /\ injected'[q] = injected[q]
      /\ walkForward' = walkForward
  BY DEF setting
<1>7. runner[q].pc = "evolve" => /\ runner'[q].scores = ScoresOf(population[q])'
                                 /\ injected'[q] /\ runner'[q].source = "cycle"
  BY <1>2, <1>3, <1>4, <1>6 DEF Consistent
<1>8. Applying(runner[q]) =>
         /\ runner'[q].elite \in Genes
         /\ runner'[q].source = "cycle" => injected'[q]
         /\ walkForward' /\ runner'[q].source = "cycle" => Accepts(runner[q].elite)'
  <2>1. Accepts(runner[q].elite)' <=> Accepts(runner[q].elite) BY <1>3 DEF Accepts, setting
  <2>2. QED BY <1>2, <1>3, <1>6, <2>1 DEF Consistent
<1>9. runner[q].pc = "insert" =>
         \A c \in Genes : configs'[c] # NoRow /\ configs'[c].by = q => ~configs'[c].active
  BY <1>2 DEF Consistent
<1>10. runner[q].pc = "weights" =>
         /\ configs'[runner[q].elite] # NoRow /\ configs'[runner[q].elite].by = q
         /\ configs'[runner[q].elite].source = runner[q].source
  BY <1>2 DEF Consistent, Applying
<1>11. Applying(runner[q])' <=> Applying(runner[q]) BY <1>3 DEF Applying
<1>12. QED BY <1>3, <1>7, <1>8, <1>9, <1>10, <1>11 DEF Consistent

LEMMA DeactivateStep ==
    ASSUME MetaLearningAssumption, Inv, NEW p \in Procs, DeactivateAll(p)
    PROVE  Inv'
<1> DEFINE r == [runner[p] EXCEPT !.pc = "insert"]
<1>1. /\ runner[p] \in Locals /\ configs \in [Genes -> {NoRow} \union Rows]
      /\ Consistent(p) /\ runner[p].pc = "deactivate"
  BY DEF Inv, TypeOK, Rows, DeactivateAll
<1>2. r \in Locals /\ r.pc = "insert" /\ r.elite = runner[p].elite /\ r.source = runner[p].source
  BY <1>1 DEF Locals
<1>3. Moves(p, r) /\ runner'[p] = r BY DEF DeactivateAll, Inv, TypeOK, Moves
<1>4. /\ configs' = [c \in Genes |-> IF configs[c] = NoRow THEN NoRow
                                     ELSE [configs[c] EXCEPT !.active = FALSE]]
      /\ UNCHANGED <<setting, population, applied, injected, weights, cycles, starts>>
  BY DEF DeactivateAll
<1>5. \A c \in Genes : configs[c] # NoRow =>
         /\ configs'[c] \in Rows /\ configs'[c] # NoRow /\ ~configs'[c].active
         /\ configs'[c].by = configs[c].by /\ configs'[c].source = configs[c].source
  <2>1. SUFFICES ASSUME NEW c \in Genes, configs[c] # NoRow
                 PROVE  /\ configs'[c] \in Rows /\ configs'[c] # NoRow /\ ~configs'[c].active
                        /\ configs'[c].by = configs[c].by /\ configs'[c].source = configs[c].source
    OBVIOUS
  <2>2. configs[c] \in Rows BY <1>1, <2>1
  <2>3. configs'[c] = [configs[c] EXCEPT !.active = FALSE] BY <1>4, <2>1
  <2>4. configs'[c] \in Rows BY <2>2, <2>3 DEF Rows
  <2>5. configs'[c] # NoRow BY <2>4 DEF Rows, MetaLearningAssumption
  <2>6. QED BY <2>2, <2>3, <2>4, <2>5 DEF Rows
<1>6. \A c \in Genes : configs[c] = NoRow => configs'[c] = NoRow BY <1>4
<1>7. configs' \in [Genes -> {NoRow} \union Rows] BY <1>4, <1>5, <1>6
<1> HIDE DEF r
<1>8. \A q \in Procs \ {p} : Consistent(q)'
  BY <1>2, <1>3, <1>4, <1>5, <1>6, <1>7, OthersConsistent
<1>9. Consistent(p)'
  <2>1. \A c : Accepts(c)' <=> Accepts(c) BY <1>4 DEF Accepts, setting
  <2>2. QED BY <1>1, <1>2, <1>3, <1>4, <1>5, <1>6, <2>1 DEF Consistent, Applying, setting
<1>10. TypeOK' BY <1>2, <1>3, <1>4, <1>7 DEF Inv, TypeOK, Moves, Rows, setting
<1>11. CyclesStoreTheValidated'
  BY <1>4, <1>5, <1>6 DEF Inv, CyclesStoreTheValidated, Accepts, setting
<1>12. OneActivePerProcess' BY <1>5, <1>6 DEF OneActivePerProcess
<1>13. AppliedIsStored'
  <2>1. applied \in [Procs -> SUBSET Genes] BY DEF Inv, TypeOK
  <2>2. SUFFICES ASSUME NEW q \in Procs, NEW c \in applied[q]
                 PROVE  /\ configs'[c] # NoRow /\ configs'[c].by = q
                        /\ configs'[c].source = "cycle" => <<q, "injected">> \in weights
    BY <1>4 DEF AppliedIsStored
  <2>3. /\ configs[c] # NoRow /\ configs[c].by = q
        /\ configs[c].source = "cycle" => <<q, "injected">> \in weights
    BY DEF Inv, AppliedIsStored
  <2>4. QED BY <1>5, <2>1, <2>3
<1>14. QED BY <1>8, <1>9, <1>10, <1>11, <1>12, <1>13 DEF Inv

LEMMA InsertStep ==
    ASSUME MetaLearningAssumption, Inv, NEW p \in Procs, InsertConfig(p)
    PROVE  Inv'
<1> DEFINE e == runner[p].elite
           r == [runner[p] EXCEPT !.pc = "weights"]
<1>1. /\ runner \in [Procs -> Locals] /\ runner[p] \in Locals
      /\ configs \in [Genes -> {NoRow} \union Rows]
      /\ Consistent(p) /\ runner[p].pc = "insert" /\ e \in Genes
  BY DEF Inv, TypeOK, Rows, InsertConfig, Consistent, Applying
<1>2. CASE configs[e] # NoRow
  <2>1. Moves(p, At("idle")) /\ UNCHANGED configs BY <1>2 DEF InsertConfig
  <2>2. At("idle") \in Locals /\ Consistent(p)' BY <1>1, <2>1, AtOK, AtRest
  <2>3. /\ population' = [population EXCEPT ![p] = population[p]]
        /\ population[p] \in [Positions -> Genes] /\ injected[p] \in BOOLEAN
        /\ injected' = [injected EXCEPT ![p] = injected[p]]
    BY DEF InsertConfig, Inv, TypeOK
  <2>4. QED BY <2>1, <2>2, <2>3, LocalStep DEF InsertConfig, Inv, TypeOK
<1>3. CASE configs[e] = NoRow
  <2>1. /\ configs' = [configs EXCEPT ![e] = Row(p)] /\ Moves(p, r)
        /\ UNCHANGED <<setting, population, applied, injected, weights, cycles, starts>>
    BY <1>3 DEF InsertConfig
  <2>2. /\ r \in Locals /\ r.pc = "weights" /\ r.elite = e /\ r.source = runner[p].source
        /\ runner'[p] = r
    BY <1>1, <2>1 DEF Locals, Moves
  <2>3. /\ Row(p) \in Rows /\ Row(p) # NoRow /\ Row(p).active /\ Row(p).by = p
        /\ Row(p).source = runner[p].source
    <3>1. runner[p].source \in {"cycle", "live"} BY <1>1 DEF Locals
    <3>2. Row(p) \in Rows BY <3>1 DEF Row, Rows
    <3>3. NoRow \notin Rows BY DEF Rows, MetaLearningAssumption
    <3>4. Row(p).active /\ Row(p).by = p /\ Row(p).source = runner[p].source BY DEF Row
    <3>5. QED BY <3>2, <3>3, <3>4
  <2>4. /\ configs' \in [Genes -> {NoRow} \union Rows] /\ configs'[e] = Row(p)
        /\ \A c \in Genes \ {e} : configs'[c] = configs[c]
    BY <1>1, <2>1, <2>3
  <2> HIDE DEF r, e
  <2>5. \A q \in Procs \ {p} : Consistent(q)'
    BY <1>3, <2>1, <2>2, <2>3, <2>4, OthersConsistent
  <2>6. \A c : Accepts(c)' <=> Accepts(c) BY <2>1 DEF Accepts, setting
  <2>7. walkForward' = walkForward /\ injected'[p] = injected[p] BY <2>1 DEF setting
  <2>8. /\ runner[p].source = "cycle" => injected[p]
        /\ walkForward /\ runner[p].source = "cycle" => Accepts(e)
    BY <1>1 DEF Consistent, Applying, e
  <2>9. Consistent(p)'
    BY <1>1, <2>2, <2>3, <2>4, <2>6, <2>7, <2>8 DEF Consistent, Applying
  <2>10. TypeOK' BY <2>1, <2>2, <2>4 DEF Inv, TypeOK, Moves, Rows, setting
  <2>11. CyclesStoreTheValidated'
    BY <2>3, <2>4, <2>6, <2>7, <2>8 DEF Inv, CyclesStoreTheValidated
  <2>12. OneActivePerProcess'
    <3>1. \A c \in Genes \ {e} : configs'[c] # NoRow /\ configs'[c].by = p => ~configs'[c].active
      BY <1>1, <2>4 DEF Consistent
    <3>2. QED BY <2>3, <2>4, <3>1 DEF Inv, OneActivePerProcess
  <2>13. AppliedIsStored'
    <3>1. applied \in [Procs -> SUBSET Genes] BY DEF Inv, TypeOK
    <3>2. QED BY <1>3, <2>1, <2>4, <3>1 DEF Inv, AppliedIsStored
  <2>14. QED BY <2>5, <2>9, <2>10, <2>11, <2>12, <2>13 DEF Inv
<1>4. QED BY <1>2, <1>3

LEMMA SaveStep ==
    ASSUME MetaLearningAssumption, Inv, NEW p \in Procs, SaveWeights(p)
    PROVE  Inv'
<1>1. /\ runner \in [Procs -> Locals] /\ applied \in [Procs -> SUBSET Genes]
      /\ weights \subseteq Procs \X {"backtest", "injected"}
      /\ Consistent(p) /\ runner[p].pc = "weights"
  BY DEF Inv, TypeOK, SaveWeights
<1>2. /\ runner[p].elite \in Genes
      /\ configs[runner[p].elite] # NoRow /\ configs[runner[p].elite].by = p
      /\ configs[runner[p].elite].source = "cycle" => injected[p]
  BY <1>1 DEF Consistent, Applying
<1>3. /\ Moves(p, At("idle")) /\ At("idle") \in Locals
      /\ weights' = weights \union (IF injected[p] THEN {<<p, "injected">>} ELSE {})
      /\ applied' = [applied EXCEPT ![p] = applied[p] \union {runner[p].elite}]
      /\ UNCHANGED <<setting, population, injected, configs, cycles, starts>>
  BY AtOK DEF SaveWeights
<1>4. \A q \in Procs \ {p} : Consistent(q)'
  <2>1. configs \in [Genes -> {NoRow} \union Rows] BY DEF Inv, TypeOK, Rows
  <2>2. QED BY <1>3, <2>1, OthersConsistent
<1>5. Consistent(p)' BY <1>1, <1>3, AtRest
<1>6. TypeOK'
  <2>1. weights' \subseteq Procs \X {"backtest", "injected"} BY <1>1, <1>3
  <2>2. applied' \in [Procs -> SUBSET Genes] BY <1>1, <1>2, <1>3
  <2>3. runner' \in [Procs -> Locals] BY <1>1, <1>3 DEF Moves
  <2>4. QED BY <1>3, <2>1, <2>2, <2>3 DEF Inv, TypeOK, setting
<1>7. CyclesStoreTheValidated' /\ OneActivePerProcess'
  BY <1>3 DEF Inv, CyclesStoreTheValidated, OneActivePerProcess, Accepts, setting
<1>8. AppliedIsStored'
  <2>1. SUFFICES ASSUME NEW q \in Procs, NEW c \in applied'[q]
                 PROVE  /\ configs[c] # NoRow /\ configs[c].by = q
                        /\ configs[c].source = "cycle" => <<q, "injected">> \in weights'
    BY <1>3 DEF AppliedIsStored
  <2>2. CASE c \in applied[q]
    BY <1>3, <2>2 DEF Inv, AppliedIsStored
  <2>3. CASE c \notin applied[q]
    <3>1. q = p /\ c = runner[p].elite BY <1>1, <1>3, <2>1, <2>3
    <3>2. QED BY <1>2, <1>3, <3>1
  <2>4. QED BY <2>2, <2>3
<1>9. QED BY <1>4, <1>5, <1>6, <1>7, <1>8 DEF Inv

-----------------------------------------------------------------------------
(* The theorems.                                                           *)

LEMMA InitInv == ASSUME MetaLearningAssumption, Init PROVE Inv
<1>1. TypeOK
  <2>1. At("down") \in Locals BY AtOK
  <2>2. 1 \in Genes BY DEF Genes, MetaLearningAssumption
  <2>3. QED BY <2>1, <2>2 DEF Init, TypeOK, MetaLearningAssumption
<1>2. \A p \in Procs : runner[p].pc = "down" BY DEF Init, At
<1>3. \A p \in Procs : Consistent(p) BY <1>2 DEF Consistent, Applying
<1>4. CyclesStoreTheValidated /\ OneActivePerProcess /\ AppliedIsStored
  BY DEF Init, CyclesStoreTheValidated, OneActivePerProcess, AppliedIsStored
<1>5. QED BY <1>1, <1>3, <1>4 DEF Inv

LEMMA InvCorrect == Spec => []Inv
<1>1. Init => Inv BY InitInv, MetaLearningAssumption
<1>2. Inv /\ [Next]_vars => Inv'
  <2>1. SUFFICES ASSUME Inv, [Next]_vars PROVE Inv' OBVIOUS
  <2>2. ASSUME NEW p \in Procs, Start(p) \/ Crash(p) \/ DatabaseLocked(p) PROVE Inv'
    BY <2>1, <2>2, StopsAndStarts, MetaLearningAssumption
  <2>3. ASSUME NEW p \in Procs, RunCycle(p) \/ Evolve(p) PROVE Inv'
    BY <2>1, <2>3, RunCycleStep, EvolveStep, MetaLearningAssumption
  <2>4. ASSUME NEW p \in Procs, ValidateWalkForward(p) \/ SkipValidation(p) PROVE Inv'
    BY <2>1, <2>4, ValidateStep, SkipStep, MetaLearningAssumption
  <2>5. ASSUME NEW p \in Procs, ScoreLiveTrades(p) PROVE Inv'
    BY <2>1, <2>5, LiveStep, MetaLearningAssumption
  <2>6. ASSUME NEW p \in Procs, DeactivateAll(p) \/ InsertConfig(p) \/ SaveWeights(p)
        PROVE  Inv'
    BY <2>1, <2>6, DeactivateStep, InsertStep, SaveStep, MetaLearningAssumption
  <2>7. CASE UNCHANGED vars
    <3>1. \A c : Accepts(c)' <=> Accepts(c) BY <2>7 DEF Accepts, vars, setting
    <3>2. \A p \in Procs : ScoresOf(population[p])' = ScoresOf(population[p])
      BY <2>7 DEF ScoresOf, TrainFitness, vars, setting
    <3>3. \A p \in Procs : Consistent(p)'
      BY <2>1, <2>7, <3>1, <3>2 DEF Inv, Consistent, Applying, vars, setting, tables
    <3>4. QED BY <2>1, <2>7, <3>1, <3>3
             DEF Inv, TypeOK, CyclesStoreTheValidated, OneActivePerProcess, AppliedIsStored,
                 vars, setting, tables
  <2>8. QED BY <2>1, <2>2, <2>3, <2>4, <2>5, <2>6, <2>7 DEF Next
<1>3. QED BY <1>1, <1>2, MetaLearningAssumption, PTL DEF Spec

\* Populations, locals and tables keep their types; every individual is within
\* the bounds update_config checks.
THEOREM TypeCorrect == Spec => []TypeOK
<1>1. Inv => TypeOK BY DEF Inv
<1>2. QED BY <1>1, InvCorrect, PTL

\* A cycle stores only what passed the validation it has just run.
THEOREM ValidatedIsStored == Spec => []CyclesStoreTheValidated
<1>1. Inv => CyclesStoreTheValidated BY DEF Inv
<1>2. QED BY <1>1, InvCorrect, PTL

\* No process has two active rows, however the processes interleave and crash.
THEOREM OneActiveEach == Spec => []OneActivePerProcess
<1>1. Inv => OneActivePerProcess BY DEF Inv
<1>2. QED BY <1>1, InvCorrect, PTL

\* What a runner counts as applied is in the database.
THEOREM AppliedSurvives == Spec => []AppliedIsStored
<1>1. Inv => AppliedIsStored BY DEF Inv
<1>2. QED BY <1>1, InvCorrect, PTL

\* A step of process p leaves the elites alone, restarts p, scores live trades,
\* or replaces p's population by one that evolved from its scores.
LEMMA EliteStep ==
    ASSUME MetaLearningAssumption, Inv, [Next]_vars, NEW q \in Procs,
           runner[q].pc # "down", runner'[q].source # "live"
    PROVE  ~(TrainFitness(population'[q][1]) < TrainFitness(population[q][1]))
<1>1. /\ world \in Worlds /\ population \in [Procs -> [Positions -> Genes]]
      /\ runner \in [Procs -> Locals]
  BY DEF Inv, TypeOK
<1>2. population[q] \in [Positions -> Genes] /\ 1 \in Positions /\ population[q][1] \in Genes
  BY <1>1 DEF Positions, MetaLearningAssumption
<1>3. TrainFitness(population[q][1]) \in Int BY <1>1, <1>2, TrainFitnessIsInt
<1>4. CASE population'[q] = population[q] BY <1>3, <1>4
<1>5. CASE population'[q] # population[q]
  <2>1. PICK p \in Procs : Start(p) \/ Evolve(p) \/ ValidateWalkForward(p) \/ ScoreLiveTrades(p)
    BY <1>5 DEF Next, vars, Crash, RunCycle, SkipValidation, DeactivateAll, InsertConfig,
                SaveWeights, DatabaseLocked
  <2>2. p = q
    <3>1. \E pop : population' = [population EXCEPT ![p] = pop]
      <4>1. CASE Start(p) BY <4>1 DEF Start
      <4>2. CASE Evolve(p) BY <4>2 DEF Evolve
      <4>3. CASE ValidateWalkForward(p)
        <5>1. CASE UNCHANGED population BY <1>5, <5>1
        <5>2. CASE \E next \in Evolved(population[p], ScoresOf(population[p])) :
                      population' = [population EXCEPT ![p] = next]
          BY <5>2
        <5>3. QED BY <4>3, <5>1, <5>2 DEF ValidateWalkForward
      <4>4. CASE ScoreLiveTrades(p) BY <4>4 DEF ScoreLiveTrades
      <4>5. QED BY <2>1, <4>1, <4>2, <4>3, <4>4
    <3>2. QED BY <1>1, <1>5, <3>1
  <2>3. ~Start(q) BY DEF Start
  <2>4. ~ScoreLiveTrades(q)
    <3>1. SUFFICES ASSUME ScoreLiveTrades(q) PROVE FALSE OBVIOUS
    <3>2. PICK next : Moves(q, [At("deactivate") EXCEPT !.elite = next[1], !.source = "live"])
      BY <3>1 DEF ScoreLiveTrades
    <3>3. runner'[q].source = "live" BY <1>1, <3>2 DEF Moves, At
    <3>4. QED BY <3>3
  <2>5. PICK next \in Evolved(population[q], ScoresOf(population[q])) :
          population' = [population EXCEPT ![q] = next]
    <3>1. CASE Evolve(q)
      <4>1. runner[q].scores = ScoresOf(population[q]) BY <3>1 DEF Evolve, Inv, Consistent
      <4>2. QED BY <3>1, <4>1 DEF Evolve
    <3>2. CASE ValidateWalkForward(q) BY <1>5, <3>2 DEF ValidateWalkForward
    <3>3. QED BY <2>1, <2>2, <2>3, <2>4, <3>1, <3>2
  <2>6. population'[q] = next BY <1>1, <2>5
  <2>7. next[1] \in Genes
    <3>1. population[q] \in [Positions -> Genes] BY <1>2
    <3>2. next \in [Positions -> Genes] BY <2>5, <3>1, EvolvedAreGenes
    <3>3. 1 \in Positions BY DEF Positions, MetaLearningAssumption
    <3>4. QED BY <3>2, <3>3
  <2>8. TrainFitness(next[1]) \in Int BY <1>1, <2>7, TrainFitnessIsInt
  <2>9. TrainFitness(next[1]) >= TrainFitness(population[q][1])
    BY <1>1, <1>2, <2>5, EvolvedElite
  <2>10. QED BY <1>3, <2>6, <2>8, <2>9
<1>6. QED BY <1>4, <1>5

\* On backtests the elite's training fitness never falls, whatever the
\* population, the data, the mutations and the tournaments.
THEOREM EliteIsKept == Spec => EliteNeverRegresses
<1>1. Inv /\ [Next]_vars =>
        [\A p \in Procs :
            TrainFitness(population'[p][1]) < TrainFitness(population[p][1])
               => runner[p].pc = "down" \/ runner'[p].source = "live"]_vars
  BY EliteStep, MetaLearningAssumption
<1>2. QED BY <1>1, InvCorrect, PTL DEF Spec, EliteNeverRegresses

(***************************************************************************)
(* Lessons                                                                 *)
(***************************************************************************)

Lesson ==
    {l \in [persona : Range(Students), anomaly : Anomalies, mode : {"LIVE", "DRY_RUN"},
            text : {"rule", "suspect", "excuse", "dry"}] : l.mode = "LIVE" => l.text # "dry"}
Rule == [by : Engines, side : {"LONG", "SHORT"}, anomaly : Anomalies]
Reflexion == [at : {"idle", "reflect", "save", "evolve", "store"}, anomaly : Anomalies,
              side : {"LONG", "SHORT"}, todo : Seq(Range(Students)), loaded : Seq(Rule)]

\* What RehearsalStaysOut says of one prompt, and what is more: whom it is about.
Faithful(e, p, lessons) ==
    \A i \in DOMAIN lessons :
        /\ e \in Live /\ lessons[i].mode = "LIVE" /\ lessons[i].persona = p
        /\ lessons[i].text \in {"rule", "excuse"}
        /\ lessons[i].anomaly = lessons[1].anomaly
About(lessons, r) == r.at # "idle" => \A i \in DOMAIN lessons : lessons[i].anomaly = r.anomaly

NoRuleBy(e, written) == \A i \in DOMAIN written : written[i].by # e
OneEach(written) == \A i, j \in DOMAIN written : i # j => written[i].by # written[j].by

LessonInv ==
    /\ bank \in Seq(Lesson) /\ rules \in Seq(Rule)
    /\ reflexion \in [Engines -> Reflexion]
    /\ told \in [Engines -> [Range(Students) -> Seq(Lesson)]]
    /\ \A e \in Engines : reflexion[e].at \in {"reflect", "save"} => reflexion[e].todo # <<>>
    /\ \A e \in Engines, p \in Range(Students) :
          Faithful(e, p, told[e][p]) /\ About(told[e][p], reflexion[e])
    /\ OneEach(rules)
    /\ \A e \in Engines : reflexion[e].at = "store" /\ reflexion[e].loaded = <<>> => NoRuleBy(e, rules)

-----------------------------------------------------------------------------
(* Prompts.                                                                *)

LEMMA LatestType ==
  ASSUME LessonAssumption, NEW T, NEW s \in Seq(T)
  PROVE  Latest(s) \in Seq(T)
<1> DEFINE r == Reverse(s)
<1>1. Len(s) \in Nat /\ \A i \in 1 .. Len(s) : s[i] \in T
  BY LenProperties, ElementOfSeq
<1>2. r = [i \in 1 .. Len(s) |-> s[(Len(s) - i) + 1]]
  BY DEF Reverse
<1>3. \A i \in 1 .. Len(s) : (Len(s) - i) + 1 \in 1 .. Len(s)
  BY <1>1
<1>4. r \in Seq(T)
  BY <1>1, <1>2, <1>3, IsASeq
<1>5. Len(r) = Len(s)
  BY <1>1, <1>2, <1>4, LenProperties
<1> HIDE DEF r
<1>6. ASSUME ~(Len(s) <= PastLimit) PROVE SubSeq(r, 1, PastLimit) \in Seq(T)
  <2>1. PastLimit \in Nat /\ 1 \in 1 .. Len(r) + 1 /\ PastLimit \in 0 .. Len(r)
    BY <1>1, <1>5, <1>6 DEF LessonAssumption
  <2> QED BY <1>4, <2>1, SubSeqProperties
<1> QED BY <1>4, <1>6 DEF Latest, r

\* A prompt quotes lessons of its persona, on its anomaly, from a live loss.
LEMMA PromptIsFaithful ==
  ASSUME LessonAssumption, bank \in Seq(Lesson), NEW e \in Engines, NEW p, NEW a
  PROVE  /\ Prompted(e, RetrieveLessons(e, p, a)) \in Seq(Lesson)
         /\ Faithful(e, p, Prompted(e, RetrieveLessons(e, p, a)))
         /\ \A r : r.anomaly = a => About(Prompted(e, RetrieveLessons(e, p, a)), r)
<1> DEFINE T == {l \in Lesson : l.persona = p /\ l.anomaly = a /\ l.mode = Mode(e)}
           U == {l \in T : l.text # "suspect"}
           where == {i \in DOMAIN bank : /\ bank[i].persona = p /\ bank[i].anomaly = a
                                         /\ bank[i].mode = Mode(e)}
           found == RetrieveLessons(e, p, a)
           said == Prompted(e, found)
<1>1. found \in Seq(T)
  <2>1. \A i \in DOMAIN bank : i \in where => bank[i] \in T
    BY ElementOfSeq, LenProperties
  <2> HIDE DEF T, where
  <2>2. Picked(bank, where) \in Seq(T)
    BY <2>1, PickedType
  <2> QED BY <2>2, LatestType DEF RetrieveLessons, where
<1>2. e \in Live => said \in Seq(U)
  <2> DEFINE plain == {i \in DOMAIN found : found[i].text # "suspect"}
  <2> HIDE DEF found
  <2>1. \A i \in DOMAIN found : i \in plain => found[i] \in U
    <3> HIDE DEF T
    <3> QED BY <1>1, ElementOfSeq, LenProperties
  <2> HIDE DEF T, U, plain
  <2>2. Picked(found, plain) \in Seq(U)
    BY <1>1, <2>1, PickedType
  <2> QED BY <2>2 DEF Prompted, plain
<1> HIDE DEF found
<1>3. CASE e \in Live
  <2>1. \A l \in U : /\ l \in Lesson /\ l.persona = p /\ l.anomaly = a /\ l.mode = "LIVE"
                     /\ l.text \in {"rule", "excuse"}
    BY <1>3 DEF Mode, Lesson
  <2> HIDE DEF U
  <2>2. /\ DOMAIN said = 1 .. Len(said) /\ Len(said) \in Nat
        /\ \A i \in DOMAIN said : said[i] \in U
    BY <1>2, <1>3, ElementOfSeq, LenProperties
  <2> HIDE DEF said
  <2>3. said \in Seq(Lesson)
    BY <2>1, <2>2, <1>2, <1>3, IsASeq, LenProperties
  <2>4. \A i \in DOMAIN said : 1 \in DOMAIN said
    BY <2>2
  <2>5. Faithful(e, p, said)
    BY <1>3, <2>1, <2>2, <2>4 DEF Faithful
  <2>6. \A r : r.anomaly = a => About(said, r)
    BY <2>1, <2>2 DEF About
  <2> QED BY <2>3, <2>5, <2>6 DEF said, found
<1>4. CASE e \notin Live
  <2>1. said = <<>>
    BY <1>4 DEF Prompted
  <2> QED BY <2>1, EmptySeq DEF Faithful, About, found
<1> QED BY <1>3, <1>4

-----------------------------------------------------------------------------
(* The steps.                                                              *)

LEMMA LessonInitInv ==
  ASSUME LessonAssumption, LessonInit
  PROVE  LessonInv
<1>1. (CHOOSE a \in Anomalies : TRUE) \in Anomalies
  BY DEF LessonAssumption
<1>2. Quiet \in Reflexion /\ Quiet.at = "idle"
  BY <1>1, EmptySeq DEF Quiet, Reflexion
<1>3. /\ bank = <<>> /\ rules = <<>> /\ reflexion \in [Engines -> Reflexion]
      /\ \A e \in Engines : reflexion[e].at = "idle"
  BY <1>2 DEF LessonInit
<1>4. /\ told \in [Engines -> [Range(Students) -> Seq(Lesson)]]
      /\ \A e \in Engines, p \in Range(Students) : told[e][p] = <<>>
  BY EmptySeq DEF LessonInit
<1>5. \A e, p : Faithful(e, p, <<>>)
  BY DEF Faithful
<1> QED BY <1>3, <1>4, <1>5, EmptySeq DEF LessonInv, About, OneEach

LEMMA LoseStep ==
  ASSUME LessonAssumption, LessonInv, NEW e \in Engines, NEW a \in Anomalies,
         NEW side \in {"LONG", "SHORT"}, NEW losers \in SUBSET Range(Students),
         Lose(e, a, side, Picked(Students, {i \in DOMAIN Students : Students[i] \in losers}))
  PROVE  LessonInv'
<1> DEFINE todo == Picked(Students, {i \in DOMAIN Students : Students[i] \in losers})
           said == [p \in Range(Students) |-> Prompted(e, RetrieveLessons(e, p, a))]
           new == IF todo = <<>> THEN Quiet
                  ELSE [Quiet EXCEPT !.at = "reflect", !.anomaly = a, !.side = side, !.todo = todo]
<1>1. todo \in Seq(Range(Students))
  <2>1. \A i \in DOMAIN Students : Students[i] \in Range(Students)
    BY LenProperties, ElementOfSeq DEF LessonAssumption
  <2> QED BY <2>1, PickedType DEF LessonAssumption
<1>2. /\ told' = [told EXCEPT ![e] = said]
      /\ reflexion' = [reflexion EXCEPT ![e] = new]
      /\ UNCHANGED <<bank, rules>>
  BY DEF Lose
<1> HIDE DEF todo
<1>3. new \in Reflexion /\ (new.at = "idle" \/ (new.at = "reflect" /\ new.anomaly = a /\ new.todo # <<>>))
  <2>1. Quiet \in Reflexion /\ Quiet.at = "idle"
    <3>1. (CHOOSE x \in Anomalies : TRUE) \in Anomalies
      BY DEF LessonAssumption
    <3> QED BY <3>1, EmptySeq DEF Quiet, Reflexion
  <2>2. [Quiet EXCEPT !.at = "reflect", !.anomaly = a, !.side = side, !.todo = todo] \in Reflexion
    BY <1>1, <2>1 DEF Reflexion
  <2>3. todo # <<>> => new.at = "reflect" /\ new.anomaly = a /\ new.todo = todo
    BY <2>1 DEF Reflexion
  <2>4. todo = <<>> => new = Quiet
    OBVIOUS
  <2>5. new \in Reflexion
    <3> HIDE DEF Reflexion
    <3> QED BY <2>1, <2>2
  <2> HIDE DEF new
  <2> QED BY <2>1, <2>3, <2>4, <2>5
<1>4. /\ said \in [Range(Students) -> Seq(Lesson)]
      /\ \A p \in Range(Students) : /\ Faithful(e, p, said[p])
                                    /\ \A r : r.anomaly = a => About(said[p], r)
  BY PromptIsFaithful DEF LessonInv
<1> HIDE DEF said, new
<1>5. \A p \in Range(Students) : About(said[p], new)
  BY <1>3, <1>4 DEF About
<1>6. /\ reflexion' \in [Engines -> Reflexion] /\ told' \in [Engines -> [Range(Students) -> Seq(Lesson)]]
      /\ reflexion'[e] = new /\ told'[e] = said
      /\ \A d \in Engines \ {e} : reflexion'[d] = reflexion[d] /\ told'[d] = told[d]
  BY <1>2, <1>3, <1>4 DEF LessonInv
<1>7. \A d \in Engines, p \in Range(Students) :
         Faithful(d, p, told'[d][p]) /\ About(told'[d][p], reflexion'[d])
  BY <1>4, <1>5, <1>6 DEF LessonInv
<1>8. \A d \in Engines : reflexion'[d].at \in {"reflect", "save"} => reflexion'[d].todo # <<>>
  BY <1>3, <1>6 DEF LessonInv
<1>9. \A d \in Engines : reflexion'[d].at = "store" /\ reflexion'[d].loaded = <<>> => NoRuleBy(d, rules)
  BY <1>3, <1>6 DEF LessonInv
<1> QED BY <1>2, <1>6, <1>7, <1>8, <1>9 DEF LessonInv

LEMMA AskPsychologistStep ==
  ASSUME LessonAssumption, LessonInv, NEW e \in Engines, AskPsychologist(e)
  PROVE  LessonInv'
<1> DEFINE q == Head(reflexion[e].todo)
           said == Prompted(e, RetrieveLessons(e, q, reflexion[e].anomaly))
<1>1. /\ reflexion[e].at = "reflect"
      /\ told' = [told EXCEPT ![e] = [told[e] EXCEPT ![q] = said]]
      /\ reflexion' = [reflexion EXCEPT ![e].at = "save"]
      /\ UNCHANGED <<bank, rules>>
  BY DEF AskPsychologist
<1>2. reflexion[e] \in Reflexion /\ reflexion[e].todo \in Seq(Range(Students)) /\ reflexion[e].todo # <<>>
  BY <1>1 DEF LessonInv, Reflexion
<1>3. q \in Range(Students)
  BY <1>2, HeadTailProperties
<1>4. said \in Seq(Lesson) /\ Faithful(e, q, said) /\ \A r : r.anomaly = reflexion[e].anomaly => About(said, r)
  BY PromptIsFaithful DEF LessonInv
<1> HIDE DEF said, q
<1>5. /\ reflexion' \in [Engines -> Reflexion]
      /\ reflexion'[e] = [reflexion[e] EXCEPT !.at = "save"]
      /\ reflexion'[e].anomaly = reflexion[e].anomaly /\ reflexion'[e].todo = reflexion[e].todo
      /\ reflexion'[e].at = "save"
      /\ \A d \in Engines \ {e} : reflexion'[d] = reflexion[d]
  BY <1>1, <1>2 DEF LessonInv, Reflexion
<1>6. /\ told' \in [Engines -> [Range(Students) -> Seq(Lesson)]]
      /\ told'[e][q] = said
      /\ \A d \in Engines, p \in Range(Students) : d # e \/ p # q => told'[d][p] = told[d][p]
  BY <1>1, <1>3, <1>4 DEF LessonInv
<1>7. \A d \in Engines, p \in Range(Students) :
         Faithful(d, p, told'[d][p]) /\ About(told'[d][p], reflexion'[d])
  <2>1. \A p \in Range(Students) : About(told[e][p], reflexion'[e])
    BY <1>1, <1>5 DEF LessonInv, About
  <2>2. \A d \in Engines, p \in Range(Students) : Faithful(d, p, told[d][p]) /\ About(told[d][p], reflexion[d])
    BY DEF LessonInv
  <2>3. About(said, reflexion'[e])
    BY <1>4, <1>5
  <2> TAKE d \in Engines, p \in Range(Students)
  <2>4. CASE d = e /\ p = q
    BY <1>4, <1>6, <2>3, <2>4
  <2>5. CASE d = e /\ p # q
    BY <1>6, <2>1, <2>2, <2>5
  <2>6. CASE d # e
    BY <1>5, <1>6, <2>2, <2>6
  <2> QED BY <2>4, <2>5, <2>6
<1>8. \A d \in Engines : reflexion'[d].at \in {"reflect", "save"} => reflexion'[d].todo # <<>>
  BY <1>2, <1>5 DEF LessonInv
<1>9. \A d \in Engines : reflexion'[d].at = "store" /\ reflexion'[d].loaded = <<>> => NoRuleBy(d, rules)
  BY <1>5 DEF LessonInv
<1> QED BY <1>1, <1>5, <1>6, <1>7, <1>8, <1>9 DEF LessonInv

LEMMA SaveLessonStep ==
  ASSUME LessonAssumption, LessonInv, NEW e \in Engines, NEW text \in Texts(e), SaveLesson(e, text)
  PROVE  LessonInv'
<1> DEFINE r == reflexion[e]
           l == [persona |-> Head(r.todo), anomaly |-> r.anomaly, mode |-> Mode(e), text |-> text]
           new == [r EXCEPT !.todo = Tail(r.todo),
                            !.at = IF Len(r.todo) = 1 THEN "evolve" ELSE "reflect"]
<1>1. /\ r.at = "save" /\ bank' = Append(bank, l)
      /\ reflexion' = [reflexion EXCEPT ![e] = new]
      /\ UNCHANGED <<rules, told>>
  BY DEF SaveLesson
<1>2. r \in Reflexion /\ r.todo \in Seq(Range(Students)) /\ r.todo # <<>> /\ r.anomaly \in Anomalies
  BY <1>1 DEF LessonInv, Reflexion
<1>3. /\ Head(r.todo) \in Range(Students) /\ Tail(r.todo) \in Seq(Range(Students))
      /\ Len(r.todo) # 1 => Tail(r.todo) # <<>>
  <2>1. Len(r.todo) \in Nat \ {0} /\ Len(Tail(r.todo)) = Len(r.todo) - 1
    BY <1>2, HeadTailProperties, EmptySeq
  <2>2. Len(<<>>) = 0
    BY EmptySeq
  <2>3. Head(r.todo) \in Range(Students) /\ Tail(r.todo) \in Seq(Range(Students))
    BY <1>2, HeadTailProperties
  <2>4. ASSUME Tail(r.todo) = <<>> PROVE Len(r.todo) = 1
    <3>1. Len(Tail(r.todo)) = 0
      BY <2>2, <2>4
    <3> QED BY <2>1, <3>1
  <2> QED BY <2>3, <2>4
<1>4. l \in Lesson
  BY <1>2, <1>3 DEF Lesson, Mode, Texts
<1>5. bank' \in Seq(Lesson)
  BY <1>1, <1>4, AppendProperties DEF LessonInv
<1>6. /\ new \in Reflexion /\ new.anomaly = r.anomaly /\ new.at \in {"evolve", "reflect"}
      /\ new.at = "reflect" => new.todo # <<>>
  BY <1>2, <1>3 DEF Reflexion
<1> HIDE DEF l, new
<1>7. /\ reflexion' \in [Engines -> Reflexion] /\ reflexion'[e] = new
      /\ \A d \in Engines \ {e} : reflexion'[d] = reflexion[d]
  BY <1>1, <1>6 DEF LessonInv
<1>8. \A p \in Range(Students) : About(told[e][p], new)
  BY <1>1, <1>6 DEF LessonInv, About
<1>9. \A d \in Engines, p \in Range(Students) :
         Faithful(d, p, told'[d][p]) /\ About(told'[d][p], reflexion'[d])
  BY <1>1, <1>7, <1>8 DEF LessonInv
<1>10. \A d \in Engines : /\ reflexion'[d].at \in {"reflect", "save"} => reflexion'[d].todo # <<>>
                          /\ reflexion'[d].at = "store" /\ reflexion'[d].loaded = <<>> => NoRuleBy(d, rules)
  BY <1>6, <1>7 DEF LessonInv
<1>11. UNCHANGED <<rules, told>>
  BY <1>1
<1> HIDE DEF r
<1> QED BY <1>5, <1>7, <1>9, <1>10, <1>11 DEF LessonInv

LEMMA DatabaseFailsStep ==
  ASSUME LessonAssumption, LessonInv, NEW e \in Engines, DatabaseFails(e)
  PROVE  LessonInv'
<1>1. reflexion' = [reflexion EXCEPT ![e] = Quiet] /\ UNCHANGED <<bank, rules, told>>
  BY DEF DatabaseFails
<1>2. Quiet \in Reflexion /\ Quiet.at = "idle"
  <2>1. (CHOOSE a \in Anomalies : TRUE) \in Anomalies
    BY DEF LessonAssumption
  <2> QED BY <2>1, EmptySeq DEF Quiet, Reflexion
<1>3. /\ reflexion' \in [Engines -> Reflexion] /\ reflexion'[e].at = "idle"
      /\ \A d \in Engines \ {e} : reflexion'[d] = reflexion[d]
  BY <1>1, <1>2 DEF LessonInv
<1>4. \A d \in Engines, p \in Range(Students) :
         Faithful(d, p, told'[d][p]) /\ About(told'[d][p], reflexion'[d])
  BY <1>1, <1>3 DEF LessonInv, About
<1>5. \A d \in Engines : /\ reflexion'[d].at \in {"reflect", "save"} => reflexion'[d].todo # <<>>
                         /\ reflexion'[d].at = "store" /\ reflexion'[d].loaded = <<>> => NoRuleBy(d, rules)
  BY <1>3 DEF LessonInv
<1> QED BY <1>1, <1>3, <1>4, <1>5 DEF LessonInv

LEMMA LoadRulesStep ==
  ASSUME LessonInv, NEW e \in Engines, LoadRules(e)
  PROVE  LessonInv'
<1>1. /\ reflexion[e].at = "evolve"
      /\ reflexion' = [reflexion EXCEPT ![e] = [reflexion[e] EXCEPT !.at = "store", !.loaded = rules]]
      /\ UNCHANGED <<bank, rules, told>>
  BY DEF LoadRules
<1>2. reflexion[e] \in Reflexion /\ rules \in Seq(Rule)
  BY DEF LessonInv
<1>3. /\ reflexion' \in [Engines -> Reflexion] /\ reflexion'[e].at = "store"
      /\ reflexion'[e].loaded = rules /\ reflexion'[e].anomaly = reflexion[e].anomaly
      /\ \A d \in Engines \ {e} : reflexion'[d] = reflexion[d]
  BY <1>1, <1>2 DEF LessonInv, Reflexion
<1>4. \A p \in Range(Students) : About(told[e][p], reflexion'[e])
  <2>1. \A p \in Range(Students) : About(told[e][p], reflexion[e]) /\ reflexion[e].at # "idle"
    BY <1>1 DEF LessonInv
  <2> QED BY <1>3, <2>1 DEF About
<1>5. rules = <<>> => NoRuleBy(e, rules)
  BY DEF NoRuleBy
<1> QED BY <1>1, <1>3, <1>4, <1>5 DEF LessonInv

LEMMA StoreRuleStep ==
  ASSUME LessonAssumption, LessonInv, NEW e \in Engines, NEW similar \in BOOLEAN, StoreRule(e, similar)
  PROVE  LessonInv'
<1> DEFINE new == RuleOf(e)
           old == reflexion[e].loaded
           refused == (old # <<>> /\ similar) \/ (\E i \in DOMAIN old : Contradicts(new, old[i]))
<1>1. /\ reflexion[e].at = "store"
      /\ rules' = IF refused THEN rules ELSE Append(rules, new)
      /\ reflexion' = [reflexion EXCEPT ![e] = Quiet]
      /\ UNCHANGED <<bank, told>>
  BY DEF StoreRule
<1>2. Quiet \in Reflexion /\ Quiet.at = "idle"
  <2>1. (CHOOSE a \in Anomalies : TRUE) \in Anomalies
    BY DEF LessonAssumption
  <2> QED BY <2>1, EmptySeq DEF Quiet, Reflexion
<1>3. /\ reflexion' \in [Engines -> Reflexion] /\ reflexion'[e].at = "idle"
      /\ \A d \in Engines \ {e} : reflexion'[d] = reflexion[d]
  BY <1>1, <1>2 DEF LessonInv
<1>4. new \in Rule /\ new.by = e
  BY DEF RuleOf, Rule, LessonInv, Reflexion
<1>5. \A rule, other : Contradicts(rule, other)
  BY DEF Contradicts, Negated, Mentioned
<1>6. ~refused => old = <<>>
  <2>1. old \in Seq(Rule)
    BY DEF LessonInv, Reflexion
  <2>2. old # <<>> => 1 \in DOMAIN old
    BY <2>1, EmptySeq, LenProperties
  <2> QED BY <1>5, <2>2
<1> HIDE DEF new, old, refused
<1>7. CASE refused
  BY <1>1, <1>3, <1>7 DEF LessonInv, About
<1>8. CASE ~refused
  <2>1. /\ rules' = Append(rules, new) /\ rules \in Seq(Rule) /\ NoRuleBy(e, rules) /\ OneEach(rules)
    BY <1>1, <1>6, <1>8 DEF LessonInv, old
  <2>2. /\ rules' \in Seq(Rule) /\ Len(rules) \in Nat /\ DOMAIN rules = 1 .. Len(rules)
        /\ DOMAIN rules' = 1 .. Len(rules) + 1
        /\ \A i \in 1 .. Len(rules) : rules'[i] = rules[i]
        /\ rules'[Len(rules) + 1] = new
    BY <1>4, <2>1, AppendProperties, LenProperties
  <2>3. \A i \in DOMAIN rules' : (i \in DOMAIN rules /\ rules'[i] = rules[i])
                                \/ (i = Len(rules) + 1 /\ rules'[i] = new)
    BY <2>2
  <2>4. OneEach(rules')
    <3> SUFFICES ASSUME NEW i \in DOMAIN rules', NEW j \in DOMAIN rules', i # j
                 PROVE  rules'[i].by # rules'[j].by
      BY DEF OneEach
    <3>1. \A k \in DOMAIN rules : rules[k].by # e
      BY <2>1 DEF NoRuleBy
    <3>2. \A k, m \in DOMAIN rules : k # m => rules[k].by # rules[m].by
      BY <2>1 DEF OneEach
    <3> QED BY <1>4, <2>3, <3>1, <3>2
  <2>5. \A d \in Engines \ {e} : NoRuleBy(d, rules) => NoRuleBy(d, rules')
    BY <1>4, <2>3 DEF NoRuleBy
  <2>6. \A d \in Engines : reflexion'[d].at = "store" /\ reflexion'[d].loaded = <<>> => NoRuleBy(d, rules')
    BY <1>3, <2>5 DEF LessonInv
  <2>7. \A d \in Engines, p \in Range(Students) :
          Faithful(d, p, told[d][p]) /\ About(told[d][p], reflexion'[d])
    <3> TAKE d \in Engines, p \in Range(Students)
    <3>1. Faithful(d, p, told[d][p]) /\ About(told[d][p], reflexion[d])
      BY DEF LessonInv
    <3>2. reflexion'[d] = reflexion[d] \/ reflexion'[d].at = "idle"
      BY <1>3
    <3> QED BY <3>1, <3>2 DEF About
  <2>8. \A d \in Engines : reflexion'[d].at \in {"reflect", "save"} => reflexion'[d].todo # <<>>
    BY <1>3 DEF LessonInv
  <2> QED BY <1>1, <1>3, <2>2, <2>4, <2>6, <2>7, <2>8 DEF LessonInv
<1> QED BY <1>7, <1>8

LEMMA LessonStepInv ==
  ASSUME LessonAssumption, LessonInv, [LessonNext]_lessonVars
  PROVE  LessonInv'
<1>1. CASE LessonNext
  BY <1>1, LoseStep, AskPsychologistStep, SaveLessonStep, DatabaseFailsStep, LoadRulesStep,
     StoreRuleStep DEF LessonNext
<1>2. CASE UNCHANGED lessonVars
  BY <1>2 DEF lessonVars, LessonInv
<1> QED BY <1>1, <1>2

LEMMA LessonInvSuffices ==
  ASSUME LessonInv
  PROVE  RehearsalStaysOut /\ OneRulePerEngine
<1>1. OneRulePerEngine
  BY DEF LessonInv, OneEach, OneRulePerEngine
<1>2. ASSUME NEW e \in Engines, NEW p \in Range(Students),
             reflexion[e].at # "idle", told[e][p] # <<>>
      PROVE  told[e][p][1].anomaly = reflexion[e].anomaly
  <2>1. told[e][p] \in Seq(Lesson) /\ About(told[e][p], reflexion[e])
    BY DEF LessonInv
  <2>2. 1 \in DOMAIN told[e][p]
    BY <1>2, <2>1, EmptySeq, LenProperties
  <2> QED BY <1>2, <2>1, <2>2 DEF About
<1> QED BY <1>1, <1>2 DEF LessonInv, Faithful, RehearsalStaysOut

\* For any engines, personas, anomalies and lengths of runs, whatever other engines
\* write to MemoryBank between the calls of process_trade_result, a live engine's
\* prompt only quotes lessons of its own persona, from live losses, on one anomaly.
THEOREM RehearsalStaysOutHolds == LessonSpec => []RehearsalStaysOut
<1>1. LessonInit => LessonInv
  BY LessonInitInv, LessonAssumption
<1>2. LessonInv /\ [LessonNext]_lessonVars => LessonInv'
  BY LessonStepInv, LessonAssumption
<1>3. LessonInv => RehearsalStaysOut
  BY LessonInvSuffices
<1> QED BY <1>1, <1>2, <1>3, PTL DEF LessonSpec

\* Of any number of engines, each adds at most one rule to the table of the prompt
\* evolver in all its runs, whichever loaded the table first.
THEOREM OneRulePerEngineHolds == LessonSpec => []OneRulePerEngine
<1>1. LessonInit => LessonInv
  BY LessonInitInv, LessonAssumption
<1>2. LessonInv /\ [LessonNext]_lessonVars => LessonInv'
  BY LessonStepInv, LessonAssumption
<1>3. LessonInv => OneRulePerEngine
  BY LessonInvSuffices
<1> QED BY <1>1, <1>2, <1>3, PTL DEF LessonSpec

(***************************************************************************)
(* Scanner                                                                 *)
(***************************************************************************)

-----------------------------------------------------------------------------
(* The averages.                                                           *)

LEMMA ProductOfNats ==
    ASSUME NEW a \in Nat, NEW b \in Nat
    PROVE  a * b \in Nat
OBVIOUS

FollowsFrom(f, from, to, base, step) ==
    /\ from <= to => f[from] = base
    /\ \A k \in from + 1 .. to : f[k] = step[<<k, f[k - 1]>>]

\* RecursionExists, for an interval that starts anywhere.
LEMMA RecursionFrom ==
    ASSUME NEW V, NEW from \in Int, NEW to \in Int, NEW base \in V,
           NEW step, \A k \in from + 1 .. to, v \in V : step[<<k, v>>] \in V
    PROVE  \E f \in [from .. to -> V] : FollowsFrom(f, from, to, base, step)
<1>1. CASE to < from
  <2> DEFINE f == [k \in from .. to |-> base]
  <2>1. f \in [from .. to -> V]
    OBVIOUS
  <2>2. from + 1 .. to = {} /\ ~(from <= to)
    BY <1>1
  <2> QED BY <2>1, <2>2 DEF FollowsFrom
<1>2. CASE from <= to
  <2> DEFINE n == to - from
             shifted == [p \in (1 .. n) \X V |-> step[<<p[1] + from, p[2]>>]]
  <2>1. n \in Nat
    BY <1>2
  <2>2. shifted \in [(1 .. n) \X V -> V]
    <3>1. \A p \in (1 .. n) \X V : <<p[1] + from, p[2]>> \in (from + 1 .. to) \X V
      BY <2>1
    <3> QED BY <3>1
  <2>3. \A k \in 1 .. n, v \in V : shifted[<<k, v>>] = step[<<k + from, v>>]
    OBVIOUS
  <2> HIDE DEF n, shifted
  <2>4. PICK g \in [0 .. n -> V] : Follows(g, n, base, shifted)
    BY <2>1, <2>2, RecursionExists
  <2> DEFINE f == [k \in from .. to |-> g[k - from]]
  <2>5. \A k \in from .. to : k - from \in 0 .. n
    BY <1>2 DEF n
  <2>6. f \in [from .. to -> V]
    BY <2>5
  <2>7. f[from] = base
    <3>1. from \in from .. to /\ from - from = 0
      BY <1>2
    <3> QED BY <2>4, <3>1 DEF Follows
  <2>8. ASSUME NEW k \in from + 1 .. to PROVE f[k] = step[<<k, f[k - 1]>>]
    <3> DEFINE j == k - from
    <3>1. j \in 1 .. n /\ j + from = k /\ k \in from .. to /\ k - 1 \in from .. to
          /\ (k - 1) - from = j - 1 /\ j - 1 \in 0 .. n
      BY <1>2 DEF n
    <3>2. f[k] = g[j] /\ f[k - 1] = g[j - 1]
      BY <3>1
    <3>3. g[j] = shifted[<<j, g[j - 1]>>] /\ g[j - 1] \in V
      BY <2>4, <3>1 DEF Follows
    <3> HIDE DEF f, j
    <3> QED BY <2>3, <3>1, <3>2, <3>3
  <2> QED BY <2>6, <2>7, <2>8 DEF FollowsFrom
<1> QED BY <1>1, <1>2

LEMMA PowerType ==
    ASSUME NEW b \in Nat, NEW n \in Nat
    PROVE  Power(b, n) \in Nat
<1> DEFINE step == [p \in (1 .. n) \X Nat |-> b * p[2]]
           IsPower(f) == f = [k \in 0 .. n |-> IF k = 0 THEN 1 ELSE b * f[k - 1]]
           power == CHOOSE f : IsPower(f)
<1>1. step \in [(1 .. n) \X Nat -> Nat] /\ 1 \in Nat
  BY ProductOfNats
<1>2. \A k \in 1 .. n, v \in Nat : step[<<k, v>>] = b * v
  OBVIOUS
<1> HIDE DEF step
<1>3. PICK f \in [0 .. n -> Nat] : Follows(f, n, 1, step)
  BY <1>1, RecursionExists
<1>4. IsPower(f)
  <2>1. ASSUME NEW k \in 0 .. n PROVE f[k] = IF k = 0 THEN 1 ELSE b * f[k - 1]
    <3>1. CASE k = 0
      BY <1>3, <3>1 DEF Follows
    <3>2. CASE k # 0
      <4>1. k \in 1 .. n /\ k - 1 \in 0 .. n
        BY <3>2
      <4>2. f[k - 1] \in Nat /\ f[k] = step[<<k, f[k - 1]>>]
        BY <1>3, <4>1 DEF Follows
      <4> QED BY <1>2, <3>2, <4>1, <4>2
    <3> QED BY <3>1, <3>2
  <2> QED BY <2>1
<1>5. IsPower(power)
  <2> HIDE DEF IsPower
  <2> QED BY <1>4
<1>6. Power(b, n) = power[n]
  BY DEF Power
<1> HIDE DEF power
<1> DEFINE P == {k \in 0 .. n : power[k] \in Nat}
<1>7. \A k \in 0 .. n : power[k] = IF k = 0 THEN 1 ELSE b * power[k - 1]
  BY <1>5
<1>8. 0 \in P
  BY <1>7
<1>9. ASSUME NEW k \in 0 .. n - 1, k \in P PROVE k + 1 \in P
  <2>1. k + 1 \in 0 .. n /\ k + 1 # 0 /\ (k + 1) - 1 = k /\ power[k] \in Nat
    BY <1>9
  <2>2. power[k + 1] = b * power[k]
    BY <1>7, <2>1
  <2> QED BY <2>1, <2>2, ProductOfNats
<1> HIDE DEF P
<1>10. \A k \in 0 .. n : k \in P
  BY <1>8, <1>9, Upto
<1> QED BY <1>6, <1>10 DEF P

\* What Averaged is given: naturals, and a weight a/b of at most one.
Averageable(x, from, a, b) ==
    /\ from \in Nat /\ a \in Nat /\ b \in Nat /\ a <= b
    /\ Len(x) \in Nat
    /\ \A k \in from .. Len(x) : x[k] \in Nat

LEMMA AveragedType ==
    ASSUME NEW x, NEW from \in Nat, NEW a \in Nat, NEW b \in Nat, Averageable(x, from, a, b),
           NEW to \in Nat, to = Len(x)
    PROVE  \A k \in from .. Len(x) :
              /\ Averaged(x, from, a, b)[k] \in Nat
              /\ Averaged(x, from, a, b)[k] =
                   IF k = from THEN x[k]
                   ELSE (b - a) * Averaged(x, from, a, b)[k - 1] + a * Power(b, k - 1 - from) * x[k]
<1> DEFINE Next1(k, v) == (b - a) * v + a * Power(b, k - 1 - from) * x[k]
           IsAverage(f) == f = [k \in from .. to |-> IF k = from THEN x[k] ELSE Next1(k, f[k - 1])]
           avg == CHOOSE f : IsAverage(f)
           step == [p \in (from + 1 .. to) \X Nat |-> Next1(p[1], p[2])]
           base == IF from <= to THEN x[from] ELSE 0
<1>1. from \in Int /\ to \in Int /\ base \in Nat
  BY DEF Averageable
<1>2. ASSUME NEW k \in from + 1 .. to, NEW v \in Nat PROVE Next1(k, v) \in Nat
  <2>1. b - a \in Nat /\ k - 1 - from \in Nat /\ x[k] \in Nat /\ a \in Nat /\ b \in Nat
    BY DEF Averageable
  <2>2. Power(b, k - 1 - from) \in Nat
    BY <2>1, PowerType
  <2> DEFINE w == Power(b, k - 1 - from)
             d == b - a
             y == x[k]
  <2>3. w \in Nat /\ d \in Nat /\ y \in Nat
    BY <2>1, <2>2
  <2> HIDE DEF w, d, y
  <2>4. d * v \in Nat /\ a * w \in Nat
    BY <2>1, <2>3, ProductOfNats
  <2>5. a * w * y \in Nat
    BY <2>3, <2>4, ProductOfNats
  <2>6. d * v + a * w * y \in Nat
    BY <2>4, <2>5
  <2> QED BY <2>6 DEF w, d, y
<1>3. Averaged(x, from, a, b) = avg
  BY DEF Averaged
<1> HIDE DEF Next1, base
<1>4. step \in [(from + 1 .. to) \X Nat -> Nat]
      /\ \A k \in from + 1 .. to, v \in Nat : step[<<k, v>>] = Next1(k, v)
  BY <1>2
<1> HIDE DEF step
<1>11. \A k \in from + 1 .. to, v \in Nat : step[<<k, v>>] \in Nat
  BY <1>2, <1>4
<1>5. PICK f \in [from .. to -> Nat] : FollowsFrom(f, from, to, base, step)
  <2> HIDE DEF IsAverage
  <2> QED BY <1>1, <1>11, RecursionFrom
<1>6. IsAverage(f)
  <2>1. ASSUME NEW k \in from .. to PROVE f[k] = IF k = from THEN x[k] ELSE Next1(k, f[k - 1])
    <3>1. CASE k = from
      <4>1. from <= to
        BY <1>1, <3>1
      <4> QED BY <1>5, <3>1, <4>1 DEF base, FollowsFrom
    <3>2. CASE k # from
      <4>1. k \in from + 1 .. to /\ k - 1 \in from .. to
        BY <1>1, <3>2
      <4>2. f[k - 1] \in Nat /\ f[k] = step[<<k, f[k - 1]>>]
        BY <1>5, <4>1 DEF FollowsFrom
      <4> QED BY <1>4, <3>2, <4>1, <4>2
    <3> QED BY <3>1, <3>2
  <2> QED BY <1>5, <2>1
<1>7. IsAverage(avg)
  <2> HIDE DEF IsAverage
  <2> QED BY <1>6
<1> HIDE DEF avg
<1>8. \A k \in from .. to : avg[k] = IF k = from THEN x[k] ELSE Next1(k, avg[k - 1])
  BY <1>7
<1>9. ASSUME from <= to PROVE \A k \in from .. to : avg[k] \in Nat
  <2> DEFINE n == to - from
             P == {m \in 0 .. n : avg[from + m] \in Nat}
  <2>1. n \in Nat
    BY <1>1, <1>9
  <2>2. 0 \in P
    <3>1. from + 0 = from /\ from \in from .. to /\ 0 \in 0 .. n
      BY <1>1, <1>9
    <3>2. avg[from] \in Nat
      BY <1>1, <1>8, <1>9, <3>1 DEF base
    <3> QED BY <3>1, <3>2
  <2>3. ASSUME NEW m \in 0 .. n - 1, m \in P PROVE m + 1 \in P
    <3> DEFINE k == from + (m + 1)
    <3>1. k \in from + 1 .. to /\ k \in from .. to /\ k # from /\ k - 1 = from + m /\ m + 1 \in 0 .. n
      BY <1>1
    <3>2. avg[k - 1] \in Nat
      BY <2>3, <3>1
    <3> HIDE DEF k
    <3>3. avg[k] = Next1(k, avg[k - 1])
      BY <1>8, <3>1
    <3>4. avg[k] \in Nat
      BY <1>2, <3>1, <3>2, <3>3
    <3> QED BY <3>1, <3>4 DEF k
  <2> HIDE DEF P, n
  <2>4. \A m \in 0 .. n : m \in P
    BY <2>1, <2>2, <2>3, Upto
  <2>5. \A k \in from .. to : k - from \in 0 .. n /\ from + (k - from) = k
    BY <1>1 DEF n
  <2> QED BY <2>4, <2>5 DEF P
<1>10. ASSUME NEW k \in from .. to PROVE avg[k] \in Nat
  <2>1. from <= to
    BY <1>1
  <2> QED BY <1>9, <2>1
<1> QED BY <1>3, <1>8, <1>10 DEF Next1

\* An average does not change when the series goes on.
LEMMA AveragedPrefix ==
    ASSUME NEW x, NEW y, NEW from \in Nat, NEW a \in Nat, NEW b \in Nat,
           Averageable(x, from, a, b), Averageable(y, from, a, b), Len(x) <= Len(y),
           \A k \in from .. Len(x) : y[k] = x[k]
    PROVE  \A k \in from .. Len(x) : Averaged(y, from, a, b)[k] = Averaged(x, from, a, b)[k]
<1> DEFINE u == Averaged(x, from, a, b)
           v == Averaged(y, from, a, b)
           to == Len(x)
           P == {m \in 0 .. to - from : v[from + m] = u[from + m]}
<1>1. from \in Nat /\ to \in Nat /\ Len(y) \in Nat
  BY DEF Averageable
<1>2. \A k \in from .. to : k \in from .. Len(y)
  BY <1>1
<1>3. ASSUME NEW k \in from .. to
      PROVE  /\ u[k] = IF k = from THEN x[k] ELSE (b - a) * u[k - 1] + a * Power(b, k - 1 - from) * x[k]
             /\ v[k] = IF k = from THEN x[k] ELSE (b - a) * v[k - 1] + a * Power(b, k - 1 - from) * x[k]
  <2>1. u[k] = IF k = from THEN x[k] ELSE (b - a) * u[k - 1] + a * Power(b, k - 1 - from) * x[k]
    BY AveragedType
  <2>2. v[k] = IF k = from THEN y[k] ELSE (b - a) * v[k - 1] + a * Power(b, k - 1 - from) * y[k]
    BY <1>2, AveragedType
  <2>3. y[k] = x[k]
    OBVIOUS
  <2> QED BY <2>1, <2>2, <2>3
<1> HIDE DEF u, v
<1>4. CASE to < from
  BY <1>1, <1>4
<1>5. CASE from <= to
  <2>1. to - from \in Nat
    BY <1>1, <1>5
  <2>2. 0 \in P
    <3>1. from + 0 = from /\ from \in from .. to /\ 0 \in 0 .. to - from
      BY <1>1, <1>5
    <3> HIDE DEF to
    <3> QED BY <1>3, <3>1
  <2>3. ASSUME NEW m \in 0 .. (to - from) - 1, m \in P PROVE m + 1 \in P
    <3> DEFINE k == from + (m + 1)
    <3>1. k \in from .. to /\ k # from /\ k - 1 = from + m /\ m + 1 \in 0 .. to - from
      BY <1>1
    <3>2. v[k - 1] = u[k - 1]
      BY <2>3, <3>1
    <3> HIDE DEF k, to
    <3>3. v[k] = u[k]
      BY <1>3, <3>1, <3>2
    <3> QED BY <3>1, <3>3 DEF k
  <2> HIDE DEF P
  <2>4. \A m \in 0 .. to - from : m \in P
    BY <2>1, <2>2, <2>3, Upto
  <2>5. \A k \in from .. to : k - from \in 0 .. to - from /\ from + (k - from) = k
    BY <1>1
  <2> QED BY <2>4, <2>5 DEF P, u, v
<1> QED BY <1>1, <1>4, <1>5

-----------------------------------------------------------------------------
(* What the triggers are computed from.                                    *)

LEMMA ConfigType ==
    ASSUME ScannerAssumption, NEW g \in Configs
    PROVE  /\ g.sweep_lookback \in Nat \ {0} /\ g.bb_period \in Nat \ {0}
           /\ g.squeeze_lookback \in Nat \ {0} /\ g.atr_period \in Nat \ {0}
           /\ g.ema_period \in Nat \ {0} /\ g.rsi_period \in Nat \ {0}
           /\ g.sweep_threshold \in Nat /\ g.deviation \in Nat /\ g.rsi_oversold \in Nat
           /\ g.rsi_overbought \in Nat /\ g.squeeze_threshold \in Nat
<1>1. \A f \in Periods \cup Thresholds : g[f] \in Nat
  BY DEF ScannerAssumption
<1>2. \A f \in Periods : g[f] > 0
  BY DEF ScannerAssumption
<1>3. \A f \in Periods : g[f] \in Nat \ {0}
  BY <1>1, <1>2
<1> QED BY <1>1, <1>3 DEF Periods, Thresholds

LEMMA CandleType ==
    ASSUME ScannerAssumption, NEW s \in Seq(Candles), NEW k \in 1 .. Len(s)
    PROVE  /\ s[k].high \in Nat /\ s[k].low \in Nat /\ s[k].close \in Nat
           /\ s[k].low <= s[k].close /\ s[k].close <= s[k].high
           /\ Len(s) \in Nat /\ DOMAIN s = 1 .. Len(s)
<1>1. s[k] \in Candles /\ Len(s) \in Nat /\ DOMAIN s = 1 .. Len(s)
  BY ElementOfSeq, LenProperties
<1> QED BY <1>1 DEF ScannerAssumption

LEMMA ExtremesOfImage ==
    ASSUME NEW a \in Int, NEW b \in Int, a <= b, NEW f \in [a .. b -> Nat]
    PROVE  /\ Min({f[j] : j \in a .. b}) \in Nat /\ Max({f[j] : j \in a .. b}) \in Nat
           /\ \A j \in a .. b : Min({f[i] : i \in a .. b}) <= f[j]
<1> DEFINE S == {f[j] : j \in a .. b}
<1>1. DOMAIN f = a .. b /\ IsFiniteSet(a .. b)
  BY FS_Interval
<1>2. IsFiniteSet(S)
  <2>1. IsFiniteSet({f[x] : x \in DOMAIN f})
    BY <1>1, FewValues
  <2> QED BY <1>1, <2>1
<1>3. S \in SUBSET Nat /\ S # {} /\ S \in SUBSET Int
  <2>1. a \in a .. b
    OBVIOUS
  <2> QED BY <2>1
<1>4. \A j \in a .. b : f[j] \in S
  OBVIOUS
<1> HIDE DEF S
<1>5. Min(S) \in S /\ (\A y \in S : Min(S) <= y) /\ Max(S) \in S
  BY <1>2, <1>3, SmallestElement, GreatestElement
<1> QED BY <1>3, <1>4, <1>5 DEF S

LEMMA BeforeType ==
    ASSUME ScannerAssumption, NEW g \in Configs, NEW s \in Seq(Candles),
           NEW k \in g.sweep_lookback + 1 .. Len(s)
    PROVE  LowestBefore(g, s, k) \in Nat /\ HighestBefore(g, s, k) \in Nat
<1>1. g.sweep_lookback \in Nat \ {0} /\ Len(s) \in Nat
  BY ConfigType, LenProperties
<1> DEFINE a == k - g.sweep_lookback
           b == k - 1
           lows == [j \in a .. b |-> s[j].low]
           highs == [j \in a .. b |-> s[j].high]
<1>2. a \in Int /\ b \in Int /\ a <= b /\ \A j \in a .. b : j \in 1 .. Len(s)
  BY <1>1
<1>3. \A j \in a .. b : s[j].low \in Nat /\ s[j].high \in Nat
  BY <1>2, CandleType
<1>4. /\ LowestBefore(g, s, k) = Min({lows[j] : j \in a .. b})
      /\ HighestBefore(g, s, k) = Max({highs[j] : j \in a .. b})
  BY DEF LowestBefore, HighestBefore
<1>5. lows \in [a .. b -> Nat] /\ highs \in [a .. b -> Nat]
  BY <1>3
<1> HIDE DEF a, b, lows, highs
<1>6. Min({lows[j] : j \in a .. b}) \in Nat
  BY <1>2, <1>5, ExtremesOfImage
<1>7. Max({highs[j] : j \in a .. b}) \in Nat
  BY <1>2, <1>5, ExtremesOfImage
<1> QED BY <1>4, <1>6, <1>7

\* The square of a width is not negative.
LEMMA WidthType ==
    ASSUME ScannerAssumption, NEW g \in Configs, NEW s \in Seq(Candles),
           NEW k \in g.bb_period .. Len(s)
    PROVE  SquaredWidth(g, s, k) \in Nat
<1>1. g.bb_period \in Nat \ {0} /\ Len(s) \in Nat
  BY ConfigType, LenProperties
<1> DEFINE a == k - g.bb_period + 1
           S == a .. k
           f == [j \in S |-> s[j].close]
           ff == [j \in S |-> s[j].close * s[j].close]
<1>2. a \in Int /\ k \in Int /\ a <= k /\ k - a + 1 = g.bb_period /\ \A j \in S : j \in 1 .. Len(s)
  BY <1>1
<1>3. IsFiniteSet(S) /\ Cardinality(S) = g.bb_period /\ S # {}
  <2>1. k \in S
    BY <1>2
  <2> HIDE DEF a
  <2>2. Cardinality(a .. k) = k - a + 1 /\ IsFiniteSet(a .. k)
    BY <1>2, FS_Interval
  <2> QED BY <1>2, <2>1, <2>2
<1>4. f \in [S -> Int] /\ ff = Times(f, f, S)
  BY <1>2, CandleType DEF Times
<1>5. SquaredWidth(g, s, k) = CoSpread(f, f, S)
  <2>1. SumFunction(f) = Total(f, S) /\ SumFunction(ff) = Total(ff, S)
    BY DEF SumFunction, Total
  <2>2. SquaredWidth(g, s, k) = g.bb_period * SumFunction(ff) - SumFunction(f) * SumFunction(f)
    BY DEF SquaredWidth
  <2> HIDE DEF S, f, ff
  <2> QED BY <1>3, <1>4, <2>1, <2>2 DEF CoSpread
<1> HIDE DEF S, f
<1>6. CoSpread(f, f, S) \in Nat
  BY <1>3, <1>4, CauchySchwarz
<1> QED BY <1>5, <1>6

\* What the averages are taken of.
LEMMA SeriesAverageable ==
    ASSUME ScannerAssumption, NEW g \in Configs, NEW s \in Seq(Candles)
    PROVE  /\ Averageable(Closes(s), 1, 2, g.ema_period + 1)
           /\ Averageable(TrueRange(s), 1, 1, g.atr_period)
           /\ Averageable(Change(s, 1), 2, 1, g.rsi_period)
           /\ Averageable(Change(s, -1), 2, 1, g.rsi_period)
           /\ Len(Closes(s)) = Len(s) /\ Len(TrueRange(s)) = Len(s)
           /\ Len(Change(s, 1)) = Len(s) /\ Len(Change(s, -1)) = Len(s)
<1>1. /\ g.ema_period \in Nat \ {0} /\ g.atr_period \in Nat \ {0} /\ g.rsi_period \in Nat \ {0}
      /\ Len(s) \in Nat /\ DOMAIN s = 1 .. Len(s)
  BY ConfigType, LenProperties
<1>2. ASSUME NEW k \in 1 .. Len(s)
      PROVE  /\ s[k].close \in Nat
             /\ TrueRange(s)[k] \in Nat /\ Change(s, 1)[k] \in Nat /\ Change(s, -1)[k] \in Nat
  <2>1. /\ s[k].high \in Nat /\ s[k].low \in Nat /\ s[k].close \in Nat
        /\ s[k].high - s[k].low \in Nat
    BY CandleType
  <2>2. k # 1 => s[k - 1].close \in Nat
    <3>1. k # 1 => k - 1 \in 1 .. Len(s)
      BY <1>1
    <3> QED BY <3>1, CandleType
  <2>3. \A x, y \in Int : x \in Nat \/ y \in Nat => Longer(x, y) \in Nat
    BY DEF Longer
  <2>4. \A x \in Int : Distance(x) \in Nat
    BY DEF Distance
  <2>5. TrueRange(s)[k] = IF k = 1 THEN s[k].high - s[k].low
          ELSE Longer(s[k].high - s[k].low, Longer(Distance(s[k].high - s[k - 1].close),
                                                   Distance(s[k].low - s[k - 1].close)))
    BY <1>1 DEF TrueRange
  <2>6. TrueRange(s)[k] \in Nat
    <3>1. CASE k = 1
      BY <2>1, <2>5, <3>1
    <3>2. CASE k # 1
      <4> DEFINE x == s[k].high - s[k - 1].close
                 y == s[k].low - s[k - 1].close
                 z == s[k].high - s[k].low
                 p == Distance(x)
                 q == Distance(y)
      <4>0. x \in Int /\ y \in Int /\ z \in Nat /\ z \in Int
        BY <2>1, <2>2, <3>2
      <4> HIDE DEF x, y, z
      <4>1. p \in Nat /\ q \in Nat /\ p \in Int /\ q \in Int
        BY <2>4, <4>0, SMTT(30)
      <4> HIDE DEF p, q
      <4>2. Longer(p, q) \in Nat
        BY <2>3, <4>1
      <4>3. Longer(z, Longer(p, q)) \in Nat
        <5>1. Longer(p, q) \in Int
          BY <4>2
        <5> QED BY <2>3, <4>0, <5>1
      <4> QED BY <2>5, <3>2, <4>3 DEF p, q, x, y, z
    <3> QED BY <3>1, <3>2
  <2>7. \A sign \in {1, -1} : Change(s, sign)[k] \in Nat
    <3> TAKE sign \in {1, -1}
    <3>1. Change(s, sign)[k] =
            IF k = 1 THEN 0 ELSE Longer(0, sign * (s[k].close - s[k - 1].close))
      BY <1>1 DEF Change
    <3>2. k # 1 => sign * (s[k].close - s[k - 1].close) \in Int
      BY <2>1, <2>2
    <3>3. 0 \in Nat /\ 0 \in Int
      OBVIOUS
    <3> QED BY <2>3, <3>1, <3>2, <3>3
  <2> QED BY <2>1, <2>6, <2>7
<1>3. /\ Len(Closes(s)) = Len(s) /\ Len(TrueRange(s)) = Len(s)
      /\ Len(Change(s, 1)) = Len(s) /\ Len(Change(s, -1)) = Len(s)
  <2>1. \A x : DOMAIN x = 1 .. Len(s) /\ x = [k \in 1 .. Len(s) |-> x[k]] => Len(x) = Len(s)
    BY <1>1
  <2>2. \A sign \in {1, -1} : Len(Change(s, sign)) = Len(s)
    BY <1>1 DEF Change
  <2> QED BY <1>1, <2>2 DEF Closes, TrueRange
<1>4. \A k \in 1 .. Len(s) : Closes(s)[k] \in Nat
  BY <1>1, <1>2 DEF Closes
<1>5. \A k \in 2 .. Len(s) : k \in 1 .. Len(s)
  BY <1>1
<1>6. 2 <= g.ema_period + 1 /\ 1 <= g.atr_period /\ 1 <= g.rsi_period /\ g.ema_period + 1 \in Nat
  BY <1>1
<1>7. /\ \A k \in 1 .. Len(TrueRange(s)) : TrueRange(s)[k] \in Nat
      /\ \A k \in 2 .. Len(Change(s, 1)) : Change(s, 1)[k] \in Nat
      /\ \A k \in 2 .. Len(Change(s, -1)) : Change(s, -1)[k] \in Nat
  BY <1>2, <1>3, <1>5
<1>8. \A k \in 1 .. Len(Closes(s)) : Closes(s)[k] \in Nat
  BY <1>3, <1>4
<1> QED BY <1>1, <1>3, <1>6, <1>7, <1>8 DEF Averageable

-----------------------------------------------------------------------------
(* A stricter configuration finds fewer events.                            *)

Unready(g, s) == Len(s) < Longer(g.ema_period, g.rsi_period) + 1 \/ Len(s) < g.atr_period
Ema(g, s) == Averaged(Closes(s), 1, 2, g.ema_period + 1)
Atr(g, s) == Averaged(TrueRange(s), 1, 1, g.atr_period)
Gains(g, s) == Averaged(Change(s, 1), 2, 1, g.rsi_period)
Losses(g, s) == Averaged(Change(s, -1), 2, 1, g.rsi_period)

Beyond(g, s, k, sign) ==
    sign * (s[k].close * Power(g.ema_period + 1, k - 1) - Ema(g, s)[k])
         * Power(g.atr_period, AtrIndex(g, k) - 1)
      > g.deviation * Atr(g, s)[AtrIndex(g, k)] * Power(g.ema_period + 1, k - 1)

BullishDeviation(g, s, k) ==
    Beyond(g, s, k, -1) /\ RsiBelow(g, Gains(g, s), Losses(g, s), k, g.rsi_oversold)
BearishDeviation(g, s, k) ==
    Beyond(g, s, k, 1) /\ RsiAbove(g, Gains(g, s), Losses(g, s), k, g.rsi_overbought)

LEMMA DeviationsUnfold ==
    ASSUME NEW g, NEW s
    PROVE  Deviations(g, s) =
             IF Unready(g, s) THEN {}
             ELSE {[at |-> k, kind |-> "EXTREME_DEVIATION",
                    direction |-> IF BullishDeviation(g, s, k) THEN "BULLISH" ELSE "BEARISH"] :
                      k \in {j \in DOMAIN s : BullishDeviation(g, s, j) \/ BearishDeviation(g, s, j)}}
BY DEF Deviations, Unready, BullishDeviation, BearishDeviation, Beyond, Ema, Atr, Gains, Losses

LEMMA ReadyIndex ==
    ASSUME ScannerAssumption, NEW g \in Configs, NEW s \in Seq(Candles), ~Unready(g, s),
           NEW k \in 1 .. Len(s)
    PROVE  /\ AtrIndex(g, k) \in 1 .. Len(s) /\ AtrIndex(g, k) - 1 \in Nat
           /\ k > g.rsi_period => k \in 2 .. Len(s)
<1>1. g.atr_period \in Nat \ {0} /\ g.rsi_period \in Nat \ {0} /\ Len(s) \in Nat
  BY ConfigType, LenProperties
<1>2. Len(s) >= g.atr_period
  BY <1>1 DEF Unready
<1> QED BY <1>1, <1>2 DEF AtrIndex, Longer

LEMMA DeviationsFewer ==
    ASSUME ScannerAssumption, NEW g \in Configs, NEW h \in Configs, Stricter(g, h),
           NEW s \in Seq(Candles), ~Unready(g, s), NEW k \in 1 .. Len(s)
    PROVE  /\ BullishDeviation(g, s, k) => BullishDeviation(h, s, k)
           /\ BearishDeviation(g, s, k) => BearishDeviation(h, s, k)
<1>1. /\ g.ema_period = h.ema_period /\ g.atr_period = h.atr_period /\ g.rsi_period = h.rsi_period
      /\ g.deviation >= h.deviation /\ g.rsi_oversold <= h.rsi_oversold
      /\ g.rsi_overbought >= h.rsi_overbought
  BY DEF Stricter, Periods
<1>2. Ema(g, s) = Ema(h, s) /\ Atr(g, s) = Atr(h, s) /\ Gains(g, s) = Gains(h, s)
      /\ Losses(g, s) = Losses(h, s) /\ AtrIndex(g, k) = AtrIndex(h, k)
  BY <1>1 DEF Ema, Atr, Gains, Losses, AtrIndex
<1>3. /\ g.ema_period + 1 \in Nat /\ g.atr_period \in Nat /\ g.rsi_period \in Nat
      /\ g.deviation \in Nat /\ h.deviation \in Nat
      /\ g.rsi_oversold \in Nat /\ h.rsi_oversold \in Nat
      /\ g.rsi_overbought \in Nat /\ h.rsi_overbought \in Nat
  BY ConfigType
<1>4. AtrIndex(g, k) \in 1 .. Len(s) /\ (k > g.rsi_period => k \in 2 .. Len(s))
  BY ReadyIndex
<1>5. Len(s) \in Nat
  BY LenProperties
<1>6. Atr(g, s)[AtrIndex(g, k)] \in Nat
  <2>1. Averageable(TrueRange(s), 1, 1, g.atr_period) /\ Len(TrueRange(s)) = Len(s)
    BY SeriesAverageable
  <2>2. \A i \in 1 .. Len(s) : Averaged(TrueRange(s), 1, 1, g.atr_period)[i] \in Nat
    BY <1>3, <1>5, <2>1, AveragedType
  <2> QED BY <1>4, <2>2 DEF Atr
<1>7. k > g.rsi_period => Gains(g, s)[k] \in Nat /\ Losses(g, s)[k] \in Nat
  <2>1. /\ Averageable(Change(s, 1), 2, 1, g.rsi_period) /\ Len(Change(s, 1)) = Len(s)
        /\ Averageable(Change(s, -1), 2, 1, g.rsi_period) /\ Len(Change(s, -1)) = Len(s)
    BY SeriesAverageable
  <2>2. \A i \in 2 .. Len(s) : Averaged(Change(s, 1), 2, 1, g.rsi_period)[i] \in Nat
    BY <1>3, <1>5, <2>1, AveragedType
  <2>3. \A i \in 2 .. Len(s) : Averaged(Change(s, -1), 2, 1, g.rsi_period)[i] \in Nat
    BY <1>3, <1>5, <2>1, AveragedType
  <2> QED BY <1>4, <2>2, <2>3 DEF Gains, Losses
<1>8. Power(g.ema_period + 1, k - 1) \in Nat /\ Power(g.atr_period, AtrIndex(g, k) - 1) \in Nat
  <2>1. k - 1 \in Nat /\ AtrIndex(g, k) - 1 \in Nat
    BY <1>4, <1>5
  <2> QED BY <1>3, <2>1, PowerType
<1>9. s[k].close * Power(g.ema_period + 1, k - 1) - Ema(g, s)[k] \in Int
  <2>1. Averageable(Closes(s), 1, 2, g.ema_period + 1) /\ Len(Closes(s)) = Len(s)
    BY SeriesAverageable
  <2>2. \A i \in 1 .. Len(s) : Averaged(Closes(s), 1, 2, g.ema_period + 1)[i] \in Nat
    BY <1>3, <1>5, <2>1, AveragedType
  <2>3. Ema(g, s)[k] \in Nat /\ s[k].close \in Nat
    BY <2>2, CandleType DEF Ema
  <2>4. \A a, b, c \in Nat : a * b - c \in Int
    OBVIOUS
  <2> QED BY <1>8, <2>3, <2>4
<1>10. ASSUME NEW sign \in {1, -1} PROVE Beyond(g, s, k, sign) => Beyond(h, s, k, sign)
  <2> DEFINE d == s[k].close * Power(g.ema_period + 1, k - 1) - Ema(g, s)[k]
             p == Power(g.atr_period, AtrIndex(g, k) - 1)
             q == Power(g.ema_period + 1, k - 1)
             r == Atr(g, s)[AtrIndex(g, k)]
             x == g.deviation
             y == h.deviation
  <2>1. Beyond(g, s, k, sign) <=> sign * d * p > x * r * q
    BY DEF Beyond
  <2>2. Beyond(h, s, k, sign) <=> sign * d * p > y * r * q
    BY <1>1, <1>2 DEF Beyond
  <2>3. d \in Int /\ p \in Nat /\ q \in Nat /\ r \in Nat /\ x \in Nat /\ y \in Nat /\ y <= x
    BY <1>1, <1>3, <1>6, <1>8, <1>9
  <2> HIDE DEF d, p, q, r, x, y
  <2>4. y * r <= x * r /\ y * r \in Nat /\ x * r \in Nat
    BY <2>3, MulMonotone
  <2> DEFINE u == y * r
             v == x * r
             w == sign * d * p
  <2>5. u \in Int /\ v \in Int /\ u <= v /\ w \in Int
    BY <2>3, <2>4
  <2> HIDE DEF u, v, w
  <2>6. u * q <= v * q /\ u * q \in Int /\ v * q \in Int
    BY <2>3, <2>5, MulMonotone
  <2>7. w > v * q => w > u * q
    BY <2>5, <2>6
  <2> QED BY <2>1, <2>2, <2>7 DEF u, v, w
<1>11. /\ RsiBelow(g, Gains(g, s), Losses(g, s), k, g.rsi_oversold)
            => RsiBelow(h, Gains(h, s), Losses(h, s), k, h.rsi_oversold)
       /\ RsiAbove(g, Gains(g, s), Losses(g, s), k, g.rsi_overbought)
            => RsiAbove(h, Gains(h, s), Losses(h, s), k, h.rsi_overbought)
  <2>1. CASE k <= g.rsi_period
    BY <1>1, <1>3, <2>1 DEF RsiBelow, RsiAbove
  <2>2. CASE ~(k <= g.rsi_period)
    <3> DEFINE u == Gains(g, s)[k]
               v == Losses(g, s)[k]
               lo == g.rsi_oversold
               lo2 == h.rsi_oversold
               hi == g.rsi_overbought
               hi2 == h.rsi_overbought
    <3>1. u \in Nat /\ v \in Nat /\ lo \in Nat /\ lo2 \in Nat /\ hi \in Nat /\ hi2 \in Nat
          /\ lo <= lo2 /\ hi2 <= hi
      BY <1>1, <1>3, <1>7, <2>2
    <3>2. /\ RsiBelow(g, Gains(g, s), Losses(g, s), k, g.rsi_oversold)
               <=> IF v = 0 THEN 100 < lo ELSE 100 * u < lo * (u + v)
          /\ RsiBelow(h, Gains(h, s), Losses(h, s), k, h.rsi_oversold)
               <=> IF v = 0 THEN 100 < lo2 ELSE 100 * u < lo2 * (u + v)
          /\ RsiAbove(g, Gains(g, s), Losses(g, s), k, g.rsi_overbought)
               <=> IF v = 0 THEN 100 > hi ELSE 100 * u > hi * (u + v)
          /\ RsiAbove(h, Gains(h, s), Losses(h, s), k, h.rsi_overbought)
               <=> IF v = 0 THEN 100 > hi2 ELSE 100 * u > hi2 * (u + v)
      BY <1>1, <1>2, <2>2 DEF RsiBelow, RsiAbove
    <3> HIDE DEF u, v, lo, lo2, hi, hi2
    <3> DEFINE t == u + v
    <3>3. t \in Nat /\ 100 * u \in Int
      BY <3>1
    <3> HIDE DEF t
    <3>4. /\ lo * t <= lo2 * t /\ lo * t \in Int /\ lo2 * t \in Int
          /\ hi2 * t <= hi * t /\ hi2 * t \in Int /\ hi * t \in Int
      BY <3>1, <3>3, MulMonotone
    <3>5. /\ 100 * u < lo * t => 100 * u < lo2 * t
          /\ 100 * u > hi * t => 100 * u > hi2 * t
          /\ 100 < lo => 100 < lo2 /\ (100 > hi => 100 > hi2)
      BY <3>1, <3>3, <3>4
    <3>6. 100 > hi => 100 > hi2
      BY <3>1
    <3> QED BY <3>2, <3>5, <3>6 DEF t
  <2> QED BY <2>1, <2>2
<1> QED BY <1>10, <1>11 DEF BullishDeviation, BearishDeviation

LEMMA SweepsFewer ==
    ASSUME ScannerAssumption, NEW g \in Configs, NEW h \in Configs, Stricter(g, h),
           NEW s \in Seq(Candles), NEW k \in g.sweep_lookback + 1 .. Len(s)
    PROVE  /\ BullishSweep(g, s, k) => BullishSweep(h, s, k)
           /\ BearishSweep(g, s, k) => BearishSweep(h, s, k)
<1> DEFINE low == LowestBefore(g, s, k)
           high == HighestBefore(g, s, k)
           x == g.sweep_threshold
           y == h.sweep_threshold
           a == 1000 * s[k].low
           b == 1000 * s[k].high
<1>1. g.sweep_lookback = h.sweep_lookback /\ y <= x
  BY DEF Stricter, Periods
<1>2. LowestBefore(h, s, k) = low /\ HighestBefore(h, s, k) = high
  BY <1>1 DEF LowestBefore, HighestBefore
<1>3. low \in Nat /\ high \in Nat
  BY BeforeType
<1>4. x \in Nat /\ y \in Nat
  BY ConfigType
<1>5. a \in Nat /\ b \in Nat
  <2>1. g.sweep_lookback \in Nat /\ Len(s) \in Nat
    BY ConfigType, LenProperties
  <2>2. k \in 1 .. Len(s)
    BY <2>1
  <2>3. s[k].low \in Nat /\ s[k].high \in Nat
    BY <2>2, CandleType
  <2> QED BY <2>3
<1>6. /\ BullishSweep(g, s, k) <=> a < low * (1000 - x) /\ s[k].close > low
      /\ BullishSweep(h, s, k) <=> a < low * (1000 - y) /\ s[k].close > low
      /\ BearishSweep(g, s, k) <=> b > high * (1000 + x) /\ s[k].close < high
      /\ BearishSweep(h, s, k) <=> b > high * (1000 + y) /\ s[k].close < high
  BY <1>2 DEF BullishSweep, BearishSweep
<1> HIDE DEF low, high, x, y, a, b
<1> DEFINE p == 1000 - x
           q == 1000 - y
           r == 1000 + x
           t == 1000 + y
<1>7. p \in Int /\ q \in Int /\ r \in Int /\ t \in Int /\ p <= q /\ t <= r
  BY <1>1, <1>4
<1> HIDE DEF p, q, r, t
<1>8. low * p <= low * q /\ low * p \in Int /\ low * q \in Int
  BY <1>3, <1>7, MulMonotone
<1>9. high * t <= high * r /\ high * t \in Int /\ high * r \in Int
  BY <1>3, <1>7, MulMonotone
<1>10. (a < low * p => a < low * q) /\ (b > high * r => b > high * t)
  BY <1>5, <1>8, <1>9
<1> QED BY <1>6, <1>10 DEF p, q, r, t

\* The body of Squeezes.
Floor(g, s, k) == Min({SquaredWidth(g, s, j) : j \in k - g.squeeze_lookback .. k - 1})

Squeezed(g, s, k) ==
    /\ k - 2 >= g.bb_period
    /\ SquaredWidth(g, s, k - 2) * 10000
         <= Floor(g, s, k) * (100 + g.squeeze_threshold) * (100 + g.squeeze_threshold)

LEMMA SqueezesUnfold ==
    ASSUME NEW g, NEW s
    PROVE  Squeezes(g, s) =
             {[at |-> k, kind |-> "VOLATILITY_SQUEEZE", direction |-> "NONE"] :
                k \in {j \in g.bb_period + g.squeeze_lookback .. Len(s) : Squeezed(g, s, j)}}
BY DEF Squeezes, Squeezed, Floor

LEMMA SqueezesFewer ==
    ASSUME ScannerAssumption, NEW g \in Configs, NEW h \in Configs, Stricter(g, h),
           NEW s \in Seq(Candles), NEW k \in g.bb_period + g.squeeze_lookback .. Len(s)
    PROVE  Squeezed(g, s, k) => Squeezed(h, s, k)
<1> SUFFICES ASSUME Squeezed(g, s, k) PROVE Squeezed(h, s, k)
  OBVIOUS
<1>1. g.bb_period = h.bb_period /\ g.squeeze_lookback = h.squeeze_lookback
      /\ g.squeeze_threshold <= h.squeeze_threshold
  BY DEF Stricter, Periods
<1>2. /\ g.bb_period \in Nat \ {0} /\ g.squeeze_lookback \in Nat \ {0}
      /\ g.squeeze_threshold \in Nat /\ h.squeeze_threshold \in Nat /\ Len(s) \in Nat
  BY ConfigType, LenProperties
<1>3. \A j : SquaredWidth(h, s, j) = SquaredWidth(g, s, j)
  BY <1>1 DEF SquaredWidth
<1>4. Floor(h, s, k) = Floor(g, s, k)
  BY <1>1, <1>3 DEF Floor
<1>5. Floor(g, s, k) \in Nat
  <2> DEFINE a == k - g.squeeze_lookback
             b == k - 1
             f == [j \in a .. b |-> SquaredWidth(g, s, j)]
  <2>1. a \in Int /\ b \in Int /\ a <= b /\ \A j \in a .. b : j \in g.bb_period .. Len(s)
    BY <1>2
  <2>2. f \in [a .. b -> Nat]
    BY <2>1, WidthType
  <2>3. Floor(g, s, k) = Min({f[j] : j \in a .. b})
    BY DEF Floor
  <2> HIDE DEF a, b, f
  <2> QED BY <2>1, <2>2, <2>3, ExtremesOfImage
<1>6. SquaredWidth(g, s, k - 2) \in Nat
  <2>1. k - 2 \in g.bb_period .. Len(s)
    BY <1>2 DEF Squeezed
  <2> QED BY <2>1, WidthType
<1> DEFINE x == 100 + g.squeeze_threshold
           y == 100 + h.squeeze_threshold
           m == Floor(g, s, k)
           w == SquaredWidth(g, s, k - 2) * 10000
<1>7. x \in Nat /\ y \in Nat /\ x <= y /\ m \in Nat /\ w \in Nat
  <2>1. x \in Nat /\ y \in Nat /\ x <= y
    BY <1>1, <1>2
  <2>2. \A n \in Nat : n * 10000 \in Nat
    OBVIOUS
  <2>3. w \in Nat
    BY <1>6, <2>2
  <2> QED BY <1>5, <2>1, <2>3
<1>8. w <= m * x * x
  BY DEF Squeezed
<1>9. k - 2 >= h.bb_period /\ (w <= m * y * y => Squeezed(h, s, k))
  BY <1>1, <1>3, <1>4 DEF Squeezed
<1> HIDE DEF x, y, m, w
<1> DEFINE p == m * x
           q == m * y
<1>10. p \in Nat /\ q \in Nat /\ p <= q
  BY <1>7, MulMonotone
<1> HIDE DEF p, q
<1>11. p * x <= p * y /\ p * y <= q * y /\ p * x \in Int /\ p * y \in Int /\ q * y \in Int
  <2>1. p * x <= p * y
    BY <1>7, <1>10, MulMonotone
  <2>2. p * y <= q * y
    BY <1>7, <1>10, MulMonotone
  <2> QED BY <1>7, <1>10, <2>1, <2>2
<1>12. w <= p * x
  BY <1>8 DEF p
<1>13. w <= q * y
  BY <1>7, <1>11, <1>12
<1> QED BY <1>9, <1>13 DEF q

LEMMA ScanFewer ==
    ASSUME ScannerAssumption, NEW g \in Configs, NEW h \in Configs, Stricter(g, h),
           NEW s \in Seq(Candles)
    PROVE  FiredAt(Scan(g, s)) \subseteq FiredAt(Scan(h, s))
<1>1. ASSUME NEW e \in Scan(g, s) PROVE \E d \in Scan(h, s) : d.at = e.at /\ d.kind = e.kind
  <2>1. CASE e \in Sweeps(g, s)
    <3>1. PICK k \in g.sweep_lookback + 1 .. Len(s) :
            /\ e.at = k /\ e.kind = "LIQUIDITY_SWEEP"
            /\ BullishSweep(g, s, k) \/ BearishSweep(g, s, k)
      BY <2>1 DEF Sweeps
    <3>2. BullishSweep(h, s, k) \/ BearishSweep(h, s, k)
      BY <3>1, SweepsFewer
    <3>3. g.sweep_lookback = h.sweep_lookback
      BY DEF Stricter, Periods
    <3> DEFINE d == [at |-> k, kind |-> "LIQUIDITY_SWEEP",
                     direction |-> IF BullishSweep(h, s, k) THEN "BULLISH" ELSE "BEARISH"]
    <3>4. d \in Sweeps(h, s)
      BY <3>2, <3>3 DEF Sweeps
    <3>5. d.at = e.at /\ d.kind = e.kind
      BY <3>1
    <3> HIDE DEF d
    <3> QED BY <3>4, <3>5 DEF Scan
  <2>2. CASE e \in Deviations(g, s)
    <3>1. ~Unready(g, s)
      BY <2>2, DeviationsUnfold
    <3>2. Unready(h, s) <=> Unready(g, s)
      BY DEF Unready, Stricter, Periods
    <3>3. PICK k \in DOMAIN s : /\ e.at = k /\ e.kind = "EXTREME_DEVIATION"
                                /\ BullishDeviation(g, s, k) \/ BearishDeviation(g, s, k)
      BY <2>2, <3>1, DeviationsUnfold
    <3>4. k \in 1 .. Len(s)
      BY LenProperties
    <3>5. BullishDeviation(h, s, k) \/ BearishDeviation(h, s, k)
      BY <3>1, <3>3, <3>4, DeviationsFewer
    <3> DEFINE d == [at |-> k, kind |-> "EXTREME_DEVIATION",
                     direction |-> IF BullishDeviation(h, s, k) THEN "BULLISH" ELSE "BEARISH"]
    <3>6. d \in Deviations(h, s)
      BY <3>1, <3>2, <3>5, DeviationsUnfold
    <3>7. d.at = e.at /\ d.kind = e.kind
      BY <3>3
    <3> HIDE DEF d
    <3> QED BY <3>6, <3>7 DEF Scan
  <2>3. CASE e \in Squeezes(g, s)
    <3>1. PICK k \in g.bb_period + g.squeeze_lookback .. Len(s) :
            e.at = k /\ e.kind = "VOLATILITY_SQUEEZE" /\ Squeezed(g, s, k)
      BY <2>3, SqueezesUnfold
    <3>2. Squeezed(h, s, k)
      BY <3>1, SqueezesFewer
    <3>3. g.bb_period = h.bb_period /\ g.squeeze_lookback = h.squeeze_lookback
      BY DEF Stricter, Periods
    <3> DEFINE d == [at |-> k, kind |-> "VOLATILITY_SQUEEZE", direction |-> "NONE"]
    <3>4. d \in Squeezes(h, s)
      BY <3>2, <3>3, SqueezesUnfold
    <3>5. d.at = e.at /\ d.kind = e.kind
      BY <3>1
    <3> HIDE DEF d
    <3> QED BY <3>4, <3>5 DEF Scan
  <2> QED BY <2>1, <2>2, <2>3 DEF Scan
<1> QED BY <1>1 DEF FiredAt

-----------------------------------------------------------------------------
(* Events of settled candles do not depend on what comes after.            *)

Continues(s, t) ==
    /\ s \in Seq(Candles) /\ t \in Seq(Candles) /\ Len(s) <= Len(t)
    /\ \A j \in 1 .. Len(s) : t[j] = s[j]

LEMMA SweepsSettle ==
    ASSUME ScannerAssumption, NEW g \in Configs, NEW s, NEW t, Continues(s, t),
           NEW k \in g.sweep_lookback + 1 .. Len(s)
    PROVE  /\ BullishSweep(g, t, k) <=> BullishSweep(g, s, k)
           /\ BearishSweep(g, t, k) <=> BearishSweep(g, s, k)
<1>1. g.sweep_lookback \in Nat \ {0} /\ Len(s) \in Nat
  BY ConfigType, LenProperties DEF Continues
<1>2. t[k] = s[k] /\ \A j \in k - g.sweep_lookback .. k - 1 : t[j] = s[j]
  <2>1. k \in 1 .. Len(s) /\ \A j \in k - g.sweep_lookback .. k - 1 : j \in 1 .. Len(s)
    BY <1>1
  <2> QED BY <2>1 DEF Continues
<1>3. LowestBefore(g, t, k) = LowestBefore(g, s, k)
  <2>1. {t[j].low : j \in k - g.sweep_lookback .. k - 1}
          = {s[j].low : j \in k - g.sweep_lookback .. k - 1}
    BY <1>2
  <2> QED BY <2>1 DEF LowestBefore
<1>4. HighestBefore(g, t, k) = HighestBefore(g, s, k)
  <2>1. {t[j].high : j \in k - g.sweep_lookback .. k - 1}
          = {s[j].high : j \in k - g.sweep_lookback .. k - 1}
    BY <1>2
  <2> QED BY <2>1 DEF HighestBefore
<1> QED BY <1>2, <1>3, <1>4 DEF BullishSweep, BearishSweep

LEMMA SqueezesSettle ==
    ASSUME ScannerAssumption, NEW g \in Configs, NEW s, NEW t, Continues(s, t),
           NEW k \in g.bb_period + g.squeeze_lookback .. Len(s)
    PROVE  Squeezed(g, t, k) <=> Squeezed(g, s, k)
<1>1. g.bb_period \in Nat \ {0} /\ g.squeeze_lookback \in Nat \ {0} /\ Len(s) \in Nat
  BY ConfigType, LenProperties DEF Continues
<1>2. ASSUME NEW j \in g.bb_period .. Len(s)
      PROVE  SquaredWidth(g, t, j) = SquaredWidth(g, s, j)
  <2> DEFINE S == j - g.bb_period + 1 .. j
  <2>1. \A i \in S : t[i] = s[i]
    <3>1. \A i \in S : i \in 1 .. Len(s)
      BY <1>1
    <3> QED BY <3>1 DEF Continues
  <2>2. /\ [i \in S |-> t[i].close] = [i \in S |-> s[i].close]
        /\ [i \in S |-> t[i].close * t[i].close] = [i \in S |-> s[i].close * s[i].close]
    BY <2>1
  <2> QED BY <2>2 DEF SquaredWidth
<1>3. Floor(g, t, k) = Floor(g, s, k)
  <2>1. \A j \in k - g.squeeze_lookback .. k - 1 : j \in g.bb_period .. Len(s)
    BY <1>1
  <2>2. {SquaredWidth(g, t, j) : j \in k - g.squeeze_lookback .. k - 1}
          = {SquaredWidth(g, s, j) : j \in k - g.squeeze_lookback .. k - 1}
    BY <1>2, <2>1
  <2> QED BY <2>2 DEF Floor
<1>4. k - 2 >= g.bb_period => SquaredWidth(g, t, k - 2) = SquaredWidth(g, s, k - 2)
  <2>1. k - 2 >= g.bb_period => k - 2 \in g.bb_period .. Len(s)
    BY <1>1
  <2> QED BY <1>2, <2>1
<1> QED BY <1>3, <1>4 DEF Squeezed

LEMMA DeviationsSettle ==
    ASSUME ScannerAssumption, NEW g \in Configs, NEW s, NEW t, Continues(s, t),
           NEW k \in 1 .. Len(s), k > WarmUp(g)
    PROVE  /\ ~Unready(g, s) /\ ~Unready(g, t)
           /\ BullishDeviation(g, t, k) <=> BullishDeviation(g, s, k)
           /\ BearishDeviation(g, t, k) <=> BearishDeviation(g, s, k)
<1>1. /\ g.ema_period \in Nat \ {0} /\ g.atr_period \in Nat \ {0} /\ g.rsi_period \in Nat \ {0}
      /\ Len(s) \in Nat /\ Len(t) \in Nat /\ Len(s) <= Len(t)
      /\ DOMAIN s = 1 .. Len(s) /\ DOMAIN t = 1 .. Len(t)
  BY ConfigType, LenProperties DEF Continues
<1>2. k > g.ema_period /\ k > g.atr_period /\ k > g.rsi_period
  BY <1>1 DEF WarmUp, Longer
<1>3. ~Unready(g, s) /\ ~Unready(g, t)
  BY <1>1, <1>2 DEF Unready, Longer
<1>4. AtrIndex(g, k) = k
  BY <1>1, <1>2 DEF AtrIndex, Longer
<1>5. ASSUME NEW j \in 1 .. Len(s)
      PROVE  /\ j \in 1 .. Len(t) /\ t[j] = s[j] /\ (j # 1 => t[j - 1] = s[j - 1])
  <2>1. j \in 1 .. Len(t) /\ (j # 1 => j - 1 \in 1 .. Len(s))
    BY <1>1
  <2> QED BY <2>1 DEF Continues
<1>6. /\ \A j \in 1 .. Len(s) : Closes(t)[j] = Closes(s)[j]
      /\ \A j \in 1 .. Len(s) : TrueRange(t)[j] = TrueRange(s)[j]
      /\ \A j \in 2 .. Len(s) : Change(t, 1)[j] = Change(s, 1)[j]
      /\ \A j \in 2 .. Len(s) : Change(t, -1)[j] = Change(s, -1)[j]
  <2>1. \A j \in 1 .. Len(s) : Closes(t)[j] = Closes(s)[j]
    BY <1>1, <1>5 DEF Closes
  <2>2. \A j \in 1 .. Len(s) : TrueRange(t)[j] = TrueRange(s)[j]
    <3> TAKE j \in 1 .. Len(s)
    <3>1. j \in DOMAIN s /\ j \in DOMAIN t /\ t[j] = s[j] /\ (j # 1 => t[j - 1] = s[j - 1])
      BY <1>1, <1>5
    <3> QED BY <3>1 DEF TrueRange
  <2>3. ASSUME NEW sign, NEW j \in 2 .. Len(s) PROVE Change(t, sign)[j] = Change(s, sign)[j]
    <3>0. j \in 1 .. Len(s)
      OBVIOUS
    <3>1. j \in DOMAIN s /\ j \in DOMAIN t /\ t[j] = s[j] /\ (j # 1 => t[j - 1] = s[j - 1])
      BY <1>1, <1>5, <3>0
    <3> QED BY <3>1 DEF Change
  <2> QED BY <2>1, <2>2, <2>3
<1>7. s \in Seq(Candles) /\ t \in Seq(Candles)
  BY DEF Continues
<1>8. /\ Averageable(Closes(s), 1, 2, g.ema_period + 1)
      /\ Averageable(TrueRange(s), 1, 1, g.atr_period)
      /\ Averageable(Change(s, 1), 2, 1, g.rsi_period)
      /\ Averageable(Change(s, -1), 2, 1, g.rsi_period)
      /\ Len(Closes(s)) = Len(s) /\ Len(TrueRange(s)) = Len(s)
      /\ Len(Change(s, 1)) = Len(s) /\ Len(Change(s, -1)) = Len(s)
  BY <1>7, SeriesAverageable
<1>9. /\ Averageable(Closes(t), 1, 2, g.ema_period + 1)
      /\ Averageable(TrueRange(t), 1, 1, g.atr_period)
      /\ Averageable(Change(t, 1), 2, 1, g.rsi_period)
      /\ Averageable(Change(t, -1), 2, 1, g.rsi_period)
      /\ Len(Closes(t)) = Len(t) /\ Len(TrueRange(t)) = Len(t)
      /\ Len(Change(t, 1)) = Len(t) /\ Len(Change(t, -1)) = Len(t)
  BY <1>7, SeriesAverageable
<1>10. g.ema_period + 1 \in Nat /\ k \in 2 .. Len(s)
  BY <1>1, <1>2
<1>11. Ema(g, t)[k] = Ema(g, s)[k]
  <2> DEFINE x == Closes(s)
             y == Closes(t)
             b == g.ema_period + 1
  <2>1. /\ b \in Nat /\ Averageable(x, 1, 2, b) /\ Averageable(y, 1, 2, b)
        /\ Len(x) <= Len(y) /\ \A j \in 1 .. Len(x) : y[j] = x[j]
    BY <1>1, <1>6, <1>8, <1>9, <1>10
  <2>2. k \in 1 .. Len(x)
    BY <1>8, <1>10
  <2> HIDE DEF x, y, b
  <2>3. \A j \in 1 .. Len(x) : Averaged(y, 1, 2, b)[j] = Averaged(x, 1, 2, b)[j]
    BY <2>1, AveragedPrefix
  <2> QED BY <2>2, <2>3 DEF Ema, x, y, b
<1>12. Atr(g, t)[k] = Atr(g, s)[k]
  <2> DEFINE x == TrueRange(s)
             y == TrueRange(t)
             b == g.atr_period
  <2>1. /\ b \in Nat /\ Averageable(x, 1, 1, b) /\ Averageable(y, 1, 1, b)
        /\ Len(x) <= Len(y) /\ \A j \in 1 .. Len(x) : y[j] = x[j]
    BY <1>1, <1>6, <1>8, <1>9, <1>10
  <2>2. k \in 1 .. Len(x)
    BY <1>8, <1>10
  <2> HIDE DEF x, y, b
  <2>3. \A j \in 1 .. Len(x) : Averaged(y, 1, 1, b)[j] = Averaged(x, 1, 1, b)[j]
    BY <2>1, AveragedPrefix
  <2> QED BY <2>2, <2>3 DEF Atr, x, y, b
<1>13. Gains(g, t)[k] = Gains(g, s)[k]
  <2> DEFINE x == Change(s, 1)
             y == Change(t, 1)
             b == g.rsi_period
  <2>1. /\ b \in Nat /\ Averageable(x, 2, 1, b) /\ Averageable(y, 2, 1, b)
        /\ Len(x) <= Len(y) /\ \A j \in 2 .. Len(x) : y[j] = x[j]
    BY <1>1, <1>6, <1>8, <1>9, <1>10
  <2>2. k \in 2 .. Len(x)
    BY <1>8, <1>10
  <2> HIDE DEF x, y, b
  <2>3. \A j \in 2 .. Len(x) : Averaged(y, 2, 1, b)[j] = Averaged(x, 2, 1, b)[j]
    BY <2>1, AveragedPrefix
  <2> QED BY <2>2, <2>3 DEF Gains, x, y, b
<1>14. Losses(g, t)[k] = Losses(g, s)[k]
  <2> DEFINE x == Change(s, -1)
             y == Change(t, -1)
             b == g.rsi_period
  <2>1. /\ b \in Nat /\ Averageable(x, 2, 1, b) /\ Averageable(y, 2, 1, b)
        /\ Len(x) <= Len(y) /\ \A j \in 2 .. Len(x) : y[j] = x[j]
    BY <1>1, <1>6, <1>8, <1>9, <1>10
  <2>2. k \in 2 .. Len(x)
    BY <1>8, <1>10
  <2> HIDE DEF x, y, b
  <2>3. \A j \in 2 .. Len(x) : Averaged(y, 2, 1, b)[j] = Averaged(x, 2, 1, b)[j]
    BY <2>1, AveragedPrefix
  <2> QED BY <2>2, <2>3 DEF Losses, x, y, b
<1>15. \A sign : Beyond(g, t, k, sign) <=> Beyond(g, s, k, sign)
  BY <1>4, <1>5, <1>11, <1>12 DEF Beyond
<1>16. \A level : /\ RsiBelow(g, Gains(g, t), Losses(g, t), k, level)
                       <=> RsiBelow(g, Gains(g, s), Losses(g, s), k, level)
                  /\ RsiAbove(g, Gains(g, t), Losses(g, t), k, level)
                       <=> RsiAbove(g, Gains(g, s), Losses(g, s), k, level)
  BY <1>13, <1>14 DEF RsiBelow, RsiAbove
<1> QED BY <1>3, <1>15, <1>16 DEF BullishDeviation, BearishDeviation

LEMMA ScanSettles ==
    ASSUME ScannerAssumption, NEW g \in Configs, NEW s, NEW t, Continues(s, t),
           NEW e, e.at > WarmUp(g), e.at <= Len(s)
    PROVE  e \in Scan(g, t) <=> e \in Scan(g, s)
<1>1. /\ g.sweep_lookback \in Nat \ {0} /\ g.bb_period \in Nat \ {0}
      /\ g.squeeze_lookback \in Nat \ {0} /\ Len(s) \in Nat /\ Len(t) \in Nat
      /\ Len(s) <= Len(t) /\ DOMAIN s = 1 .. Len(s) /\ DOMAIN t = 1 .. Len(t)
  BY ConfigType, LenProperties DEF Continues
<1> DEFINE sweep(u, k) == [at |-> k, kind |-> "LIQUIDITY_SWEEP",
                          direction |-> IF BullishSweep(g, u, k) THEN "BULLISH" ELSE "BEARISH"]
           deviation(u, k) == [at |-> k, kind |-> "EXTREME_DEVIATION",
                          direction |-> IF BullishDeviation(g, u, k) THEN "BULLISH" ELSE "BEARISH"]
           squeeze(k) == [at |-> k, kind |-> "VOLATILITY_SQUEEZE", direction |-> "NONE"]
<1>2. e \in Sweeps(g, t) <=> e \in Sweeps(g, s)
  <2>1. \A u : e \in Sweeps(g, u) <=>
          \E k \in g.sweep_lookback + 1 .. Len(u) :
             (BullishSweep(g, u, k) \/ BearishSweep(g, u, k)) /\ e = sweep(u, k)
    BY DEF Sweeps
  <2>2. \A k \in g.sweep_lookback + 1 .. Len(t) :
          e = sweep(t, k) => k \in g.sweep_lookback + 1 .. Len(s)
    <3>1. \A k : e = sweep(t, k) => e.at = k
      OBVIOUS
    <3> QED BY <1>1, <3>1
  <2>3. \A k \in g.sweep_lookback + 1 .. Len(s) :
          /\ k \in g.sweep_lookback + 1 .. Len(t)
          /\ BullishSweep(g, t, k) <=> BullishSweep(g, s, k)
          /\ BearishSweep(g, t, k) <=> BearishSweep(g, s, k)
    BY <1>1, SweepsSettle
  <2> QED BY <2>1, <2>2, <2>3
<1>3. e \in Squeezes(g, t) <=> e \in Squeezes(g, s)
  <2> DEFINE first == g.bb_period + g.squeeze_lookback
  <2>1. \A u : e \in Squeezes(g, u) <=>
          \E k \in first .. Len(u) : Squeezed(g, u, k) /\ e = squeeze(k)
    BY SqueezesUnfold
  <2>2. \A k \in first .. Len(t) : e = squeeze(k) => k \in first .. Len(s)
    <3>1. \A k : e = squeeze(k) => e.at = k
      OBVIOUS
    <3> QED BY <1>1, <3>1
  <2>3. \A k \in first .. Len(s) :
          k \in first .. Len(t) /\ (Squeezed(g, t, k) <=> Squeezed(g, s, k))
    BY <1>1, SqueezesSettle
  <2> HIDE DEF first
  <2> QED BY <2>1, <2>2, <2>3
<1>4. e \in Deviations(g, t) <=> e \in Deviations(g, s)
  <2>1. \A u : ~Unready(g, u) => (e \in Deviations(g, u) <=>
          \E k \in DOMAIN u : (BullishDeviation(g, u, k) \/ BearishDeviation(g, u, k))
                               /\ e = deviation(u, k))
    BY DeviationsUnfold
  <2>2. \A u, k : e = deviation(u, k) => e.at = k
    OBVIOUS
  <2>3. ASSUME NEW k, k \in DOMAIN t, e.at = k
        PROVE  /\ k \in DOMAIN s /\ ~Unready(g, s) /\ ~Unready(g, t)
               /\ BullishDeviation(g, t, k) <=> BullishDeviation(g, s, k)
               /\ BearishDeviation(g, t, k) <=> BearishDeviation(g, s, k)
    <3>1. k \in 1 .. Len(s) /\ k > WarmUp(g)
      BY <1>1, <2>3
    <3> QED BY <1>1, <3>1, DeviationsSettle
  <2>4. DOMAIN s \subseteq DOMAIN t
    BY <1>1
  <2>5. ASSUME e \in Deviations(g, t) PROVE e \in Deviations(g, s)
    <3>1. ~Unready(g, t)
      BY <2>5, DeviationsUnfold
    <3>2. PICK k \in DOMAIN t : (BullishDeviation(g, t, k) \/ BearishDeviation(g, t, k))
                                /\ e = deviation(t, k)
      BY <2>1, <2>5, <3>1
    <3>3. e.at = k
      BY <2>2, <3>2
    <3> QED BY <2>1, <2>3, <3>2, <3>3
  <2>6. ASSUME e \in Deviations(g, s) PROVE e \in Deviations(g, t)
    <3>1. ~Unready(g, s)
      BY <2>6, DeviationsUnfold
    <3>2. PICK k \in DOMAIN s : (BullishDeviation(g, s, k) \/ BearishDeviation(g, s, k))
                                /\ e = deviation(s, k)
      BY <2>1, <2>6, <3>1
    <3>3. e.at = k /\ k \in DOMAIN t
      BY <2>2, <2>4, <3>2
    <3> QED BY <2>1, <2>3, <3>2, <3>3
  <2> QED BY <2>5, <2>6
<1> QED BY <1>2, <1>3, <1>4 DEF Scan

-----------------------------------------------------------------------------
(* The steps.                                                              *)

\* The events are those of a scan of the whole series with the configuration of
\* the last scan.
ScannerInv ==
    /\ candles \in Seq(Candles)
    /\ config \in Configs /\ scanned \in Configs
    /\ events = Scan(scanned, candles)

LEMMA NothingToScan ==
    ASSUME ScannerAssumption, NEW g \in Configs
    PROVE  Scan(g, <<>>) = {}
<1>1. /\ g.sweep_lookback \in Nat \ {0} /\ g.bb_period \in Nat \ {0}
      /\ g.squeeze_lookback \in Nat \ {0} /\ Len(<<>>) = 0 /\ DOMAIN <<>> = {}
  BY ConfigType
<1>2. g.sweep_lookback + 1 .. 0 = {} /\ g.bb_period + g.squeeze_lookback .. 0 = {}
  BY <1>1
<1>3. Sweeps(g, <<>>) = {}
  BY <1>1, <1>2 DEF Sweeps
<1>4. Squeezes(g, <<>>) = {}
  BY <1>1, <1>2, SqueezesUnfold
<1>5. Deviations(g, <<>>) = {}
  BY <1>1, DeviationsUnfold
<1> QED BY <1>3, <1>4, <1>5 DEF Scan

LEMMA ScannerInitInv == ASSUME ScannerAssumption, ScannerInit PROVE ScannerInv
<1>1. DefaultConfig \in Configs
  BY DEF ScannerAssumption
<1>2. Scan(DefaultConfig, <<>>) = {}
  BY <1>1, NothingToScan
<1> QED BY <1>1, <1>2 DEF ScannerInit, ScannerInv

LEMMA ScannerStepInv ==
    ASSUME ScannerAssumption, ScannerInv, [ScannerNext]_scannerVars
    PROVE  ScannerInv'
<1>1. ASSUME NEW c \in Candles, NewCandle(c) PROVE ScannerInv'
  <2>1. candles' = Append(candles, c) /\ events' = Scan(config, candles')
        /\ scanned' = config /\ config' = config
    BY <1>1 DEF NewCandle
  <2>2. candles' \in Seq(Candles)
    BY <2>1, AppendProperties DEF ScannerInv
  <2> QED BY <2>1, <2>2 DEF ScannerInv
<1>2. ASSUME NEW g \in Configs, UpdateConfig(g) PROVE ScannerInv'
  BY <1>2 DEF UpdateConfig, ScannerInv
<1>3. CASE UNCHANGED scannerVars
  BY <1>3 DEF ScannerInv, scannerVars
<1> QED BY <1>1, <1>2, <1>3 DEF ScannerNext

LEMMA ScannerStepSettles ==
    ASSUME ScannerAssumption, ScannerInv, ScannerNext
    PROVE  candles' # candles /\ scanned = config
             => Settled(events', config) = Settled(events, config)
<1> SUFFICES ASSUME candles' # candles, scanned = config
             PROVE  Settled(events', config) = Settled(events, config)
  OBVIOUS
<1>1. PICK c \in Candles : NewCandle(c)
  BY DEF ScannerNext, UpdateConfig
<1>2. /\ candles \in Seq(Candles) /\ candles' = Append(candles, c)
      /\ events' = Scan(config, candles') /\ config \in Configs
      /\ Len(candles) \in Nat
  BY <1>1, LenProperties DEF NewCandle, ScannerInv
<1>3. Continues(candles, candles')
  BY <1>2, AppendProperties DEF Continues
<1>4. ASSUME NEW e, e.at > WarmUp(config), e.at <= Len(candles)
      PROVE  e \in events' <=> e \in events
  <2>1. e \in Scan(config, candles') <=> e \in Scan(config, candles)
    BY <1>2, <1>3, <1>4, ScanSettles
  <2> QED BY <1>2, <2>1 DEF ScannerInv
<1> QED BY <1>4 DEF Settled

\* For any candles and any configurations whose periods are at least one: the
\* events of a candle past the warm-up are those that a scan of the longer series
\* reports of it, so a live scanner and a backtest see the same.
THEOREM EventsAreFinalHolds == ScannerSpec => EventsAreFinal
<1>1. ScannerInit => ScannerInv
  BY ScannerInitInv, ScannerAssumption
<1>2. ScannerInv /\ [ScannerNext]_scannerVars => ScannerInv'
  BY ScannerStepInv, ScannerAssumption
<1>3. ScannerInv /\ [ScannerNext]_scannerVars
        => [candles' # candles /\ scanned = config
              => Settled(events', config) = Settled(events, config)]_scannerVars
  BY ScannerStepSettles, ScannerAssumption
<1> QED BY <1>1, <1>2, <1>3, PTL DEF ScannerSpec, EventsAreFinal

\* For any candles and any two configurations of which one is stricter: the
\* stricter one fires on no candle where the other does not.  It takes the squared
\* width, a sum of products of deviations, not to be negative.
THEOREM StricterFindsFewerHolds == ScannerSpec => []StricterFindsFewer
<1>1. ScannerInit => ScannerInv
  BY ScannerInitInv, ScannerAssumption
<1>2. ScannerInv /\ [ScannerNext]_scannerVars => ScannerInv'
  BY ScannerStepInv, ScannerAssumption
<1>3. ScannerInv => StricterFindsFewer
  BY ScanFewer, ScannerAssumption DEF ScannerInv, StricterFindsFewer
<1> QED BY <1>1, <1>2, <1>3, PTL DEF ScannerSpec
===============================================================================
