------------------------------ MODULE MetaLearning -----------------------------
(***************************************************************************)
(* The meta-learning cycle: MetaLearningRunner scores a population of      *)
(* scanner configurations by backtesting each, lets GeneticOptimizer       *)
(* evolve it, validates the elite on held-out data and applies it, which   *)
(* is to store it in the evolved_configs table of the MemoryBank           *)
(* (src/models/meta_learning.py, src/data/memory.py).  Several processes   *)
(* may share the database file.  The connection is in autocommit mode, so  *)
(* every statement is a step of its own, and may time out on a lock.       *)
(*                                                                         *)
(* A configuration is its fingerprint, a number: 1 .. MaxGene pass         *)
(* ScannerParams.validate, and Seed, the defaults, is below the floor of   *)
(* sweep_threshold_pct.  What a backtest of a configuration gives is a     *)
(* function of the data, chosen once; it is all the cycle sees of it.      *)
(***************************************************************************)
EXTENDS Integers, FiniteSets

CONSTANTS
    Procs,            \* processes, each with a runner and a connection
    NoRow,            \* no row with this fingerprint in evolved_configs
    MaxGene,
    PopulationSize,
    TournamentSize,
    Noise,            \* bound: what a mutation adds
    Evolutions,       \* evolutions_per_cycle
    DrawdownCap,      \* max_drawdown_constraint, in tenths
    SharpeWeight,     \* sharpe_weight and dd_weight, in tenths
    DrawdownWeight,
    Outcomes,         \* what a backtest or a live session may give
    Worlds,           \* the data: the outcome of each configuration
    MaxCycles,        \* bound: cycles and live scorings
    MaxStarts         \* bound: process starts

Seed == 0
Genes == 1 .. MaxGene
Positions == 1 .. PopulationSize

\* A curve of fewer than three points is short; sharpe and drawdown in tenths.
Outcome == [raises : BOOLEAN, short : BOOLEAN, sharpe : Int, drawdown : Nat]

\* The fitness of a configuration rejected for its drawdown, -inf.
Rejected == -10000

ASSUME MetaLearningAssumption ==
    /\ MaxGene \in Nat \ {0} /\ PopulationSize \in Nat \ {0, 1}
    /\ Noise \subseteq Int
    /\ TournamentSize \in Nat \ {0} /\ Evolutions \in Nat
    /\ DrawdownCap \in Nat /\ SharpeWeight \in Nat /\ DrawdownWeight \in Nat
    /\ Outcomes \subseteq Outcome
    /\ Worlds \subseteq [train : [Genes -> Outcomes], val : [{Seed} \union Genes -> Outcomes]]
    /\ MaxCycles \in Nat /\ MaxStarts \in Nat
    /\ NoRow \notin [active : BOOLEAN, by : Procs, source : {"cycle", "live"}]

VARIABLES
    world,       \* train_dfs and val_dfs
    walkForward, \* use_walk_forward of the runners
    population,  \* GeneticOptimizer._population of each process, a sequence
    runner,      \* where each process is, and the locals of its call
    applied,     \* MetaLearningRunner._applied of each process
    injected,    \* which runners were given MoE weights
    configs,     \* the evolved_configs table, by config_fingerprint
    weights,     \* the moe_weights table: who wrote to it, and from where
    cycles, starts

tables == <<configs, weights>>
setting == <<world, walkForward>>
vars == <<setting, population, runner, applied, injected, tables, cycles, starts>>

At(pc) == [pc |-> pc, scores |-> [c \in {} |-> 0], gens |-> 0,
           elite |-> Seed, source |-> "cycle"]

Moves(p, locals) == runner' = [runner EXCEPT ![p] = locals]

Init ==
    /\ world \in Worlds /\ walkForward \in BOOLEAN
    /\ population = [p \in Procs |-> [i \in Positions |-> 1]]
    /\ runner = [p \in Procs |-> At("down")]
    /\ applied = [p \in Procs |-> {}]
    /\ injected = [p \in Procs |-> FALSE]
    /\ configs = [c \in Genes |-> NoRow]
    /\ weights = {}
    /\ cycles = 0 /\ starts = 0

-----------------------------------------------------------------------------
(* Fitness.                                                                *)

\* 0.6 sharpe + 0.4 (1 - drawdown), in hundredths.
Fitness(o) ==
    IF o.short THEN 0
    ELSE IF o.drawdown > DrawdownCap THEN Rejected
    ELSE SharpeWeight * o.sharpe + DrawdownWeight * (10 - o.drawdown)

\* The second value of compute_fitness, in hundredths.
Sharpe(o) == IF o.short \/ o.drawdown > DrawdownCap THEN 0 ELSE 10 * o.sharpe

TrainFitness(c) == Fitness(world.train[c])

\* The scores of a whole population, by fingerprint.
ScoresOf(pop) == [c \in {pop[i] : i \in Positions} |-> TrainFitness(c)]

\* Backtesting the population on the training data raises at some individual.
ScoringRaises(pop) == \E i \in Positions : world.train[pop[i]].raises

\* A backtest stores the MoE weights after each of its trades.
WeightsOfBacktests(p, outcomes) ==
    IF \E o \in outcomes : ~o.short THEN {<<p, "backtest">>} ELSE {}

TrainOutcomes(pop) == {world.train[pop[i]] : i \in Positions}

-----------------------------------------------------------------------------
(* GeneticOptimizer.                                                       *)

Clip(v) == IF v < 1 THEN 1 ELSE IF v > MaxGene THEN MaxGene ELSE v

Mutate(c) == {Clip(c + d) : d \in Noise}

Crossover(a, b) == {x \in Genes : (a <= x /\ x <= b) \/ (b <= x /\ x <= a)}

\* An individual the scores do not name counts as 0.
ScoreOf(scores, c) == IF c \in DOMAIN scores THEN scores[c] ELSE 0

\* i comes before j in the stable sort by descending score.
Ahead(pop, scores, i, j) ==
    LET si == ScoreOf(scores, pop[i])
        sj == ScoreOf(scores, pop[j])
    IN  si > sj \/ (si = sj /\ i < j)

Competitors == IF TournamentSize < PopulationSize THEN TournamentSize ELSE PopulationSize

\* Winners of a tournament: enough others do no better.
Selected(pop, scores) ==
    {pop[i] : i \in {i \in Positions :
        Cardinality({j \in Positions : ScoreOf(scores, pop[j]) <= ScoreOf(scores, pop[i])})
            >= Competitors}}

Children(pop, scores) ==
    UNION {UNION {Mutate(x) : x \in Crossover(a, b)} :
               a \in Selected(pop, scores), b \in Selected(pop, scores)}

\* The top two survive unchanged, in order; the others are their successors.
Evolved(pop, scores) ==
    {next \in [Positions -> {pop[i] : i \in Positions} \union Children(pop, scores)] :
        /\ \E a, b \in Positions :
              /\ a # b
              /\ \A j \in Positions \ {a} : Ahead(pop, scores, a, j)
              /\ \A j \in Positions \ {a, b} : Ahead(pop, scores, b, j)
              /\ next[1] = pop[a] /\ next[2] = pop[b]
        /\ \A i \in Positions \ {1, 2} : next[i] \in Children(pop, scores)}

-----------------------------------------------------------------------------
(* Processes.                                                              *)

\* The constructor perturbs the default configuration and clips the result.
Start(p) ==
    /\ runner[p].pc = "down" /\ starts < MaxStarts
    /\ starts' = starts + 1
    /\ \E pop \in [Positions -> Mutate(Seed)] :
          population' = [population EXCEPT ![p] = pop]
    /\ Moves(p, At("idle"))
    /\ applied' = [applied EXCEPT ![p] = {}]
    /\ injected' = [injected EXCEPT ![p] = FALSE]
    /\ UNCHANGED <<setting, tables, cycles>>

Crash(p) ==
    /\ runner[p].pc # "down"
    /\ Moves(p, At("down"))
    /\ UNCHANGED <<setting, population, applied, injected, tables, cycles, starts>>

-----------------------------------------------------------------------------
(* run_meta_learning_cycle and run_cycle.                                  *)

\* The population is scored; an error of a backtest leaves run_cycle.
RunCycle(p) ==
    LET pop == population[p]
    IN  /\ runner[p].pc = "idle" /\ cycles < MaxCycles
        /\ cycles' = cycles + 1
        /\ injected' = [injected EXCEPT ![p] = TRUE]
        /\ weights' = weights \union WeightsOfBacktests(p, TrainOutcomes(pop))
        /\ Moves(p, IF ScoringRaises(pop) THEN At("idle")
                    ELSE [At("evolve") EXCEPT !.scores = ScoresOf(pop)])
        /\ UNCHANGED <<setting, population, applied, configs, starts>>

\* Each generation is scored again before the next one.
EvolveKeepsScores(p) ==
    /\ runner[p].pc = "evolve" /\ runner[p].gens < Evolutions
    /\ \E pop \in Evolved(population[p], runner[p].scores) :
          /\ population' = [population EXCEPT ![p] = pop]
          /\ weights' = weights \union WeightsOfBacktests(p, TrainOutcomes(pop))
          /\ Moves(p, [runner[p] EXCEPT !.gens = @ + 1])
    /\ UNCHANGED <<setting, applied, injected, configs, cycles, starts>>

Evolve(p) ==
    /\ runner[p].pc = "evolve" /\ runner[p].gens < Evolutions
    /\ \E pop \in Evolved(population[p], runner[p].scores) :
          /\ population' = [population EXCEPT ![p] = pop]
          /\ weights' = weights \union WeightsOfBacktests(p, TrainOutcomes(pop))
          /\ Moves(p, IF ScoringRaises(pop) THEN At("idle")
                      ELSE [runner[p] EXCEPT !.scores = ScoresOf(pop), !.gens = @ + 1])
    /\ UNCHANGED <<setting, applied, injected, configs, cycles, starts>>

\* The elite's fitness against the baseline's Sharpe ratio.
Accepts(elite) ==
    /\ Fitness(world.val[elite]) # Rejected
    /\ Fitness(world.val[elite]) > Sharpe(world.val[Seed])

\* A slip: the elite that was validated is the one before the generation.
ValidatesOldElite(p) ==
    LET pop == population[p]
    IN  /\ walkForward
        /\ runner[p].pc = "evolve" /\ runner[p].gens = Evolutions
        /\ \E next \in Evolved(pop, ScoresOf(pop)) :
              /\ population' = [population EXCEPT ![p] = next]
              /\ Moves(p, IF Accepts(pop[1]) THEN [At("deactivate") EXCEPT !.elite = next[2]]
                          ELSE At("idle"))
        /\ UNCHANGED <<setting, applied, injected, tables, cycles, starts>>

\* validate_walk_forward backtests the defaults, scores the population once
\* more, evolves it once more and validates the new elite. It always takes the
\* default limit and weights of compute_fitness, not those of the runner: a model
\* of a runner whose fields have their default values, which are the same.
ValidateWalkForward(p) ==
    LET pop == population[p]
        fails == world.val[Seed].raises \/ ScoringRaises(pop)
        seen == {world.val[Seed]} \union TrainOutcomes(pop)
    IN  /\ walkForward
        /\ runner[p].pc = "evolve" /\ runner[p].gens = Evolutions
        /\ \/ /\ fails
              /\ Moves(p, At("idle"))
              /\ weights' = weights \union WeightsOfBacktests(p, seen)
              /\ UNCHANGED population
           \/ /\ ~fails
              /\ \E next \in Evolved(pop, ScoresOf(pop)) :
                    /\ population' = [population EXCEPT ![p] = next]
                    /\ weights' = weights \union
                                  WeightsOfBacktests(p, seen \union {world.val[next[1]]})
                    /\ Moves(p, IF ~world.val[next[1]].raises /\ Accepts(next[1])
                                THEN [At("deactivate") EXCEPT !.elite = next[1]]
                                ELSE At("idle"))
        /\ UNCHANGED <<setting, applied, injected, configs, cycles, starts>>

\* Without validation the elite is applied as it is.
SkipValidation(p) ==
    /\ ~walkForward
    /\ runner[p].pc = "evolve" /\ runner[p].gens = Evolutions
    /\ Moves(p, [At("deactivate") EXCEPT !.elite = population[p][1]])
    /\ UNCHANGED <<setting, population, applied, injected, tables, cycles, starts>>

\* score_live_trades knows the fitness of the current configuration only, and
\* applies what evolves from it without validation.
ScoreLiveTrades(p) ==
    /\ runner[p].pc = "idle" /\ cycles < MaxCycles
    /\ cycles' = cycles + 1
    /\ \E o \in Outcomes :
          /\ ~o.raises /\ ~o.short
          /\ \E next \in Evolved(population[p], [c \in {population[p][1]} |-> Fitness(o)]) :
                /\ population' = [population EXCEPT ![p] = next]
                /\ Moves(p, [At("deactivate") EXCEPT !.elite = next[1], !.source = "live"])
    /\ UNCHANGED <<setting, applied, injected, tables, starts>>

-----------------------------------------------------------------------------
(* _apply_config: save_evolved_config, save_moe_weights, _applied.         *)

\* A slip: the rows a process finds active stay so.
NoDeactivation(p) ==
    /\ runner[p].pc = "deactivate"
    /\ Moves(p, [runner[p] EXCEPT !.pc = "insert"])
    /\ UNCHANGED <<setting, population, applied, injected, tables, cycles, starts>>

DeactivateAll(p) ==
    /\ runner[p].pc = "deactivate"
    /\ configs' = [c \in Genes |->
                      IF configs[c] = NoRow THEN NoRow
                      ELSE [configs[c] EXCEPT !.active = FALSE]]
    /\ Moves(p, [runner[p] EXCEPT !.pc = "insert"])
    /\ UNCHANGED <<setting, population, applied, injected, weights, cycles, starts>>

Row(p) == [active |-> TRUE, by |-> p, source |-> runner[p].source]

\* The fingerprint is unique: a second row for a configuration raises.
InsertConfig(p) ==
    LET c == runner[p].elite
    IN  /\ runner[p].pc = "insert"
        /\ \/ /\ configs[c] = NoRow
              /\ configs' = [configs EXCEPT ![c] = Row(p)]
              /\ Moves(p, [runner[p] EXCEPT !.pc = "weights"])
           \/ /\ configs[c] # NoRow
              /\ Moves(p, At("idle"))
              /\ UNCHANGED configs
        /\ UNCHANGED <<setting, population, applied, injected, weights, cycles, starts>>

SaveWeights(p) ==
    /\ runner[p].pc = "weights"
    /\ weights' = weights \union (IF injected[p] THEN {<<p, "injected">>} ELSE {})
    /\ applied' = [applied EXCEPT ![p] = @ \union {runner[p].elite}]
    /\ Moves(p, At("idle"))
    /\ UNCHANGED <<setting, population, injected, configs, cycles, starts>>

\* Another connection keeps the database locked for longer than the timeout.
DatabaseLocked(p) ==
    /\ \/ runner[p].pc \in {"deactivate", "insert"}
       \/ runner[p].pc = "weights" /\ injected[p]
    /\ \E q \in Procs : q # p
    /\ Moves(p, At("idle"))
    /\ UNCHANGED <<setting, population, applied, injected, tables, cycles, starts>>

-----------------------------------------------------------------------------

Next ==
    \E p \in Procs :
        \/ Start(p)
        \/ Crash(p)
        \/ RunCycle(p)
        \/ Evolve(p)
        \/ ValidateWalkForward(p)
        \/ SkipValidation(p)
        \/ ScoreLiveTrades(p)
        \/ DeactivateAll(p)
        \/ InsertConfig(p)
        \/ SaveWeights(p)
        \/ DatabaseLocked(p)

Spec == Init /\ [][Next]_vars

-----------------------------------------------------------------------------
(* Properties.                                                             *)

\* Scores of any part of the configurations.
Scores == UNION {[D -> {Fitness(o) : o \in Outcomes}] : D \in SUBSET Genes}

Locals == [pc : {"down", "idle", "evolve", "deactivate", "insert", "weights"},
           scores : Scores, gens : 0 .. Evolutions,
           elite : {Seed} \union Genes, source : {"cycle", "live"}]

\* Types: whatever mutation and crossover do, every individual is within the
\* hard bounds that update_config checks.
TypeOK ==
    /\ world \in Worlds /\ walkForward \in BOOLEAN
    /\ population \in [Procs -> [Positions -> Genes]]
    /\ runner \in [Procs -> Locals]
    /\ applied \in [Procs -> SUBSET Genes]
    /\ injected \in [Procs -> BOOLEAN]
    /\ configs \in [Genes -> {NoRow} \union
                       [active : BOOLEAN, by : Procs, source : {"cycle", "live"}]]
    /\ weights \subseteq Procs \X {"backtest", "injected"}
    /\ cycles \in 0 .. MaxCycles /\ starts \in 0 .. MaxStarts

\* The training fitness of a runner's current configuration never falls while
\* it evolves on backtests: elitism keeps the best individual and every
\* generation is ranked by scores of its own (run_cycle, FIX #67).
EliteNeverRegresses ==
    [][\A p \in Procs :
          TrainFitness(population'[p][1]) < TrainFitness(population[p][1])
              => runner[p].pc = "down" \/ runner'[p].source = "live"]_vars

\* What a cycle stores is what it validated: a configuration that broke the
\* drawdown cap on the held-out data, or did not beat the baseline there, is
\* never in the table because of a cycle (run_cycle, validate_walk_forward).
CyclesStoreTheValidated ==
    walkForward =>
        \A c \in Genes :
            configs[c] # NoRow /\ configs[c].source = "cycle" => Accepts(c)

\* A process has at most one active row: with one process there is one active
\* configuration at most, and it takes two between UPDATE and INSERT for the
\* table to have two (save_evolved_config).
OneActivePerProcess ==
    \A c, d \in Genes :
        /\ configs[c] # NoRow /\ configs[d] # NoRow
        /\ configs[c].active /\ configs[d].active /\ configs[c].by = configs[d].by
        => c = d

\* What a runner counts as applied it has stored: the row of the configuration
\* is its own, and if a cycle chose it so are MoE weights (_apply_config).
AppliedIsStored ==
    \A p \in Procs : \A c \in applied[p] :
        /\ configs[c] # NoRow /\ configs[c].by = p
        /\ configs[c].source = "cycle" => <<p, "injected">> \in weights

\* "Persist to MemoryBank (survives process restarts)": when no cycle is at
\* work and one has applied a configuration, some configuration is active.
SomeConfigStaysActive ==
    (/\ \A p \in Procs : runner[p].pc = "idle"
     /\ \E p \in Procs : applied[p] # {})
    => \E c \in Genes : configs[c] # NoRow /\ configs[c].active

=============================================================================
