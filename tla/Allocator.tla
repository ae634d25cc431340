------------------------------- MODULE Allocator -------------------------------
(***************************************************************************)
(* DynamicAllocator: the rolling returns and positions of each persona, its *)
(* fitness, and who outweighs whom. The softmax keeps the order of the      *)
(* fitnesses, so a weight is its rank, and fitness, a product with one      *)
(* square root, is kept as its square, a fraction with the sign of the mean *)
(* return. The annualising factor under the root is the same everywhere and *)
(* left out.                                                                *)
(***************************************************************************)
EXTENDS Integers, Sequences, Functions

CONSTANTS
    Voters,       \* personas
    EpochReturns, \* returns of a trade tried
    Stakes,       \* confidence times leverage as a multiple of the capital
    Window,       \* lookback
    Penalty,      \* 365 times penalty_factor
    MaxEpochs     \* epochs of an instance: a bound

AllocatorAssumption ==
    /\ EpochReturns \subseteq Int /\ Stakes \subseteq Nat
    /\ Window \in Nat \ {0} /\ Penalty \in Nat /\ MaxEpochs \in Nat
ASSUME AllocatorAssumption

VARIABLES
    rolling,   \* returns_history and position_history of each persona, one record per epoch
    wonOf,     \* wins and losses of each persona since the beginning
    fitness,   \* fitness_score of each persona
    epochs     \* epochs recorded

allocatorVars == <<rolling, wonOf, fitness, epochs>>

AllocatorInit ==
    /\ rolling = [p \in Voters |-> <<>>]
    /\ wonOf = [p \in Voters |-> [wins |-> 0, losses |-> 0]]
    /\ fitness = [p \in Voters |-> [num |-> 0, den |-> 1]]
    /\ epochs = 0

Over(h, Term(_)) == SumFunction([i \in DOMAIN h |-> Term(h[i])])
Signed(n) == IF n < 0 THEN -1 ELSE IF n > 0 THEN 1 ELSE 0

\* calculate_sortino, squared: the mean over the deviation below zero, or over
\* the whole deviation if nothing is below zero, or 0 if nothing varies.
Sortino(h) ==
    LET n == Len(h)
        total == Over(h, LAMBDA e : e.ret)
        squares == Over(h, LAMBDA e : e.ret * e.ret)
        below == Over(h, LAMBDA e : IF e.ret < 0 THEN e.ret * e.ret ELSE 0)
        spread == n * squares - total * total
    IN  IF below > 0 THEN [num |-> Signed(total) * total * total, den |-> n * below]
        ELSE IF spread = 0 THEN [num |-> 0, den |-> 1]
        ELSE [num |-> Signed(total) * total * total * (n - 1), den |-> n * spread]

\* The factor 1 + penalty_factor * turnover over the periods of the window.
Churn(h) ==
    SumFunction([i \in 1 .. Len(h) - 1 |-> LET d == h[i + 1].pos - h[i].pos
                                           IN  IF d < 0 THEN -d ELSE d])

Squared(n) == n * n

\* A negative ratio is kept.
Unfloored(ratio, w, h) ==
    LET played == IF w.wins + w.losses = 0 THEN 1 ELSE w.wins + w.losses
    IN  [num |-> ratio.num * Squared(w.wins * (Len(h) - 1)),
         den |-> ratio.den * Squared(played * (Len(h) - 1 + Penalty * Churn(h)))]

\* calculate_fitness: never negative. The win rate counts every epoch there
\* ever was, the rest only those of the window.
Composite(ratio, w, h) ==
    IF ratio.num <= 0 THEN [num |-> 0, den |-> 1]
    ELSE LET played == IF w.wins + w.losses = 0 THEN 1 ELSE w.wins + w.losses
         IN  [num |-> ratio.num * Squared(w.wins * (Len(h) - 1)),
              den |-> ratio.den * Squared(played * (Len(h) - 1 + Penalty * Churn(h)))]

\* allocate: below two epochs the fitness stays what it was.
Allocate ==
    /\ fitness' = [p \in Voters |-> IF Len(rolling[p]) < 2 THEN fitness[p]
                                    ELSE Composite(Sortino(rolling[p]), wonOf[p], rolling[p])]
    /\ UNCHANGED <<rolling, wonOf, epochs>>

Outweighs(f, p, q) == f[p].num * f[q].den > f[q].num * f[p].den

\* update_all: one more epoch for every persona, the oldest dropped.
UpdateAll(ret, pos) ==
    /\ epochs < MaxEpochs /\ epochs' = epochs + 1
    /\ rolling' = [p \in Voters |->
                      LET all == Append(rolling[p], [ret |-> ret[p], pos |-> pos[p]])
                      IN  IF Len(all) > Window THEN Tail(all) ELSE all]
    /\ wonOf' = [p \in Voters |-> [wins |-> wonOf[p].wins + (IF ret[p] > 0 THEN 1 ELSE 0),
                                   losses |-> wonOf[p].losses + (IF ret[p] < 0 THEN 1 ELSE 0)]]
    /\ UNCHANGED fitness

\* After a trade a persona that voted for it gets its return, one that voted
\* against it the opposite.
AfterTrade ==
    \E r \in EpochReturns, vote \in [Voters -> {-1, 0, 1}], stake \in [Voters -> Stakes] :
        UpdateAll([p \in Voters |-> vote[p] * r],
                  [p \in Voters |-> IF vote[p] = 0 THEN 0 ELSE stake[p]])

\* An epoch without a trade counts as flat; if the blended vote was too weak
\* every persona is booked as holding the whole capital all the same.
AfterSkip ==
    \E held \in {0, 1} : UpdateAll([p \in Voters |-> 0], [p \in Voters |-> held])

AllocatorNext == Allocate \/ AfterTrade \/ AfterSkip

AllocatorSpec == AllocatorInit /\ [][AllocatorNext]_allocatorVars

(***************************************************************************)
(* Properties                                                              *)
(***************************************************************************)

\* Whatever the votes and results were, and whatever has rolled out of the
\* window meanwhile, an allocation prefers no persona to another unless it
\* has earned money over the window: among losers there is no ranking.
OnlyEarnersStandOut ==
    [][fitness' # fitness =>
          \A p, q \in Voters : Outweighs(fitness', p, q) =>
              Over(rolling[p], LAMBDA e : e.ret) > 0]_allocatorVars
=============================================================================
