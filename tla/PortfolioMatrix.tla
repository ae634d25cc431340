---------------------------- MODULE PortfolioMatrix ---------------------------
(***************************************************************************)
(* CorrelationEngine, RiskManager and PortfolioMatrix (src/execution/      *)
(* portfolio_matrix.py): rolling windows of returns, the book of open      *)
(* positions, and the questions asked of them - correlation, beta, heat,   *)
(* the size allowed for a new trade.  The questions change nothing; they   *)
(* are operators over the state, and the properties relate their answers   *)
(* to the book.                                                            *)
(*                                                                         *)
(* Returns are small integers, sizes whole units of quote currency, betas  *)
(* per mille.  A correlation is never computed: it is compared with a      *)
(* threshold by squaring, exactly.                                         *)
(***************************************************************************)
EXTENDS Integers, Sequences, Functions

CONSTANTS
    Assets, Benchmark,     \* symbols, and the one betas refer to (BTCUSDT)
    Returns,               \* observed returns
    Lookback,              \* length of a rolling window
    Sizes,                 \* notional sizes of positions
    Equity, MaxPositions,
    MaxUpdates             \* bound: observations per asset

ASSUME PortfolioMatrixAssumption ==
    /\ Benchmark \in Assets
    /\ Returns \subseteq Int /\ Sizes \subseteq Nat \ {0}
    /\ {Lookback, Equity, MaxPositions} \subseteq Nat \ {0}
    /\ MaxUpdates \in Nat

VARIABLES
    returns,     \* CorrelationEngine._returns
    updates,     \* bound: observations made per asset
    positions    \* PortfolioMatrix.positions, in the order they were added

matrixVars == <<returns, updates, positions>>

Directions == {"LONG", "SHORT"}
Magnitude(x) == IF x < 0 THEN -x ELSE x
Toward(direction) == IF direction = "LONG" THEN 1 ELSE -1

MatrixInit ==
    /\ returns = [a \in Assets |-> <<>>]
    /\ updates = [a \in Assets |-> 0]
    /\ positions = <<>>

-----------------------------------------------------------------------------
(* CorrelationEngine.                                                      *)

\* update: the deque drops its oldest observation when it is full.
Update(a, r) ==
    /\ updates[a] < MaxUpdates
    /\ updates' = [updates EXCEPT ![a] = @ + 1]
    /\ returns' = [returns EXCEPT ![a] =
         IF Len(@) < Lookback THEN Append(@, r) ELSE Append(Tail(@), r)]
    /\ UNCHANGED positions

\* Both series are cut to the length of the shorter, from the newest end.
Common(a, b) == IF Len(returns[a]) < Len(returns[b]) THEN Len(returns[a]) ELSE Len(returns[b])
Newest(a, n) == SubSeq(returns[a], Len(returns[a]) - n + 1, Len(returns[a]))

\* n times the sum of products of deviations from the means: n^2 times the
\* covariance, and of a series with itself n(n-1) times its sample variance.
Spread(x, y) ==
    LET n == Len(x) IN
    n * SumFunction([k \in 1 .. n |-> x[k] * y[k]]) - SumFunction(x) * SumFunction(y)

OverstatedCorrelation(a, b) ==
    LET n == Common(a, b)
        x == Newest(a, n)
        y == Newest(b, n)
    IN  [numerator |-> n * Spread(x, y),
         square |-> (n - 1) * (n - 1) * Spread(x, x) * Spread(y, y)]

\* get_correlation: numerator over the root of square.  The covariance is divided
\* by n, the variances by n - 1: the Pearson coefficient times (n - 1)/n.
Correlation(a, b) ==
    LET n == Common(a, b)
        x == Newest(a, n)
        y == Newest(b, n)
    IN  [numerator |-> (n - 1) * Spread(x, y), square |-> n * n * Spread(x, x) * Spread(y, y)]

\* What assess_trade asks of a coefficient: above 0.8 is 80, above 0.6 is 60,
\* anything less, or no coefficient at all, is 0.
Grade(r) ==
    LET above(tenths) == 100 * r.numerator * r.numerator > tenths * tenths * r.square IN
    IF r.numerator <= 0 \/ r.square = 0 THEN 0
    ELSE IF above(8) THEN 80 ELSE IF above(6) THEN 60 ELSE 0

\* The comparison is exact; at equality (two identical series of five) the floats
\* of the code may fall on either side of the threshold.
Rho(a, b) == IF Common(a, b) < 2 THEN 0 ELSE Grade(Correlation(a, b))

\* get_beta, per mille.
Beta(a) ==
    LET n == Common(a, Benchmark)
        x == Newest(a, n)
        y == Newest(Benchmark, n)
        v == Spread(y, y)
        c == Spread(x, y)
    IN  IF n < 2 \/ v = 0 THEN 0
        ELSE IF c < 0 THEN -((1000 * (-c)) \div v) ELSE (1000 * c) \div v

-----------------------------------------------------------------------------
(* RiskManager.                                                            *)

\* Sum over the book of f, which is a function on its positions.
OverBook(book, f(_)) == SumFunction([k \in DOMAIN book |-> f(book[k])])

\* check_global_heat, per mille; a VIX above 30 adds half.
Heat(book, vix) ==
    LET heat == OverBook(book, LAMBDA p : Magnitude(p.value) * Magnitude(Beta(p.symbol)))
                  \div Equity
    IN  IF vix > 30 THEN (heat * 3) \div 2 ELSE heat

MaxHeat == 2000

Weigh(direction, symbol, p, pct) ==
    LET rho == Rho(symbol, p.symbol)
        cap == IF rho = 80 THEN 25 ELSE 50
    IN  IF rho = 0 THEN pct
        ELSE IF direction # p.direction THEN 125
        ELSE IF pct < cap THEN pct ELSE cap

\* assess_trade: refused over the heat limit, otherwise the fold of Weigh over
\* the book in the order the positions were added.
Assess(direction, symbol, book) ==
    LET size[k \in 0 .. Len(book)] ==
          IF k = 0 THEN 100 ELSE Weigh(direction, symbol, book[k], size[k - 1])
    IN  IF Heat(book, 20) >= MaxHeat THEN [approved |-> FALSE, size |-> 0]
        ELSE [approved |-> TRUE, size |-> size[Len(book)]]

-----------------------------------------------------------------------------
(* PortfolioMatrix.                                                        *)

\* add_position: RuntimeError when full; a SHORT is kept with a negative value.
\* Nothing ever takes a position out again.
AddPosition(symbol, direction, size) ==
    /\ Len(positions) < MaxPositions
    /\ positions' = Append(positions,
         [symbol |-> symbol, direction |-> direction,
          value |-> Toward(direction) * size])
    /\ UNCHANGED <<returns, updates>>

MatrixNext ==
    \/ \E a \in Assets, r \in Returns : Update(a, r)
    \/ \E a \in Assets, d \in Directions, size \in Sizes : AddPosition(a, d, size)

MatrixSpec == MatrixInit /\ [][MatrixNext]_matrixVars

-----------------------------------------------------------------------------
(* Properties.                                                             *)

\* The coefficient of Pearson, with the same divisor throughout.
Pearson(a, b) ==
    LET n == Common(a, b)
        x == Newest(a, n)
        y == Newest(b, n)
    IN  IF n < 2 THEN 0
        ELSE Grade([numerator |-> Spread(x, y), square |-> Spread(x, x) * Spread(y, y)])

\* The two divisors, and windows of different lengths, never make assess_trade act
\* on a correlation the returns do not have: a size is cut only for a position in
\* the same direction whose Pearson coefficient is above 0.6, to a quarter only
\* above 0.8, and raised only for one in the other direction above 0.6.
CutsAreWarranted ==
    \A a \in Assets, d \in Directions :
       LET answer == Assess(d, a, positions)
           Held(opposite, least) ==
             \E k \in DOMAIN positions :
                /\ (positions[k].direction # d) = opposite
                /\ Pearson(a, positions[k].symbol) >= least
       IN  answer.approved =>
              /\ answer.size < 100 => Held(FALSE, 60)
              /\ answer.size <= 25 => Held(FALSE, 80)
              /\ answer.size > 100 => Held(TRUE, 60)

\* get_correlation "returns Pearson r in [-1, 1]": the square of what it returns is
\* at most one.
CorrelationInRange ==
    \A a, b \in Assets :
       LET r == Correlation(a, b)
       IN  Common(a, b) >= 2 /\ r.square # 0 => r.numerator * r.numerator <= r.square
=============================================================================
