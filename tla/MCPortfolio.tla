------------------------------ MODULE MCPortfolio ------------------------------
(* What decides on a trade and weighs it, on a small instance: the risk     *)
(* guard, the two halves of portfolio_matrix.py, the persona allocator, the *)
(* rules of what to trade, the trade planner and the three-phase decision.  *)
EXTENDS RiskGuard, PortfolioMatrix, PairsTrading, Allocator, Analyst, TradePlan, ThreePhase

CONSTANTS btc, eth

\* 900, 9500 and 10400 USD: below the floor, the capital, and a gain from which
\* falling back is a loss of 8.7 %.
EquitySet == {9, 95, 104}

\* The caps of config/risk_limits.yaml, live mode.
TotalCaps == [t \in BOOLEAN |-> IF t THEN 300 ELSE 500]
LeverageCaps == [low_risk |-> 15, moderate_risk |-> 10, high_risk |-> 5]
LeastDistances == [major |-> 15, small |-> 25]

Trade(s, n) == [symbol |-> s, notional |-> n, leverage |-> 5,
                environment |-> "high_risk", distance |-> 30,
                coin |-> "small", training |-> TRUE]

\* A trade within every limit, one that adds to the alt cap, and one that breaks
\* the leverage, liquidation and minimum-notional limits at once.
ProposalSet ==
    {Trade(btc, 20), Trade(eth, 20),
     [Trade(btc, 0) EXCEPT !.leverage = 20, !.distance = 10]}

\* A trade loses twice what it may win.
EpochReturnSet == {-2, 1}

\* Down to the stop of the wider ATR and beyond, none, and up again.
MoveSet == {-12, 0, 12}

\* Around each threshold on either side.
ChangeSet == {-6, -3, -1, 0, 1, 3, 4}

\* All criteria met but perhaps the risk/reward, and a better one with a check failed.
SetupSet ==
    {[structure |-> TRUE, macro |-> TRUE, invalidation |-> TRUE, rr |-> 15],
     [structure |-> TRUE, macro |-> FALSE, invalidation |-> TRUE, rr |-> 20]}

\* They share no state, so a behaviour of one says nothing of the others: each
\* is explored with the others left as they started.
matrixIdle == positions = <<>> /\ updates = [a \in Assets |-> 0]
pairsIdle == spreads = <<>>
allocatorIdle == epochs = 0
deskIdle == ticks = 1 /\ order = NoOrder /\ chart = <<Candle(Min(Ticks))>>
analystIdle == ~advice.given

phaseIdle == \A s \in Watched : shock[s].status = "none"

guardIdle == Init

othersVars == <<matrixVars, pairsVars, allocatorVars, deskVars, advice, phaseVars>>
othersIdle == matrixIdle /\ pairsIdle /\ allocatorIdle /\ deskIdle /\ analystIdle /\ phaseIdle

PortfolioInit ==
    Init /\ MatrixInit /\ PairsInit /\ AllocatorInit /\ DeskInit /\ AnalystInit /\ PhaseInit

PortfolioNext ==
    \/ othersIdle /\ Next /\ UNCHANGED othersVars
    \/ /\ guardIdle /\ UNCHANGED vars
       /\ \/ pairsIdle /\ allocatorIdle /\ deskIdle /\ analystIdle /\ phaseIdle
             /\ MatrixNext /\ UNCHANGED <<pairsVars, allocatorVars, deskVars, advice, phaseVars>>
          \/ matrixIdle /\ allocatorIdle /\ deskIdle /\ analystIdle /\ phaseIdle
             /\ PairsNext /\ UNCHANGED <<matrixVars, allocatorVars, deskVars, advice, phaseVars>>
          \/ matrixIdle /\ pairsIdle /\ deskIdle /\ analystIdle /\ phaseIdle
             /\ AllocatorNext /\ UNCHANGED <<matrixVars, pairsVars, deskVars, advice, phaseVars>>
          \/ matrixIdle /\ pairsIdle /\ allocatorIdle /\ analystIdle /\ phaseIdle
             /\ DeskNext /\ UNCHANGED <<matrixVars, pairsVars, allocatorVars, advice, phaseVars>>
          \/ matrixIdle /\ pairsIdle /\ allocatorIdle /\ deskIdle /\ phaseIdle
             /\ AnalystNext /\ UNCHANGED <<matrixVars, pairsVars, allocatorVars, deskVars, phaseVars>>
          \/ matrixIdle /\ pairsIdle /\ allocatorIdle /\ deskIdle /\ analystIdle
             /\ PhaseNext /\ UNCHANGED <<matrixVars, pairsVars, allocatorVars, deskVars, advice>>

PortfolioSpec == PortfolioInit /\ [][PortfolioNext]_<<vars, othersVars>>
=============================================================================
