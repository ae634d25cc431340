---------------------------- MODULE MCMetaLearning ----------------------------
(* Two processes, three valid configurations and a population of three. *)
EXTENDS MetaLearning

CONSTANTS p1, p2

MCProcs == {p1, p2}
OneProc == {p1}
MCNoise == -2 .. 2

Curve(sharpe, drawdown) ==
    [raises |-> FALSE, short |-> FALSE, sharpe |-> sharpe, drawdown |-> drawdown]

Good == Curve(8, 1)
Poor == Curve(-8, 1)
Wild == Curve(9, 3)
Quiet == [Curve(0, 0) EXCEPT !.short = TRUE]
Fails == [Curve(0, 0) EXCEPT !.raises = TRUE]

MCOutcomes == {Good, Poor, Wild, Quiet, Fails}

World(t1, t2, t3, v0, v1, v2, v3) ==
    [train |-> [c \in 1 .. 3 |-> CASE c = 1 -> t1 [] c = 2 -> t2 [] c = 3 -> t3],
     val |-> [c \in 0 .. 3 |-> CASE c = 0 -> v0 [] c = 1 -> v1 [] c = 2 -> v2 [] c = 3 -> v3]]

MCWorlds ==
    {World(Poor, Good, Quiet, Quiet, Good, Good, Poor),
     World(Good, Wild, Fails, Poor, Good, Good, Good),
     World(Wild, Poor, Good, Quiet, Wild, Good, Fails)}

\* Nobody scores live trades: score_live_trades has no caller in the sources.
CyclesOnly == Init /\ [][Next /\ \A p \in Procs : runner'[p].source = "cycle"]_vars
=============================================================================
