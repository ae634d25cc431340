SPECIFICATION Spec
CONSTANTS
    btc = btc
    eth = eth
    smc = smc
    flow = flow
    macro = macro
    Symbols = {btc, eth}
    Personas <- MCPersonas
    Votes <- MCVotes
    Events <- MCEvents
    Gaps = {0, 1100}
    InitialEquity = 10000
    MinConfidence = 60
    Compound = TRUE
    WinRateCheck = TRUE
    MinSamples = 2
    Share = 3
    GateTrades = 2
    GatePct = 30
    FeeBps = 4
    MinimumEquity = 1000
    HaltPct = 8
    HardStopPct = 10
    Cooldown = 1
    MaxNotional = 10000
    TotalCapPct <- MCTotalCapPct
    MaxLeverage <- MCMaxLeverage
    MinNotional = 5
    MaxStops = 1
    MaxRuns = 2
    MaxEvents = 3
INVARIANTS
    CurveMatchesEquity
    TradesAreBacked
    ResultsMatchPnL
PROPERTIES
    NoTradeInDrawdown
CHECK_DEADLOCK FALSE
