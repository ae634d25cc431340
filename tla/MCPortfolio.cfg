SPECIFICATION PortfolioSpec
CHECK_DEADLOCK FALSE
CONSTANTS
    btc = btc
    eth = eth
    Assets = {btc, eth}
    Benchmark = btc
    Returns = {0, 1}
    Lookback = 4
    Sizes = {3}
    Equity = 4
    MaxPositions = 2
    MaxUpdates = 5
    Entries = {0, 20, 60}
    Atrs = {0, 1, 4}
    Threshold = 65
    Confidences = {64, 65}
    SpreadEquity = 500
    RiskPct = 2
    MinLegNotional = 50
    Moves <- MoveSet
    MaxSpreads = 1
    MaxClosings = 2
    Voters = {smc, flow}
    EpochReturns <- EpochReturnSet
    Stakes = {1}
    Window = 3
    Penalty = 4
    MaxEpochs = 4
    Changes <- ChangeSet
    Strengths = {0, 2}
    Ticks = {2, 3, 4, 7}
    Bins = 3
    Lot = 6
    Nodes = 2
    RecentWindow = 2
    MaxCandles = 3
    MaxTicks = 4
    DeskEquity = 1000
    Watched = {btc, eth}
    Entry = 1000
    Quotes = {992, 1000, 1004, 1008}
    TriggerBps = 50
    Patience = 1
    Setups <- SetupSet
    Leasts = {15, 20}
    Symbols = {btc, eth}
    BetaSymbols = {btc}
    Equities <- EquitySet
    InitialCapital = 95
    MinimumEquity = 10
    HaltPct = 8
    HardStopPct = 5
    FlattenPct = 5
    Cooldown = 2
    MaxNotional = 50
    TotalCapPct <- TotalCaps
    BetaCapPct = 50
    AltCapPct = 30
    MaxLeverage <- LeverageCaps
    MinDistance <- LeastDistances
    MinNotional = 1
    Proposals <- ProposalSet
    FillNotionals = {20}
    MaxStops = 2
    MaxOpen = 20
PROPERTIES
    OnlyEarnersStandOut
    GateImplemented
INVARIANTS
    NoApprovalWhileShut
    CutsAreWarranted
    ResultIsSignOfPnL
    CapsHoldTogether
    PlansFaceTheirTarget
    AnalystsAgree
    EntriesKeepFaith
