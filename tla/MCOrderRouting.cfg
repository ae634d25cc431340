SPECIFICATION MCSpec
CONSTANTS
    TwapTotal = 4
    Slices = 2
    VwapTotal = 50
    Curve <- MCCurve
    BaseRates = {5, 40}
    FloorRate = 10
    RateStep = 5
    Volumes = {0, 3000}
    Prices = {7}
    MarketQty = 1
    MaxOps = 4
    QueueOrders = {1, 2}
    Reconcilers = {thread, caller}
    Zones <- MCZones
    Bases = {100}
    Retracements = {0, 50}
INVARIANTS
    RemainingIsAccounted
    NoFillEscapes
    NoOrderVanishes
CHECK_DEADLOCK FALSE
