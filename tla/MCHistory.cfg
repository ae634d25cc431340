SPECIFICATION Spec
CHECK_DEADLOCK FALSE
CONSTANTS
    btc = btc
    alt = alt
    SymbolList <- BtcThenAlt
    Majors = {btc}
    Prices = {920, 957, 1000, 1055, 1064}
    Supports = {940, 969}
    Resistances = {1042}
    ATRs = {20}
    InitialEquity = 1000
    FeeBps = 10
    SlipBps = 5
    MaxBars <- TwoOrThreeBars
    Candles <- Shapes
    Configs <- Proposals
    DefaultConfig <- Default
    Schema <- Bounds
    MaxCandles = 6
INVARIANTS
    NothingOverstays
    StoppedWithinRisk
    DrawdownCoversLoss
    StricterFindsFewer
PROPERTIES
    EventsAreFinal
    KeepsLedger
