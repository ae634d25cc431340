CONSTANTS
    LastCandle = 4
    Listed = 1
    PageSize = 2
    Retries = 2
    MaxPages = 2
    MaxFetches = 2
    Limits = {0, 3}
    Callers = {c1, c2}
    Prompts = {p}
    Answers <- AnswersTried
    MaxRetries = 2
    FailuresMax = 2
    Cooldown = 2
    CacheTtl = 1
    Symbols = {btc}
    Threads = {t1, t2}
    BufferSize = 2
    MaxMessages = 4
    Limit = 2
    Users = {u1, u2}
    Metrics <- MetricsAsked
    MaxEntries = 2
    Ttl = 1
    MaxAsked = 3
    Books <- BookSet
    MaxBooks = 2
    MaxBreaks = 1
    smc = smc
    flow = flow
    Engines = {e1, e2}
    Live = {e1}
    Students <- StudentSeq
    Anomalies = {sweep, squeeze}
    PastLimit = 1
    MaxLosses = 2
SPECIFICATION Spec
INVARIANTS
    SeriesIsWhole CacheKeepsTheRecent NoMixedSignals RehearsalStaysOut OutageIsBounded
PROPERTIES GivesUpOldest
CHECK_DEADLOCK FALSE
