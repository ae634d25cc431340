SPECIFICATION Spec
CONSTANTS
    buy = buy
    sell = sell
    r1 = r1
    r2 = r2
    Trader = Trader
    NoThread = NoThread
    Intents <- MCIntents
    Threads <- MCThreads
    MaxRetries = 2
    Qty = 2
INVARIANTS OneOrderPerIntent TrackerIsHonest QueueIsWatched
PROPERTIES ClosedOrdersLeave
