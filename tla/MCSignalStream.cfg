SPECIFICATION Spec
CONSTANTS
    c1 = c1
    c2 = c2
    Nobody = Nobody
    Consumers <- MCConsumers
    LastEntry = 3
    MaxFlying = 1
    MaxLen = 2
    BatchSize = 2
INVARIANT ProcessedOnce
PROPERTIES EveryEntryIsRead
