SPECIFICATION LimiterSpec
CHECK_DEADLOCK FALSE
CONSTANTS
    Waiters = {c1, c2}
    MaxPermits = 2
PROPERTIES
    NoCallerBlocksForever
