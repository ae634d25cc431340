SPECIFICATION Spec
CONSTANTS
    LastOrder = 2
    Side <- MCSide
    Slices = 5
    MaxMarket = 1
INVARIANTS FillsAddUp GuardKeepsUp
PROPERTIES EveryOrderSettles
