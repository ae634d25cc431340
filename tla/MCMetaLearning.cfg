SPECIFICATION Spec
CONSTANTS
    p1 = p1
    p2 = p2
    NoRow = NoRow
    Procs <- MCProcs
    MaxGene = 3
    PopulationSize = 3
    TournamentSize = 2
    Noise <- MCNoise
    Evolutions = 2
    DrawdownCap = 2
    SharpeWeight = 6
    DrawdownWeight = 4
    Outcomes <- MCOutcomes
    Worlds <- MCWorlds
    MaxCycles = 2
    MaxStarts = 2
INVARIANTS CyclesStoreTheValidated OneActivePerProcess
PROPERTIES EliteNeverRegresses
CHECK_DEADLOCK FALSE
