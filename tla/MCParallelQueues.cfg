SPECIFICATION FairSpec
CONSTANTS
    numMainEventQueues = 2
    simQuantum = 2
    Exit = {"exit1", "exit2"}
    NumCycles = {3}
    Horizon = 5
    Start = {0, 1}
    Delays = {0, 1}
    MaxLocal = 1
    MaxMigrations = 1
INVARIANTS
    NotInThePast
    ProcessedAlone
    SameGlobalOrder
    QuantumEventFound
CHECK_DEADLOCK FALSE
PROPERTY SimulateReturns
