SPECIFICATION FairDrainSpec
CONSTANTS
    core = core
    dma = dma
    cpuPort = cpuPort
    dmaPort = dmaPort
    NoPort = NoPort
    Requestor <- MCRequestor
    Memory <- MCMemory
    Refusing = {cpuPort}
    Squashing = {core}
    MaxOutstanding <- MCOutstanding
    Payloads = {2}
    responseLatency = 0
    MemLatency = 1
    Bandwidth = 2
INVARIANTS
    LayerWakeup
    WaitsOnce
    RouteExact
    DrainCountExact
    DrainedMeansQuiet
PROPERTIES
    EveryRequestAnswered
    DrainEnds
