SPECIFICATION SpmSpec
CONSTANTS
    Granule <- MCGranule
    Value = {0, 1}
    Ctx = {}
    NoCtx = NoCtx
    Writeable = TRUE
    Requests <- MCRequests
    FunctionalRequests <- MCFunctional
    DmaRequests <- DmaSide
    Bandwidth = 1
    Delays = {1}
    DmaDelays = {0, 2}
    MaxQueue = 1
    MaxDmaQueue = 2
PROPERTIES FunctionalWriteEverywhere
