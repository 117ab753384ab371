SPECIFICATION FairSpmSpec
CONSTANTS
    Granule <- MCGranule
    Value = {0}
    Ctx = {}
    NoCtx = NoCtx
    Writeable = TRUE
    Requests <- PortRequests
    FunctionalRequests <- MCFunctional
    DmaRequests <- DmaPortSide
    Bandwidth = 1
    Delays = {0, 3}
    DmaDelays = {0, 2}
    MaxQueue = 3
    MaxDmaQueue = 2
INVARIANTS
    ResponseWakeup
    NotBeforeItsTime
    SameAddressInOrder
    DmaResponseWakeup
PROPERTIES
    RefusedIsRetried
    OldestReachesHead
    DmaAlwaysAnswered
