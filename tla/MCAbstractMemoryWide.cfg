SPECIFICATION MemSpec
CONSTANTS
    Granule <- MCGranule
    Value <- MCValue
    Ctx = {c1, c2, c3}
    NoCtx = NoCtx
    Writeable = TRUE
    Requests <- MCWideRequests
    FunctionalRequests <- MCFunctional
INVARIANTS
    ReservationSound
