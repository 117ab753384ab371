SPECIFICATION MemSpec
CONSTANTS
    Granule <- MCGranule
    Value <- MCValue
    Ctx = {c1, c2, c3}
    NoCtx = NoCtx
    Writeable = TRUE
    Requests <- MCRequests
    FunctionalRequests <- MCFunctional
INVARIANTS
    ReservationSound
    ReservationKept
