SPECIFICATION FairVirtSpec
CONSTANTS
    AddrSpace = 64
    Id = {1, 2, 3, 4}
    Callback = {c1, c2}
    CacheLineSize = 2
    NoPacket = NoPacket
    PageSize = 4
    PageTable <- MCPageTable
    NoLoop = NoLoop
    AbortAllowed = TRUE
    Transfers <- MCTransfers
INVARIANTS
    SendWakeup
    PendingExact
    BytesConserved
    CallbackExact
PROPERTIES
    TransferCompletes
