SPECIFICATION FairIdmaSpec
CONSTANTS
    AddrSpace = 64
    Id = {1, 2, 3, 4}
    Callback <- MCCallback
    CacheLineSize = 2
    NoPacket = NoPacket
    PageSize = 4
    PageTable <- MCPageTable
    NoLoop = NoLoop
    PhysAddr <- MCPhysAddr
    BufferSize = 6
    RegSpace = 16
    MaxLive = 1
    Jobs <- MCJobs
    Patient = TRUE
INVARIANTS
    StatusTracksTransfer
PROPERTIES
    ImplementsCopy
    DriverReturns
