SPECIFICATION IdmaSpec
CONSTANTS
    AddrSpace = 64
    Id = {1, 2, 3, 4}
    Callback <- MCCallback
    CacheLineSize = 2
    NoPacket = NoPacket
    PageSize = 4
    PageTable <- MCPageTable
    NoLoop = NoLoop
    PhysAddr <- MCPhysAddr
    BufferSize = 6
    RegSpace = 16
    MaxLive = 2
    Jobs <- MCSmallJobs
    Patient = FALSE
INVARIANTS
    OneTransferAtATime
