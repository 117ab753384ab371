SPECIFICATION WalkSpec
CONSTANTS
    AddrSpace = 32
    Starts <- MCStarts
    Totals <- MCTotals
    Chunks <- MCChunks
    AlignedJumps = TRUE
INVARIANTS
    SizeLeftExact
    WithinBlock
PROPERTIES
    WalkEnds
