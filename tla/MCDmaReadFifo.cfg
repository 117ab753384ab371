SPECIFICATION FairSpec
CONSTANTS
    maxReqSize = 3
    fifoSize = 8
    maxPending = 3
    lineSize = 4
    linePitch = 5
    numLines = 3
    pixelSize = 2
    MaxFrames = 3
INVARIANTS
    FifoExact
    CallbacksExact
    DrainedNothingPending
PROPERTIES
    FrameEnds
    FifoDrainEnds
