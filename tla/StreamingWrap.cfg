SPECIFICATION MCSpec
CONSTANTS
    IdSpan = 7
    kMaxUnackedFrames = 3
    kAllPacketsLost = 9
    InitialPlayoutDelay = 1
    NoFrame = NoFrame
    MaxLag = 3
    MaxRtcpInFlight = 2
    MaxFrameId = 7
    FrameKinds <- WrapKinds
INVARIANTS
    ChunksBelongToFrame
    NothingCanceledEarly
    KnownFramesAreExpected
    PlayoutReportable
