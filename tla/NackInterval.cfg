SPECIFICATION MCSpec
CONSTANTS
    IdSpan = 5
    kMaxUnackedFrames = 2
    kAllPacketsLost = 9
    InitialPlayoutDelay = 1
    NoFrame = NoFrame
    MaxLag = 2
    MaxRtcpInFlight = 1
    MaxFrameId = 1
    FrameKinds <- PartKinds
PROPERTIES
    NackFeedbackIsFrequent
