SPECIFICATION MCSpec
CONSTANTS
    IdSpan = 5
    kMaxUnackedFrames = 2
    kAllPacketsLost = 9
    InitialPlayoutDelay = 1
    NoFrame = NoFrame
    MaxLag = 2
    MaxRtcpInFlight = 1
    MaxFrameId = 2
    FrameKinds <- LossyKinds
INVARIANTS
    ReadyFrameStays
    CheckpointExact
    OldestFrameNeverCanceled
    NoLostWakeup
    PlayoutDelaysAgree
PROPERTIES
    ImplementsFrameDelivery
