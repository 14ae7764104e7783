SPECIFICATION MCSpecWithCancel
CONSTANTS
    IdSpan = 4
    kMaxUnackedFrames = 3
    kAllPacketsLost = 9
    InitialPlayoutDelay = 1
    NoFrame = NoFrame
    MaxFrameId = 3
    FrameKinds <- MCFrameKinds
    FeedbackMessages <- MCFeedbackMessages
INVARIANTS
    RingSound
    NoPacketForgotten
    NoLostSendRequest
PROPERTY
    KeyFrameNeedLasts
