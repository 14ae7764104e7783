SPECIFICATION Spec
CONSTANTS
    Pts <- MCPts
    kCapacity = 2
    kInitialPairDeadline = 0
    kAudioWatchdogDeadline = 0
    kVideoWatchdogDeadline = 0
INVARIANTS
    GateMatchesEncoder
    NothingTooOld
PROPERTIES
    TakenFramesDecodable
    WaitingFrameMovesOn
    StallNoticed
    EncoderJoined
CHECK_DEADLOCK FALSE
