SPECIFICATION MCSpec
CONSTANTS
    ClientTasks <- MCTasks
    NoTask = NoTask
    kImmediately <- MCImmediately
    kNever = 100
    Ssrcs = {1, 2}
    BurstInterval = 2
    MaxPacketsPerBurst = 2
    RtcpReportInterval = 2
    KickstartInterval = 2
    MaxFlagged = 2
    MaxLate = 1
    MaxTime = 5
INVARIANTS
    NoSenderForgotten
    RtcpOnTime
PROPERTY
    BurstsKeepDistance
