SPECIFICATION MCSpec
CONSTANTS
    ClientTasks = {a, b}
    NoTask = NoTask
    MaxTime = 3
    MaxRuns = 3
    kImmediately <- MCImmediately
PROPERTY
    KeepsPromise
