SPECIFICATION RunnerSpec
CONSTANTS
    t1 = t1
    t2 = t2
    c1 = c1
    Tasks <- MCTasks
    Children <- MCChildren
    Quit = Quit
    MaxTime = 3
    Delays <- MCDelays
INVARIANTS
    RunInOrder
PROPERTIES
    NothingLeftBehind
    TasksRun
    SignalNoticed
CHECK_DEADLOCK FALSE
