SPECIFICATION Spec
INVARIANTS
    UsedResourcesExist
    ExitIsClean
    SuccessIsInterrupt
    StaleStatusIsNews
PROPERTIES
    AcquisitionEnds
    LoopIsLeft
    ReceiverGoesIdle
CHECK_DEADLOCK FALSE
