SPECIFICATION Spec
CONSTANT MaxRequests = 3
INVARIANTS
    OneReplyEach
    NoMismatchInTurn
    LastOfferAgreed
PROPERTY KeepsPromise
CHECK_DEADLOCK FALSE
