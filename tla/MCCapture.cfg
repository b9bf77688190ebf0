SPECIFICATION Spec
CONSTANTS
    MaxRows = 2
    Budget = 2
    ClaimLimit = 2
    MaxAttempts = 2
    StaleAfter = 1
    Window = 2
    Retain = 3
    Callers = {timer, button}
    MaxFaults = 2
INVARIANTS TypeOK HeldIsProcessing
PROPERTIES NothingLost
