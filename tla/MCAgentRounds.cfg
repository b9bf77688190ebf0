SPECIFICATION Spec
CONSTANTS
    Kinds = {"write", "check", "look", "broken"}
    MaxBatch = 2
    Bound = 3
    Concurrency = 1
    DemandCap = 1
    CutRetries = 2
    ShortRetries = 1
    BlankRetries = 1
    Mode = "yolo"
INVARIANTS ResultsFollow ClaimIsHeld RequestsBounded
CHECK_DEADLOCK FALSE
