SPECIFICATION Spec
CONSTANTS
    Kinds = {"agent"}
    MaxBatch = 2
    Bound = 1
    Concurrency = 2
    DemandCap = 0
    CutRetries = 0
    ShortRetries = 0
    BlankRetries = 0
    Mode = "ask"
PROPERTIES ChildrenEnd
CHECK_DEADLOCK FALSE
