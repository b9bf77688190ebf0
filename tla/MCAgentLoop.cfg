SPECIFICATION Spec
CONSTANTS
    Kinds = {"write", "look", "agent", "enter", "exit"}
    MaxBatch = 2
    Bound = 2
    Concurrency = 1
    DemandCap = 0
    CutRetries = 0
    ShortRetries = 0
    BlankRetries = 0
    Mode = "ask"
INVARIANTS TypeOK PermitsConserved PlanHoldsWrites
PROPERTIES NothingStartsAfterStop StopEnds 
CHECK_DEADLOCK FALSE
