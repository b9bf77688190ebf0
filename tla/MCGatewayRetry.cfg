CONSTANTS
    Requests = {r1, r2}
    Keys = {k}
    NoKey = NoKey
    Bodies = {b1}
    Permits = 2
    Routes = 2
    Capacity = 1
    Faults = {}
SPECIFICATION Spec
PROPERTIES
    FailedRetryReexecutes
