CONSTANTS
    Requests = {r1, r2, r3}
    Keys = {k}
    NoKey = NoKey
    Bodies = {b1, b2}
    Permits = 2
    Routes = 1
    Capacity = 2
    Faults = {"complete", "crash"}
SPECIFICATION Spec
SYMMETRY Symmetry
INVARIANTS
    TypeOK
    SlotsConserved
    RoutesBound
    NobodyWaitsInVain
PROPERTIES
    ExecutesOnce
