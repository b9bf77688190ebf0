SPECIFICATION Spec
CONSTANTS
    MaxVersions = 2
    Attempts = 2
    MaxPasses = 2
INVARIANTS TypeOK MovesAreDecided JudgedOnFullSuites PassesAreRecorded
PROPERTIES PassEnds
CHECK_DEADLOCK FALSE
