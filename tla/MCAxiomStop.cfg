SPECIFICATION Spec
CONSTANTS
    MaxVersions = 1
    Attempts = 2
    MaxPasses = 1
INVARIANTS StoppedIsNotKept
CHECK_DEADLOCK FALSE
