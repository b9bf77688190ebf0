CONSTANTS
    app = app
    agent = agent
    t1 = t1
    t2 = t2
    t3 = t3
    Procs = {app, agent}
    Callers = {t1, t2}
    ReadsFail = TRUE
    MaxWrites = 2
    ProcOf <- MCProcOfOne
SPECIFICATION FairSpec
INVARIANTS
    TypeOK
    RotationKillsOldKey
PROPERTIES
    CacheNeverGoesBack
    CallsReturn
