CONSTANTS
    k1 = k1
    k2 = k2
    p1 = p1
    p2 = p2
    m1 = m1
    Requests = {r1, r2}
    Keys = {k1, k2}
    Providers = {p1, p2}
    Models = {m1}
    NoCandidate = NoCandidate
    Denied = {}
    Unary = {}
    AuthThreshold = 2
    HalfOpen = 1
    CooldownFloor = 1
    RetryAfters = {0}
    MaxAttempts = 2
    Caps = {1}
    HeaderTimeout = 1
    FirstByteTimeout = 1
    OutputTimeout = 1
    PlanBudget = 2
    Backoff = 1
    ServerReprobes = 1
    NetworkReprobes = 1
    Redials = 0
    CooldownWait = 1
    ProviderOf <- MCProviderOf
    Orders <- MCOrders
SPECIFICATION Spec
SYMMETRY Slots
INVARIANTS
    TypeOK
    PermitsConserved
PROPERTIES
    BreakerRemembers
    KeepsPromise
