CONSTANTS
    k1 = k1
    k2 = k2
    k3 = k3
    p1 = p1
    p2 = p2
    m1 = m1
    m2 = m2
    Requests = {r1}
    Keys = {k1, k2, k3}
    Providers = {p1, p2}
    Models = {m1, m2}
    NoCandidate = NoCandidate
    Denied = {}
    Unary = {p2}
    AuthThreshold = 1
    HalfOpen = 1
    CooldownFloor = 1
    RetryAfters = {0, 2}
    MaxAttempts = 3
    Caps = {1}
    HeaderTimeout = 2
    FirstByteTimeout = 2
    OutputTimeout = 2
    PlanBudget = 5
    Backoff = 1
    ServerReprobes = 3
    NetworkReprobes = 2
    Redials = 1
    CooldownWait = 2
    ProviderOf <- MCProviderOf
    Orders <- MCOrders
SPECIFICATION FairSpec
INVARIANT FundedInFull
PROPERTIES
    OtherHostNext
    Answered
    CancelledEnds
