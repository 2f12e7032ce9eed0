SPECIFICATION EdgesSpec
CONSTANTS
    p1 = p1
    p2 = p2
    Producer = {p1, p2}
    InTx = {p2}
    Relay = {t1, t2}
    BatchSize = 1
    MAX_RETRIES = 3
    MaxFaults = 3
    Consumer = {c1, c2}
    LastEntry = 3
    COUNT = 2
    maxRetries = 2
    dlqEnabled = TRUE
    MaxBusFaults = 1
    Reader = {g1, g2}
    Changer = {u1, u2, u3}
    MaxCacheFaults = 2
    Attempt = {a1, a2, a3, a4}
    Absent = Absent
    Processing = Processing
    MaxLapses = 2
    MaxMiddlewareFaults = 2
    Redeemer = {d1, d2, d3}
    Limits = {1, 2}
    MaxLost = 2
    LoginRequest = {l1, l2, l3}
    maxAttempts = 2
    MaxResets = 2
    MaxLoginFaults = 2
    RefreshRequest = {f1, f2}
    LogoutRequest = {o1}
    limit = 2
    MaxSessions = 2
    MaxTokens = 4
    MaxExpiries = 1
    MaxTokenFaults = 1
    User = {v1, v2, v3, v4}
    Founder = v1
    MemberRequest = {b1, b2}
    maxMembersPerOrg = 1
    MaxInvitations = 1
    MaxMemberWrites = 3
INVARIANTS
    NothingLost
    HandledOnce
    LossBounded
    HandlerRunsBounded
    RedemptionsBounded
    AttemptsBounded
    RotationBounded
PROPERTIES
    OutboxSettles
    OutboxImplementsPromise
    StaleEntriesGo
    MembershipKept
CHECK_DEADLOCK FALSE
