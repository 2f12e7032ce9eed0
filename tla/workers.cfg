SPECIFICATION WorkersSpec
CONSTANTS
    Notice = {n1, n2}
    Tick = {t1}
    RetryCall = {c1}
    maxRetries = 2
    limit = 1
    MaxNoticeFaults = 1
    Trigger = {q1, q2}
    RetryTick = {w1}
    RetryRequest = {r1}
    MaxExecutions = 7
    MaxStepFailures = 2
    MaxWorkflowFaults = 1
    s1 = s1
    s2 = s2
    s3 = s3
    k1 = k1
    k2 = k2
    Sync = {s1, s2, s3}
    KeyOf <- MCKeyOf
    LastReservation = 2
    RetryWorker = {j1}
    maxJobRetries = 1
    None = None
    MaxOtaFaults = 1
INVARIANTS
    SendsBounded
    RetriedOnceEach
    ImportsCovered
PROPERTIES
    RetriesComeAround
    WorkflowCompletes
CHECK_DEADLOCK FALSE
