SPECIFICATION Spec
CONSTANTS
    Room <- MCRoom
    Night <- MCNight
    Type = {std, suite}
    TypeOf <- TwoTypes
    Booking = {b0, b1, b2}
    Request = {r1, r2}
    None = None
    b0 = b0
    b1 = b1
    b2 = b2
    std = std
    suite = suite
    Workload <- MCLifecycle
    Stays <- FreeStays
    StartStatus <- MCStartStatus
    StartTotal <- MCStartTotal
    StartRows <- MCStartRows
    HoldersTimely = TRUE
    OneAtATime = FALSE
    MayFail = FALSE
PROPERTY LifecycleOnly
CHECK_DEADLOCK FALSE
