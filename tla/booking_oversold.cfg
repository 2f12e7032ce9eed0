SPECIFICATION Spec
CONSTANTS
    Room <- MCRoom
    Night <- MCNight
    Type = {std, suite}
    TypeOf <- OneType
    Booking = {b0, b1, b2}
    Request = {r1}
    None = None
    b0 = b0
    b1 = b1
    b2 = b2
    std = std
    suite = suite
    Workload <- MCCreate
    Stays <- TwoRoomStays
    StartStatus <- NoBookings
    StartTotal <- OneLeft
    StartRows <- MCStartRows
    HoldersTimely = TRUE
    OneAtATime = TRUE
    MayFail = FALSE
INVARIANT TypeNotOversold
CHECK_DEADLOCK FALSE
