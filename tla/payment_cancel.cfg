SPECIFICATION Spec
CONSTANTS
    Payment = {p0, p1, p2, p3}
    Booking = {b}
    BookingOf <- MCBookingOf
    Key = {k0, k1, k2}
    None = None
    p0 = p0
    p1 = p1
    p2 = p2
    p3 = p3
    b = b
    k0 = k0
    k1 = k1
    k2 = k2
    Amount <- MCAmount
    Request = {r1, r2}
    Workload <- MCCancel
    StartStatus <- Pending
    HoldersTimely = TRUE
    MayFail = FALSE
PROPERTY CancelsOnlyOpen
CHECK_DEADLOCK FALSE
