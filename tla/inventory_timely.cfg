SPECIFICATION Spec
CONSTANTS
    Night <- MCNight
    Request = {r1, r2, r3}
    Ref = {b1, b2}
    b1 = b1
    b2 = b2
    r1 = r1
    r2 = r2
    r3 = r3
    None = None
    Quantity = {1, 2, 3}
    Workload <- MCMixed
    StartTotal <- MCLateRow
    HoldersTimely = TRUE
SYMMETRY Symmetry
INVARIANTS
    ExclusiveNights
    NoOverbooking
    ReservationsAllOrNothing
    BlockRecordsCovered
PROPERTY ImplementsLedger
