SPECIFICATION FairSpec
CONSTANTS
    Night <- MCNight
    Request = {r1, r2, r3}
    Ref = {b1, b2}
    b1 = b1
    b2 = b2
    r1 = r1
    r2 = r2
    r3 = r3
    None = None
    Quantity = {1, 2, 3}
    Workload <- MCOverlap
    StartTotal <- MCStartTotal
    HoldersTimely = FALSE
INVARIANTS
    ReservedFollowsRows
    OnlyReleasesDeadlock
PROPERTIES
    NoForeignUnlock
    Answered
