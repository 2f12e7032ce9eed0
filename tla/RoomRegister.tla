--------------------------- MODULE RoomRegister ---------------------------
(***************************************************************************)
(* What booking-service promises of the bookings themselves: each is made, *)
(* changed and ended at one instant, it is made only when all of its rooms *)
(* are free on all of its nights, and it ends only once.                   *)
(***************************************************************************)
EXTENDS Integers

CONSTANTS Room, Booking, Stays, StartStatus

VARIABLES status, stay

vars == <<status, stay>>

Init == status = StartStatus /\ stay \in Stays

Holding == {"PENDING", "CONFIRMED", "CHECKED_IN", "NO_SHOW"}

Clash(a, b) ==
    /\ stay[a].rooms \cap stay[b].rooms # {}
    /\ stay[a].from <= stay[b].to /\ stay[b].from <= stay[a].to

Become(b, s) == status' = [status EXCEPT ![b] = s] /\ UNCHANGED stay

Book(b) ==
    /\ status[b] = "none"
    /\ \A a \in Booking : status[a] \in Holding => ~Clash(a, b)
    /\ Become(b, "CONFIRMED")

Arrive(b) == status[b] \in {"PENDING", "CONFIRMED"} /\ Become(b, "CHECKED_IN")
Depart(b) == status[b] = "CHECKED_IN" /\ Become(b, "CHECKED_OUT")
Cancel(b) == status[b] \in {"PENDING", "CONFIRMED", "NO_SHOW"} /\ Become(b, "CANCELLED")

Next == \E b \in Booking : Book(b) \/ Arrive(b) \/ Depart(b) \/ Cancel(b)

Spec == Init /\ [][Next]_vars
=============================================================================
