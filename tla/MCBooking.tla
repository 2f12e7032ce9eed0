---------------------------- MODULE MCBooking -----------------------------
(* Small instances of BookingService: two rooms, of one type or of two,    *)
(* two nights, one booking that is already there and two to come.          *)
EXTENDS BookingService, TLC

CONSTANTS b0, b1, b2, std, suite

MCRoom == 1 .. 2
MCNight == 1 .. 2
OneType == [m \in MCRoom |-> std]
TwoTypes == [m \in MCRoom |-> IF m = 1 THEN std ELSE suite]

MCStartStatus == [b \in Booking |-> IF b = b0 THEN "CONFIRMED" ELSE "none"]
NoBookings == [b \in Booking |-> "none"]
MCStartTotal == [row \in Row |-> 2]
OneLeft == [row \in Row |-> 1]

(* The row of the second night is still to be created. *)
MCStartRows == {row \in Row : row[2] = 1}

S(rooms, from, to) == [rooms |-> rooms, from |-> from, to |-> to]

(* Someone is in room 1 tonight; the others want both rooms, or either. *)
MCStays ==
    [Booking -> {S({1}, 1, 1), S({2}, 1, 2), S({1, 2}, 1, 2), S({1, 2}, 2, 2)}]
FreeStays == {s \in MCStays : s[b0] = S({1}, 1, 1)}
TwoRoomStays == {[b \in Booking |-> S({1, 2}, 1, 1)]}

J(op, b) == [op |-> op, b |-> b]

Once(w) == \A q, r \in Request : w[q] = w[r] /\ w[q].op = "create" => q = r

(* Two creations and a change of the booking that is there, or of theirs. *)
MCMixed ==
    {w \in [Request -> {J("create", b1), J("create", b2), J("cancel", b0), J("cancel", b1),
                        J("checkIn", b0), J("checkOut", b0)}] : Once(w)}

MCLifecycle == [Request -> {J("cancel", b0), J("checkIn", b0)}]
MCCreate == {w \in [Request -> {J("create", b1), J("create", b2)}] : Once(w)}

(* The one booking there is has its row. *)
ASSUME RowOfTonight == Stays = FreeStays => RowsThere

Symmetry == Permutations(Request)
=============================================================================
