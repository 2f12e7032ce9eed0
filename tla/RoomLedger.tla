---------------------------- MODULE RoomLedger ----------------------------
(***************************************************************************)
(* What inventory-service promises of one room type: every operation on    *)
(* the counters happens at one instant, reserving takes all of its nights  *)
(* or none, and nothing is granted that does not fit.  Blocking and        *)
(* unblocking are promises about one night each: the service does not make *)
(* a range of them atomic.  A night may be given more rooms, never fewer.  *)
(***************************************************************************)
EXTENDS Integers

CONSTANTS Night, Ref, StartTotal, Qty

VARIABLES total, reserved, blocked, active

vars == <<total, reserved, blocked, active>>

Init ==
    /\ total = StartTotal
    /\ reserved = [d \in Night |-> 0]
    /\ blocked = [d \in Night |-> 0]
    /\ active = [b \in Ref |-> [d \in Night |-> 0]]

Room(d) == total[d] - reserved[d] - blocked[d]

AddRooms ==
    /\ total' \in [Night -> Int]
    /\ \A d \in Night : total'[d] >= total[d]
    /\ UNCHANGED <<reserved, blocked, active>>

Reserve(nights, b, q) ==
    /\ \A d \in nights : Room(d) >= q
    /\ reserved' = [d \in Night |-> IF d \in nights THEN reserved[d] + q ELSE reserved[d]]
    /\ active' = [active EXCEPT ![b] = [d \in Night |->
                     IF d \in nights THEN @[d] + q ELSE @[d]]]
    /\ UNCHANGED <<total, blocked>>

Release(b) ==
    /\ reserved' = [d \in Night |-> reserved[d] - active[b][d]]
    /\ active' = [active EXCEPT ![b] = [d \in Night |-> 0]]
    /\ UNCHANGED <<total, blocked>>

Block(d, q) ==
    /\ Room(d) >= q
    /\ blocked' = [blocked EXCEPT ![d] = @ + q]
    /\ UNCHANGED <<total, reserved, active>>

Unblock(d, q) ==
    /\ blocked[d] >= q
    /\ blocked' = [blocked EXCEPT ![d] = @ - q]
    /\ UNCHANGED <<total, reserved, active>>

Next ==
    \/ AddRooms
    \/ \E from, to \in Night, b \in Ref, q \in Qty : Reserve(from .. to, b, q)
    \/ \E b \in Ref : Release(b)
    \/ \E d \in Night, q \in Qty : Block(d, q) \/ Unblock(d, q)

Spec == Init /\ [][Next]_vars
=============================================================================
