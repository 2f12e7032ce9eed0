---------------------------- MODULE MCInventory ----------------------------
(* Small instances of InventoryService: two nights with two rooms, where   *)
(* the row of the second night may still have to be created from a hint.   *)
EXTENDS InventoryService, TLC

CONSTANTS b1, b2, r1, r2, r3

MCNight == 1 .. 2
MCStartTotal == [d \in MCNight |-> 2]
MCLateRow == [d \in MCNight |-> IF d = 2 THEN 0 ELSE 2]

A(op, from, to, qty, ref, hint, own) ==
    [op |-> op, from |-> from, to |-> to, qty |-> qty, ref |-> ref, hint |-> hint, own |-> own]

MixedJobs ==
    {A("reserve", 1, 2, 1, b1, 0, TRUE), A("reserve", 1, 2, 2, b2, 2, TRUE),
     A("reserve", 2, 2, 1, b2, 2, FALSE),
     A("block", 1, 2, 1, b1, 2, TRUE), A("block", 2, 2, 2, b1, 2, TRUE),
     A("unblock", 1, 2, 1, b1, 0, TRUE),
     A("release", 1, 1, 1, b1, 0, TRUE), A("release", 1, 1, 1, b2, 0, TRUE)}

SameOnce(w) ==
    \A r, q \in Request :
        r # q /\ w[r].op = w[q].op /\ w[r].ref = w[q].ref
        => w[r].op \notin {"reserve", "release"}

MCMixed == {w \in [Request -> MixedJobs] : SameOnce(w)}

(* The mixed workloads keep what the properties ask of the callers. *)
ASSUME MixedCallers == Workload = MCMixed => HintsAgree /\ OneRequestPerRef

(* Locks may expire under their holders, references are used more than     *)
(* once: a reservation of b1, and two requests of which both may release   *)
(* it, one may reserve it again, and each may compete for its nights.      *)
OverlapJobs ==
    {A("reserve", 1, 2, 1, b2, 2, TRUE), A("reserve", 2, 2, 1, b1, 0, TRUE),
     A("block", 1, 2, 1, b1, 0, TRUE), A("unblock", 1, 2, 1, b1, 0, TRUE),
     A("release", 1, 1, 1, b1, 0, TRUE), A("release", 1, 1, 1, b1, 0, FALSE)}

MCOverlap ==
    {w \in [Request -> OverlapJobs \cup {A("reserve", 1, 2, 1, b1, 0, TRUE)}] :
        /\ w[r1] = A("reserve", 1, 2, 1, b1, 0, TRUE)
        /\ w[r2] \in OverlapJobs
        /\ w[r3] = A("release", 1, 1, 1, b1, 0, TRUE)}

Symmetry == Permutations(Request)
=============================================================================
