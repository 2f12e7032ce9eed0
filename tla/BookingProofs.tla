--------------------------- MODULE BookingProofs ---------------------------
(***************************************************************************)
(* Theorems of BookingService, for every hotel, every set of bookings and  *)
(* requests and every workload.  The invariants are stacked: types, then   *)
(* what the status of a booking says of the requests about it, then who    *)
(* owns which room's key and what the overlap checks have established.     *)
(* While nothing fails there are two more: that of creations that collide, *)
(* and that of the inventory counters.                                     *)
(***************************************************************************)
EXTENDS BookingService, FiniteSetTheorems, TLAPS

CreateLabel == {"lock", "overlap", "available", "save", "unlock", "done"}
ChangeLabel == {"read", "status", "rooms", "audit", "release", "done"}

(* A creation and a change each keep to the steps of their handler. *)
Routed ==
    \A r \in Request :
        \/ job[r].op = "create" /\ pc[r] \in CreateLabel
        \/ job[r].op # "create" /\ pc[r] \in ChangeLabel /\ held[r] = {}

TypeInv == TypeOK /\ Routed

(* What the assumptions say of one request and of the booking it is about. *)
LEMMA JobType ==
    ASSUME TypeOK, NEW r \in Request
    PROVE  /\ job[r].op \in {"create", "cancel", "checkIn", "checkOut"}
           /\ job[r].b \in Booking
           /\ Rooms(r) \subseteq Room
           /\ Rooms(r) # {}
           /\ Slots(r) \subseteq Slot
<1>1. job \in [Request -> Job] /\ stay \in [Booking -> Stay]
  BY BookingAssumption DEF TypeOK
<1>2. job[r] \in Job
  BY <1>1
<1>3. job[r].op \in {"create", "cancel", "checkIn", "checkOut"} /\ job[r].b \in Booking
  BY <1>2 DEF Job
<1>4. stay[job[r].b] \in Stay /\ StayNights(stay[job[r].b]) \subseteq Night
  BY <1>1, <1>3, BookingAssumption DEF TypeOK
<1>5. stay[job[r].b].rooms \in (SUBSET Room) \ {{}}
  BY <1>4 DEF Stay
<1> QED
  BY <1>3, <1>4, <1>5 DEF Rooms, Slots, Slot

(* A slot is a room and a night, and has a row. *)
LEMMA RowType ==
    ASSUME NEW s \in Slot
    PROVE  s[1] \in Room /\ s[2] \in Night /\ RowOf(s) \in Row
BY BookingAssumption DEF Slot, RowOf, Row

(* The rooms that bookings hold of a row can be counted. *)
LEMMA TakenCounts ==
    ASSUME NEW row, NEW S
    PROVE  Cardinality(Taken(row, S)) \in Nat
<1>1. IsFiniteSet(Booking \X Room)
  BY BookingAssumption, FS_Product
<1>2. Taken(row, S) \subseteq Booking \X Room
  BY DEF Taken
<1> QED
  BY <1>1, <1>2, FS_Subset, FS_CardinalityType

(* The initial states are well typed. *)
LEMMA InitType == Init => TypeInv
<1> SUFFICES ASSUME Init PROVE TypeInv
  OBVIOUS
<1>1. job \in [Request -> Job] /\ status \in [Booking -> Status]
  BY BookingAssumption DEF Init
<1>2. reserved \in [Row -> Nat]
  BY TakenCounts DEF Init
<1>3. total \in [Row -> Nat] /\ rows \subseteq Row
  BY BookingAssumption DEF Init
<1>4. TypeOK
  BY <1>1, <1>2, <1>3 DEF Init, TypeOK, Label, Outcome, BookingRoomStatus
<1> QED
  BY <1>4 DEF TypeInv, Routed, Init, CreateLabel, ChangeLabel

(* What leaving the handler does to its control state. *)
LEMMA LeaveType ==
    ASSUME TypeOK, NEW r \in Request, NEW how \in Outcome, Leave(r, how)
    PROVE  /\ pc' \in [Request -> Label]
           /\ outcome' \in [Request -> Outcome]
           /\ pc'[r] \in {"unlock", "done"}
           /\ held[r] = {} => pc'[r] = "done"
           /\ \A q \in Request \ {r} : pc'[q] = pc[q]
<1>1. pc \in [Request -> Label] /\ outcome \in [Request -> Outcome]
  BY DEF TypeOK
<1>2. {"unlock", "done"} \subseteq Label
  BY DEF Label
<1> QED
  BY <1>1, <1>2 DEF Leave, Goto, End

(* Every step of every handler keeps the types. *)
LEMMA NextType == TypeInv /\ [Next]_vars => TypeInv'
<1> SUFFICES ASSUME TypeInv, [Next]_vars PROVE TypeInv'
  OBVIOUS
<1> USE DEF TypeInv
<1>lab. /\ CreateLabel \subseteq Label /\ ChangeLabel \subseteq Label
        /\ {"created", "changed", "refused", "LOCK_CONFLICT", "ROOM_UNAVAILABLE",
            "INVENTORY_UNAVAILABLE", "error", "crashed"} \subseteq Outcome
  BY DEF Label, CreateLabel, ChangeLabel, Outcome
<1>job. \A r \in Request : /\ job[r].b \in Booking /\ Slots(r) \subseteq Slot
                            /\ Rooms(r) \subseteq Room
                            /\ job[r].op \in {"create", "cancel", "checkIn", "checkOut"}
  BY JobType
<1>go. \A r \in Request, l \in Label :
          Goto(r, l) => /\ pc' \in [Request -> Label]
                        /\ pc'[r] = l
                        /\ \A q \in Request \ {r} : pc'[q] = pc[q]
  BY DEF Goto, TypeOK
<1>end. \A r \in Request, o \in Outcome : End(r, o) => outcome' \in [Request -> Outcome]
  BY DEF End, TypeOK
<1>slot. \A r \in Request, S \in SUBSET Slot :
            slots' = [slots EXCEPT ![r] = S] => slots' \in [Request -> SUBSET Slot]
  BY DEF TypeOK
<1>1. ASSUME NEW r \in Request, Acquire(r) PROVE TypeInv'
  <2>1. PICK m \in Room : /\ lock' = [lock EXCEPT ![m] = r]
                          /\ held' = [held EXCEPT ![r] = @ \cup {m}]
                          /\ \/ Goto(r, "overlap") /\ todo' = [todo EXCEPT ![r] = Rooms(r)]
                             \/ UNCHANGED <<pc, todo>>
    BY <1>1 DEF Acquire
  <2>2. lock' \in [Room -> Request \cup {None}] /\ held' \in [Request -> SUBSET Room]
    BY <2>1 DEF TypeOK
  <2>3. job[r].op = "create"
    BY <1>1 DEF Acquire, Routed, ChangeLabel
  <2>4. /\ pc' \in [Request -> Label] /\ todo' \in [Request -> SUBSET Room]
        /\ pc'[r] \in CreateLabel /\ \A q \in Request \ {r} : pc'[q] = pc[q]
    <3>1. CASE Goto(r, "overlap") /\ todo' = [todo EXCEPT ![r] = Rooms(r)]
      BY <3>1, <1>go, <1>lab, <1>job DEF TypeOK, CreateLabel
    <3>2. CASE UNCHANGED <<pc, todo>>
      BY <3>2, <2>3 DEF TypeOK, Routed
    <3> QED
      BY <2>1, <3>1, <3>2
  <2>5. \A q \in Request \ {r} : held'[q] = held[q]
    BY <2>1 DEF TypeOK
  <2> QED
    BY <1>1, <2>2, <2>3, <2>4, <2>5 DEF Acquire, TypeOK, Routed, bookings, inventory
<1>2. ASSUME NEW r \in Request, LockConflict(r) PROVE TypeInv'
  <2>1. Leave(r, "LOCK_CONFLICT") /\ job[r].op = "create"
    BY <1>2 DEF LockConflict, Routed, ChangeLabel
  <2> QED
    BY <1>2, <2>1, <1>lab, LeaveType
       DEF LockConflict, TypeOK, Routed, CreateLabel, bookings, inventory
<1>3. ASSUME NEW r \in Request, LockError(r) PROVE TypeInv'
  <2>1. Leave(r, "error") /\ job[r].op = "create"
    BY <1>3 DEF LockError, Routed, ChangeLabel
  <2>2. lock' \in [Room -> Request \cup {None}]
    BY <1>3 DEF LockError, TypeOK
  <2> QED
    BY <1>3, <2>1, <2>2, <1>lab, LeaveType
       DEF LockError, TypeOK, Routed, CreateLabel, bookings, inventory
<1>4. ASSUME NEW r \in Request, Unlock(r) PROVE TypeInv'
  <2>1. PICK m \in held[r] : /\ \/ lock' = [lock EXCEPT ![m] = IF @ = r THEN None ELSE @]
                                \/ UNCHANGED lock
                             /\ held' = [held EXCEPT ![r] = @ \ {m}]
                             /\ Goto(r, "done") \/ UNCHANGED pc
    BY <1>4 DEF Unlock
  <2>2. m \in Room
    BY DEF TypeOK
  <2>3. lock' \in [Room -> Request \cup {None}] /\ held' \in [Request -> SUBSET Room]
    BY <2>1, <2>2 DEF TypeOK
  <2>4. job[r].op = "create" /\ pc[r] = "unlock"
    BY <1>4 DEF Unlock, Routed, ChangeLabel
  <2>5. /\ pc' \in [Request -> Label] /\ pc'[r] \in {"unlock", "done"}
        /\ \A q \in Request \ {r} : pc'[q] = pc[q] /\ held'[q] = held[q]
    BY <2>1, <2>4, <1>go, <1>lab DEF TypeOK, CreateLabel
  <2> QED
    BY <1>4, <2>3, <2>4, <2>5 DEF Unlock, TypeOK, Routed, CreateLabel, bookings, inventory
<1>5. ASSUME NEW m \in Room, Expire(m) PROVE TypeInv'
  <2>1. lock' \in [Room -> Request \cup {None}]
    BY <1>5 DEF Expire, TypeOK
  <2> QED
    BY <1>5, <2>1 DEF Expire, TypeOK, Routed, bookings, inventory
<1>6. ASSUME NEW r \in Request, CheckOverlap(r) PROVE TypeInv'
  <2>1. job[r].op = "create" /\ pc[r] = "overlap"
    BY <1>6 DEF CheckOverlap, Routed, ChangeLabel
  <2>2. PICK m \in todo[r] :
           \/ Leave(r, "ROOM_UNAVAILABLE") /\ UNCHANGED <<todo, slots>>
           \/ /\ todo' = [todo EXCEPT ![r] = @ \ {m}]
              /\ \/ Goto(r, "available") /\ slots' = [slots EXCEPT ![r] = Slots(r)]
                 \/ UNCHANGED <<pc, slots>>
              /\ UNCHANGED outcome
    BY <1>6 DEF CheckOverlap
  <2>3. /\ todo' \in [Request -> SUBSET Room] /\ slots' \in [Request -> SUBSET Slot]
        /\ pc' \in [Request -> Label] /\ outcome' \in [Request -> Outcome]
        /\ pc'[r] \in CreateLabel /\ \A q \in Request \ {r} : pc'[q] = pc[q]
    <3>1. CASE Leave(r, "ROOM_UNAVAILABLE") /\ UNCHANGED <<todo, slots>>
      BY <3>1, <1>lab, LeaveType DEF TypeOK, CreateLabel
    <3>2. CASE /\ todo' = [todo EXCEPT ![r] = @ \ {m}]
               /\ Goto(r, "available") /\ slots' = [slots EXCEPT ![r] = Slots(r)]
               /\ UNCHANGED outcome
      BY <3>2, <1>go, <1>lab, <1>slot, <1>job DEF TypeOK, CreateLabel
    <3>3. CASE todo' = [todo EXCEPT ![r] = @ \ {m}] /\ UNCHANGED <<pc, slots, outcome>>
      BY <3>3, <2>1 DEF TypeOK, CreateLabel
    <3> QED
      BY <2>2, <3>1, <3>2, <3>3
  <2> QED
    BY <1>6, <2>1, <2>3 DEF CheckOverlap, TypeOK, Routed, bookings, inventory
<1>7. ASSUME NEW r \in Request, CheckAvailability(r) PROVE TypeInv'
  <2>1. job[r].op = "create" /\ pc[r] = "available"
    BY <1>7 DEF CheckAvailability, Routed, ChangeLabel
  <2>2. PICK s \in slots[r] :
           \/ Leave(r, "INVENTORY_UNAVAILABLE") /\ slots' = [slots EXCEPT ![r] = {}]
           \/ /\ slots' = [slots EXCEPT ![r] = @ \ {s}]
              /\ Goto(r, "save") \/ UNCHANGED pc
              /\ UNCHANGED outcome
    BY <1>7 DEF CheckAvailability
  <2>3. /\ slots' \in [Request -> SUBSET Slot]
        /\ pc' \in [Request -> Label] /\ outcome' \in [Request -> Outcome]
        /\ pc'[r] \in CreateLabel /\ \A q \in Request \ {r} : pc'[q] = pc[q]
    <3>1. CASE Leave(r, "INVENTORY_UNAVAILABLE") /\ slots' = [slots EXCEPT ![r] = {}]
      <4>1. slots' \in [Request -> SUBSET Slot]
        BY <3>1, <1>slot
      <4> QED
        BY <3>1, <4>1, <1>lab, LeaveType DEF CreateLabel
    <3>2. CASE slots' = [slots EXCEPT ![r] = @ \ {s}] /\ Goto(r, "save") /\ UNCHANGED outcome
      BY <3>2, <1>go, <1>lab DEF TypeOK, CreateLabel
    <3>3. CASE slots' = [slots EXCEPT ![r] = @ \ {s}] /\ UNCHANGED <<pc, outcome>>
      BY <3>3, <2>1 DEF TypeOK, CreateLabel
    <3> QED
      BY <2>2, <3>1, <3>2, <3>3
  <2> QED
    BY <1>7, <2>1, <2>3 DEF CheckAvailability, TypeOK, Routed, bookings, inventory
<1>8. ASSUME NEW r \in Request, Save(r) PROVE TypeInv'
  <2>1. Leave(r, "created") /\ job[r].op = "create"
    BY <1>8 DEF Save, Routed, ChangeLabel
  <2>2. status' \in [Booking -> Status] /\ roomStatus' \in [Booking -> BookingRoomStatus]
    BY <1>8 DEF Save, TypeOK, Status, BookingStatus, BookingRoomStatus
  <2>3. slots' \in [Request -> SUBSET Slot]
    BY <1>8, <1>job, <1>slot DEF Save
  <2> QED
    BY <1>8, <2>1, <2>2, <2>3, <1>lab, LeaveType
       DEF Save, TypeOK, Routed, CreateLabel, inventory
<1>9. ASSUME NEW r \in Request, ReserveNight(r) PROVE TypeInv'
  <2>1. PICK s \in slots[r] :
           /\ \/ rows' = rows /\ total' = total /\ reserved' = [reserved EXCEPT ![RowOf(s)] = @ + 1]
              \/ /\ rows' = rows \cup {RowOf(s)}
                 /\ total' = [total EXCEPT ![RowOf(s)] = 1]
                 /\ reserved' = [reserved EXCEPT ![RowOf(s)] = 1]
           /\ slots' = [slots EXCEPT ![r] = @ \ {s}]
    BY <1>9 DEF ReserveNight
  <2>2. RowOf(s) \in Row
    BY RowType DEF TypeOK
  <2>3. rows' \subseteq Row /\ total' \in [Row -> Nat] /\ reserved' \in [Row -> Nat]
    BY <2>1, <2>2 DEF TypeOK
  <2>4. slots' \in [Request -> SUBSET Slot]
    BY <2>1 DEF TypeOK
  <2> QED
    BY <1>9, <2>3, <2>4 DEF ReserveNight, TypeOK, Routed, bookings
<1>10. ASSUME NEW r \in Request, ReserveError(r) PROVE TypeInv'
  <2>1. slots' \in [Request -> SUBSET Slot]
    BY <1>10 DEF ReserveError, TypeOK
  <2> QED
    BY <1>10, <2>1 DEF ReserveError, TypeOK, Routed, bookings, inventory
<1>11. ASSUME NEW r \in Request, Read(r) PROVE TypeInv'
  <2>1. pc[r] = "read" /\ job[r].op # "create" /\ held[r] = {}
    BY <1>11 DEF Read, Routed, CreateLabel
  <2>2. \/ Goto(r, "done") /\ End(r, "refused") /\ UNCHANGED slots
        \/ /\ Goto(r, "status")
           /\ slots' = [slots EXCEPT ![r] = Slots(r)] \/ slots' = [slots EXCEPT ![r] = {}]
           /\ UNCHANGED outcome
    BY <1>11 DEF Read
  <2>3. /\ slots' \in [Request -> SUBSET Slot] /\ outcome' \in [Request -> Outcome]
        /\ pc' \in [Request -> Label] /\ pc'[r] \in ChangeLabel
        /\ \A q \in Request \ {r} : pc'[q] = pc[q]
    <3>1. CASE Goto(r, "done") /\ End(r, "refused") /\ UNCHANGED slots
      BY <3>1, <1>go, <1>end, <1>lab DEF TypeOK, ChangeLabel
    <3>2. CASE /\ Goto(r, "status")
               /\ slots' = [slots EXCEPT ![r] = Slots(r)] \/ slots' = [slots EXCEPT ![r] = {}]
               /\ UNCHANGED outcome
      BY <3>2, <1>go, <1>slot, <1>job, <1>lab DEF TypeOK, ChangeLabel
    <3> QED
      BY <2>2, <3>1, <3>2
  <2> QED
    BY <1>11, <2>1, <2>3 DEF Read, TypeOK, Routed, bookings, inventory
<1>12. ASSUME NEW r \in Request, WriteStatus(r) PROVE TypeInv'
  <2>1. job[r].op \in {"cancel", "checkIn", "checkOut"} /\ held[r] = {}
    BY <1>12, <1>job DEF WriteStatus, Routed, CreateLabel
  <2>2. Target[job[r].op] \in Status
    BY <2>1 DEF Target, Status, BookingStatus
  <2>3. status' \in [Booking -> Status]
    BY <1>12, <2>2 DEF WriteStatus, TypeOK
  <2>4. Goto(r, "rooms")
    BY <1>12 DEF WriteStatus
  <2> QED
    BY <1>12, <2>1, <2>3, <2>4, <1>go, <1>lab
       DEF WriteStatus, TypeOK, Routed, ChangeLabel, inventory
<1>13. ASSUME NEW r \in Request, WriteRooms(r) PROVE TypeInv'
  <2>1. job[r].op \in {"cancel", "checkIn", "checkOut"} /\ held[r] = {}
    BY <1>13, <1>job DEF WriteRooms, Routed, CreateLabel
  <2>2. RoomTarget[job[r].op] \in BookingRoomStatus
    BY <2>1 DEF RoomTarget, BookingRoomStatus
  <2>3. roomStatus' \in [Booking -> BookingRoomStatus]
    BY <1>13, <2>2 DEF WriteRooms, TypeOK
  <2>4. Goto(r, "audit")
    BY <1>13 DEF WriteRooms
  <2> QED
    BY <1>13, <2>1, <2>3, <2>4, <1>go, <1>lab
       DEF WriteRooms, TypeOK, Routed, ChangeLabel, inventory
<1>14. ASSUME NEW r \in Request, WriteAudit(r) PROVE TypeInv'
  <2>1. job[r].op # "create" /\ held[r] = {}
    BY <1>14 DEF WriteAudit, Routed, CreateLabel
  <2>2. \/ Goto(r, "done") /\ End(r, "changed")
        \/ Goto(r, "release") /\ UNCHANGED outcome
    BY <1>14 DEF WriteAudit
  <2>3. /\ outcome' \in [Request -> Outcome]
        /\ pc' \in [Request -> Label] /\ pc'[r] \in ChangeLabel
        /\ \A q \in Request \ {r} : pc'[q] = pc[q]
    <3>1. CASE Goto(r, "done") /\ End(r, "changed")
      BY <3>1, <1>go, <1>end, <1>lab DEF ChangeLabel
    <3>2. CASE Goto(r, "release") /\ UNCHANGED outcome
      BY <3>2, <1>go, <1>lab DEF ChangeLabel, TypeOK
    <3> QED
      BY <2>2, <3>1, <3>2
  <2> QED
    BY <1>14, <2>1, <2>3 DEF WriteAudit, TypeOK, Routed, bookings, inventory
<1>15. ASSUME NEW r \in Request, ReleaseNight(r) PROVE TypeInv'
  <2>1. job[r].op # "create" /\ held[r] = {} /\ pc[r] = "release"
    BY <1>15 DEF ReleaseNight, Routed, CreateLabel
  <2>2. PICK s \in slots[r] :
           /\ GivenBack(RowOf(s)) \/ UNCHANGED reserved
           /\ slots' = [slots EXCEPT ![r] = @ \ {s}]
           /\ \/ Goto(r, "done") /\ End(r, "changed")
              \/ UNCHANGED <<pc, outcome>>
    BY <1>15 DEF ReleaseNight
  <2>3. RowOf(s) \in Row
    BY RowType DEF TypeOK
  <2>4. reserved' \in [Row -> Nat] /\ slots' \in [Request -> SUBSET Slot]
    BY <2>2, <2>3 DEF GivenBack, TypeOK
  <2>5. /\ outcome' \in [Request -> Outcome]
        /\ pc' \in [Request -> Label] /\ pc'[r] \in ChangeLabel
        /\ \A q \in Request \ {r} : pc'[q] = pc[q]
    <3>1. CASE Goto(r, "done") /\ End(r, "changed")
      BY <3>1, <1>go, <1>end, <1>lab DEF ChangeLabel
    <3>2. CASE UNCHANGED <<pc, outcome>>
      BY <3>2, <2>1 DEF ChangeLabel, TypeOK
    <3> QED
      BY <2>2, <3>1, <3>2
  <2> QED
    BY <1>15, <2>1, <2>4, <2>5 DEF ReleaseNight, TypeOK, Routed, bookings
<1>16. ASSUME NEW r \in Request, DatabaseError(r) PROVE TypeInv'
  <2>1. Leave(r, "error") /\ slots' = [slots EXCEPT ![r] = {}]
    BY <1>16 DEF DatabaseError
  <2>2. slots' \in [Request -> SUBSET Slot]
    BY <2>1, <1>slot
  <2> QED
    BY <1>16, <2>1, <2>2, <1>lab, LeaveType
       DEF DatabaseError, TypeOK, Routed, CreateLabel, ChangeLabel, bookings, inventory
<1>17. ASSUME NEW r \in Request, Crash(r) PROVE TypeInv'
  <2>1. Goto(r, "done") /\ End(r, "crashed") /\ slots' = [slots EXCEPT ![r] = {}]
    BY <1>17 DEF Crash
  <2>2. slots' \in [Request -> SUBSET Slot] /\ outcome' \in [Request -> Outcome]
    BY <2>1, <1>slot, <1>end, <1>lab
  <2>3. /\ held' \in [Request -> SUBSET Room]
        /\ \A q \in Request : held'[q] = {} \/ held'[q] = held[q]
    BY <1>17 DEF Crash, TypeOK
  <2> QED
    BY <1>17, <2>1, <2>2, <2>3, <1>go, <1>lab
       DEF Crash, TypeOK, Routed, CreateLabel, ChangeLabel, bookings, inventory
<1>18. CASE UNCHANGED vars
  BY <1>18 DEF vars, bookings, inventory, TypeOK, Routed
<1> QED
  BY <1>1, <1>2, <1>3, <1>4, <1>5, <1>6, <1>7, <1>8, <1>9, <1>10, <1>11, <1>12, <1>13, <1>14,
     <1>15, <1>16, <1>17, <1>18 DEF Next, Handle

(* Rows, keys and handlers keep their types and the counters never go      *)
(* below zero, for every workload: TypeOK.                                 *)
THEOREM TypeCorrect == Spec => []TypeOK
<1>1. TypeInv => TypeOK
  BY DEF TypeInv
<1> QED
  BY <1>1, InitType, NextType, PTL DEF Spec

-----------------------------------------------------------------------------
(* What the status of a booking says of the requests about it, when        *)
(* callers change a booking one at a time.                                 *)

Changing == {"status", "rooms", "audit", "release"}

(* The id of a creation at work has not been used yet. *)
Fresh ==
    \A r \in Request :
        job[r].op = "create" /\ pc[r] \in {"lock", "overlap", "available", "save"}
        => status[job[r].b] = "none"

(* No two changes of one booking are past their read. *)
Alone ==
    \A q, r \in Request :
        q # r /\ job[q].b = job[r].b /\ pc[q] \in Changing => pc[r] \notin Changing

(* What a change read still holds when it writes. *)
Decided ==
    \A r \in Request :
        /\ pc[r] = "status" => status[job[r].b] \in Allowed[job[r].op]
        /\ pc[r] = "rooms" => status[job[r].b] = Target[job[r].op]

(* The room rows end only after their booking. *)
RoomsFollow ==
    \A b \in Booking :
        roomStatus[b] \in {"CANCELLED", "VACATED"} => status[b] \in {"CANCELLED", "CHECKED_OUT"}

StatusInv == Fresh /\ Alone /\ Decided /\ RoomsFollow

(* A booking is created by one request. *)
LEMMA CreatedOnce ==
    ASSUME TypeOK, NEW q \in Request, NEW r \in Request,
           job[q].op = "create", job[r].op = "create", job[q].b = job[r].b
    PROVE  q = r
<1>1. job \in Workload /\ job \in [Request -> Job]
  BY BookingAssumption DEF TypeOK
<1>2. job[q] \in Job /\ job[r] \in Job
  BY <1>1
<1>3. job[q] = job[r]
  BY <1>2 DEF Job
<1> QED
  BY <1>1, <1>3, BookingAssumption

(* The room rows start in step with their bookings. *)
LEMMA InitStatus == Init => StatusInv
<1> SUFFICES ASSUME Init PROVE StatusInv
  OBVIOUS
<1>1. job \in Workload
  BY DEF Init
<1>2. Fresh
  BY <1>1, BookingAssumption DEF Fresh, Init
<1> QED
  BY <1>2 DEF StatusInv, Alone, Decided, RoomsFollow, Changing, Init

(* The steps that write neither column only move a request on, and never   *)
(* to a step that relies on what was read.                                 *)
LEMMA StatusKept ==
    ASSUME TypeInv, StatusInv, NEW r \in Request,
           status' = status, roomStatus' = roomStatus, job' = job,
           \A q \in Request \ {r} : pc'[q] = pc[q],
           \/ pc'[r] = pc[r]
           \/ pc'[r] \in {"unlock", "done"}
           \/ pc[r] \in Changing /\ pc'[r] = "release"
           \/ pc[r] \in {"lock", "overlap", "available"} /\ pc'[r] \in {"overlap", "available", "save"}
    PROVE  StatusInv'
<1>1. Fresh'
  BY DEF StatusInv, Fresh, TypeInv, Routed, CreateLabel, ChangeLabel
<1>2. Alone'
  BY DEF StatusInv, Alone, Changing
<1>3. Decided'
  BY DEF StatusInv, Decided, Changing
<1>4. RoomsFollow'
  BY DEF StatusInv, RoomsFollow
<1> QED
  BY <1>1, <1>2, <1>3, <1>4 DEF StatusInv

(* A change may start only when no other request about the booking is at   *)
(* work, so the statuses it saw are those it will overwrite.               *)
LEMMA ReadKeeps ==
    ASSUME OneAtATime, TypeInv, StatusInv, NEW r \in Request, Read(r)
    PROVE  StatusInv'
<1>1. /\ pc[r] = "read" /\ job' = job /\ status' = status /\ roomStatus' = roomStatus
      /\ \A q \in Request : job[q].b = job[r].b => ~InFlight(q)
  BY DEF Read, bookings
<1>2. CASE Goto(r, "done")
  BY <1>1, <1>2, StatusKept DEF Goto, TypeInv, TypeOK
<1>3. CASE Goto(r, "status") /\ status[job[r].b] \in Allowed[job[r].op]
  <2>1. pc'[r] = "status" /\ \A q \in Request \ {r} : pc'[q] = pc[q]
    BY <1>3 DEF Goto, TypeInv, TypeOK
  <2>2. \A q \in Request : job[q].b = job[r].b => pc[q] \notin Changing
    BY <1>1 DEF InFlight, Changing
  <2>3. job[r].op # "create"
    BY <1>1 DEF TypeInv, Routed, CreateLabel
  <2>4. Fresh'
    BY <1>1, <2>1, <2>3 DEF StatusInv, Fresh
  <2>5. Alone'
    BY <1>1, <2>1, <2>2 DEF StatusInv, Alone
  <2>6. Decided'
    BY <1>1, <1>3, <2>1 DEF StatusInv, Decided
  <2>7. RoomsFollow'
    BY <1>1 DEF StatusInv, RoomsFollow
  <2> QED
    BY <2>4, <2>5, <2>6, <2>7 DEF StatusInv
<1> QED
  BY <1>2, <1>3 DEF Read

(* Writing the status of a booking keeps StatusInv. *)
LEMMA WriteStatusKeeps ==
    ASSUME TypeInv, StatusInv, NEW r \in Request, WriteStatus(r)
    PROVE  StatusInv'
<1> DEFINE b == job[r].b
<1>1. /\ pc[r] = "status" /\ pc'[r] = "rooms" /\ \A q \in Request \ {r} : pc'[q] = pc[q]
      /\ job' = job /\ roomStatus' = roomStatus
  BY DEF WriteStatus, Goto, TypeInv, TypeOK
<1>2. b \in Booking /\ job[r].op \in {"cancel", "checkIn", "checkOut"}
  BY <1>1, JobType DEF TypeInv, Routed, CreateLabel
<1>3. status'[b] = Target[job[r].op] /\ \A a \in Booking \ {b} : status'[a] = status[a]
  BY <1>2 DEF WriteStatus, TypeInv, TypeOK
<1>4. status[b] \in {"PENDING", "CONFIRMED", "NO_SHOW", "CHECKED_IN"}
  BY <1>1, <1>2 DEF StatusInv, Decided, Allowed
<1>5. \A q \in Request : job[q].b \in Booking
  BY JobType DEF TypeInv
<1>6. Fresh'
  <2> SUFFICES ASSUME NEW q \in Request, job[q].op = "create",
                      pc'[q] \in {"lock", "overlap", "available", "save"}
               PROVE  status'[job[q].b] = "none"
    BY <1>1 DEF Fresh
  <2>1. q # r /\ status[job[q].b] = "none"
    BY <1>1, <1>2 DEF StatusInv, Fresh
  <2>2. job[q].b # b
    BY <2>1, <1>4
  <2> QED
    BY <2>1, <2>2, <1>3, <1>5
<1>7. Alone'
  BY <1>1 DEF StatusInv, Alone, Changing
<1>8. Decided'
  <2> SUFFICES ASSUME NEW q \in Request
               PROVE  /\ pc'[q] = "status" => status'[job[q].b] \in Allowed[job[q].op]
                      /\ pc'[q] = "rooms" => status'[job[q].b] = Target[job[q].op]
    BY <1>1 DEF Decided
  <2>1. CASE q = r
    BY <2>1, <1>1, <1>3
  <2>2. CASE q # r /\ job[q].b = b
    BY <2>2, <1>1 DEF StatusInv, Alone, Changing
  <2>3. CASE q # r /\ job[q].b # b
    BY <2>3, <1>1, <1>3, <1>5 DEF StatusInv, Decided
  <2> QED
    BY <2>1, <2>2, <2>3
<1>9. RoomsFollow'
  BY <1>1, <1>3, <1>4 DEF StatusInv, RoomsFollow
<1> QED
  BY <1>6, <1>7, <1>8, <1>9 DEF StatusInv

(* Writing the room rows after it keeps StatusInv. *)
LEMMA WriteRoomsKeeps ==
    ASSUME TypeInv, StatusInv, NEW r \in Request, WriteRooms(r)
    PROVE  StatusInv'
<1> DEFINE b == job[r].b
<1>1. /\ pc[r] = "rooms" /\ pc'[r] = "audit" /\ \A q \in Request \ {r} : pc'[q] = pc[q]
      /\ job' = job /\ status' = status
  BY DEF WriteRooms, Goto, TypeInv, TypeOK
<1>2. b \in Booking /\ job[r].op \in {"cancel", "checkIn", "checkOut"}
  BY <1>1, JobType DEF TypeInv, Routed, CreateLabel
<1>3. /\ roomStatus'[b] = RoomTarget[job[r].op]
      /\ \A a \in Booking \ {b} : roomStatus'[a] = roomStatus[a]
  BY <1>2 DEF WriteRooms, TypeInv, TypeOK
<1>4. status[b] = Target[job[r].op]
  BY <1>1 DEF StatusInv, Decided
<1>5. roomStatus'[b] \in {"CANCELLED", "VACATED"} => status[b] \in {"CANCELLED", "CHECKED_OUT"}
  BY <1>2, <1>3, <1>4 DEF Target, RoomTarget
<1>6. RoomsFollow'
  BY <1>1, <1>3, <1>5 DEF StatusInv, RoomsFollow
<1>7. Fresh'
  BY <1>1, <1>2 DEF StatusInv, Fresh
<1>8. Alone' /\ Decided'
  BY <1>1 DEF StatusInv, Alone, Decided, Changing
<1> QED
  BY <1>6, <1>7, <1>8 DEF StatusInv

(* Inserting a booking keeps StatusInv. *)
LEMMA SaveKeeps ==
    ASSUME TypeInv, StatusInv, NEW r \in Request, Save(r)
    PROVE  StatusInv'
<1> DEFINE b == job[r].b
<1>1. pc[r] = "save" /\ job[r].op = "create" /\ b \in Booking /\ Leave(r, "created") /\ job' = job
  BY JobType DEF Save, TypeInv, Routed, ChangeLabel
<1>2. pc'[r] \in {"unlock", "done"} /\ \A q \in Request \ {r} : pc'[q] = pc[q]
  BY <1>1, LeaveType DEF TypeInv, Outcome
<1>3. /\ status'[b] = "CONFIRMED" /\ roomStatus'[b] = "RESERVED"
      /\ \A a \in Booking \ {b} : status'[a] = status[a] /\ roomStatus'[a] = roomStatus[a]
  BY <1>1 DEF Save, TypeInv, TypeOK
<1>4. status[b] = "none"
  BY <1>1 DEF StatusInv, Fresh
<1>5. \A q \in Request : /\ job[q].b \in Booking
                         /\ job[q].op \in {"create", "cancel", "checkIn", "checkOut"}
  BY JobType DEF TypeInv
<1>6. Fresh'
  <2> SUFFICES ASSUME NEW q \in Request, job[q].op = "create",
                      pc'[q] \in {"lock", "overlap", "available", "save"}
               PROVE  status'[job[q].b] = "none"
    BY <1>1 DEF Fresh
  <2>1. q # r
    BY <1>2
  <2>2. job[q].b # b
    BY <2>1, <1>1, CreatedOnce DEF TypeInv
  <2> QED
    BY <2>1, <2>2, <1>2, <1>3, <1>5 DEF StatusInv, Fresh
<1>7. Alone'
  BY <1>1, <1>2 DEF StatusInv, Alone, Changing
<1>8. Decided'
  <2> SUFFICES ASSUME NEW q \in Request
               PROVE  /\ pc'[q] = "status" => status'[job[q].b] \in Allowed[job[q].op]
                      /\ pc'[q] = "rooms" => status'[job[q].b] = Target[job[q].op]
    BY <1>1 DEF Decided
  <2>1. CASE job[q].b # b
    BY <2>1, <1>1, <1>2, <1>3, <1>5 DEF StatusInv, Decided
  <2>2. CASE job[q].b = b /\ pc[q] \in {"status", "rooms"}
    <3>1. job[q].op \in {"cancel", "checkIn", "checkOut"}
      BY <2>2, <1>5 DEF TypeInv, Routed, CreateLabel
    <3>2. status[b] # "none"
      BY <2>2, <3>1 DEF StatusInv, Decided, Allowed, Target
    <3> QED
      BY <3>2, <1>4
  <2>3. CASE pc[q] \notin {"status", "rooms"}
    BY <2>3, <1>2
  <2> QED
    BY <2>1, <2>2, <2>3
<1>9. RoomsFollow'
  BY <1>3 DEF StatusInv, RoomsFollow
<1> QED
  BY <1>6, <1>7, <1>8, <1>9 DEF StatusInv

(* Every step keeps StatusInv. *)
LEMMA NextStatus ==
    ASSUME OneAtATime
    PROVE  TypeInv /\ StatusInv /\ [Next]_vars => StatusInv'
<1> SUFFICES ASSUME TypeInv, StatusInv, [Next]_vars PROVE StatusInv'
  OBVIOUS
<1>go. \A r \in Request, l \in Label :
          Goto(r, l) => pc'[r] = l /\ \A q \in Request \ {r} : pc'[q] = pc[q]
  BY DEF Goto, TypeInv, TypeOK
<1>lv. \A r \in Request, o \in Outcome :
          Leave(r, o) => /\ pc'[r] \in {"unlock", "done"}
                         /\ \A q \in Request \ {r} : pc'[q] = pc[q]
  BY LeaveType DEF TypeInv
<1>lab. /\ {"overlap", "available", "save", "release", "done"} \subseteq Label
        /\ {"LOCK_CONFLICT", "ROOM_UNAVAILABLE", "INVENTORY_UNAVAILABLE", "error"} \subseteq Outcome
  BY DEF Label, Outcome
<1>1. ASSUME NEW r \in Request, Acquire(r) PROVE StatusInv'
  <2>1. /\ pc[r] = "lock"
        /\ Goto(r, "overlap") \/ pc' = pc
        /\ status' = status /\ roomStatus' = roomStatus /\ job' = job
    BY <1>1 DEF Acquire, bookings
  <2> QED
    BY <2>1, <1>1, <1>go, <1>lab, StatusKept DEF Acquire
<1>2. ASSUME NEW r \in Request, LockConflict(r) \/ LockError(r) PROVE StatusInv'
  <2>1. /\ Leave(r, "LOCK_CONFLICT") \/ Leave(r, "error")
        /\ status' = status /\ roomStatus' = roomStatus /\ job' = job
    BY <1>2 DEF LockConflict, LockError, bookings
  <2>2. pc'[r] \in {"unlock", "done"} /\ \A q \in Request \ {r} : pc'[q] = pc[q]
    BY <2>1, <1>lv, <1>lab
  <2> QED
    BY <2>1, <2>2, StatusKept
<1>3. ASSUME NEW r \in Request, Unlock(r) PROVE StatusInv'
  <2>1. Goto(r, "done") \/ pc' = pc
    BY <1>3 DEF Unlock
  <2> QED
    BY <2>1, <1>3, <1>go, <1>lab, StatusKept DEF Unlock, bookings
<1>4. ASSUME NEW r \in Request, CheckOverlap(r) PROVE StatusInv'
  <2>1. Leave(r, "ROOM_UNAVAILABLE") \/ Goto(r, "available") \/ pc' = pc
    BY <1>4 DEF CheckOverlap
  <2>2. /\ pc[r] = "overlap"
        /\ status' = status /\ roomStatus' = roomStatus /\ job' = job
    BY <1>4 DEF CheckOverlap, bookings
  <2> QED
    BY <2>1, <2>2, <1>go, <1>lv, <1>lab, StatusKept
<1>5. ASSUME NEW r \in Request, CheckAvailability(r) PROVE StatusInv'
  <2>1. Leave(r, "INVENTORY_UNAVAILABLE") \/ Goto(r, "save") \/ pc' = pc
    BY <1>5 DEF CheckAvailability
  <2>2. /\ pc[r] = "available"
        /\ status' = status /\ roomStatus' = roomStatus /\ job' = job
    BY <1>5 DEF CheckAvailability, bookings
  <2> QED
    BY <2>1, <2>2, <1>go, <1>lv, <1>lab, StatusKept
<1>6. ASSUME NEW r \in Request, Save(r) PROVE StatusInv'
  BY <1>6, SaveKeeps
<1>7. ASSUME NEW r \in Request, ReserveNight(r) \/ ReserveError(r) PROVE StatusInv'
  BY <1>7, StatusKept DEF ReserveNight, ReserveError, bookings
<1>8. ASSUME NEW r \in Request, Read(r) PROVE StatusInv'
  BY <1>8, ReadKeeps
<1>9. ASSUME NEW r \in Request, WriteStatus(r) PROVE StatusInv'
  BY <1>9, WriteStatusKeeps
<1>10. ASSUME NEW r \in Request, WriteRooms(r) PROVE StatusInv'
  BY <1>10, WriteRoomsKeeps
<1>11. ASSUME NEW r \in Request, WriteAudit(r) PROVE StatusInv'
  <2>1. /\ pc[r] = "audit"
        /\ Goto(r, "done") \/ Goto(r, "release")
        /\ status' = status /\ roomStatus' = roomStatus /\ job' = job
    BY <1>11 DEF WriteAudit, bookings
  <2> QED
    BY <2>1, <1>go, <1>lab, StatusKept DEF Changing
<1>12. ASSUME NEW r \in Request, ReleaseNight(r) PROVE StatusInv'
  <2>1. /\ Goto(r, "done") \/ pc' = pc
        /\ status' = status /\ roomStatus' = roomStatus /\ job' = job
    BY <1>12 DEF ReleaseNight, bookings
  <2> QED
    BY <2>1, <1>go, <1>lab, StatusKept
<1>13. ASSUME NEW r \in Request, DatabaseError(r) PROVE StatusInv'
  BY <1>13, <1>lv, <1>lab, StatusKept DEF DatabaseError, bookings
<1>14. ASSUME NEW r \in Request, Crash(r) PROVE StatusInv'
  BY <1>14, <1>go, <1>lab, StatusKept DEF Crash, bookings
<1>15. ASSUME NEW m \in Room, Expire(m) PROVE StatusInv'
  BY <1>15 DEF Expire, bookings, StatusInv, Fresh, Alone, Decided, RoomsFollow
<1>16. CASE UNCHANGED vars
  BY <1>16 DEF vars, bookings, StatusInv, Fresh, Alone, Decided, RoomsFollow
<1> QED
  BY <1>1, <1>2, <1>3, <1>4, <1>5, <1>6, <1>7, <1>8, <1>9, <1>10, <1>11, <1>12, <1>13, <1>14,
     <1>15, <1>16 DEF Next, Handle

-----------------------------------------------------------------------------
(* Who owns which key, and what the overlap checks have established, while *)
(* no key expires under a request that works with it.                      *)

InBody == {"overlap", "available", "save"}
Holding == {"PENDING", "CONFIRMED", "CHECKED_IN", "NO_SHOW"}

(* A lock a request believes it has carries its token... *)
Owned == \A r \in Request : \A m \in held[r] : lock[m] = r

(* ... and it has all of its rooms while it checks and saves. *)
Covered == \A r \in Request : pc[r] \in InBody => Rooms(r) \subseteq held[r]

Clear(r, m) ==
    \A b \in Booking :
        status[b] \in Holding /\ m \in stay[b].rooms
        => StayNights(stay[b]) \cap StayNights(stay[job[r].b]) = {}

(* What a creation has checked is still so. *)
Passed ==
    \A r \in Request : pc[r] \in InBody =>
        \A m \in Rooms(r) : Clear(r, m) \/ (pc[r] = "overlap" /\ m \in todo[r])

NoClash ==
    \A a, b \in Booking :
        a # b /\ status[a] \in Holding /\ status[b] \in Holding => ~Meets(stay[a], stay[b])

LockInv == Owned /\ Covered
FitInv == Passed /\ NoClash

(* Every step keeps the room locks owned and covering. *)
LEMMA NextLock ==
    ASSUME HoldersTimely
    PROVE  TypeInv /\ LockInv /\ [Next]_vars => LockInv'
<1> SUFFICES ASSUME TypeInv, LockInv, [Next]_vars PROVE LockInv'
  OBVIOUS
<1> USE DEF LockInv
<1>ty. /\ lock \in [Room -> Request \cup {None}] /\ held \in [Request -> SUBSET Room]
       /\ pc \in [Request -> Label] /\ None \notin Request
  BY BookingAssumption DEF TypeInv, TypeOK
<1>lab. /\ {"overlap", "available", "save", "status", "rooms", "audit", "release", "done"} \subseteq Label
        /\ {"LOCK_CONFLICT", "ROOM_UNAVAILABLE", "INVENTORY_UNAVAILABLE", "error", "created"} \subseteq Outcome
  BY DEF Label, Outcome
<1>lv. \A r \in Request, o \in Outcome :
          Leave(r, o) => /\ pc'[r] \in {"unlock", "done"}
                         /\ \A q \in Request \ {r} : pc'[q] = pc[q]
  BY LeaveType DEF TypeInv
<1>go. \A r \in Request, l \in Label :
          Goto(r, l) => pc'[r] = l /\ \A q \in Request \ {r} : pc'[q] = pc[q]
  BY <1>ty DEF Goto
(* Steps that keep the locks and enter the body only from within. *)
<1>keep. ASSUME lock' = lock, held' = held, job' = job, stay' = stay,
                \A q \in Request : pc'[q] \in InBody => pc[q] \in InBody
         PROVE  LockInv'
  BY <1>keep DEF Owned, Covered, Rooms
<1>1. ASSUME NEW r \in Request, Acquire(r) PROVE LockInv'
  <2>1. PICK m \in Room : /\ lock[m] = None
                          /\ lock' = [lock EXCEPT ![m] = r]
                          /\ held' = [held EXCEPT ![r] = @ \cup {m}]
                          /\ \/ Rooms(r) = held[r] \cup {m} /\ Goto(r, "overlap")
                             \/ UNCHANGED pc
    BY <1>1 DEF Acquire, Free
  <2>2. pc[r] = "lock" /\ job' = job /\ stay' = stay
    BY <1>1 DEF Acquire
  <2>3. held'[r] = held[r] \cup {m} /\ \A q \in Request \ {r} : held'[q] = held[q]
    BY <2>1, <1>ty
  <2>4. Owned'
    BY <2>1, <2>3, <1>ty DEF Owned
  <2>5. Covered'
    BY <2>1, <2>2, <2>3, <1>go, <1>lab DEF Covered, Rooms, InBody
  <2> QED
    BY <2>4, <2>5
<1>2. ASSUME NEW r \in Request, LockConflict(r) PROVE LockInv'
  <2>1. Leave(r, "LOCK_CONFLICT") /\ UNCHANGED <<lock, held, job, stay>>
    BY <1>2 DEF LockConflict
  <2> QED
    BY <2>1, <1>lv, <1>lab, <1>keep DEF InBody
<1>3. ASSUME NEW r \in Request, LockError(r) PROVE LockInv'
  <2>1. /\ Leave(r, "error") /\ UNCHANGED <<held, job, stay>>
        /\ \A m \in Room : lock[m] # None => lock'[m] = lock[m]
    BY <1>3, <1>ty DEF LockError, Free
  <2>2. Owned'
    BY <2>1, <1>ty DEF Owned
  <2>3. Covered'
    BY <2>1, <1>lv, <1>lab DEF Covered, Rooms, InBody
  <2> QED
    BY <2>2, <2>3
<1>4. ASSUME NEW r \in Request, Unlock(r) PROVE LockInv'
  <2>1. PICK m \in held[r] : /\ \/ lock' = [lock EXCEPT ![m] = IF @ = r THEN None ELSE @]
                                \/ UNCHANGED lock
                             /\ held' = [held EXCEPT ![r] = @ \ {m}]
                             /\ Goto(r, "done") \/ UNCHANGED pc
    BY <1>4 DEF Unlock
  <2>2. m \in Room /\ pc[r] = "unlock" /\ job' = job /\ stay' = stay
    BY <1>4, <1>ty DEF Unlock
  <2>3. held'[r] = held[r] \ {m} /\ \A q \in Request \ {r} : held'[q] = held[q]
    BY <2>1, <1>ty
  <2>4. lock[m] = r
    BY <2>1 DEF Owned
  <2>5. \A k \in Room \ {m} : lock'[k] = lock[k]
    BY <2>1, <2>2, <1>ty
  <2>6. Owned'
    <3> SUFFICES ASSUME NEW q \in Request, NEW k \in held'[q] PROVE lock'[k] = q
      BY DEF Owned
    <3>1. k \in held[q] /\ k # m
      BY <2>3, <2>4 DEF Owned
    <3> QED
      BY <3>1, <2>5, <1>ty DEF Owned
  <2>7. pc'[r] \in {"unlock", "done"} /\ \A q \in Request \ {r} : pc'[q] = pc[q]
    BY <2>1, <2>2, <1>go, <1>lab
  <2>8. Covered'
    BY <2>2, <2>3, <2>7 DEF Covered, Rooms, InBody
  <2> QED
    BY <2>6, <2>8
<1>5. ASSUME NEW m \in Room, Expire(m) PROVE LockInv'
  <2>1. /\ m \notin held[lock[m]] /\ UNCHANGED <<held, job, stay, pc>>
        /\ \A k \in Room \ {m} : lock'[k] = lock[k]
    BY <1>5, <1>ty DEF Expire
  <2>2. Owned'
    BY <2>1, <1>ty DEF Owned
  <2>3. Covered'
    BY <2>1 DEF Covered, Rooms
  <2> QED
    BY <2>2, <2>3
<1>6. ASSUME NEW r \in Request, Crash(r) PROVE LockInv'
  <2>1. /\ Goto(r, "done") /\ UNCHANGED <<lock, job, stay>>
        /\ held'[r] = {} /\ \A q \in Request \ {r} : held'[q] = held[q]
    BY <1>6, <1>ty DEF Crash
  <2>2. Owned'
    BY <2>1 DEF Owned
  <2>3. Covered'
    BY <2>1, <1>go, <1>lab DEF Covered, Rooms, InBody
  <2> QED
    BY <2>2, <2>3
<1>7. ASSUME NEW r \in Request, CheckOverlap(r) PROVE LockInv'
  <2>1. /\ pc[r] = "overlap" /\ UNCHANGED <<lock, held, job, stay>>
        /\ Leave(r, "ROOM_UNAVAILABLE") \/ Goto(r, "available") \/ UNCHANGED pc
    BY <1>7 DEF CheckOverlap
  <2> QED
    BY <2>1, <1>lv, <1>go, <1>lab, <1>keep DEF InBody
<1>8. ASSUME NEW r \in Request, CheckAvailability(r) PROVE LockInv'
  <2>1. /\ pc[r] = "available" /\ UNCHANGED <<lock, held, job, stay>>
        /\ Leave(r, "INVENTORY_UNAVAILABLE") \/ Goto(r, "save") \/ UNCHANGED pc
    BY <1>8 DEF CheckAvailability
  <2> QED
    BY <2>1, <1>lv, <1>go, <1>lab, <1>keep DEF InBody
<1>9. ASSUME NEW r \in Request, Save(r) \/ DatabaseError(r) PROVE LockInv'
  <2>1. /\ UNCHANGED <<lock, held, job, stay>>
        /\ Leave(r, "created") \/ Leave(r, "error")
    BY <1>9 DEF Save, DatabaseError
  <2> QED
    BY <2>1, <1>lv, <1>lab, <1>keep DEF InBody
<1>10. ASSUME NEW r \in Request, ReserveNight(r) \/ ReserveError(r) PROVE LockInv'
  BY <1>10, <1>keep DEF ReserveNight, ReserveError
<1>11. ASSUME NEW r \in Request,
              Read(r) \/ WriteStatus(r) \/ WriteRooms(r) \/ WriteAudit(r) \/ ReleaseNight(r)
       PROVE LockInv'
  <2>1. /\ UNCHANGED <<lock, held, job, stay>>
        /\ \/ Goto(r, "status") \/ Goto(r, "rooms") \/ Goto(r, "audit") \/ Goto(r, "release")
           \/ Goto(r, "done") \/ UNCHANGED pc
    BY <1>11 DEF Read, WriteStatus, WriteRooms, WriteAudit, ReleaseNight
  <2> QED
    BY <2>1, <1>go, <1>lab, <1>keep DEF InBody
<1>12. CASE UNCHANGED vars
  BY <1>12, <1>keep DEF vars
<1> QED
  BY <1>1, <1>2, <1>3, <1>4, <1>5, <1>6, <1>7, <1>8, <1>9, <1>10, <1>11, <1>12 DEF Next, Handle

(* No two bookings clash at the start. *)
LEMMA InitFit == Init => LockInv /\ FitInv
<1> SUFFICES ASSUME Init PROVE LockInv /\ FitInv
  OBVIOUS
<1>1. \A r \in Request : pc[r] \notin InBody /\ held[r] = {}
  BY DEF Init, InBody
<1>2. NoClash
  BY BookingAssumption DEF Init, NoClash, Holding
<1> QED
  BY <1>1, <1>2 DEF LockInv, Owned, Covered, FitInv, Passed

(* With the room rows in step, the overlap query sees every booking held.  *)
LEMMA OccupiesHolding ==
    ASSUME TypeOK, RoomsFollow, NEW b \in Booking
    PROVE  Occupies(b) <=> status[b] \in Holding
<1>1. status[b] \in Status /\ roomStatus[b] \in BookingRoomStatus
  BY DEF TypeOK
<1>2. roomStatus[b] \in {"CANCELLED", "VACATED"} => status[b] \in {"CANCELLED", "CHECKED_OUT"}
  BY DEF RoomsFollow
<1> QED
  BY <1>1, <1>2 DEF Occupies, Holding, Status, BookingStatus

(* Rooms found free stay free if no booking comes to hold rooms. *)
LEMMA PassedKept ==
    ASSUME TypeInv, Passed, stay' = stay, job' = job,
           \A b \in Booking : status'[b] \in Holding => status[b] \in Holding,
           \A q \in Request : pc'[q] \in InBody =>
              \/ pc'[q] = "overlap" /\ pc[q] = "overlap" /\ todo'[q] = todo[q]
              \/ pc'[q] # "overlap" /\ pc[q] \in InBody \ {"overlap"}
    PROVE  Passed'
<1>1. \A q \in Request, m \in Room : Clear(q, m) => Clear(q, m)'
  BY DEF Clear
<1>2. \A q \in Request : Rooms(q)' = Rooms(q) /\ Rooms(q) \subseteq Room
  BY JobType DEF Rooms, TypeInv
<1> QED
  BY <1>1, <1>2 DEF Passed, InBody

(* A creation that commits takes rooms that no other creation in its body  *)
(* has asked for, and that were clear when it looked.                      *)
LEMMA SaveFits ==
    ASSUME TypeInv, StatusInv, LockInv, FitInv, NEW r \in Request, Save(r)
    PROVE  FitInv'
<1> DEFINE b == job[r].b
<1>1. /\ pc[r] = "save" /\ job[r].op = "create" /\ b \in Booking /\ Leave(r, "created")
      /\ job' = job /\ stay' = stay /\ todo' = todo
  BY JobType DEF Save, TypeInv, Routed, ChangeLabel
<1>2. pc'[r] \in {"unlock", "done"} /\ \A q \in Request \ {r} : pc'[q] = pc[q]
  BY <1>1, LeaveType DEF TypeInv, Outcome
<1>3. \A a \in Booking \ {b} : status'[a] = status[a]
  BY <1>1 DEF Save, TypeInv, TypeOK
<1>4. \A q \in Request \ {r} : pc[q] \in InBody => Rooms(q) \cap Rooms(r) = {}
  BY <1>1 DEF LockInv, Owned, Covered, InBody
<1>5. Passed'
  <2> SUFFICES ASSUME NEW q \in Request, pc'[q] \in InBody, NEW m \in Rooms(q)
               PROVE  Clear(q, m)' \/ (pc'[q] = "overlap" /\ m \in todo'[q])
    BY <1>1 DEF Passed, Rooms
  <2>1. q # r /\ pc'[q] = pc[q]
    BY <1>2 DEF InBody
  <2>2. m \notin Rooms(r)
    BY <2>1, <1>4
  <2>3. Clear(q, m) => Clear(q, m)'
    BY <2>2, <1>1, <1>3 DEF Clear, Rooms
  <2> QED
    BY <2>1, <2>3, <1>1 DEF FitInv, Passed
<1>6. \A a \in Booking \ {b} : status[a] \in Holding => ~Meets(stay[a], stay[b])
  <2> SUFFICES ASSUME NEW a \in Booking, status[a] \in Holding, NEW m \in stay[a].rooms \cap stay[b].rooms
               PROVE  StayNights(stay[a]) \cap StayNights(stay[b]) = {}
    BY DEF Meets
  <2>1. Clear(r, m)
    BY <1>1 DEF FitInv, Passed, Rooms, InBody
  <2> QED
    BY <2>1 DEF Clear
<1>7. NoClash'
  <2> SUFFICES ASSUME NEW a \in Booking, NEW c \in Booking, a # c,
                      status'[a] \in Holding, status'[c] \in Holding
               PROVE  ~Meets(stay[a], stay[c])
    BY <1>1 DEF NoClash
  <2>1. CASE a # b /\ c # b
    BY <2>1, <1>3 DEF FitInv, NoClash
  <2>2. CASE c = b
    BY <2>2, <1>3, <1>6
  <2>3. CASE a = b
    BY <2>3, <1>3, <1>6 DEF Meets
  <2> QED
    BY <2>1, <2>2, <2>3
<1> QED
  BY <1>5, <1>7 DEF FitInv

(* The overlap query marks only rooms that are free. *)
LEMMA CheckOverlapFits ==
    ASSUME TypeInv, StatusInv, Passed, NEW r \in Request, CheckOverlap(r)
    PROVE  Passed'
<1>1. pc[r] = "overlap" /\ UNCHANGED <<status, job, stay>>
  BY DEF CheckOverlap, bookings
<1>2. PICK m \in todo[r] :
         \/ Leave(r, "ROOM_UNAVAILABLE") /\ UNCHANGED todo
         \/ /\ ~Overlapped(r, m)
            /\ todo' = [todo EXCEPT ![r] = @ \ {m}]
            /\ \/ todo[r] = {m} /\ Goto(r, "available")
               \/ UNCHANGED pc
  BY DEF CheckOverlap
<1>3. CASE Leave(r, "ROOM_UNAVAILABLE") /\ UNCHANGED todo
  <2>1. pc'[r] \in {"unlock", "done"} /\ \A q \in Request \ {r} : pc'[q] = pc[q]
    BY <1>3, LeaveType DEF TypeInv, Outcome
  <2> QED
    BY <2>1, <1>1, <1>3, PassedKept DEF InBody
<1>4. CASE /\ ~Overlapped(r, m)
           /\ todo' = [todo EXCEPT ![r] = @ \ {m}]
           /\ \/ todo[r] = {m} /\ Goto(r, "available")
              \/ UNCHANGED pc
  <2>1. Clear(r, m)
    <3>1. \A b \in Booking : status[b] \in Holding => Occupies(b)
      BY OccupiesHolding DEF TypeInv, StatusInv
    <3> QED
      BY <3>1, <1>4 DEF Overlapped, Clear
  <2>2. \A q \in Request \ {r} : pc'[q] = pc[q] /\ todo'[q] = todo[q]
    BY <1>4 DEF Goto, TypeInv, TypeOK
  <2>3. \/ pc'[r] = "available" /\ todo[r] = {m}
        \/ pc'[r] = "overlap" /\ todo'[r] = todo[r] \ {m}
    BY <1>1, <1>4 DEF Goto, TypeInv, TypeOK
  <2>4. \A q \in Request : Rooms(q)' = Rooms(q) /\ \A k \in Rooms(q) : Clear(q, k)' <=> Clear(q, k)
    BY <1>1 DEF Rooms, Clear
  <2>5. \A k \in Rooms(r) : Clear(r, k) \/ k \in todo[r] \ {m}
    BY <1>1, <2>1 DEF Passed, InBody
  <2>6. \A k \in Rooms(r) : Clear(r, k)' \/ (pc'[r] = "overlap" /\ k \in todo'[r])
    BY <2>3, <2>4, <2>5
  <2>7. \A q \in Request \ {r} : pc'[q] \in InBody =>
           \A k \in Rooms(q) : Clear(q, k)' \/ (pc'[q] = "overlap" /\ k \in todo'[q])
    BY <2>2, <2>4 DEF Passed
  <2> QED
    BY <2>4, <2>6, <2>7 DEF Passed
<1> QED
  BY <1>2, <1>3, <1>4

(* Steps by which no booking starts to hold rooms and no request enters    *)
(* the body: all but Acquire, CheckOverlap and Save.                       *)
LEMMA FitKept ==
    ASSUME TypeInv, FitInv, stay' = stay, job' = job, todo' = todo,
           \A b \in Booking : status'[b] \in Holding => status[b] \in Holding,
           \A q \in Request : pc'[q] \in InBody =>
              \/ pc'[q] = pc[q]
              \/ pc'[q] # "overlap" /\ pc[q] \in InBody \ {"overlap"}
    PROVE  FitInv'
<1>1. Passed'
  BY PassedKept DEF FitInv, InBody
<1>2. NoClash'
  BY DEF FitInv, NoClash
<1> QED
  BY <1>1, <1>2 DEF FitInv

(* A request enters the body with every room still to be checked. *)
LEMMA AcquireFits ==
    ASSUME TypeInv, FitInv, NEW r \in Request, Acquire(r)
    PROVE  FitInv'
<1>1. /\ pc[r] = "lock" /\ UNCHANGED <<status, job, stay>>
      /\ \/ Goto(r, "overlap") /\ todo' = [todo EXCEPT ![r] = Rooms(r)]
         \/ UNCHANGED <<pc, todo>>
  BY DEF Acquire, bookings
<1>2. CASE UNCHANGED <<pc, todo>>
  BY <1>1, <1>2, FitKept
<1>3. CASE Goto(r, "overlap") /\ todo' = [todo EXCEPT ![r] = Rooms(r)]
  <2>1. /\ pc'[r] = "overlap" /\ todo'[r] = Rooms(r)
        /\ \A q \in Request \ {r} : pc'[q] = pc[q] /\ todo'[q] = todo[q]
    BY <1>3 DEF Goto, TypeInv, TypeOK
  <2>2. \A q \in Request : Rooms(q)' = Rooms(q) /\ \A k \in Rooms(q) : Clear(q, k)' <=> Clear(q, k)
    BY <1>1 DEF Rooms, Clear
  <2>3. \A q \in Request \ {r} : pc'[q] \in InBody =>
           \A k \in Rooms(q) : Clear(q, k)' \/ (pc'[q] = "overlap" /\ k \in todo'[q])
    BY <2>1, <2>2 DEF FitInv, Passed
  <2>4. Passed'
    BY <2>1, <2>2, <2>3 DEF Passed
  <2>5. NoClash'
    BY <1>1 DEF FitInv, NoClash
  <2> QED
    BY <2>4, <2>5 DEF FitInv
<1> QED
  BY <1>1, <1>2, <1>3

(* A change never makes a booking hold rooms that it did not hold. *)
LEMMA WriteStatusFits ==
    ASSUME TypeInv, StatusInv, FitInv, NEW r \in Request, WriteStatus(r)
    PROVE  FitInv'
<1> DEFINE b == job[r].b
<1>1. /\ pc[r] = "status" /\ pc'[r] = "rooms" /\ \A q \in Request \ {r} : pc'[q] = pc[q]
      /\ UNCHANGED <<job, stay, todo>>
  BY DEF WriteStatus, Goto, TypeInv, TypeOK
<1>2. b \in Booking /\ job[r].op \in {"cancel", "checkIn", "checkOut"}
  BY <1>1, JobType DEF TypeInv, Routed, CreateLabel
<1>3. status'[b] = Target[job[r].op] /\ \A a \in Booking \ {b} : status'[a] = status[a]
  BY <1>2 DEF WriteStatus, TypeInv, TypeOK
<1>4. status[b] \in Holding
  BY <1>1, <1>2 DEF StatusInv, Decided, Allowed, Holding
<1> QED
  BY <1>1, <1>3, <1>4, FitKept DEF InBody

(* Every step keeps bookings of one room apart. *)
LEMMA NextFit == TypeInv /\ StatusInv /\ LockInv /\ FitInv /\ [Next]_vars => FitInv'
<1> SUFFICES ASSUME TypeInv, StatusInv, LockInv, FitInv, [Next]_vars PROVE FitInv'
  OBVIOUS
<1>go. \A r \in Request, l \in Label :
          Goto(r, l) => pc'[r] = l /\ \A q \in Request \ {r} : pc'[q] = pc[q]
  BY DEF Goto, TypeInv, TypeOK
<1>lv. \A r \in Request, o \in Outcome :
          Leave(r, o) => /\ pc'[r] \in {"unlock", "done"}
                         /\ \A q \in Request \ {r} : pc'[q] = pc[q]
  BY LeaveType DEF TypeInv
<1>lab. /\ {"save", "status", "audit", "release", "done"} \subseteq Label
        /\ {"LOCK_CONFLICT", "INVENTORY_UNAVAILABLE", "error"} \subseteq Outcome
  BY DEF Label, Outcome
(* A handler that goes on outside of the body, or stays where it is. *)
<1>out. ASSUME NEW r \in Request, UNCHANGED <<status, job, stay, todo>>,
               \A q \in Request \ {r} : pc'[q] = pc[q],
               pc'[r] \notin InBody \/ pc'[r] = pc[r]
        PROVE  FitInv'
  BY <1>out, FitKept
<1>1. ASSUME NEW r \in Request, Acquire(r) PROVE FitInv'
  BY <1>1, AcquireFits
<1>2. ASSUME NEW r \in Request, LockConflict(r) \/ LockError(r) \/ DatabaseError(r) PROVE FitInv'
  <2>1. /\ Leave(r, "LOCK_CONFLICT") \/ Leave(r, "error")
        /\ UNCHANGED <<status, job, stay, todo>>
    BY <1>2 DEF LockConflict, LockError, DatabaseError, bookings
  <2>2. pc'[r] \in {"unlock", "done"} /\ \A q \in Request \ {r} : pc'[q] = pc[q]
    BY <2>1, <1>lv, <1>lab
  <2> QED
    BY <2>1, <2>2, <1>out DEF InBody
<1>3. ASSUME NEW r \in Request, CheckOverlap(r) PROVE FitInv'
  <2>1. Passed'
    BY <1>3, CheckOverlapFits DEF FitInv
  <2>2. UNCHANGED <<status, stay>>
    BY <1>3 DEF CheckOverlap, bookings
  <2>3. NoClash'
    BY <2>2 DEF FitInv, NoClash
  <2> QED
    BY <2>1, <2>3 DEF FitInv
<1>4. ASSUME NEW r \in Request, CheckAvailability(r) PROVE FitInv'
  <2>1. /\ pc[r] = "available" /\ UNCHANGED <<status, job, stay, todo>>
        /\ Leave(r, "INVENTORY_UNAVAILABLE") \/ Goto(r, "save") \/ UNCHANGED pc
    BY <1>4 DEF CheckAvailability, bookings
  <2>2. /\ pc'[r] \in {"available", "save", "unlock", "done"}
        /\ \A q \in Request \ {r} : pc'[q] = pc[q]
    BY <2>1, <1>lv, <1>go, <1>lab
  <2> QED
    BY <2>1, <2>2, FitKept DEF InBody
<1>5. ASSUME NEW r \in Request, Save(r) PROVE FitInv'
  BY <1>5, SaveFits
<1>6. ASSUME NEW r \in Request, ReserveNight(r) \/ ReserveError(r) PROVE FitInv'
  BY <1>6, FitKept DEF ReserveNight, ReserveError, bookings
<1>7. ASSUME NEW r \in Request, Unlock(r) \/ Crash(r) PROVE FitInv'
  <2>1. UNCHANGED <<status, job, stay, todo>> /\ (Goto(r, "done") \/ UNCHANGED pc)
    BY <1>7 DEF Unlock, Crash, bookings
  <2> QED
    BY <2>1, <1>go, <1>lab, <1>out DEF InBody
<1>8. ASSUME NEW r \in Request, Read(r) \/ WriteRooms(r) \/ WriteAudit(r) \/ ReleaseNight(r)
      PROVE  FitInv'
  <2>1. /\ UNCHANGED <<status, job, stay, todo>>
        /\ Goto(r, "status") \/ Goto(r, "audit") \/ Goto(r, "release") \/ Goto(r, "done")
           \/ UNCHANGED pc
    BY <1>8 DEF Read, WriteRooms, WriteAudit, ReleaseNight, bookings
  <2> QED
    BY <2>1, <1>go, <1>lab, <1>out DEF InBody
<1>9. ASSUME NEW r \in Request, WriteStatus(r) PROVE FitInv'
  BY <1>9, WriteStatusFits
<1>10. ASSUME NEW m \in Room, Expire(m) PROVE FitInv'
  BY <1>10, FitKept DEF Expire, bookings
<1>11. CASE UNCHANGED vars
  BY <1>11, FitKept DEF vars, bookings
<1> QED
  BY <1>1, <1>2, <1>3, <1>4, <1>5, <1>6, <1>7, <1>8, <1>9, <1>10, <1>11 DEF Next, Handle

(* While no key expires under its holder and callers change a booking one  *)
(* at a time, no room is promised twice for a night, whatever else fails:  *)
(* NoDoubleBooking.                                                        *)
THEOREM NoDouble == ASSUME HoldersTimely, OneAtATime PROVE Spec => []NoDoubleBooking
<1>1. TypeInv /\ StatusInv /\ FitInv => NoDoubleBooking
  <2> SUFFICES ASSUME TypeInv, StatusInv, FitInv, NEW a \in Booking, NEW b \in Booking,
                      a # b, Occupies(a), Occupies(b)
               PROVE  ~Meets(stay[a], stay[b])
    BY DEF NoDoubleBooking
  <2>1. status[a] \in Holding /\ status[b] \in Holding
    BY OccupiesHolding DEF TypeInv, StatusInv
  <2> QED
    BY <2>1 DEF FitInv, NoClash
<1> QED
  BY <1>1, InitType, NextType, InitStatus, NextStatus, InitFit, NextLock, NextFit, PTL DEF Spec

-----------------------------------------------------------------------------
(* The register: stays that meet are stays that clash. *)
LEMMA ClashMeets ==
    ASSUME TypeOK, NEW a \in Booking, NEW b \in Booking
    PROVE  Register!Clash(a, b) <=> Meets(stay[a], stay[b])
<1>1. stay \in [Booking -> Stay] /\ Night \subseteq Nat
  BY BookingAssumption DEF TypeOK
<1>2. /\ stay[a].from \in Nat /\ stay[a].to \in Nat
      /\ stay[b].from \in Nat /\ stay[b].to \in Nat
  BY <1>1 DEF Stay
<1>3. stay[a].from <= stay[a].to /\ stay[b].from <= stay[b].to
  BY BookingAssumption DEF TypeOK
<1>4. (stay[a].from <= stay[b].to /\ stay[b].from <= stay[a].to)
      <=> StayNights(stay[a]) \cap StayNights(stay[b]) # {}
  <2>1. ASSUME stay[a].from <= stay[b].to, stay[b].from <= stay[a].to
        PROVE  StayNights(stay[a]) \cap StayNights(stay[b]) # {}
    <3>1. CASE stay[a].from <= stay[b].from
      <4>1. stay[b].from \in StayNights(stay[a]) /\ stay[b].from \in StayNights(stay[b])
        BY <1>2, <1>3, <2>1, <3>1 DEF StayNights
      <4> QED
        BY <4>1
    <3>2. CASE stay[b].from <= stay[a].from
      <4>1. stay[a].from \in StayNights(stay[a]) /\ stay[a].from \in StayNights(stay[b])
        BY <1>2, <1>3, <2>1, <3>2 DEF StayNights
      <4> QED
        BY <4>1
    <3> QED
      BY <1>2, <3>1, <3>2
  <2>2. ASSUME NEW n \in StayNights(stay[a]) \cap StayNights(stay[b])
        PROVE  stay[a].from <= stay[b].to /\ stay[b].from <= stay[a].to
    BY <1>2 DEF StayNights
  <2> QED
    BY <2>1, <2>2
<1> QED
  BY <1>4 DEF Register!Clash, Meets

(* The stays of the bookings are not written after they are made. *)
LEMMA StayFixed == [Next]_vars => stay' = stay
BY DEF Next, Handle, vars, Acquire, LockConflict, LockError, Unlock, Expire,
   CheckOverlap, CheckAvailability, Save, ReserveNight, ReserveError, Read, WriteStatus,
   WriteRooms, WriteAudit, ReleaseNight, DatabaseError, Crash

(* A creation that commits books rooms that are free at that instant.      *)
LEMMA SaveBooks ==
    ASSUME TypeInv, StatusInv, FitInv, NEW r \in Request, Save(r)
    PROVE  Register!Book(job[r].b)
<1> DEFINE b == job[r].b
<1>1. /\ pc[r] = "save" /\ job[r].op = "create" /\ b \in Booking /\ stay' = stay
      /\ status' = [status EXCEPT ![b] = "CONFIRMED"]
  BY JobType DEF Save, TypeInv, Routed, ChangeLabel
<1>2. status[b] = "none"
  BY <1>1 DEF StatusInv, Fresh
<1>3. \A a \in Booking : status[a] \in Holding => ~Meets(stay[a], stay[b])
  <2> SUFFICES ASSUME NEW a \in Booking, status[a] \in Holding,
                      NEW m \in stay[a].rooms \cap stay[b].rooms
               PROVE  StayNights(stay[a]) \cap StayNights(stay[b]) = {}
    BY DEF Meets
  <2>1. Clear(r, m)
    BY <1>1 DEF FitInv, Passed, Rooms, InBody
  <2> QED
    BY <2>1 DEF Clear
<1>4. \A a \in Booking : status[a] \in Register!Holding => ~Register!Clash(a, b)
  BY <1>1, <1>3, ClashMeets DEF Register!Holding, Holding, TypeInv
<1> QED
  BY <1>1, <1>2, <1>4 DEF Register!Book, Register!Become

(* A change that writes a status makes a move of the register. *)
LEMMA WriteStatusMoves ==
    ASSUME TypeInv, StatusInv, NEW r \in Request, WriteStatus(r)
    PROVE  \/ Register!Arrive(job[r].b)
           \/ Register!Depart(job[r].b)
           \/ Register!Cancel(job[r].b)
<1>1. pc[r] = "status" /\ stay' = stay /\ status' = [status EXCEPT ![job[r].b] = Target[job[r].op]]
  BY DEF WriteStatus
<1>2. job[r].op \in {"cancel", "checkIn", "checkOut"}
  BY <1>1, JobType DEF TypeInv, Routed, CreateLabel
<1>3. status[job[r].b] \in Allowed[job[r].op]
  BY <1>1 DEF StatusInv, Decided
<1>4. CASE job[r].op = "cancel"
  BY <1>1, <1>3, <1>4 DEF Allowed, Target, Register!Cancel, Register!Become
<1>5. CASE job[r].op = "checkIn"
  BY <1>1, <1>3, <1>5 DEF Allowed, Target, Register!Arrive, Register!Become
<1>6. CASE job[r].op = "checkOut"
  BY <1>1, <1>3, <1>6 DEF Allowed, Target, Register!Depart, Register!Become
<1> QED
  BY <1>2, <1>4, <1>5, <1>6

(* Under the same assumptions the interleaved handlers implement the       *)
(* register, each request taking effect at one instant: ImplementsRegister.*)
THEOREM Registered == ASSUME HoldersTimely, OneAtATime PROVE Spec => ImplementsRegister
<1>1. Init => Register!Init
  BY DEF Init, Register!Init
<1>2. TypeInv /\ StatusInv /\ FitInv /\ [Next]_vars => [Register!Next]_(Register!vars)
  <2> SUFFICES ASSUME TypeInv, StatusInv, FitInv, [Next]_vars
               PROVE  [Register!Next]_(Register!vars)
    OBVIOUS
  <2>1. CASE status' = status
    BY <2>1, StayFixed DEF Register!vars
  <2>2. ASSUME NEW r \in Request, Save(r) \/ WriteStatus(r) PROVE Register!Next
    <3>1. job[r].b \in Booking
      BY JobType DEF TypeInv
    <3> QED
      BY <2>2, <3>1, SaveBooks, WriteStatusMoves DEF Register!Next
  <2>3. CASE status' # status
    <3>1. \E r \in Request : Save(r) \/ WriteStatus(r)
      BY <2>3 DEF Next, Handle, vars, bookings, Acquire, LockConflict, LockError, Unlock, Expire,
         CheckOverlap, CheckAvailability, ReserveNight, ReserveError, Read, WriteRooms, WriteAudit,
         ReleaseNight, DatabaseError, Crash
    <3> QED
      BY <3>1, <2>2
  <2> QED
    BY <2>1, <2>3
<1> QED
  BY <1>1, <1>2, InitType, NextType, InitStatus, NextStatus, InitFit, NextLock, NextFit, PTL
     DEF Spec, ImplementsRegister, Register!Spec

-----------------------------------------------------------------------------
(* Colliding creations, while nothing fails.  Keys are taken in the order  *)
(* of the rooms and whoever meets a taken one gives back what it has, so a *)
(* creation that has not given up is always ahead of all that have.        *)

(* The creation gave up at a room it found locked. *)
Lost(r) == outcome[r] = "LOCK_CONFLICT"

(* Every key belongs to a request that knows it has it. *)
Keyed == \A m \in Room : lock[m] # None => m \in held[lock[m]]

(* Who takes locks takes them in the order of the rooms... *)
Ascending ==
    \A r \in Request :
        pc[r] = "lock" => /\ outcome[r] = "open"
                          /\ \A k \in held[r], m \in Rooms(r) \ held[r] : k < m

(* ... and who has given up only gives locks back. *)
GivenUp == \A r \in Request : Lost(r) => pc[r] \in {"unlock", "done"}

(* Past its locks, or in possession of a room beyond all those that        *)
(* creations which gave up still have: no one of them can stop it.         *)
Ahead(q) ==
    \/ pc[q] # "lock"
    \/ \E m \in held[q] : \A k \in Room : lock[k] # None /\ Lost(lock[k]) => k < m

Winner ==
    (\E r \in Request : Lost(r))
    => \E q \in Request : job[q].op = "create" /\ ~Lost(q) /\ Ahead(q)

WinInv == Keyed /\ Ascending /\ GivenUp /\ Winner

(* Initially no key is taken. *)
LEMMA InitWin == Init => WinInv
BY DEF Init, WinInv, Keyed, Ascending, GivenUp, Winner, Lost

(* The winner stays ahead of a step in which nobody gives up. *)
LEMMA WinnerKept ==
    ASSUME Winner, job' = job,
           \A q \in Request : outcome'[q] = "LOCK_CONFLICT" <=> outcome[q] = "LOCK_CONFLICT",
           \A q \in Request : pc[q] # "lock" => pc'[q] # "lock",
           \A q \in Request : pc'[q] = "lock" => held[q] \subseteq held'[q],
           \A k \in Room :
              lock'[k] # None => lock'[k] = lock[k] \/ (lock'[k] \in Request /\ ~Lost(lock'[k])),
           lock \in [Room -> Request \cup {None}]
    PROVE  Winner'
<1> SUFFICES ASSUME NEW r \in Request, outcome'[r] = "LOCK_CONFLICT"
             PROVE  \E q \in Request :
                       /\ job[q].op = "create" /\ outcome'[q] # "LOCK_CONFLICT"
                       /\ \/ pc'[q] # "lock"
                          \/ \E m \in held'[q] : \A k \in Room :
                                lock'[k] # None /\ outcome'[lock'[k]] = "LOCK_CONFLICT" => k < m
  BY DEF Winner, Lost, Ahead
<1>1. PICK q \in Request : job[q].op = "create" /\ ~Lost(q) /\ Ahead(q)
  BY DEF Winner, Lost
<1>2. CASE pc[q] # "lock"
  BY <1>1, <1>2 DEF Lost
<1>3. CASE pc'[q] # "lock"
  BY <1>1, <1>3 DEF Lost
<1>4. CASE pc[q] = "lock" /\ pc'[q] = "lock"
  <2>1. PICK m \in held[q] : \A k \in Room : lock[k] # None /\ Lost(lock[k]) => k < m
    BY <1>1, <1>4 DEF Ahead
  <2>2. m \in held'[q]
    BY <1>4, <2>1
  <2>3. ASSUME NEW k \in Room, lock'[k] # None, outcome'[lock'[k]] = "LOCK_CONFLICT"
        PROVE  k < m
    <3>1. CASE lock'[k] = lock[k]
      <4>1. lock[k] \in Request
        BY <2>3, <3>1
      <4> QED
        BY <2>1, <2>3, <3>1, <4>1 DEF Lost
    <3>2. CASE lock'[k] \in Request /\ ~Lost(lock'[k])
      BY <2>3, <3>2 DEF Lost
    <3> QED
      BY <2>3, <3>1, <3>2
  <2> QED
    BY <1>1, <2>2, <2>3 DEF Lost
<1> QED
  BY <1>2, <1>3, <1>4

(* A creation gives up at a room: it is ahead who has that room, or who    *)
(* was ahead before.                                                       *)
LEMMA WinnerFound ==
    ASSUME TypeInv, WinInv, NEW r \in Request, LockConflict(r)
    PROVE  Winner'
<1> USE DEF TypeInv
<1>1. PICK n \in Room : NextRoom(r, n) /\ lock[n] # None
  BY DEF LockConflict, Free
<1>2. /\ pc[r] = "lock" /\ job' = job /\ lock' = lock /\ held' = held
      /\ \A q \in Request \ {r} : pc'[q] = pc[q] /\ outcome'[q] = outcome[q]
      /\ pc'[r] # "lock"
  <2>1. Leave(r, "LOCK_CONFLICT") /\ "LOCK_CONFLICT" \in Outcome
    BY DEF LockConflict, Outcome
  <2> QED
    BY <2>1 DEF LockConflict, Leave, Goto, End, Lost, TypeOK
<1>3. /\ Room \subseteq Nat
      /\ lock \in [Room -> Request \cup {None}] /\ held \in [Request -> SUBSET Room]
  BY BookingAssumption DEF TypeOK
<1> DEFINE p == lock[n]
<1>4. p \in Request /\ n \in held[p] /\ n \notin held[r]
  BY <1>1, <1>3 DEF NextRoom, WinInv, Keyed
<1>5. p # r /\ job[p].op = "create"
  BY <1>4 DEF Routed
<1>6. \A k \in held[r] : k < n
  BY <1>1, <1>2 DEF WinInv, Ascending, NextRoom
<1>7. \A k \in Room : lock[k] = r => k \in held[r]
  BY BookingAssumption, <1>3 DEF WinInv, Keyed
(* Whoever lost before holds nothing beyond n, the one at n is ahead. *)
<1>8. ASSUME \A k \in Room : lock[k] # None /\ Lost(lock[k]) => k < n
      PROVE  Winner'
  <2>1. ~Lost(p)
    BY <1>1, <1>8, <1>3
  <2>2. \A k \in Room : lock'[k] # None /\ outcome'[lock'[k]] = "LOCK_CONFLICT" => k < n
    <3> SUFFICES ASSUME NEW k \in Room, lock[k] # None, outcome'[lock[k]] = "LOCK_CONFLICT" PROVE k < n
      BY <1>2
    <3>1. lock[k] \in Request
      BY <1>3
    <3>2. CASE lock[k] = r
      BY <1>6, <1>7, <3>2
    <3>3. CASE lock[k] # r
      <4>1. Lost(lock[k])
        BY <1>2, <3>1, <3>3 DEF Lost
      <4> QED
        BY <1>8, <4>1
    <3> QED
      BY <3>2, <3>3
  <2> QED
    BY <1>2, <1>4, <1>5, <2>1, <2>2 DEF Winner, Ahead, Lost
<1>9. ASSUME NEW k \in Room, lock[k] # None, Lost(lock[k]), ~(k < n)
      PROVE  Winner'
  <2>1. lock[k] \in Request
    BY <1>3, <1>9
  <2>2. PICK q \in Request : job[q].op = "create" /\ ~Lost(q) /\ Ahead(q)
    BY <1>9, <2>1 DEF WinInv, Winner
  <2>3. CASE pc[q] # "lock"
    <3>1. q # r
      BY <1>2, <2>3
    <3> QED
      BY <1>2, <2>2, <2>3, <3>1 DEF Winner, Ahead, Lost
  <2>4. CASE pc[q] = "lock"
    <3>1. PICK m \in held[q] : \A j \in Room : lock[j] # None /\ Lost(lock[j]) => j < m
      BY <2>2, <2>4 DEF Ahead
    <3>2. k < m /\ m \in Nat /\ k \in Nat /\ n \in Nat
      BY <1>3, <1>9, <3>1
    <3>3. n < m
      BY <1>9, <3>2
    <3>4. q # r
      <4>1. m \in held[r] => m < n
        BY <1>6
      <4> QED
        BY <3>2, <3>3, <4>1
    <3>5. \A j \in Room : lock'[j] # None /\ outcome'[lock'[j]] = "LOCK_CONFLICT" => j < m
      <4> SUFFICES ASSUME NEW j \in Room, lock[j] # None, outcome'[lock[j]] = "LOCK_CONFLICT" PROVE j < m
        BY <1>2
      <4>1. lock[j] \in Request /\ j \in Nat
        BY <1>3
      <4>2. CASE lock[j] = r
        <5>1. j < n
          BY <1>6, <1>7, <4>2
        <5> QED
          BY <3>2, <3>3, <4>1, <5>1
      <4>3. CASE lock[j] # r
        <5>1. Lost(lock[j])
          BY <1>2, <4>1, <4>3 DEF Lost
        <5> QED
          BY <3>1, <5>1
      <4> QED
        BY <4>2, <4>3
    <3> QED
      BY <1>2, <2>2, <3>1, <3>4, <3>5 DEF Winner, Ahead, Lost
  <2> QED
    BY <2>3, <2>4
<1> QED
  BY <1>8, <1>9

(* Most steps touch no key, start no attempt and end none with a conflict. *)
LEMMA WinKept ==
    ASSUME TypeInv, WinInv, job' = job, stay' = stay, lock' = lock, held' = held,
           NEW r \in Request,
           \A q \in Request \ {r} : pc'[q] = pc[q] /\ outcome'[q] = outcome[q],
           \/ pc'[r] = pc[r] /\ outcome'[r] = outcome[r]
           \/ pc[r] \notin {"lock", "unlock", "done"} /\ pc'[r] # "lock"
              /\ outcome'[r] # "LOCK_CONFLICT"
    PROVE  WinInv'
<1>1. lock \in [Room -> Request \cup {None}]
  BY DEF TypeInv, TypeOK
<1>2. outcome[r] = "LOCK_CONFLICT" => pc[r] \in {"unlock", "done"}
  BY DEF WinInv, GivenUp, Lost
<1>3. Keyed'
  BY DEF WinInv, Keyed
<1>4. Ascending'
  BY DEF WinInv, Ascending, Rooms
<1>5. GivenUp'
  BY <1>2 DEF WinInv, GivenUp, Lost
<1>6. Winner'
  <2>1. \A q \in Request : outcome'[q] = "LOCK_CONFLICT" <=> outcome[q] = "LOCK_CONFLICT"
    BY <1>2
  <2>2. \A q \in Request : pc[q] # "lock" => pc'[q] # "lock"
    OBVIOUS
  <2>3. \A k \in Room :
           lock'[k] # None => lock'[k] = lock[k] \/ (lock'[k] \in Request /\ ~Lost(lock'[k]))
    OBVIOUS
  <2> QED
    BY <1>1, <2>1, <2>2, <2>3, WinnerKept DEF WinInv
<1> QED
  BY <1>3, <1>4, <1>5, <1>6 DEF WinInv

(* Taking a key keeps the order, and its new owner has not given up. *)
LEMMA AcquireWins ==
    ASSUME TypeInv, WinInv, NEW r \in Request, Acquire(r)
    PROVE  WinInv'
<1> USE DEF TypeInv
<1>1. PICK m \in Room :
         /\ NextRoom(r, m) /\ Free(m)
         /\ lock' = [lock EXCEPT ![m] = r]
         /\ held' = [held EXCEPT ![r] = @ \cup {m}]
         /\ IF Rooms(r) = held[r] \cup {m}
            THEN Goto(r, "overlap") /\ todo' = [todo EXCEPT ![r] = Rooms(r)]
            ELSE UNCHANGED <<pc, todo>>
  BY DEF Acquire
<1>2. /\ pc[r] = "lock" /\ job' = job /\ stay' = stay /\ outcome' = outcome
      /\ \A q \in Request \ {r} : pc'[q] = pc[q] /\ held'[q] = held[q]
      /\ pc'[r] = "overlap" \/ pc'[r] = "lock"
      /\ held'[r] = held[r] \cup {m}
      /\ lock'[m] = r /\ \A k \in Room \ {m} : lock'[k] = lock[k]
  BY <1>1 DEF Acquire, TypeOK, Goto
<1>3. outcome[r] # "LOCK_CONFLICT" /\ outcome[r] = "open"
  BY <1>2 DEF WinInv, Ascending
<1>4. lock \in [Room -> Request \cup {None}] /\ Room \subseteq Nat /\ None \notin Request
      /\ Rooms(r) \subseteq Room
  BY BookingAssumption, JobType DEF TypeOK
<1>5. Keyed'
  <2> SUFFICES ASSUME NEW k \in Room, lock'[k] # None PROVE k \in held'[lock'[k]]
    BY DEF Keyed
  <2>1. CASE k = m
    BY <1>2, <2>1
  <2>2. CASE k # m
    <3>1. lock[k] \in Request /\ k \in held[lock[k]]
      BY <1>2, <1>4, <2>2 DEF WinInv, Keyed
    <3> QED
      BY <1>2, <2>2, <3>1
  <2> QED
    BY <2>1, <2>2
<1>6. Ascending'
  <2> SUFFICES ASSUME NEW q \in Request, pc'[q] = "lock"
               PROVE  /\ outcome'[q] = "open"
                      /\ \A k \in held'[q], n \in Rooms(q) \ held'[q] : k < n
    BY <1>2 DEF Ascending, Rooms
  <2>1. CASE q # r
    BY <1>2, <2>1 DEF WinInv, Ascending
  <2>2. CASE q = r
    <3>1. \A k \in held[r], n \in Rooms(r) \ held[r] : k < n
      BY <1>2 DEF WinInv, Ascending
    <3>2. \A n \in Rooms(r) \ held'[r] : m < n
      <4> SUFFICES ASSUME NEW n \in Rooms(r) \ held'[r] PROVE m < n
        OBVIOUS
      <4>1. m <= n /\ m # n /\ m \in Nat /\ n \in Nat
        BY <1>1, <1>2, <1>4 DEF NextRoom
      <4> QED
        BY <4>1
    <3> QED
      BY <1>2, <1>3, <2>2, <3>1, <3>2
  <2> QED
    BY <2>1, <2>2
<1>7. GivenUp'
  BY <1>2, <1>3 DEF WinInv, GivenUp, Lost
<1>8. Winner'
  <2>1. \A q \in Request : pc[q] # "lock" => pc'[q] # "lock"
    BY <1>2
  <2>2. \A q \in Request : held[q] \subseteq held'[q]
    BY <1>2
  <2>3. \A k \in Room :
           lock'[k] # None => lock'[k] = lock[k] \/ (lock'[k] \in Request /\ ~Lost(lock'[k]))
    BY <1>2, <1>3 DEF Lost
  <2> QED
    BY <1>2, <1>4, <2>1, <2>2, <2>3, WinnerKept DEF WinInv
<1> QED
  BY <1>5, <1>6, <1>7, <1>8 DEF WinInv

(* Giving up at a taken room. *)
LEMMA ConflictWins ==
    ASSUME TypeInv, WinInv, NEW r \in Request, LockConflict(r)
    PROVE  WinInv'
<1>1. /\ pc[r] = "lock" /\ job' = job /\ stay' = stay /\ lock' = lock /\ held' = held
      /\ pc'[r] \in {"unlock", "done"}
      /\ \A q \in Request \ {r} : pc'[q] = pc[q] /\ outcome'[q] = outcome[q]
  <2>1. Leave(r, "LOCK_CONFLICT") /\ "LOCK_CONFLICT" \in Outcome
    BY DEF LockConflict, Outcome
  <2> QED
    BY <2>1 DEF LockConflict, Leave, Goto, End, TypeInv, TypeOK
<1>2. Keyed'
  BY <1>1 DEF WinInv, Keyed
<1>3. Ascending'
  BY <1>1 DEF WinInv, Ascending, Rooms
<1>4. GivenUp'
  BY <1>1 DEF WinInv, GivenUp, Lost
<1> QED
  BY <1>2, <1>3, <1>4, WinnerFound DEF WinInv

(* Giving back a key: its room leaves the list of the one that had it. *)
LEMMA UnlockWins ==
    ASSUME TypeInv, WinInv, ~MayFail, NEW r \in Request, Unlock(r)
    PROVE  WinInv'
<1>1. PICK m \in held[r] :
         /\ lock' = [lock EXCEPT ![m] = IF @ = r THEN None ELSE @]
         /\ held' = [held EXCEPT ![r] = @ \ {m}]
         /\ IF held[r] = {m} THEN Goto(r, "done") ELSE UNCHANGED pc
  BY DEF Unlock
<1>2. /\ pc[r] = "unlock" /\ job' = job /\ stay' = stay /\ outcome' = outcome
      /\ \A q \in Request \ {r} : pc'[q] = pc[q] /\ held'[q] = held[q]
      /\ pc'[r] \in {"unlock", "done"}
      /\ held'[r] = held[r] \ {m}
      /\ m \in Room /\ lock'[m] # r /\ \A k \in Room \ {m} : lock'[k] = lock[k]
      /\ lock'[m] = None \/ lock'[m] = lock[m]
      /\ lock \in [Room -> Request \cup {None}] /\ None \notin Request
  BY <1>1, BookingAssumption DEF Unlock, TypeInv, TypeOK, Goto
<1>3. Keyed'
  <2> SUFFICES ASSUME NEW k \in Room, lock'[k] # None PROVE k \in held'[lock'[k]]
    BY DEF Keyed
  <2>1. lock'[k] = lock[k] /\ lock[k] \in Request /\ k \in held[lock[k]]
    BY <1>2 DEF WinInv, Keyed
  <2>2. CASE lock[k] = r
    BY <1>2, <2>1, <2>2
  <2>3. CASE lock[k] # r
    BY <1>2, <2>1, <2>3
  <2> QED
    BY <2>2, <2>3
<1>4. Ascending'
  BY <1>2 DEF WinInv, Ascending, Rooms
<1>5. GivenUp'
  BY <1>2 DEF WinInv, GivenUp, Lost
<1>6. Winner'
  <2>1. \A q \in Request : pc[q] # "lock" => pc'[q] # "lock"
    BY <1>2
  <2>2. \A q \in Request : pc'[q] = "lock" => held[q] \subseteq held'[q]
    BY <1>2
  <2>3. \A k \in Room :
           lock'[k] # None => lock'[k] = lock[k] \/ (lock'[k] \in Request /\ ~Lost(lock'[k]))
    BY <1>2
  <2> QED
    BY <1>2, <2>1, <2>2, <2>3, WinnerKept DEF WinInv
<1> QED
  BY <1>3, <1>4, <1>5, <1>6 DEF WinInv

(* A key that expires stands in nobody's way. *)
LEMMA ExpireWins ==
    ASSUME TypeInv, WinInv, NEW m \in Room, Expire(m)
    PROVE  WinInv'
<1>1. /\ UNCHANGED <<stay, job, pc, held, outcome>>
      /\ lock'[m] = None /\ \A k \in Room \ {m} : lock'[k] = lock[k]
      /\ lock \in [Room -> Request \cup {None}]
  BY DEF Expire, TypeInv, TypeOK
<1>2. Keyed'
  BY <1>1 DEF WinInv, Keyed
<1>3. Ascending' /\ GivenUp'
  BY <1>1 DEF WinInv, Ascending, GivenUp, Lost, Rooms
<1>4. Winner'
  <2>1. \A k \in Room :
           lock'[k] # None => lock'[k] = lock[k] \/ (lock'[k] \in Request /\ ~Lost(lock'[k]))
    BY <1>1
  <2> QED
    BY <1>1, <2>1, WinnerKept DEF WinInv
<1> QED
  BY <1>2, <1>3, <1>4 DEF WinInv

(* While nothing fails every step keeps the winner. *)
LEMMA NextWin == ~MayFail /\ TypeInv /\ WinInv /\ [Next]_vars => WinInv'
<1> SUFFICES ASSUME ~MayFail, TypeInv, WinInv, [Next]_vars PROVE WinInv'
  OBVIOUS
<1>typ. pc \in [Request -> Label] /\ outcome \in [Request -> Outcome]
  BY DEF TypeInv, TypeOK
<1>1. ASSUME NEW r \in Request, CheckOverlap(r) PROVE WinInv'
  <2>1. \/ Leave(r, "ROOM_UNAVAILABLE")
        \/ Goto(r, "available") /\ UNCHANGED outcome
        \/ UNCHANGED <<pc, outcome>>
    BY <1>1 DEF CheckOverlap
  <2>2. /\ pc[r] = "overlap" /\ UNCHANGED <<lock, stay, job, held>>
    BY <1>1 DEF CheckOverlap
  <2> QED
    BY <1>typ, <2>1, <2>2, WinKept DEF Leave, Goto, End, WinInv, GivenUp, Lost
<1>2. ASSUME NEW r \in Request, CheckAvailability(r) PROVE WinInv'
  <2>1. \/ Leave(r, "INVENTORY_UNAVAILABLE")
        \/ Goto(r, "save") /\ UNCHANGED outcome
        \/ UNCHANGED <<pc, outcome>>
    BY <1>2 DEF CheckAvailability
  <2>2. /\ pc[r] = "available" /\ UNCHANGED <<lock, stay, job, held>>
    BY <1>2 DEF CheckAvailability
  <2> QED
    BY <1>typ, <2>1, <2>2, WinKept DEF Leave, Goto, End, WinInv, GivenUp, Lost
<1>3. ASSUME NEW r \in Request, Save(r) PROVE WinInv'
  BY <1>3, <1>typ, WinKept DEF Save, Leave, Goto, End, inventory
<1>4. ASSUME NEW r \in Request, ReserveNight(r) PROVE WinInv'
  BY <1>4, WinKept DEF ReserveNight
<1>5. ASSUME NEW r \in Request, Read(r) PROVE WinInv'
  <2>1. \/ Goto(r, "done") /\ End(r, "refused")
        \/ Goto(r, "status") /\ UNCHANGED outcome
    BY <1>5 DEF Read
  <2>2. /\ pc[r] = "read" /\ UNCHANGED <<lock, stay, job, held>>
    BY <1>5 DEF Read
  <2> QED
    BY <1>typ, <2>1, <2>2, WinKept DEF Goto, End, WinInv, GivenUp, Lost
<1>6. ASSUME NEW r \in Request, WriteStatus(r) PROVE WinInv'
  BY <1>6, <1>typ, WinKept DEF WriteStatus, Goto, WinInv, GivenUp, Lost
<1>7. ASSUME NEW r \in Request, WriteRooms(r) PROVE WinInv'
  BY <1>7, <1>typ, WinKept DEF WriteRooms, Goto, WinInv, GivenUp, Lost
<1>8. ASSUME NEW r \in Request, WriteAudit(r) PROVE WinInv'
  <2>1. \/ Goto(r, "done") /\ End(r, "changed")
        \/ Goto(r, "release") /\ UNCHANGED outcome
    BY <1>8 DEF WriteAudit
  <2>2. /\ pc[r] = "audit" /\ UNCHANGED <<lock, stay, job, held>>
    BY <1>8 DEF WriteAudit
  <2> QED
    BY <1>typ, <2>1, <2>2, WinKept DEF Goto, End, WinInv, GivenUp, Lost
<1>9. ASSUME NEW r \in Request, ReleaseNight(r) PROVE WinInv'
  <2>1. \/ Goto(r, "done") /\ End(r, "changed")
        \/ UNCHANGED <<pc, outcome>>
    BY <1>9 DEF ReleaseNight
  <2>2. /\ pc[r] = "release" /\ UNCHANGED <<lock, stay, job, held>>
    BY <1>9 DEF ReleaseNight
  <2> QED
    BY <1>typ, <2>1, <2>2, WinKept DEF Goto, End, WinInv, GivenUp, Lost
<1>10. CASE UNCHANGED vars
  BY <1>10 DEF vars, bookings, inventory, WinInv, Keyed, Ascending, GivenUp, Winner, Ahead,
               Lost, Rooms
<1> QED
  <2>1. \/ \E r \in Request : Handle(r)
        \/ \E m \in Room : Expire(m)
        \/ UNCHANGED vars
    BY DEF Next, LockError, ReserveError, DatabaseError, Crash
  <2> QED
    BY <2>1, <1>1, <1>2, <1>3, <1>4, <1>5, <1>6, <1>7, <1>8, <1>9, <1>10,
       AcquireWins, ConflictWins, UnlockWins, ExpireWins DEF Handle

(* While nothing fails, creations do not all lose to one another, whatever *)
(* rooms they ask for, in whatever order they are sent: ConflictHasWinner. *)
THEOREM WinnerRemains == ASSUME ~MayFail PROVE Spec => []ConflictHasWinner
<1>1. Init => TypeInv /\ WinInv
  BY InitType, InitWin
<1>2. TypeInv /\ WinInv /\ [Next]_vars => (TypeInv /\ WinInv)'
  BY NextType, NextWin
<1>3. TypeInv /\ WinInv => ConflictHasWinner
  BY DEF WinInv, Winner, Lost, ConflictHasWinner
<1> QED
  BY <1>1, <1>2, <1>3, PTL DEF Spec

-----------------------------------------------------------------------------
(* The counters of the inventory rows, while nothing fails and bookings    *)
(* are changed one at a time.                                              *)

(* The room nights whose increments a creation has started and not done,   *)
(* and those a cancellation that has written its status has to give back.  *)
Owed == [r \in Request |->
            IF job[r].op = "create" /\ outcome[r] = "created" THEN slots[r] ELSE {}]
Returned == [r \in Request |->
                IF job[r].op = "cancel" /\ pc[r] \in {"rooms", "audit", "release"}
                THEN slots[r] ELSE {}]

(* The room nights that the counters count: those of the bookings that are *)
(* kept, less the increments to come, and those still to be given back.    *)
Standing ==
    {p \in Booking \X Slot :
        /\ p[2] \in stay[p[1]].rooms \X StayNights(stay[p[1]])
        /\ \/ /\ status[p[1]] \in Kept
              /\ \A r \in Request : job[r].b = p[1] => p[2] \notin Owed[r]
           \/ \E r \in Request : job[r].b = p[1] /\ p[2] \in Returned[r]}

Counted(row) ==
    {h \in Booking \X Room : TypeOf[h[2]] = row[1] /\ <<h[1], <<h[2], row[2]>>>> \in Standing}

CountInv ==
    \A row \in Row : /\ reserved[row] = Cardinality(Counted(row))
                     /\ row \notin rows => Counted(row) = {}

(* What a request still has in its slots at each step of its handler. *)
SlotsInv ==
    \A r \in Request :
        /\ slots[r] \subseteq Slots(r)
        /\ job[r].op = "create" =>
              /\ pc[r] \in {"lock", "overlap", "available", "save"} => outcome[r] = "open"
              /\ outcome[r] # "created" /\ pc[r] # "available" => slots[r] = {}
        /\ job[r].op \in {"checkIn", "checkOut"} => slots[r] = {}
        /\ job[r].op = "cancel" =>
              /\ pc[r] = "status" => slots[r] = Slots(r)
              /\ pc[r] \in {"read", "done"} => slots[r] = {}

(* What it says of its booking: a creation's increments keep every change  *)
(* of the booking away, and a cancellation gives back what is cancelled.   *)
OwnerInv ==
    \A r \in Request :
        /\ Owed[r] # {} =>
              /\ status[job[r].b] = "CONFIRMED"
              /\ \A q \in Request : job[q].b = job[r].b => pc[q] \notin Changing
        /\ job[r].op = "cancel" /\ pc[r] \in {"rooms", "audit", "release"}
           => status[job[r].b] = "CANCELLED"
        /\ pc[r] \in Changing => status[job[r].b] # "none"

Follows == SlotsInv /\ OwnerInv /\ CountInv

(* The steps that leave the standing room nights and the counters alone. *)
LEMMA CountKept ==
    ASSUME CountInv, Standing' = Standing, reserved' = reserved, rows' = rows
    PROVE  CountInv'
BY DEF CountInv, Counted

(* What the standing room nights depend on. *)
LEMMA StandingKept ==
    ASSUME job' = job, stay' = stay, status' = status, Owed' = Owed, Returned' = Returned
    PROVE  Standing' = Standing
BY DEF Standing

(* The room nights of a row can be counted. *)
LEMMA CountedFinite == \A row : IsFiniteSet(Counted(row)) /\ Cardinality(Counted(row)) \in Nat
<1> SUFFICES ASSUME NEW row
             PROVE  IsFiniteSet(Counted(row)) /\ Cardinality(Counted(row)) \in Nat
  OBVIOUS
<1>1. IsFiniteSet(Booking \X Room)
  BY BookingAssumption, FS_Product
<1>2. Counted(row) \subseteq Booking \X Room
  BY DEF Counted
<1> QED
  BY <1>1, <1>2, FS_Subset, FS_CardinalityType

(* A room night more. *)
LEMMA CountAdded ==
    ASSUME CountInv, TypeOK, NEW b \in Booking, NEW s \in Slot, <<b, s>> \notin Standing,
           Standing' = Standing \cup {<<b, s>>},
           IF RowOf(s) \in rows
           THEN reserved' = [reserved EXCEPT ![RowOf(s)] = @ + 1] /\ rows' = rows
           ELSE /\ rows' = rows \cup {RowOf(s)}
                /\ reserved' = [reserved EXCEPT ![RowOf(s)] = 1]
    PROVE  CountInv'
<1>1. RowOf(s) \in Row /\ s[1] \in Room /\ s[2] \in Night /\ s = <<s[1], s[2]>>
  BY RowType DEF Slot
<1> DEFINE h == <<b, s[1]>>
<1> SUFFICES ASSUME NEW row \in Row
             PROVE  /\ reserved'[row] = Cardinality(Counted(row)')
                    /\ row \notin rows' => Counted(row)' = {}
  BY DEF CountInv
<1>2. reserved[row] = Cardinality(Counted(row)) /\ (row \notin rows => Counted(row) = {})
  BY DEF CountInv
<1>3. CASE row # RowOf(s)
  <2>1. row = <<row[1], row[2]>>
    BY DEF Row
  <2>2. Counted(row)' = Counted(row)
    <3>1. ASSUME NEW g \in Booking \X Room, TypeOf[g[2]] = row[1],
                 <<g[1], <<g[2], row[2]>>>> = <<b, s>>
          PROVE  FALSE
      BY <1>1, <1>3, <2>1, <3>1 DEF RowOf
    <3> QED
      BY <3>1 DEF Counted
  <2>3. reserved'[row] = reserved[row] /\ (row \in rows' <=> row \in rows)
    BY <1>1, <1>3 DEF TypeOK
  <2> QED
    BY <1>2, <2>2, <2>3
<1>4. CASE row = RowOf(s)
  <2>1. Counted(row)' = Counted(row) \cup {h}
    <3>1. ASSUME NEW g \in Booking \X Room
          PROVE  <<g[1], <<g[2], row[2]>>>> = <<b, s>> <=> g = h
      BY <1>1, <1>4 DEF RowOf
    <3>2. h \in Booking \X Room /\ TypeOf[h[2]] = row[1]
      BY <1>1, <1>4 DEF RowOf
    <3> QED
      BY <3>1, <3>2 DEF Counted
  <2>2. h \notin Counted(row)
    BY <1>1, <1>4 DEF Counted, RowOf
  <2>3. Cardinality(Counted(row)') = Cardinality(Counted(row)) + 1
    BY <2>1, <2>2, CountedFinite, FS_AddElement
  <2>4. row \in rows' /\ reserved'[row] = Cardinality(Counted(row)) + 1
    <3>1. CASE row \in rows
      BY <1>1, <1>2, <1>4, <3>1 DEF TypeOK
    <3>2. CASE row \notin rows
      <4>1. Cardinality(Counted(row)) = 0
        BY <1>2, <3>2, FS_EmptySet
      <4> QED
        BY <1>1, <1>4, <3>2, <4>1 DEF TypeOK
    <3> QED
      BY <3>1, <3>2
  <2> QED
    BY <2>3, <2>4
<1> QED
  BY <1>3, <1>4

(* A room night less: its row is there, and its counter above zero. *)
LEMMA CountRemoved ==
    ASSUME CountInv, TypeOK, NEW b \in Booking, NEW s \in Slot, <<b, s>> \in Standing,
           Standing' = Standing \ {<<b, s>>}, GivenBack(RowOf(s)), rows' = rows
    PROVE  CountInv'
<1>1. RowOf(s) \in Row /\ s[1] \in Room /\ s[2] \in Night /\ s = <<s[1], s[2]>>
  BY RowType DEF Slot
<1> DEFINE h == <<b, s[1]>>
<1>2. h \in Counted(RowOf(s))
  BY <1>1 DEF Counted, RowOf
<1>3. /\ RowOf(s) \in rows /\ reserved[RowOf(s)] = Cardinality(Counted(RowOf(s)))
      /\ Cardinality(Counted(RowOf(s)) \ {h}) = Cardinality(Counted(RowOf(s))) - 1
      /\ Cardinality(Counted(RowOf(s)) \ {h}) \in Nat
  <2>1. IsFiniteSet(Counted(RowOf(s)) \ {h})
    BY CountedFinite, FS_RemoveElement
  <2> QED
    BY <1>1, <1>2, <2>1, CountedFinite, FS_RemoveElement, FS_CardinalityType DEF CountInv
<1>4. reserved' = [reserved EXCEPT ![RowOf(s)] = @ - 1]
  <2>1. reserved[RowOf(s)] > 0
    BY <1>3, CountedFinite
  <2> QED
    BY <1>3, <2>1 DEF GivenBack
<1> SUFFICES ASSUME NEW row \in Row
             PROVE  /\ reserved'[row] = Cardinality(Counted(row)')
                    /\ row \notin rows' => Counted(row)' = {}
  BY DEF CountInv
<1>5. CASE row # RowOf(s)
  <2>1. row = <<row[1], row[2]>>
    BY DEF Row
  <2>2. Counted(row)' = Counted(row)
    <3>1. ASSUME NEW g \in Booking \X Room, TypeOf[g[2]] = row[1],
                 <<g[1], <<g[2], row[2]>>>> = <<b, s>>
          PROVE  FALSE
      BY <1>1, <1>5, <2>1, <3>1 DEF RowOf
    <3> QED
      BY <3>1 DEF Counted
  <2>3. reserved'[row] = reserved[row]
    BY <1>1, <1>4, <1>5 DEF TypeOK
  <2> QED
    BY <2>2, <2>3 DEF CountInv
<1>6. CASE row = RowOf(s)
  <2>1. Counted(row)' = Counted(row) \ {h}
    <3>1. ASSUME NEW g \in Booking \X Room
          PROVE  <<g[1], <<g[2], row[2]>>>> = <<b, s>> <=> g = h
      BY <1>1, <1>6 DEF RowOf
    <3> QED
      BY <3>1 DEF Counted
  <2>2. reserved'[row] = reserved[row] - 1
    BY <1>1, <1>4, <1>6 DEF TypeOK
  <2> QED
    BY <1>3, <1>6, <2>1, <2>2
<1> QED
  BY <1>5, <1>6

(* Initially nothing is in flight and the counters are exact. *)
LEMMA InitFollows == ASSUME RowsThere PROVE Init => TypeInv /\ Follows
<1> SUFFICES ASSUME Init PROVE Follows
  BY InitType
<1>typ. TypeOK /\ \A r \in Request : Slots(r) \subseteq Slot
  BY InitType, JobType DEF TypeInv
<1>1. \A r \in Request : slots[r] = {} /\ outcome[r] = "open" /\ pc[r] \in {"lock", "read"}
  BY DEF Init
<1>2. SlotsInv
  BY <1>1 DEF SlotsInv
<1>3. \A r \in Request : Owed[r] = {} /\ Returned[r] = {}
  BY <1>1 DEF Owed, Returned
<1>4. OwnerInv
  BY <1>1, <1>3 DEF OwnerInv, Changing
<1>5. Standing = {p \in Booking \X Slot :
                     /\ p[2] \in stay[p[1]].rooms \X StayNights(stay[p[1]])
                     /\ status[p[1]] \in Kept}
  BY <1>3 DEF Standing
<1>6. ASSUME NEW row \in Row PROVE Counted(row) = Taken(row, Kept)
  <2>1. row = <<row[1], row[2]>> /\ row[2] \in Night
    BY DEF Row
  <2>2. ASSUME NEW h \in Booking \X Room
        PROVE  <<h[1], <<h[2], row[2]>>>> \in Standing
               <=> /\ status[h[1]] \in Kept
                   /\ h[2] \in stay[h[1]].rooms /\ row[2] \in StayNights(stay[h[1]])
    BY <1>5, <2>1 DEF Slot
  <2> QED
    BY <2>2 DEF Counted, Taken
<1>7. CountInv
  <2> SUFFICES ASSUME NEW row \in Row
               PROVE  /\ reserved[row] = Cardinality(Counted(row))
                      /\ row \notin rows => Counted(row) = {}
    BY DEF CountInv
  <2>1. reserved[row] = Cardinality(Counted(row))
    BY <1>6 DEF Init
  <2>2. ASSUME NEW h \in Taken(row, Kept) PROVE row \in rows
    <3>1. /\ h[1] \in Booking /\ StartStatus[h[1]] \in Kept /\ stay \in Stays
          /\ h[2] \in stay[h[1]].rooms /\ row[2] \in StayNights(stay[h[1]])
          /\ row = <<TypeOf[h[2]], row[2]>> /\ rows = StartRows
      BY <2>2 DEF Taken, Init, Row
    <3> QED
      BY <3>1, RowsThere DEF RowsThere
  <2> QED
    BY <1>6, <2>1, <2>2
<1> QED
  BY <1>2, <1>4, <1>7 DEF Follows

(* A step that owes nothing more or less, writes no column and enters no   *)
(* critical part of a change.                                              *)
LEMMA FollowsKept ==
    ASSUME Follows, SlotsInv', job' = job, stay' = stay, status' = status,
           reserved' = reserved, rows' = rows, Owed' = Owed, Returned' = Returned,
           \A q \in Request : /\ pc'[q] \in Changing => pc[q] \in Changing
                              /\ pc'[q] \in {"rooms", "audit", "release"}
                                 => pc[q] \in {"rooms", "audit", "release"}
    PROVE  Follows'
<1>1. CountInv'
  BY CountKept, StandingKept DEF Follows
<1>2. OwnerInv'
  BY DEF Follows, OwnerInv
<1> QED
  BY <1>1, <1>2 DEF Follows

(* A creation before it inserts its booking. *)
LEMMA CreationFollows ==
    ASSUME TypeInv, Follows, NEW r \in Request,
           job' = job, stay' = stay, status' = status, reserved' = reserved, rows' = rows,
           \A q \in Request \ {r} : /\ pc'[q] = pc[q] /\ outcome'[q] = outcome[q]
                                    /\ slots'[q] = slots[q],
           job[r].op = "create", pc[r] \in {"lock", "overlap", "available"},
           pc'[r] \notin Changing, outcome'[r] # "created", slots'[r] \subseteq Slots(r),
           pc'[r] \in {"lock", "overlap", "available", "save"} => outcome'[r] = "open",
           pc'[r] # "available" => slots'[r] = {}
    PROVE  Follows'
<1>1. outcome[r] = "open"
  BY DEF Follows, SlotsInv
<1>2. Owed' = Owed
  BY <1>1 DEF Owed
<1>3. Returned' = Returned
  BY DEF Returned
<1>4. SlotsInv'
  BY DEF Follows, SlotsInv, Slots, Rooms
<1> QED
  BY <1>2, <1>3, <1>4, FollowsKept DEF Changing

(* A change after it has written the status, and a creation giving back    *)
(* its locks.                                                              *)
LEMMA RestFollows ==
    ASSUME TypeInv, Follows, NEW r \in Request,
           job' = job, stay' = stay, status' = status, reserved' = reserved, rows' = rows,
           slots' = slots,
           \A q \in Request \ {r} : pc'[q] = pc[q] /\ outcome'[q] = outcome[q],
           \/ job[r].op = "create" /\ outcome'[r] = outcome[r] /\ pc[r] = "unlock"
              /\ pc'[r] \in {"unlock", "done"}
           \/ job[r].op # "create" /\ pc[r] \in {"rooms", "audit"}
              /\ \/ pc'[r] \in {"rooms", "audit", "release"}
                 \/ pc'[r] = "done" /\ slots[r] = {}
    PROVE  Follows'
<1>1. Owed' = Owed
  BY DEF Owed
<1>2. Returned' = Returned
  BY DEF Returned
<1>3. SlotsInv'
  BY DEF Follows, SlotsInv, Slots, Rooms
<1> QED
  BY <1>1, <1>2, <1>3, FollowsKept DEF Changing

(* A change reads its booking when none of its increments is to come, and *)
(* a cancellation takes all its nights along.                              *)
LEMMA ReadFollows ==
    ASSUME OneAtATime, TypeInv, StatusInv, Follows, NEW r \in Request, Read(r)
    PROVE  Follows'
<1> DEFINE b == job[r].b
<1>1. /\ pc[r] = "read" /\ job[r].op \in {"cancel", "checkIn", "checkOut"} /\ b \in Booking
      /\ job' = job /\ stay' = stay /\ status' = status /\ reserved' = reserved /\ rows' = rows
  BY JobType DEF Read, TypeInv, Routed, CreateLabel, bookings, inventory
<1>2. \A q \in Request : job[q].b = b => ~InFlight(q)
  BY DEF Read
<1>typ. pc \in [Request -> Label] /\ slots \in [Request -> SUBSET Slot]
        /\ outcome \in [Request -> Outcome]
  BY DEF TypeInv, TypeOK
<1>3. /\ \A q \in Request \ {r} : /\ pc'[q] = pc[q] /\ slots'[q] = slots[q]
                                  /\ outcome'[q] = outcome[q]
      /\ \/ pc'[r] = "done" /\ slots'[r] = slots[r]
         \/ /\ pc'[r] = "status" /\ status[b] \in Allowed[job[r].op]
            /\ slots'[r] = IF job[r].op = "cancel" /\ roomStatus[b] \notin {"CANCELLED", "VACATED"}
                           THEN Slots(r) ELSE {}
  BY <1>typ DEF Read, Goto, End
<1>4. slots[r] = {}
  BY <1>1 DEF Follows, SlotsInv
<1>5. pc'[r] = "status" /\ job[r].op = "cancel" => slots'[r] = Slots(r)
  <2>1. job[r].op = "cancel" /\ status[b] \in Allowed[job[r].op]
        => roomStatus[b] \notin {"CANCELLED", "VACATED"}
    BY <1>1 DEF StatusInv, RoomsFollow, Allowed
  <2> QED
    BY <1>3, <2>1
<1>6. SlotsInv'
  BY <1>1, <1>3, <1>4, <1>5 DEF Follows, SlotsInv, Slots, Rooms
<1>7. Owed' = Owed
  BY <1>1, <1>3 DEF Owed
<1>8. Returned' = Returned
  BY <1>1, <1>3 DEF Returned
<1>9. OwnerInv'
  <2>1. \A q \in Request : job[q].b = b => Owed[q] = {}
    BY <1>2 DEF InFlight, Owed
  <2>2. pc'[r] = "status" => status[b] # "none"
    BY <1>1, <1>3 DEF Allowed
  <2> QED
    BY <1>1, <1>3, <1>7, <2>1, <2>2 DEF Follows, OwnerInv, Changing
<1>10. CountInv'
  BY <1>1, <1>7, <1>8, CountKept, StandingKept DEF Follows
<1> QED
  BY <1>6, <1>9, <1>10 DEF Follows

(* The booking is inserted and all its increments are to come. *)
LEMMA SaveFollows ==
    ASSUME TypeInv, StatusInv, Follows, NEW r \in Request, Save(r)
    PROVE  Follows'
<1> DEFINE b == job[r].b
<1>1. /\ pc[r] = "save" /\ job[r].op = "create" /\ b \in Booking /\ Leave(r, "created")
      /\ job' = job /\ stay' = stay /\ reserved' = reserved /\ rows' = rows
  BY JobType DEF Save, TypeInv, Routed, ChangeLabel, inventory
<1>2. /\ pc'[r] \in {"unlock", "done"} /\ slots'[r] = Slots(r) /\ outcome'[r] = "created"
      /\ \A q \in Request \ {r} : /\ pc'[q] = pc[q] /\ slots'[q] = slots[q]
                                  /\ outcome'[q] = outcome[q]
  BY <1>1 DEF Save, Leave, Goto, End, TypeInv, TypeOK
<1>3. status'[b] = "CONFIRMED" /\ \A a \in Booking \ {b} : status'[a] = status[a]
  BY <1>1 DEF Save, TypeInv, TypeOK
<1>4. status[b] = "none"
  BY <1>1 DEF StatusInv, Fresh
<1>5. \A q \in Request : job[q].b \in Booking
  BY JobType DEF TypeInv
<1>6. \A q \in Request : job[q].b = b => pc[q] \notin Changing
  BY <1>4 DEF Follows, OwnerInv
<1>7. SlotsInv'
  BY <1>1, <1>2 DEF Follows, SlotsInv, Slots, Rooms
<1>8. /\ Owed'[r] = Slots(r)
      /\ \A q \in Request \ {r} : Owed'[q] = Owed[q]
      /\ Returned' = Returned
  BY <1>1, <1>2 DEF Owed, Returned
<1>9. OwnerInv'
  <2> SUFFICES ASSUME NEW q \in Request
               PROVE  /\ Owed'[q] # {} =>
                            /\ status'[job[q].b] = "CONFIRMED"
                            /\ \A p \in Request : job[p].b = job[q].b => pc'[p] \notin Changing
                      /\ job[q].op = "cancel" /\ pc'[q] \in {"rooms", "audit", "release"}
                         => status'[job[q].b] = "CANCELLED"
                      /\ pc'[q] \in Changing => status'[job[q].b] # "none"
    BY <1>1 DEF OwnerInv
  <2>1. CASE job[q].b = b
    BY <1>2, <1>3, <1>6, <2>1 DEF Changing
  <2>2. CASE job[q].b # b
    <3>1. q # r /\ status'[job[q].b] = status[job[q].b] /\ pc'[q] = pc[q] /\ Owed'[q] = Owed[q]
      BY <1>2, <1>3, <1>5, <1>8, <2>2
    <3>2. \A p \in Request : job[p].b = job[q].b => pc'[p] = pc[p]
      BY <1>2, <2>2
    <3> QED
      BY <3>1, <3>2 DEF Follows, OwnerInv
  <2> QED
    BY <2>1, <2>2
<1>10. Standing' = Standing
  <2> SUFFICES ASSUME NEW p \in Booking \X Slot,
                      p[2] \in stay[p[1]].rooms \X StayNights(stay[p[1]])
               PROVE  (\/ /\ status'[p[1]] \in Kept
                          /\ \A q \in Request : job[q].b = p[1] => p[2] \notin Owed'[q]
                       \/ \E q \in Request : job[q].b = p[1] /\ p[2] \in Returned'[q])
                      <=> (\/ /\ status[p[1]] \in Kept
                              /\ \A q \in Request : job[q].b = p[1] => p[2] \notin Owed[q]
                           \/ \E q \in Request : job[q].b = p[1] /\ p[2] \in Returned[q])
    BY <1>1 DEF Standing
  <2>1. CASE p[1] # b
    BY <1>3, <1>8, <2>1
  <2>2. CASE p[1] = b
    <3>1. p[2] \in Owed'[r]
      BY <1>8, <2>2 DEF Slots, Rooms
    <3>2. status[p[1]] \notin Kept
      BY <1>4, <2>2 DEF Kept, BookingStatus
    <3> QED
      BY <1>8, <2>2, <3>1, <3>2
  <2> QED
    BY <2>1, <2>2
<1> QED
  BY <1>1, <1>7, <1>9, <1>10, CountKept DEF Follows

(* The status is written: what a cancelled booking held is now what its    *)
(* cancellation has to give back.                                          *)
LEMMA WriteStatusFollows ==
    ASSUME TypeInv, StatusInv, Follows, NEW r \in Request, WriteStatus(r)
    PROVE  Follows'
<1> DEFINE b == job[r].b
<1>1. /\ pc[r] = "status" /\ pc'[r] = "rooms" /\ \A q \in Request \ {r} : pc'[q] = pc[q]
      /\ job' = job /\ stay' = stay /\ reserved' = reserved /\ rows' = rows
      /\ slots' = slots /\ outcome' = outcome
  BY DEF WriteStatus, Goto, TypeInv, TypeOK, inventory
<1>2. b \in Booking /\ job[r].op \in {"cancel", "checkIn", "checkOut"}
  BY <1>1, JobType DEF TypeInv, Routed, CreateLabel
<1>3. status'[b] = Target[job[r].op] /\ \A a \in Booking \ {b} : status'[a] = status[a]
  BY <1>2 DEF WriteStatus, TypeInv, TypeOK
<1>4. status[b] \in Kept
  BY <1>1, <1>2 DEF StatusInv, Decided, Allowed, Kept, BookingStatus
<1>5. \A q \in Request : job[q].b \in Booking
  BY JobType DEF TypeInv
<1>6. \A q \in Request : job[q].b = b => Owed[q] = {}
  BY <1>1, <1>2 DEF Follows, OwnerInv, Changing
<1>7. \A q \in Request \ {r} : job[q].b = b => pc[q] \notin Changing
  BY <1>1 DEF StatusInv, Alone, Changing
<1>8. SlotsInv'
  BY <1>1, <1>2 DEF Follows, SlotsInv, Slots, Rooms
<1>9. /\ Owed' = Owed
      /\ \A q \in Request \ {r} : Returned'[q] = Returned[q]
      /\ Returned[r] = {}
      /\ Returned'[r] = IF job[r].op = "cancel" THEN Slots(r) ELSE {}
  BY <1>1, <1>2 DEF Owed, Returned, Follows, SlotsInv
<1>10. OwnerInv'
  <2> SUFFICES ASSUME NEW q \in Request
               PROVE  /\ Owed[q] # {} =>
                            /\ status'[job[q].b] = "CONFIRMED"
                            /\ \A p \in Request : job[p].b = job[q].b => pc'[p] \notin Changing
                      /\ job[q].op = "cancel" /\ pc'[q] \in {"rooms", "audit", "release"}
                         => status'[job[q].b] = "CANCELLED"
                      /\ pc'[q] \in Changing => status'[job[q].b] # "none"
    BY <1>1, <1>9 DEF OwnerInv
  <2>1. CASE job[q].b = b
    <3>1. status'[b] # "none" /\ (job[r].op = "cancel" => status'[b] = "CANCELLED")
      BY <1>2, <1>3 DEF Target
    <3> QED
      BY <1>1, <1>6, <1>7, <2>1, <3>1 DEF Changing
  <2>2. CASE job[q].b # b
    <3>1. q # r /\ status'[job[q].b] = status[job[q].b] /\ pc'[q] = pc[q]
      BY <1>1, <1>3, <1>5, <2>2
    <3>2. \A p \in Request : job[p].b = job[q].b => pc'[p] = pc[p]
      BY <1>1, <2>2
    <3> QED
      BY <3>1, <3>2 DEF Follows, OwnerInv
  <2> QED
    BY <2>1, <2>2
<1>11. Standing' = Standing
  <2> SUFFICES ASSUME NEW p \in Booking \X Slot,
                      p[2] \in stay[p[1]].rooms \X StayNights(stay[p[1]])
               PROVE  (\/ /\ status'[p[1]] \in Kept
                          /\ \A q \in Request : job[q].b = p[1] => p[2] \notin Owed'[q]
                       \/ \E q \in Request : job[q].b = p[1] /\ p[2] \in Returned'[q])
                      <=> (\/ /\ status[p[1]] \in Kept
                              /\ \A q \in Request : job[q].b = p[1] => p[2] \notin Owed[q]
                           \/ \E q \in Request : job[q].b = p[1] /\ p[2] \in Returned[q])
    BY <1>1 DEF Standing
  <2>1. CASE p[1] # b
    BY <1>3, <1>9, <2>1
  <2>2. CASE p[1] = b /\ job[r].op = "cancel"
    <3>1. p[2] \in Returned'[r]
      BY <1>9, <2>2 DEF Slots, Rooms
    <3> QED
      BY <1>4, <1>6, <2>2, <3>1
  <2>3. CASE p[1] = b /\ job[r].op # "cancel"
    <3>1. status'[b] \in Kept
      BY <1>2, <1>3, <2>3 DEF Target, Kept, BookingStatus
    <3> QED
      BY <1>4, <1>6, <1>9, <2>3, <3>1
  <2> QED
    BY <2>1, <2>2, <2>3
<1> QED
  BY <1>1, <1>8, <1>10, <1>11, CountKept DEF Follows

(* An increment. *)
LEMMA ReserveFollows ==
    ASSUME TypeInv, Follows, NEW r \in Request, ReserveNight(r)
    PROVE  Follows'
<1> DEFINE b == job[r].b
<1>1. PICK s \in slots[r] :
         /\ Reserving(r, s)
         /\ IF RowOf(s) \in rows
            THEN reserved' = [reserved EXCEPT ![RowOf(s)] = @ + 1] /\ UNCHANGED <<rows, total>>
            ELSE /\ rows' = rows \cup {RowOf(s)}
                 /\ total' = [total EXCEPT ![RowOf(s)] = 1]
                 /\ reserved' = [reserved EXCEPT ![RowOf(s)] = 1]
         /\ slots' = [slots EXCEPT ![r] = @ \ {s}]
  BY DEF ReserveNight
<1>2. /\ job' = job /\ stay' = stay /\ status' = status /\ pc' = pc /\ outcome' = outcome
      /\ job[r].op = "create" /\ outcome[r] = "created"
      /\ slots'[r] = slots[r] \ {s} /\ \A q \in Request \ {r} : slots'[q] = slots[q]
      /\ b \in Booking /\ s \in Slot /\ s \in Slots(r)
  BY <1>1, JobType DEF ReserveNight, Reserving, bookings, TypeInv, TypeOK, Follows, SlotsInv
<1>3. /\ Owed[r] = slots[r] /\ Owed'[r] = slots[r] \ {s}
      /\ \A q \in Request \ {r} : Owed'[q] = Owed[q]
      /\ Returned' = Returned
  BY <1>2 DEF Owed, Returned
<1>4. SlotsInv'
  BY <1>2 DEF Follows, SlotsInv, Slots, Rooms
<1>5. OwnerInv'
  BY <1>2, <1>3 DEF Follows, OwnerInv
<1>6. /\ status[b] = "CONFIRMED"
      /\ \A q \in Request : job[q].b = b => pc[q] \notin Changing
  BY <1>1, <1>3 DEF Follows, OwnerInv
<1>7. \A q \in Request : job[q].b = b => Returned[q] = {}
  BY <1>6 DEF Returned, Changing
<1>8. \A q \in Request \ {r} : job[q].b = b => Owed[q] = {}
  BY <1>2, CreatedOnce DEF Owed, TypeInv
<1>9. <<b, s>> \notin Standing
  BY <1>1, <1>3, <1>7 DEF Standing
<1>10. Standing' = Standing \cup {<<b, s>>}
  <2>1. <<b, s>> \in Standing'
    <3>1. \A q \in Request : job[q].b = b => s \notin Owed'[q]
      BY <1>3, <1>8
    <3>2. status[b] \in Kept /\ s \in stay[b].rooms \X StayNights(stay[b])
      BY <1>2, <1>6 DEF Kept, BookingStatus, Slots, Rooms
    <3> QED
      BY <1>2, <3>1, <3>2 DEF Standing
  <2>2. ASSUME NEW p \in Booking \X Slot, p # <<b, s>> PROVE p \in Standing' <=> p \in Standing
    <3>1. \A q \in Request : job[q].b = p[1] => (p[2] \in Owed'[q] <=> p[2] \in Owed[q])
      BY <1>3, <2>2
    <3> QED
      BY <1>2, <1>3, <3>1 DEF Standing
  <2>3. Standing \subseteq Booking \X Slot /\ Standing' \subseteq Booking \X Slot
    BY DEF Standing
  <2> QED
    BY <2>1, <2>2, <2>3
<1>11. CountInv'
  BY <1>1, <1>2, <1>9, <1>10, CountAdded DEF Follows, TypeInv
<1> QED
  BY <1>4, <1>5, <1>11 DEF Follows

(* A decrement. *)
LEMMA ReleaseFollows ==
    ASSUME ~MayFail, TypeInv, StatusInv, Follows, NEW r \in Request, ReleaseNight(r)
    PROVE  Follows'
<1> DEFINE b == job[r].b
<1>1. PICK s \in slots[r] :
         /\ GivenBack(RowOf(s))
         /\ slots' = [slots EXCEPT ![r] = @ \ {s}]
         /\ IF slots[r] = {s} THEN Goto(r, "done") /\ End(r, "changed")
                              ELSE UNCHANGED <<pc, outcome>>
  BY DEF ReleaseNight
<1>2. /\ job' = job /\ stay' = stay /\ status' = status /\ rows' = rows /\ pc[r] = "release"
      /\ b \in Booking /\ s \in Slot /\ s \in Slots(r)
      /\ job[r].op = "cancel"
  BY <1>1, JobType DEF ReleaseNight, bookings, TypeInv, TypeOK, Routed, CreateLabel,
                       Follows, SlotsInv
<1>3. /\ slots'[r] = slots[r] \ {s}
      /\ \A q \in Request \ {r} : /\ slots'[q] = slots[q] /\ pc'[q] = pc[q]
                                  /\ outcome'[q] = outcome[q]
      /\ \/ pc'[r] = "done" /\ slots[r] = {s}
         \/ pc'[r] = "release"
  BY <1>1, <1>2 DEF Goto, End, TypeInv, TypeOK
<1>4. /\ Owed' = Owed
      /\ Returned[r] = slots[r] /\ Returned'[r] = slots[r] \ {s}
      /\ \A q \in Request \ {r} : Returned'[q] = Returned[q]
  BY <1>2, <1>3 DEF Owed, Returned
<1>5. SlotsInv'
  BY <1>2, <1>3 DEF Follows, SlotsInv, Slots, Rooms
<1>6. OwnerInv'
  BY <1>2, <1>3, <1>4 DEF Follows, OwnerInv, Changing
<1>7. status[b] \notin Kept
  BY <1>2 DEF Follows, OwnerInv, Kept
<1>8. \A q \in Request \ {r} : job[q].b = b => Returned[q] = {}
  BY <1>2 DEF StatusInv, Alone, Changing, Returned
<1>9. <<b, s>> \in Standing
  BY <1>1, <1>2, <1>4 DEF Standing, Slots, Rooms
<1>10. Standing' = Standing \ {<<b, s>>}
  <2>1. <<b, s>> \notin Standing'
    <3>1. \A q \in Request : job[q].b = b => s \notin Returned'[q]
      BY <1>4, <1>8
    <3> QED
      BY <1>2, <1>7, <3>1 DEF Standing
  <2>2. ASSUME NEW p \in Booking \X Slot, p # <<b, s>> PROVE p \in Standing' <=> p \in Standing
    <3>1. \A q \in Request : job[q].b = p[1] => (p[2] \in Returned'[q] <=> p[2] \in Returned[q])
      BY <1>4, <2>2
    <3> QED
      BY <1>2, <1>4, <3>1 DEF Standing
  <2>3. Standing \subseteq Booking \X Slot /\ Standing' \subseteq Booking \X Slot
    BY DEF Standing
  <2> QED
    BY <2>1, <2>2, <2>3
<1>11. CountInv'
  BY <1>1, <1>2, <1>9, <1>10, CountRemoved DEF Follows, TypeInv
<1> QED
  BY <1>5, <1>6, <1>11 DEF Follows

(* Every step keeps the counters in step with the bookings. *)
LEMMA NextFollows ==
    ASSUME OneAtATime, ~MayFail
    PROVE  TypeInv /\ StatusInv /\ Follows /\ [Next]_vars => Follows'
<1> SUFFICES ASSUME TypeInv, StatusInv, Follows, [Next]_vars PROVE Follows'
  OBVIOUS
<1>typ. /\ pc \in [Request -> Label] /\ outcome \in [Request -> Outcome]
        /\ slots \in [Request -> SUBSET Slot]
  BY DEF TypeInv, TypeOK
<1>op. \A r \in Request :
          /\ pc[r] \in {"lock", "overlap", "available", "save", "unlock"}
             => job[r].op = "create" /\ pc[r] \notin Changing
          /\ pc[r] \in Changing => job[r].op # "create"
  BY DEF TypeInv, Routed, CreateLabel, ChangeLabel, Changing
<1>1. ASSUME NEW r \in Request, Acquire(r) PROVE Follows'
  <2>1. /\ pc[r] = "lock" /\ job' = job /\ stay' = stay /\ status' = status
        /\ reserved' = reserved /\ rows' = rows /\ outcome' = outcome /\ slots' = slots
        /\ pc'[r] \in {"lock", "overlap"} /\ \A q \in Request \ {r} : pc'[q] = pc[q]
    BY <1>1, <1>typ DEF Acquire, Goto, bookings, inventory
  <2>2. outcome[r] = "open" /\ slots[r] = {}
    BY <1>op, <2>1 DEF Follows, SlotsInv
  <2> QED
    BY <1>op, <2>1, <2>2, CreationFollows DEF Changing
<1>2. ASSUME NEW r \in Request, LockConflict(r) PROVE Follows'
  <2>1. /\ pc[r] = "lock" /\ job' = job /\ stay' = stay /\ status' = status
        /\ reserved' = reserved /\ rows' = rows /\ slots' = slots
        /\ pc'[r] \in {"unlock", "done"} /\ outcome'[r] = "LOCK_CONFLICT"
        /\ \A q \in Request \ {r} : pc'[q] = pc[q] /\ outcome'[q] = outcome[q]
    BY <1>2, <1>typ DEF LockConflict, Leave, End, Goto, bookings, inventory
  <2>2. slots[r] = {}
    BY <1>op, <2>1 DEF Follows, SlotsInv
  <2> QED
    BY <1>op, <2>1, <2>2, CreationFollows DEF Changing
<1>3. ASSUME NEW r \in Request, Unlock(r) PROVE Follows'
  <2>1. /\ pc[r] = "unlock" /\ job' = job /\ stay' = stay /\ status' = status
        /\ reserved' = reserved /\ rows' = rows /\ slots' = slots /\ outcome' = outcome
        /\ pc'[r] \in {"unlock", "done"} /\ \A q \in Request \ {r} : pc'[q] = pc[q]
    BY <1>3, <1>typ DEF Unlock, Goto, bookings, inventory
  <2> QED
    BY <1>op, <2>1, RestFollows
<1>4. ASSUME NEW m \in Room, Expire(m) PROVE Follows'
  BY <1>4, FollowsKept DEF Expire, Follows, SlotsInv, Slots, Rooms, Owed, Returned,
                           bookings, inventory
<1>5. ASSUME NEW r \in Request, CheckOverlap(r) PROVE Follows'
  <2>1. /\ pc[r] = "overlap" /\ job' = job /\ stay' = stay /\ status' = status
        /\ reserved' = reserved /\ rows' = rows
        /\ \/ Leave(r, "ROOM_UNAVAILABLE") /\ slots' = slots
           \/ /\ Goto(r, "available") /\ slots' = [slots EXCEPT ![r] = Slots(r)]
              /\ outcome' = outcome
           \/ UNCHANGED <<pc, slots, outcome>>
    BY <1>5 DEF CheckOverlap, bookings, inventory
  <2>2. job[r].op = "create" /\ outcome[r] = "open" /\ slots[r] = {}
    BY <1>op, <2>1 DEF Follows, SlotsInv
  <2>3. CASE Leave(r, "ROOM_UNAVAILABLE") /\ slots' = slots
    <3>1. /\ pc'[r] \in {"unlock", "done"} /\ outcome'[r] = "ROOM_UNAVAILABLE"
          /\ \A q \in Request \ {r} : pc'[q] = pc[q] /\ outcome'[q] = outcome[q]
      BY <1>typ, <2>3 DEF Leave, End, Goto
    <3> QED
      BY <2>1, <2>2, <2>3, <3>1, CreationFollows DEF Changing
  <2>4. CASE /\ Goto(r, "available") /\ slots' = [slots EXCEPT ![r] = Slots(r)]
             /\ outcome' = outcome
    <3>1. /\ pc'[r] = "available" /\ slots'[r] = Slots(r)
          /\ \A q \in Request \ {r} : pc'[q] = pc[q] /\ slots'[q] = slots[q]
      BY <1>typ, <2>4 DEF Goto
    <3> QED
      BY <2>1, <2>2, <2>4, <3>1, CreationFollows DEF Changing
  <2>5. CASE UNCHANGED <<pc, slots, outcome>>
    BY <2>1, <2>2, <2>5, CreationFollows DEF Changing
  <2> QED
    BY <2>1, <2>3, <2>4, <2>5
<1>6. ASSUME NEW r \in Request, CheckAvailability(r) PROVE Follows'
  <2>1. PICK s \in slots[r] :
           \/ Leave(r, "INVENTORY_UNAVAILABLE") /\ slots' = [slots EXCEPT ![r] = {}]
           \/ /\ slots' = [slots EXCEPT ![r] = @ \ {s}]
              /\ IF slots[r] = {s} THEN Goto(r, "save") ELSE UNCHANGED pc
              /\ UNCHANGED outcome
    BY <1>6 DEF CheckAvailability
  <2>2. /\ pc[r] = "available" /\ job' = job /\ stay' = stay /\ status' = status
        /\ reserved' = reserved /\ rows' = rows
    BY <1>6 DEF CheckAvailability, bookings, inventory
  <2>3. job[r].op = "create" /\ outcome[r] = "open" /\ slots[r] \subseteq Slots(r)
    BY <1>op, <2>2 DEF Follows, SlotsInv
  <2>4. CASE Leave(r, "INVENTORY_UNAVAILABLE") /\ slots' = [slots EXCEPT ![r] = {}]
    <3>1. /\ pc'[r] \in {"unlock", "done"} /\ outcome'[r] = "INVENTORY_UNAVAILABLE"
          /\ slots'[r] = {}
          /\ \A q \in Request \ {r} : /\ pc'[q] = pc[q] /\ outcome'[q] = outcome[q]
                                      /\ slots'[q] = slots[q]
      BY <1>typ, <2>4 DEF Leave, End, Goto
    <3> QED
      BY <2>2, <2>3, <3>1, CreationFollows DEF Changing
  <2>5. CASE /\ slots' = [slots EXCEPT ![r] = @ \ {s}]
             /\ IF slots[r] = {s} THEN Goto(r, "save") ELSE UNCHANGED pc
             /\ UNCHANGED outcome
    <3>1. /\ \/ pc'[r] = "save" /\ slots[r] = {s}
             \/ pc'[r] = "available"
          /\ slots'[r] = slots[r] \ {s}
          /\ \A q \in Request \ {r} : pc'[q] = pc[q] /\ slots'[q] = slots[q]
      BY <1>typ, <2>2, <2>5 DEF Goto
    <3> QED
      BY <2>2, <2>3, <2>5, <3>1, CreationFollows DEF Changing
  <2> QED
    BY <2>1, <2>4, <2>5
<1>7. ASSUME NEW r \in Request, WriteRooms(r) PROVE Follows'
  <2>1. /\ pc[r] = "rooms" /\ job' = job /\ stay' = stay /\ status' = status
        /\ reserved' = reserved /\ rows' = rows /\ slots' = slots /\ outcome' = outcome
        /\ pc'[r] = "audit" /\ \A q \in Request \ {r} : pc'[q] = pc[q]
    BY <1>7, <1>typ DEF WriteRooms, Goto, inventory
  <2> QED
    BY <1>op, <2>1, RestFollows DEF Changing
<1>8. ASSUME NEW r \in Request, WriteAudit(r) PROVE Follows'
  <2>1. /\ pc[r] = "audit" /\ job' = job /\ stay' = stay /\ status' = status
        /\ reserved' = reserved /\ rows' = rows /\ slots' = slots
        /\ IF slots[r] = {} THEN Goto(r, "done") /\ End(r, "changed")
                            ELSE Goto(r, "release") /\ UNCHANGED outcome
    BY <1>8 DEF WriteAudit, bookings, inventory
  <2>2. /\ pc'[r] = "release" \/ (pc'[r] = "done" /\ slots[r] = {})
        /\ \A q \in Request \ {r} : pc'[q] = pc[q] /\ outcome'[q] = outcome[q]
    BY <1>typ, <2>1 DEF Goto, End
  <2> QED
    BY <1>op, <2>1, <2>2, RestFollows DEF Changing
<1>9. CASE UNCHANGED vars
  BY <1>9, FollowsKept DEF vars, Follows, SlotsInv, Slots, Rooms, Owed, Returned,
                           bookings, inventory
<1> QED
  <2>1. \/ \E r \in Request : Handle(r)
        \/ \E m \in Room : Expire(m)
        \/ UNCHANGED vars
    BY DEF Next, LockError, ReserveError, DatabaseError, Crash
  <2> QED
    BY <2>1, <1>1, <1>2, <1>3, <1>4, <1>5, <1>6, <1>7, <1>8, <1>9, SaveFollows, ReserveFollows,
       ReadFollows, WriteStatusFollows, ReleaseFollows DEF Handle

(* With nothing in flight every kept booking counts, and nothing else. *)
LEMMA QuietCounts ==
    ASSUME TypeInv, Follows
    PROVE  InventoryFollows
<1> SUFFICES ASSUME Quiet, NEW row \in Row PROVE reserved[row] = Cardinality(Taken(row, Kept))
  BY DEF InventoryFollows
<1>1. \A r \in Request : Owed[r] = {} /\ Returned[r] = {}
  BY DEF Quiet, Owed, Returned
<1>2. row = <<row[1], row[2]>> /\ row[2] \in Night
  BY DEF Row
<1>3. ASSUME NEW h \in Booking \X Room
      PROVE  <<h[1], <<h[2], row[2]>>>> \in Standing
             <=> /\ status[h[1]] \in Kept
                 /\ h[2] \in stay[h[1]].rooms /\ row[2] \in StayNights(stay[h[1]])
  BY <1>1, <1>2 DEF Slot, Standing
<1>4. Counted(row) = Taken(row, Kept)
  BY <1>3 DEF Counted, Taken
<1> QED
  BY <1>4 DEF Follows, CountInv

(* While nothing fails and bookings are changed one at a time, every       *)
(* counter ends exact, although nobody waits for the increments:           *)
(* InventoryFollows.                                                       *)
THEOREM CountersFollow ==
    ASSUME OneAtATime, RowsThere, ~MayFail
    PROVE  Spec => []InventoryFollows
<1>1. Init => TypeInv /\ StatusInv /\ Follows
  BY RowsThere, InitFollows, InitStatus
<1>2. TypeInv /\ StatusInv /\ Follows /\ [Next]_vars => (TypeInv /\ StatusInv /\ Follows)'
  BY OneAtATime, ~MayFail, NextType, NextStatus, NextFollows
<1>3. TypeInv /\ StatusInv /\ Follows => InventoryFollows
  BY QuietCounts
<1> QED
  BY <1>1, <1>2, <1>3, PTL DEF Spec
=============================================================================
