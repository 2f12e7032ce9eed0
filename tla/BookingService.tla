-------------------------- MODULE BookingService --------------------------
(***************************************************************************)
(* booking-service: the requests that create a booking, cancel it, check   *)
(* its guests in and check them out.  CreateBooking works under one Redis  *)
(* lock per room, taken in one attempt each; the other three take no lock: *)
(* they read the booking, decide, and write.  Every await is a step of its *)
(* own, so the requests of all replicas interleave between any two.        *)
(*                                                                         *)
(* The counters of the inventory table follow the bookings: creating one   *)
(* starts increments nobody waits for, cancelling one decrements.  The     *)
(* dates are days (a stay is its nights) and the rooms of a booking carry  *)
(* the type the hotel gave them.  PatchBooking writes two notes, the audit *)
(* trail and the cache are never read by these handlers, the cancellation  *)
(* policy only decides the refund (a policy that refuses is overruled by   *)
(* the catch around it), and publishing is fire-and-forget: none of these  *)
(* is part of the state.                                                   *)
(***************************************************************************)
EXTENDS Integers, FiniteSets

CONSTANTS
    Room,           \* the rooms of the hotels, in the order of their ids
    Night,          \* the nights of the calendar, a set of naturals
    Type,           \* room types
    TypeOf,         \* the type of each room
    Booking,        \* bookings there are or will be
    Request,        \* the HTTP requests that reach the service
    None,           \* no holder: the Redis key does not exist
    Workload,       \* the assignments of jobs to requests to consider
    Stays,          \* the assignments of rooms and nights to bookings to consider
    StartStatus,    \* the status of the bookings before the requests
    StartTotal,     \* per type and night, the rooms of the inventory row not blocked
    StartRows,      \* the inventory rows there are before the requests
    HoldersTimely,  \* TRUE: every critical section ends before its lock's TTL
    OneAtATime,     \* TRUE: callers change a booking only when nothing of it is in flight
    MayFail         \* TRUE: Redis, the database and the replicas may fail

(* "none" stands for a booking that has not been created. *)
BookingStatus == {"PENDING", "CONFIRMED", "CHECKED_IN", "CHECKED_OUT", "CANCELLED", "NO_SHOW"}
Status == BookingStatus \cup {"none"}
BookingRoomStatus == {"RESERVED", "OCCUPIED", "VACATED", "CANCELLED"}
Job == [op: {"create", "cancel", "checkIn", "checkOut"}, b: Booking]
Stay == [rooms: (SUBSET Room) \ {{}}, from: Night, to: Night]
Slot == Room \X Night
Row == Type \X Night

StayNights(s) == s.from .. s.to
Meets(s, t) == s.rooms \cap t.rooms # {} /\ StayNights(s) \cap StayNights(t) # {}

ASSUME BookingAssumption ==
    /\ Room \subseteq Nat /\ Night \subseteq Nat
    /\ IsFiniteSet(Room) /\ IsFiniteSet(Booking)
    /\ TypeOf \in [Room -> Type]
    /\ None \notin Request
    /\ Workload \subseteq [Request -> Job]
    /\ \A w \in Workload, q, r \in Request :      \* an id is generated for each creation
          w[r].op = "create"
          => /\ StartStatus[w[r].b] = "none"
             /\ w[q] = w[r] => q = r
    /\ Stays \subseteq [Booking -> Stay]
    /\ StartStatus \in [Booking -> Status]
    /\ \A s \in Stays, a, b \in Booking :
          /\ s[a].from <= s[a].to /\ StayNights(s[a]) \subseteq Night
          /\ a # b /\ "none" \notin {StartStatus[a], StartStatus[b]} => ~Meets(s[a], s[b])
    /\ StartTotal \in [Row -> Nat]
    /\ StartRows \subseteq Row
    /\ {HoldersTimely, OneAtATime, MayFail} \subseteq BOOLEAN

VARIABLES
    status,     \* [Booking -> Status]  the column of the booking
    roomStatus, \* [Booking -> BookingRoomStatus]  of its room rows, always written together
    rows,       \* the inventory rows there are
    total,      \* [Row -> Nat]  totalInventory less blockedInventory
    reserved,   \* [Row -> Nat]  reservedInventory
    lock,       \* [Room -> Request or None]  owner of the token under the Redis key
    stay,       \* rooms and nights of each booking; never changes
    job,        \* what each request asks for; never changes
    pc,         \* where each handler is
    held,       \* the rooms in CreateBooking's `acquiredLocks`
    todo,       \* rooms whose overlap check is still to come
    slots,      \* room nights whose availability check, increment or decrement is
    outcome     \* how the request ended, or is about to

bookings == <<status, roomStatus>>
inventory == <<rows, total, reserved>>
vars == <<bookings, inventory, lock, stay, job, pc, held, todo, slots, outcome>>

Label == {"lock", "overlap", "available", "save", "unlock",
          "read", "status", "rooms", "audit", "release", "done"}
Outcome == {"open", "created", "changed", "refused", "LOCK_CONFLICT", "ROOM_UNAVAILABLE",
            "INVENTORY_UNAVAILABLE", "error", "crashed"}

Rooms(r) == stay[job[r].b].rooms

(* MUTANT: the loop over the dates stops one day early. *)
SlotsShort(r) == Rooms(r) \X (stay[job[r].b].from .. stay[job[r].b].to - 1)

(* getDateRange, for every room. *)
Slots(r) == Rooms(r) \X StayNights(stay[job[r].b])
RowOf(s) == <<TypeOf[s[1]], s[2]>>

(* The room nights of one row that bookings with a status in S stand for. *)
Taken(row, S) ==
    {h \in Booking \X Room : /\ status[h[1]] \in S
                             /\ h[2] \in stay[h[1]].rooms /\ TypeOf[h[2]] = row[1]
                             /\ row[2] \in StayNights(stay[h[1]])}

Kept == BookingStatus \ {"CANCELLED"}

Init ==
    /\ job \in Workload
    /\ stay \in Stays
    /\ status = StartStatus
    /\ roomStatus = [b \in Booking |-> "RESERVED"]
    /\ rows = StartRows
    /\ total = StartTotal
    /\ reserved = [row \in Row |-> Cardinality(Taken(row, Kept))]
    /\ lock = [m \in Room |-> None]
    /\ pc = [r \in Request |-> IF job[r].op = "create" THEN "lock" ELSE "read"]
    /\ held = [r \in Request |-> {}]
    /\ todo = [r \in Request |-> {}]
    /\ slots = [r \in Request |-> {}]
    /\ outcome = [r \in Request |-> "open"]

-----------------------------------------------------------------------------
(* Control. *)

Goto(r, label) == pc' = [pc EXCEPT ![r] = label]
End(r, how) == outcome' = [outcome EXCEPT ![r] = how]

(* A throw or a return out of the try block: the locks go first, if any. *)
Leave(r, how) ==
    /\ End(r, how)
    /\ Goto(r, IF held[r] = {} THEN "done" ELSE "unlock")

(* The loops over a stay's nights go forward; those over its rooms follow  *)
(* the order in which the rooms were sent, which may be any.               *)
NextSlot(r, s) == s \in slots[r] /\ \A t \in slots[r] : t[1] = s[1] => s[2] <= t[2]

-----------------------------------------------------------------------------
(* CreateBooking: the locks. *)

(* MUTANT: the rooms are locked in the order they were sent. *)
NextRoomAsSent(r, m) == m \in Rooms(r) \ held[r]

NextRoom(r, m) == m \in Rooms(r) \ held[r] /\ \A k \in Rooms(r) \ held[r] : m <= k

(* MUTANT: SET without NX. *)
FreeAnyway(m) == TRUE

(* SET ... NX succeeds. *)
Free(m) == lock[m] = None

Acquire(r) ==
    /\ pc[r] = "lock"
    /\ \E m \in Room :
          /\ NextRoom(r, m)
          /\ Free(m)
          /\ lock' = [lock EXCEPT ![m] = r]
          /\ held' = [held EXCEPT ![r] = @ \cup {m}]
          /\ IF Rooms(r) = held[r] \cup {m}
             THEN Goto(r, "overlap") /\ todo' = [todo EXCEPT ![r] = Rooms(r)]
             ELSE UNCHANGED <<pc, todo>>
    /\ UNCHANGED <<bookings, inventory, stay, job, slots, outcome>>

(* MUTANT: the locks are taken before the try block, so that a refusal     *)
(* leaves those taken so far.                                              *)
LockConflictKeeping(r) ==
    /\ pc[r] = "lock"
    /\ \E m \in Room : NextRoom(r, m) /\ ~Free(m)
    /\ End(r, "LOCK_CONFLICT") /\ Goto(r, "done")
    /\ UNCHANGED <<bookings, inventory, lock, stay, job, held, todo, slots>>

(* The one attempt found the key taken. *)
LockConflict(r) ==
    /\ pc[r] = "lock"
    /\ \E m \in Room : NextRoom(r, m) /\ ~Free(m)
    /\ Leave(r, "LOCK_CONFLICT")
    /\ UNCHANGED <<bookings, inventory, lock, stay, job, held, todo, slots>>

(* SET throws; the key may have been set all the same, and nobody knows. *)
LockError(r) ==
    /\ MayFail
    /\ pc[r] = "lock"
    /\ \/ UNCHANGED lock
       \/ \E m \in Room : NextRoom(r, m) /\ Free(m) /\ lock' = [lock EXCEPT ![m] = r]
    /\ Leave(r, "error")
    /\ UNCHANGED <<bookings, inventory, stay, job, held, todo, slots>>

(* The finally block, last lock first: the script deletes a key that still *)
(* carries the request's token; an error of the script is swallowed.       *)
Unlock(r) ==
    /\ pc[r] = "unlock"
    /\ \E m \in held[r] :
          /\ \A k \in held[r] : k <= m
          /\ \/ lock' = [lock EXCEPT ![m] = IF @ = r THEN None ELSE @]
             \/ MayFail /\ UNCHANGED lock
          /\ held' = [held EXCEPT ![r] = @ \ {m}]
          /\ IF held[r] = {m} THEN Goto(r, "done") ELSE UNCHANGED pc
    /\ UNCHANGED <<bookings, inventory, stay, job, todo, slots, outcome>>

(* PX: the key expires, under a working holder only if it is not timely. *)
Expire(m) ==
    /\ lock[m] # None
    /\ HoldersTimely => m \notin held[lock[m]]
    /\ lock' = [lock EXCEPT ![m] = None]
    /\ UNCHANGED <<bookings, inventory, stay, job, pc, held, todo, slots, outcome>>

-----------------------------------------------------------------------------
(* CreateBooking: the body. *)

(* MUTANT: guests who have checked in no longer count. *)
OccupiesReserved(b) == status[b] \in {"PENDING", "CONFIRMED"} /\ roomStatus[b] = "RESERVED"

(* The bookings that findOverlappingRoomBookings counts. *)
Occupies(b) ==
    /\ status[b] \notin {"none", "CANCELLED", "CHECKED_OUT"}
    /\ roomStatus[b] \notin {"CANCELLED", "VACATED"}

Overlapped(r, m) ==
    \E b \in Booking : /\ Occupies(b)
                       /\ m \in stay[b].rooms
                       /\ StayNights(stay[b]) \cap StayNights(stay[job[r].b]) # {}

CheckOverlap(r) ==
    /\ pc[r] = "overlap"
    /\ \E m \in todo[r] :
          \/ /\ Overlapped(r, m)
             /\ Leave(r, "ROOM_UNAVAILABLE")
             /\ UNCHANGED <<todo, slots>>
          \/ /\ ~Overlapped(r, m)
             /\ todo' = [todo EXCEPT ![r] = @ \ {m}]
             /\ IF todo[r] = {m}
                THEN Goto(r, "available") /\ slots' = [slots EXCEPT ![r] = Slots(r)]
                ELSE UNCHANGED <<pc, slots>>
             /\ UNCHANGED outcome
    /\ UNCHANGED <<bookings, inventory, lock, stay, job, held>>

(* No room of the type is left; every room of the request asks for one. *)
Lacking(row) == row \in rows /\ total[row] - reserved[row] < 1

(* checkAvailability: a missing row and a failed read pass. *)
CheckAvailability(r) ==
    /\ pc[r] = "available"
    /\ \E s \in slots[r] :
          /\ NextSlot(r, s)
          /\ \/ /\ Lacking(RowOf(s))
                /\ Leave(r, "INVENTORY_UNAVAILABLE")
                /\ slots' = [slots EXCEPT ![r] = {}]
             \/ /\ ~Lacking(RowOf(s)) \/ MayFail
                /\ slots' = [slots EXCEPT ![r] = @ \ {s}]
                /\ IF slots[r] = {s} THEN Goto(r, "save") ELSE UNCHANGED pc
                /\ UNCHANGED outcome
    /\ UNCHANGED <<bookings, inventory, lock, stay, job, held, todo>>

(* The transaction of createWithDetails commits and the increments start. *)
Save(r) ==
    /\ pc[r] = "save"
    /\ status' = [status EXCEPT ![job[r].b] = "CONFIRMED"]
    /\ roomStatus' = [roomStatus EXCEPT ![job[r].b] = "RESERVED"]
    /\ slots' = [slots EXCEPT ![r] = Slots(r)]
    /\ Leave(r, "created")
    /\ UNCHANGED <<inventory, lock, stay, job, held, todo>>

(* Nobody waits for reserveInventory: one chain of upserts for each room,  *)
(* night by night, while the handler goes on.                              *)
Reserving(r, s) == job[r].op = "create" /\ outcome[r] = "created" /\ NextSlot(r, s)

ReserveNight(r) ==
    /\ \E s \in slots[r] :
          /\ Reserving(r, s)
          /\ LET row == RowOf(s) IN
             IF row \in rows
             THEN reserved' = [reserved EXCEPT ![row] = @ + 1] /\ UNCHANGED <<rows, total>>
             ELSE /\ rows' = rows \cup {row}
                  /\ total' = [total EXCEPT ![row] = 1]
                  /\ reserved' = [reserved EXCEPT ![row] = 1]
          /\ slots' = [slots EXCEPT ![r] = @ \ {s}]
    /\ UNCHANGED <<bookings, lock, stay, job, pc, held, todo, outcome>>

(* An error ends the room's chain; it is logged and nothing makes up for it. *)
ReserveError(r) ==
    /\ MayFail
    /\ \E s \in slots[r] :
          Reserving(r, s) /\ slots' = [slots EXCEPT ![r] = {t \in @ : t[1] # s[1]}]
    /\ UNCHANGED <<bookings, inventory, lock, stay, job, pc, held, todo, outcome>>

-----------------------------------------------------------------------------
(* CancelBooking, CheckIn and CheckOut. *)

(* canBeCancelled, canCheckIn and canCheckOut. *)
Allowed == [cancel   |-> {"PENDING", "CONFIRMED", "NO_SHOW"},
            checkIn  |-> {"PENDING", "CONFIRMED"},
            checkOut |-> {"CHECKED_IN"}]

(* What updateStatus and updateRoomStatuses are given. *)
Target == [cancel |-> "CANCELLED", checkIn |-> "CHECKED_IN", checkOut |-> "CHECKED_OUT"]
RoomTarget == [cancel |-> "CANCELLED", checkIn |-> "OCCUPIED", checkOut |-> "VACATED"]

InFlight(r) == pc[r] \notin {"lock", "read", "done"} \/ slots[r] # {}

(* findByIdWithDetails and the checks on what it returned.  A cancellation *)
(* keeps the rooms that were active then: their nights it will give back.  *)
Read(r) ==
    /\ pc[r] = "read"
    /\ OneAtATime => \A q \in Request : job[q].b = job[r].b => ~InFlight(q)
    /\ \/ /\ status[job[r].b] \notin Allowed[job[r].op]
          /\ Goto(r, "done") /\ End(r, "refused")
          /\ UNCHANGED slots
       \/ /\ status[job[r].b] \in Allowed[job[r].op]
          /\ Goto(r, "status")
          /\ slots' = [slots EXCEPT ![r] =
                  IF job[r].op = "cancel" /\ roomStatus[job[r].b] \notin {"CANCELLED", "VACATED"}
                  THEN Slots(r) ELSE {}]
          /\ UNCHANGED outcome
    /\ UNCHANGED <<bookings, inventory, lock, stay, job, held, todo>>

(* The status is written by id alone, whatever it has become. *)
WriteStatus(r) ==
    /\ pc[r] = "status"
    /\ status' = [status EXCEPT ![job[r].b] = Target[job[r].op]]
    /\ Goto(r, "rooms")
    /\ UNCHANGED <<roomStatus, inventory, lock, stay, job, held, todo, slots, outcome>>

WriteRooms(r) ==
    /\ pc[r] = "rooms"
    /\ roomStatus' = [roomStatus EXCEPT ![job[r].b] = RoomTarget[job[r].op]]
    /\ Goto(r, "audit")
    /\ UNCHANGED <<status, inventory, lock, stay, job, held, todo, slots, outcome>>

(* addAuditEntry; what follows it is the inventory of a cancelled booking. *)
WriteAudit(r) ==
    /\ pc[r] = "audit"
    /\ IF slots[r] = {} THEN Goto(r, "done") /\ End(r, "changed")
                        ELSE Goto(r, "release") /\ UNCHANGED outcome
    /\ UNCHANGED <<bookings, inventory, lock, stay, job, held, todo, slots>>

(* releaseInventory: one updateMany a night, of a counter above zero. *)
GivenBack(row) ==
    IF row \in rows /\ reserved[row] > 0
    THEN reserved' = [reserved EXCEPT ![row] = @ - 1]
    ELSE UNCHANGED reserved

(* An error of the updateMany is swallowed, and the loop goes on. *)
ReleaseNight(r) ==
    /\ pc[r] = "release"
    /\ \E s \in slots[r] :
          /\ NextSlot(r, s)
          /\ GivenBack(RowOf(s)) \/ (MayFail /\ UNCHANGED reserved)
          /\ slots' = [slots EXCEPT ![r] = @ \ {s}]
          /\ IF slots[r] = {s} THEN Goto(r, "done") /\ End(r, "changed")
                               ELSE UNCHANGED <<pc, outcome>>
    /\ UNCHANGED <<bookings, rows, total, lock, stay, job, held, todo>>

-----------------------------------------------------------------------------
(* Failures. *)

(* A query that is not guarded throws, and has changed nothing. *)
DatabaseError(r) ==
    /\ MayFail
    /\ pc[r] \in {"overlap", "save", "read", "status", "rooms", "audit"}
    /\ Leave(r, "error")
    /\ slots' = [slots EXCEPT ![r] = {}]
    /\ UNCHANGED <<bookings, inventory, lock, stay, job, held, todo>>

(* The replica dies: nothing more of the request happens, nor of the       *)
(* increments it left behind, and its keys stay until they expire.         *)
Crash(r) ==
    /\ MayFail
    /\ pc[r] # "done" \/ slots[r] # {}
    /\ Goto(r, "done") /\ End(r, "crashed")
    /\ held' = [held EXCEPT ![r] = {}]
    /\ slots' = [slots EXCEPT ![r] = {}]
    /\ UNCHANGED <<bookings, inventory, lock, stay, job, todo>>

-----------------------------------------------------------------------------
Handle(r) ==
    \/ Acquire(r) \/ LockConflict(r) \/ Unlock(r)
    \/ CheckOverlap(r) \/ CheckAvailability(r) \/ Save(r) \/ ReserveNight(r)
    \/ Read(r) \/ WriteStatus(r) \/ WriteRooms(r) \/ WriteAudit(r) \/ ReleaseNight(r)

Next ==
    \/ \E r \in Request :
          Handle(r) \/ LockError(r) \/ ReserveError(r) \/ DatabaseError(r) \/ Crash(r)
    \/ \E m \in Room : Expire(m)

Spec == Init /\ [][Next]_vars

(* Node.js runs every continuation that is ready, and the callers that     *)
(* wait for one another come to their turn.                                *)
FairSpec == Spec /\ \A r \in Request : WF_vars(Handle(r))

-----------------------------------------------------------------------------
(* The bookings there are have their inventory rows: whoever created them  *)
(* created the rows with them, in ReserveNight.                            *)
RowsThere ==
    \A s \in Stays, b \in Booking :
        StartStatus[b] \in Kept
        => \A m \in s[b].rooms, d \in StayNights(s[b]) : <<TypeOf[m], d>> \in StartRows

(* Rows, keys and handlers keep their types; a counter is never negative,  *)
(* although releases may decrement what was never incremented.             *)
TypeOK ==
    /\ status \in [Booking -> Status]
    /\ roomStatus \in [Booking -> BookingRoomStatus]
    /\ rows \subseteq Row
    /\ total \in [Row -> Nat]
    /\ reserved \in [Row -> Nat]
    /\ lock \in [Room -> Request \cup {None}]
    /\ stay \in Stays
    /\ job \in Workload
    /\ pc \in [Request -> Label]
    /\ held \in [Request -> SUBSET Room]
    /\ todo \in [Request -> SUBSET Room]
    /\ slots \in [Request -> SUBSET Slot]
    /\ outcome \in [Request -> Outcome]

(* No room is promised to two bookings for one night, whatever fails: the  *)
(* overlap check and the insert are separate, and only the room locks keep *)
(* another creation away.  Needs HoldersTimely and OneAtATime.             *)
NoDoubleBooking ==
    \A a, b \in Booking : a # b /\ Occupies(a) /\ Occupies(b) => ~Meets(stay[a], stay[b])

(* A booking only moves along the lifecycle that canBeCancelled, canCheckIn *)
(* and canCheckOut describe.  They look at a status read earlier than the   *)
(* write, and nothing keeps two changes of one booking apart, so a late     *)
(* check-in does revive a cancelled booking.                                *)
LifecycleOnly ==
    [][\A b \in Booking :
          status'[b] # status[b] =>
             <<status[b], status'[b]>> \in
                {<<"none", "CONFIRMED">>,
                 <<"PENDING", "CHECKED_IN">>, <<"CONFIRMED", "CHECKED_IN">>,
                 <<"CHECKED_IN", "CHECKED_OUT">>,
                 <<"PENDING", "CANCELLED">>, <<"CONFIRMED", "CANCELLED">>,
                 <<"NO_SHOW", "CANCELLED">>}]_vars

Register == INSTANCE RoomRegister

(* The requests, with their separate reads, checks and writes, book rooms  *)
(* and change bookings as if each did it at one instant.  Needs            *)
(* HoldersTimely and OneAtATime.                                           *)
ImplementsRegister == Register!Spec

Quiet == \A r \in Request : pc[r] = "done" /\ slots[r] = {}

(* When nothing is in flight, the reserved counter of every inventory row  *)
(* is the number of rooms that bookings not cancelled hold of it.  Needs   *)
(* OneAtATime, RowsThere and nothing to fail: an increment that fails or   *)
(* is lost is never made up for, nor is a release that overtakes it.       *)
InventoryFollows ==
    Quiet => \A row \in Row : reserved[row] = Cardinality(Taken(row, Kept))

(* However creations collide over several rooms, they do not all lose: the *)
(* sorted order leaves one that met no lock.  Needs nothing to fail.       *)
ConflictHasWinner ==
    (\A r \in Request : pc[r] = "done") /\ (\E r \in Request : outcome[r] = "LOCK_CONFLICT")
        => \E r \in Request : job[r].op = "create" /\ outcome[r] # "LOCK_CONFLICT"

(* Whatever way the creations leave their try block, refused at the second *)
(* key, by the overlap check, for lack of inventory or with a booking, they *)
(* give back exactly the keys they took: in the end every room can be      *)
(* booked again, without waiting for a TTL.  Needs nothing to fail.        *)
KeysGivenBack == <>[](\A m \in Room : lock[m] = None)

(* No inventory row promises more rooms than it has: what the availability *)
(* check before each creation is for.                                      *)
TypeNotOversold == \A row \in rows : reserved[row] <= total[row]
=============================================================================
