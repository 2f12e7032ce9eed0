------------------------- MODULE InventoryService -------------------------
(***************************************************************************)
(* inventory-service: the counters of one room type, night by night, and   *)
(* the requests that change them.  Reserve, block and unblock run inside   *)
(* DistributedLockService.withMultipleLocks, one Redis key per night;      *)
(* release takes no lock.  A request is a process: every await of its      *)
(* handler is a step of its own, so the requests of all the replicas of    *)
(* the service interleave between any two of them.                         *)
(*                                                                         *)
(* A night is its position in the calendar: the lock keys end in           *)
(* YYYY-MM-DD, so their string order is the order of the nights.  A row    *)
(* that does not exist yet is a row with zero counters, which is what the  *)
(* upserts make of it.  The event published after each operation is        *)
(* fire-and-forget, and InventoryCache is only ever invalidated (no use    *)
(* case reads it): neither is part of the state.                           *)
(***************************************************************************)
EXTENDS Integers, Sequences, Functions

CONSTANTS
    Night,          \* the nights of the calendar, a set of naturals
    Request,        \* the HTTP requests that reach the service
    Ref,            \* booking references
    None,           \* no holder: the Redis key does not exist
    Quantity,       \* the numbers of rooms a request may ask for
    Workload,       \* the assignments of jobs to requests to consider
    StartTotal,     \* totalInventory of the rows before the requests
    HoldersTimely   \* TRUE: every critical section ends before its lock's TTL

Job ==
    [op: {"reserve", "release", "block", "unblock"}, from: Night, to: Night,
     qty: Quantity, ref: Ref, hint: Nat, own: BOOLEAN]

ASSUME InventoryAssumption ==
    /\ Night \subseteq Nat
    /\ Quantity \subseteq Nat \ {0}
    /\ None \notin Request
    /\ Workload \subseteq [Request -> Job]
    /\ \A w \in Workload, r \in Request :
          w[r].from <= w[r].to /\ w[r].from .. w[r].to \subseteq Night
    /\ StartTotal \in [Night -> Nat]
    /\ HoldersTimely \in BOOLEAN

VARIABLES
    total,      \* [Night -> Int]  totalInventory
    reserved,   \* [Night -> Int]  reservedInventory
    blocked,    \* [Night -> Int]  blockedInventory
    active,     \* [Ref -> [Night -> Nat]]  units of the ACTIVE reservation rows
    released,   \* [Ref -> [Night -> Nat]]  units of the RELEASED reservation rows
    blocks,     \* [Night -> Seq(Nat)]  quantities of the active block records, oldest first
    ended,      \* [Night -> Nat]  number of its block records that are no longer active
    lock,       \* [Night -> Request or None]  owner of the token under the Redis key
    job,        \* what each request asks for; never changes
    pc,         \* where each handler is
    held,       \* the lock names in withMultipleLocks' `acquired`
    todo,       \* nights the current loop of the handler has still to visit
    tx,         \* rows locked by the request's open database transaction
    snap,       \* units per night that a release read before its transaction
    row,        \* the night whose row a release updates next
    oldest      \* the last of the records an unblock found, counted from the first ever

rows == <<total, reserved, blocked, active, released, blocks, ended>>
local == <<snap, row, oldest>>
vars == <<rows, lock, job, pc, held, todo, tx, local>>

Nights(r) == job[r].from .. job[r].to

(* A handler ends "done" or, when it threw, "failed"; the finally block of *)
(* withMultipleLocks runs at "unlock" or, unwinding an error, at "abort".  *)
Terminal == {"done", "failed", "crashed"}
InDatabase == {"validate", "txread", "txwrite", "commit", "find", "increment",
               "record", "read", "decrement", "oldest", "deactivate"}
Unlocked == {"count", "select", "update", "release"}
Label == {"acquire", "unlock", "abort"} \cup InDatabase \cup Unlocked \cup Terminal

(* The first step of fn, the callback given to withMultipleLocks. *)
Body == [reserve |-> "validate", block |-> "find", unblock |-> "read"]

Init ==
    /\ total = StartTotal
    /\ reserved = [d \in Night |-> 0]
    /\ blocked = [d \in Night |-> 0]
    /\ active = [b \in Ref |-> [d \in Night |-> 0]]
    /\ released = [b \in Ref |-> [d \in Night |-> 0]]
    /\ blocks = [d \in Night |-> << >>]
    /\ ended = [d \in Night |-> 0]
    /\ lock = [d \in Night |-> None]
    /\ job \in Workload
    /\ pc = [r \in Request |-> IF job[r].op = "release" THEN "count" ELSE "acquire"]
    /\ held = [r \in Request |-> {}]
    /\ todo = [r \in Request |-> Nights(r)]
    /\ tx = [r \in Request |-> {}]
    /\ snap = [r \in Request |-> [d \in Night |-> 0]]
    /\ row = [r \in Request |-> job[r].from]
    /\ oldest = [r \in Request |-> 0]

-----------------------------------------------------------------------------
(* Control: the loops over the nights, in calendar order. *)

Goto(r, label) == pc' = [pc EXCEPT ![r] = label]

(* An error leaves the body: the locks acquired so far, if any, go first. *)
Unwind(r) == Goto(r, IF held[r] = {} THEN "failed" ELSE "abort")

(* MUTANT: the nights are not sorted. *)
NextNightUnsorted(r, d) == d \in todo[r]

NextNight(r, d) == d \in todo[r] /\ \A e \in todo[r] : d <= e

(* The loop's body is done with d: the next night, or on to what follows. *)
Advance(r, d, again, after) ==
    IF todo[r] = {d}
    THEN /\ todo' = [todo EXCEPT ![r] = Nights(r)]
         /\ Goto(r, after)
    ELSE /\ todo' = [todo EXCEPT ![r] = @ \ {d}]
         /\ Goto(r, again)

-----------------------------------------------------------------------------
(* The locks: DistributedLockService. *)

(* MUTANT: SET without NX. *)
AcquireNoNX(r) ==
    /\ pc[r] = "acquire"
    /\ \E d \in Night :
          /\ NextNight(r, d)
          /\ lock' = [lock EXCEPT ![d] = r]
          /\ held' = [held EXCEPT ![r] = @ \cup {d}]
          /\ Advance(r, d, "acquire", Body[job[r].op])
    /\ UNCHANGED <<rows, job, tx, local>>

(* SET key token PX ttl NX answers OK. *)
Acquire(r) ==
    /\ pc[r] = "acquire"
    /\ \E d \in Night :
          /\ NextNight(r, d)
          /\ lock[d] = None
          /\ lock' = [lock EXCEPT ![d] = r]
          /\ held' = [held EXCEPT ![r] = @ \cup {d}]
          /\ Advance(r, d, "acquire", Body[job[r].op])
    /\ UNCHANGED <<rows, job, tx, local>>

(* Every attempt found the key taken or met a Redis error: the request is  *)
(* refused and its finally block gives back what it had.                   *)
AcquireRefused(r) ==
    /\ pc[r] = "acquire"
    /\ Unwind(r)
    /\ UNCHANGED <<rows, lock, job, held, todo, tx, local>>

(* The key was set but the answer was lost: the caught error leads to      *)
(* attempts that find the request's own key, so the lock is left behind.   *)
AcquireReplyLost(r) ==
    /\ pc[r] = "acquire"
    /\ \E d \in Night :
          /\ NextNight(r, d)
          /\ lock[d] = None
          /\ lock' = [lock EXCEPT ![d] = r]
    /\ Unwind(r)
    /\ UNCHANGED <<rows, job, held, todo, tx, local>>

(* MUTANT: a plain DEL. *)
DeletedAnyway(r, d) == None

(* The Lua script: delete the key only if it still holds this token. *)
Deleted(r, d) == IF lock[d] = r THEN None ELSE lock[d]

(* One release of the finally block, in reverse order; an error of Redis   *)
(* is swallowed and leaves the key to its TTL.                             *)
Unlock(r) ==
    /\ pc[r] \in {"unlock", "abort"}
    /\ \E d \in held[r] :
          /\ \A e \in held[r] : e <= d
          /\ lock' \in {lock, [lock EXCEPT ![d] = Deleted(r, d)]}
          /\ held' = [held EXCEPT ![r] = @ \ {d}]
          /\ Goto(r, IF held[r] # {d} THEN pc[r]
                      ELSE IF pc[r] = "unlock" THEN "done" ELSE "failed")
    /\ UNCHANGED <<rows, job, todo, tx, local>>

(* A key's time to live is over. *)
Expire(d) ==
    /\ lock[d] # None
    /\ HoldersTimely => d \notin held[lock[d]] \/ pc[lock[d]] \in Terminal
    /\ lock' = [lock EXCEPT ![d] = None]
    /\ UNCHANGED <<rows, job, pc, held, todo, tx, local>>

-----------------------------------------------------------------------------
(* The database: READ COMMITTED, one row per night. *)

(* MUTANT: an update sent by this.db, not by tx, waits for the transaction *)
(* it is a part of.                                                        *)
RowFreeOfAll(r, d) == \A q \in Request : d \notin tx[q]

(* No other open transaction has written the row. *)
RowFree(r, d) == \A q \in Request \ {r} : d \notin tx[q]

(* totalInventory after the upsert of findOrCreate: a hint overwrites it. *)
Upserted(r, d) == IF job[r].hint > 0 THEN job[r].hint ELSE total[d]

(* MUTANT: blocked rooms count as available. *)
FitsIgnoringBlocked(r, d) == Upserted(r, d) - reserved[d] >= job[r].qty

(* canReserve and canBlock on the row the upsert returned. *)
Fits(r, d) == Upserted(r, d) - reserved[d] - blocked[d] >= job[r].qty

(* findOrCreate: writes the row, at once, only when there is a hint. *)
FindOrCreate(r, d) ==
    /\ job[r].hint > 0 => RowFree(r, d)
    /\ total' = [total EXCEPT ![d] = Upserted(r, d)]

(* ReserveInventory: the validation of one night before any reservation. *)
Validate(r) ==
    /\ pc[r] = "validate"
    /\ \E d \in Night :
          /\ NextNight(r, d)
          /\ FindOrCreate(r, d)
          /\ IF job[r].own /\ Fits(r, d)
             THEN Advance(r, d, "validate", "txread")
             ELSE Goto(r, "abort") /\ UNCHANGED todo
    /\ UNCHANGED <<reserved, blocked, active, released, blocks, ended, lock, job, held, tx, local>>

(* reserveDateRange: the upsert of one night inside the transaction and    *)
(* the second check.  Only an upsert with a hint writes, hence locks, the  *)
(* row; a night that no longer fits rolls the transaction back.            *)
TxRead(r) ==
    /\ pc[r] = "txread"
    /\ \E d \in Night :
          /\ NextNight(r, d)
          /\ job[r].hint > 0 => RowFree(r, d)
          /\ IF Fits(r, d)
             THEN /\ tx' = IF job[r].hint > 0 THEN [tx EXCEPT ![r] = @ \cup {d}] ELSE tx
                  /\ Goto(r, "txwrite")
             ELSE /\ tx' = [tx EXCEPT ![r] = {}]
                  /\ Goto(r, "abort")
    /\ UNCHANGED <<rows, lock, job, held, todo, local>>

(* reserveDateRange: the increment and the reservation row of one night,   *)
(* which no one else sees before the commit.                               *)
TxWrite(r) ==
    /\ pc[r] = "txwrite"
    /\ \E d \in Night :
          /\ NextNight(r, d)
          /\ RowFree(r, d)
          /\ tx' = [tx EXCEPT ![r] = @ \cup {d}]
          /\ Advance(r, d, "txread", "commit")
    /\ UNCHANGED <<rows, lock, job, held, local>>

(* MUTANT: the night before checkOut is left out. *)
CommitShort(r) ==
    LET nights == Nights(r) \ {job[r].to}
        plus(units) == [d \in Night |-> IF d \in nights THEN units[d] + job[r].qty ELSE units[d]]
    IN  /\ pc[r] = "commit"
        /\ reserved' = plus(reserved)
        /\ active' = [active EXCEPT ![job[r].ref] = plus(@)]
        /\ tx' = [tx EXCEPT ![r] = {}]
        /\ Goto(r, "unlock")
        /\ UNCHANGED <<total, blocked, released, blocks, ended, lock, job, held, todo, local>>

(* The transaction's end: all its writes become visible at once. *)
Commit(r) ==
    /\ pc[r] = "commit"
    /\ total' = [d \in Night |-> IF d \in Nights(r) THEN Upserted(r, d) ELSE total[d]]
    /\ reserved' = [d \in Night |->
                       IF d \in Nights(r) THEN reserved[d] + job[r].qty ELSE reserved[d]]
    /\ active' = [active EXCEPT ![job[r].ref] = [d \in Night |->
                       IF d \in Nights(r) THEN @[d] + job[r].qty ELSE @[d]]]
    /\ tx' = [tx EXCEPT ![r] = {}]
    /\ Goto(r, "unlock")
    /\ UNCHANGED <<blocked, released, blocks, ended, lock, job, held, todo, local>>

(* BlockInventory, per night: findOrCreate and canBlock, ... *)
BlockFind(r) ==
    /\ pc[r] = "find"
    /\ \E d \in Night :
          /\ NextNight(r, d)
          /\ FindOrCreate(r, d)
          /\ Goto(r, IF Fits(r, d) THEN "increment" ELSE "abort")
    /\ UNCHANGED <<reserved, blocked, active, released, blocks, ended, lock, job, held, todo, tx, local>>

(* ... incrementBlocked, ... *)
BlockIncrement(r) ==
    /\ pc[r] = "increment"
    /\ \E d \in Night :
          /\ NextNight(r, d)
          /\ RowFree(r, d)
          /\ blocked' = [blocked EXCEPT ![d] = @ + job[r].qty]
    /\ Goto(r, "record")
    /\ UNCHANGED <<total, reserved, active, released, blocks, ended, lock, job, held, todo, tx, local>>

(* ... and the block record: three separate writes, no transaction. *)
BlockRecord(r) ==
    /\ pc[r] = "record"
    /\ \E d \in Night :
          /\ NextNight(r, d)
          /\ blocks' = [blocks EXCEPT ![d] = Append(@, job[r].qty)]
          /\ Advance(r, d, "find", "unlock")
    /\ UNCHANGED <<total, reserved, blocked, active, released, ended, lock, job, held, tx, local>>

(* MUTANT: off by one against the blocked count. *)
UnblockReadLoose(r) ==
    /\ pc[r] = "read"
    /\ \E d \in Night :
          /\ NextNight(r, d)
          /\ Goto(r, IF blocked[d] < job[r].qty - 1 THEN "abort" ELSE "decrement")
    /\ UNCHANGED <<rows, lock, job, held, todo, tx, local>>

(* UnblockInventory, per night: the blocked count must cover the quantity, ... *)
UnblockRead(r) ==
    /\ pc[r] = "read"
    /\ \E d \in Night :
          /\ NextNight(r, d)
          /\ Goto(r, IF blocked[d] < job[r].qty THEN "abort" ELSE "decrement")
    /\ UNCHANGED <<rows, lock, job, held, todo, tx, local>>

(* ... decrementBlocked, ... *)
UnblockDecrement(r) ==
    /\ pc[r] = "decrement"
    /\ \E d \in Night :
          /\ NextNight(r, d)
          /\ RowFree(r, d)
          /\ blocked' = [blocked EXCEPT ![d] = @ - job[r].qty]
    /\ Goto(r, "oldest")
    /\ UNCHANGED <<total, reserved, active, released, blocks, ended, lock, job, held, todo, tx, local>>

(* MUTANT: one record too few is found. *)
UnblockFindLess(r) ==
    /\ pc[r] = "oldest"
    /\ \E d \in Night :
          /\ NextNight(r, d)
          /\ oldest' = [oldest EXCEPT ![r] =
                 ended[d] + (IF job[r].qty < Len(blocks[d]) THEN job[r].qty ELSE Len(blocks[d])) - 1]
    /\ Goto(r, "deactivate")
    /\ UNCHANGED <<rows, lock, job, held, todo, tx, snap, row>>

(* ... and deactivateOldestByInventory, which takes `quantity` for a number *)
(* of records: it reads the oldest qty active ones, whatever their          *)
(* quantities, ...                                                          *)
UnblockFind(r) ==
    /\ pc[r] = "oldest"
    /\ \E d \in Night :
          /\ NextNight(r, d)
          /\ oldest' = [oldest EXCEPT ![r] =
                 ended[d] + (IF job[r].qty < Len(blocks[d]) THEN job[r].qty ELSE Len(blocks[d]))]
    /\ Goto(r, "deactivate")
    /\ UNCHANGED <<rows, lock, job, held, todo, tx, snap, row>>

(* ... and deactivates those it read; some may have ended in between. *)
UnblockDeactivate(r) ==
    /\ pc[r] = "deactivate"
    /\ \E d \in Night :
          LET more == IF oldest[r] > ended[d] THEN oldest[r] - ended[d] ELSE 0
          IN  /\ NextNight(r, d)
              /\ blocks' = [blocks EXCEPT ![d] = SubSeq(@, more + 1, Len(@))]
              /\ ended' = [ended EXCEPT ![d] = @ + more]
              /\ Advance(r, d, "read", "unlock")
    /\ UNCHANGED <<total, reserved, blocked, active, released, lock, job, held, tx, local>>

-----------------------------------------------------------------------------
(* ReleaseInventory: no lock, and a transaction of one update per row. *)

(* countActiveByBookingRef: 400 when the reference has no ACTIVE row. *)
ReleaseCount(r) ==
    /\ pc[r] = "count"
    /\ Goto(r, IF \E d \in Night : active[job[r].ref][d] # 0 THEN "select" ELSE "failed")
    /\ UNCHANGED <<rows, lock, job, held, todo, tx, local>>

(* releaseByBookingRef reads the organization's ACTIVE rows outside its    *)
(* transaction.  The query asks for no order: any of them may come first.  *)
ReleaseSelect(r) ==
    /\ pc[r] = "select"
    /\ LET seen == [d \in Night |-> IF job[r].own THEN active[job[r].ref][d] ELSE 0]
       IN  /\ snap' = [snap EXCEPT ![r] = seen]
           /\ \/ /\ \A d \in Night : seen[d] = 0
                 /\ Goto(r, "done")
                 /\ UNCHANGED row
              \/ \E d \in Night :
                    /\ seen[d] # 0
                    /\ row' = [row EXCEPT ![r] = d]
                    /\ Goto(r, "update")
    /\ UNCHANGED <<rows, lock, job, held, todo, tx, oldest>>

(* One update of the transaction: it decrements the row's counter, which   *)
(* nobody sees before the commit, and keeps the row for itself until then. *)
ReleaseUpdate(r) ==
    /\ pc[r] = "update"
    /\ RowFree(r, row[r])
    /\ tx' = [tx EXCEPT ![r] = @ \cup {row[r]}]
    /\ LET rest == {d \in Night : snap[r][d] # 0} \ (tx[r] \cup {row[r]})
       IN  \/ rest = {} /\ Goto(r, "release") /\ UNCHANGED row
           \/ UNCHANGED pc /\ \E d \in rest : row' = [row EXCEPT ![r] = d]
    /\ UNCHANGED <<rows, lock, job, held, todo, snap, oldest>>

(* MUTANT: the rows stay ACTIVE. *)
ReleaseCommitRowsStay(r) ==
    /\ pc[r] = "release"
    /\ reserved' = [d \in Night |-> reserved[d] - snap[r][d]]
    /\ tx' = [tx EXCEPT ![r] = {}]
    /\ Goto(r, "done")
    /\ UNCHANGED <<total, blocked, active, released, blocks, ended, lock, job, held, todo, local>>

(* Its updateMany releases every row of the reference that is ACTIVE now,  *)
(* read or not, and the commit makes the decrements visible with it.       *)
ReleaseCommit(r) ==
    /\ pc[r] = "release"
    /\ reserved' = [d \in Night |-> reserved[d] - snap[r][d]]
    /\ active' = [active EXCEPT ![job[r].ref] = [d \in Night |-> 0]]
    /\ released' = [released EXCEPT ![job[r].ref] =
                       [d \in Night |-> @[d] + active[job[r].ref][d]]]
    /\ tx' = [tx EXCEPT ![r] = {}]
    /\ Goto(r, "done")
    /\ UNCHANGED <<total, blocked, blocks, ended, lock, job, held, todo, local>>

-----------------------------------------------------------------------------
(* Failures. *)

(* A database call throws: an open transaction rolls back, what was        *)
(* written outside one stays, and the finally block runs.                  *)
DatabaseError(r) ==
    /\ \/ pc[r] \in InDatabase /\ Goto(r, "abort")
       \/ pc[r] \in Unlocked /\ Goto(r, "failed")
    /\ tx' = [tx EXCEPT ![r] = {}]
    /\ UNCHANGED <<rows, lock, job, held, todo, local>>

(* The replica dies: its locks stay in Redis until they expire. *)
Crash(r) ==
    /\ pc[r] \notin Terminal
    /\ Goto(r, "crashed")
    /\ tx' = [tx EXCEPT ![r] = {}]
    /\ UNCHANGED <<rows, lock, job, held, todo, local>>

Step(r) ==
    \/ Acquire(r) \/ AcquireRefused(r) \/ AcquireReplyLost(r) \/ Unlock(r)
    \/ Validate(r) \/ TxRead(r) \/ TxWrite(r) \/ Commit(r)
    \/ BlockFind(r) \/ BlockIncrement(r) \/ BlockRecord(r)
    \/ UnblockRead(r) \/ UnblockDecrement(r) \/ UnblockFind(r) \/ UnblockDeactivate(r)
    \/ ReleaseCount(r) \/ ReleaseSelect(r) \/ ReleaseUpdate(r) \/ ReleaseCommit(r)

(* Every request was answered and every key is gone. *)
Finished ==
    /\ \A r \in Request : pc[r] \in Terminal
    /\ \A d \in Night : lock[d] = None
    /\ UNCHANGED vars

Next ==
    \/ \E r \in Request : Step(r) \/ DatabaseError(r) \/ Crash(r)
    \/ \E d \in Night : Expire(d)
    \/ Finished

Spec == Init /\ [][Next]_vars

(* The night whose row the next statement of r writes, or waits for. *)
Awaits(r, d) ==
    \/ pc[r] \in {"txwrite", "increment", "decrement"} /\ NextNight(r, d)
    \/ pc[r] \in {"validate", "txread", "find"} /\ job[r].hint > 0 /\ NextNight(r, d)
    \/ pc[r] = "update" /\ d = row[r]

(* r waits for a row that the open transaction of q has written. *)
WaitsFor(r, q) == r # q /\ \E d \in tx[q] : Awaits(r, d)

(* The requests of S wait for each other in a ring. *)
Ring(S) ==
    \A r \in S : (\E q \in S : WaitsFor(r, q)) /\ (\E q \in S : WaitsFor(q, r))

Deadlocked(r) == \E S \in SUBSET Request : r \in S /\ Ring(S)

(* A live handler goes on, since Redis and the database answer, and Redis  *)
(* removes a key when its TTL is over.  The only failure that is owed is   *)
(* PostgreSQL's: its deadlock detector aborts a transaction of every ring. *)
Fairness ==
    /\ \A r \in Request : WF_vars(Step(r))
    /\ \A d \in Night : WF_vars(Expire(d))
    /\ WF_vars(\E r \in Request : Deadlocked(r) /\ DatabaseError(r))

FairSpec == Spec /\ Fairness

-----------------------------------------------------------------------------
(* Assumptions about the requests under which the properties are stated.   *)

(* Callers that send totalRoomsHint for a night agree on the room count,   *)
(* which no row that exists already exceeds: the upserts create the row    *)
(* with it or leave it as it is, or rooms were added.                      *)
HintsAgree ==
    \A w \in Workload, r \in Request : \A d \in w[r].from .. w[r].to :
        w[r].hint > 0 =>
            /\ StartTotal[d] <= w[r].hint
            /\ \A q \in Request : w[q].hint > 0 /\ d \in w[q].from .. w[q].to
                                 => w[q].hint = w[r].hint

(* A booking reference is reserved by one request and released by one. *)
OneRequestPerRef ==
    \A w \in Workload, r, q \in Request :
        r # q /\ w[r].op = w[q].op /\ w[r].ref = w[q].ref
        => w[r].op \notin {"reserve", "release"}

-----------------------------------------------------------------------------
(* Properties. *)

(* Every counter is an integer, every handler at one of its steps. *)
TypeOK ==
    /\ total \in [Night -> Int]
    /\ reserved \in [Night -> Int]
    /\ blocked \in [Night -> Int]
    /\ active \in [Ref -> [Night -> Nat]]
    /\ released \in [Ref -> [Night -> Nat]]
    /\ blocks \in [Night -> Seq(Nat)]
    /\ ended \in [Night -> Nat]
    /\ lock \in [Night -> Request \cup {None}]
    /\ job \in Workload
    /\ pc \in [Request -> Label]
    /\ held \in [Request -> SUBSET Night]
    /\ todo \in [Request -> (SUBSET Night) \ {{}}]
    /\ tx \in [Request -> SUBSET Night]
    /\ snap \in [Request -> [Night -> Nat]]
    /\ row \in [Request -> Night]
    /\ oldest \in [Request -> Nat]

(* Two requests never work on the rows of one night at a time: the keys,   *)
(* the retries, the error paths and the expiry of what dead replicas left  *)
(* behind keep withMultipleLocks exclusive.  Needs HoldersTimely.          *)
ExclusiveNights ==
    \A r, q \in Request :
        r # q /\ pc[r] \in InDatabase /\ pc[q] \in InDatabase
        => Nights(r) \cap Nights(q) = {}

(* What a night promises never exceeds its rooms, whatever requests        *)
(* interleave between a check of availability and the increment it allows, *)
(* and unblocking never takes away more than was blocked.                  *)
(* Needs HoldersTimely and HintsAgree.                                     *)
NoOverbooking ==
    \A d \in Night : blocked[d] >= 0 /\ reserved[d] + blocked[d] <= total[d]

(* The units of all rows ever written for a reference and a night, and     *)
(* what a release that is done took off the night's counter.               *)
EverReserved(b, d) == active[b][d] + released[b][d]

TakenBy(r, d) == IF job[r].op = "release" /\ pc[r] = "done" THEN snap[r][d] ELSE 0

(* reservedInventory and the reservation rows it summarises are written    *)
(* apart, and a release that takes no lock decrements by what it read      *)
(* earlier.  Even so, and when locks expire under their holders, whatever  *)
(* number of requests use one reference: the counter is the sum of the     *)
(* rows ever written less what the finished releases had read, and each of *)
(* these took off no unit of a row that is still ACTIVE.  So the counter   *)
(* is the sum of the ACTIVE rows, except that a row which n overlapping    *)
(* releases had read is taken off n times, and one that was committed      *)
(* between the read and the commit of its only release is not taken off.   *)
ReservedFollowsRows ==
    \A d \in Night :
        /\ reserved[d] = SumFunction([b \in Ref |-> EverReserved(b, d)])
                           - SumFunction([r \in Request |-> TakenBy(r, d)])
        /\ \A r \in Request : TakenBy(r, d) <= released[job[r].ref][d]

(* A reservation that was refused or failed left no unit on any night, and *)
(* one that was granted has its units on all of them until it is released. *)
ReservationsAllOrNothing ==
    \A r \in Request :
        job[r].op = "reserve" =>
            /\ pc[r] \in {"abort", "failed"} =>
                   \A d \in Night : active[job[r].ref][d] = 0
            /\ pc[r] \in {"unlock", "done"} =>
                   \/ \A d \in Nights(r) : active[job[r].ref][d] = job[r].qty
                   \/ \E q \in Request : /\ job[q].op = "release"
                                         /\ job[q].ref = job[r].ref
                                         /\ pc[q] = "done"

(* While no unblock was cut short, the active block records of a night at   *)
(* rest never claim more units than its counter holds: a block that failed *)
(* or died anywhere leaves no record without its units, and an unblock     *)
(* counts records where the counter counts units.  Needs HoldersTimely.    *)
BlockRecordsCovered ==
    (\A r \in Request : job[r].op = "unblock" => pc[r] \notin {"abort", "failed", "crashed"}) =>
        \A d \in Night :
            (\A r \in Request : pc[r] \in {"oldest", "deactivate"} => d \notin Nights(r))
            => SumFunction(blocks[d]) <= blocked[d]

Ledger == INSTANCE RoomLedger WITH Qty <- Quantity

(* Every step of the handlers, with their separate reads, checks and       *)
(* writes, is one atomic operation of RoomLedger or none: the locks and    *)
(* the transaction make a reservation of a range of nights look like one   *)
(* instant.  Needs HoldersTimely, HintsAgree and OneRequestPerRef.         *)
ImplementsLedger == Ledger!Spec

(* A finally block that gives up a night deletes the key only if the key   *)
(* still carries its own token: a holder whose lock expired and was taken  *)
(* over does not let a third request in.                                   *)
NoForeignUnlock ==
    [][\A r \in Request : \A d \in held[r] \ held'[r] :
          lock[d] # r => lock'[d] = lock[d]]_vars

(* A ring of requests that wait for each other's rows always has a release *)
(* in it: reservations, blocks and unblocks visit their nights in calendar *)
(* order, in a transaction or not, so that they alone never need           *)
(* PostgreSQL's deadlock detector, even when locks expire under them.      *)
OnlyReleasesDeadlock ==
    \A S \in (SUBSET Request) \ {{}} : Ring(S) => \E r \in S : job[r].op = "release"

(* Every request is answered, or its replica has died: no wait for a lock  *)
(* or a row is for ever, although a release takes its rows in any order.   *)
Answered == \A r \in Request : <>(pc[r] \in Terminal)
=============================================================================
