----------------------------- MODULE OtaService -----------------------------
(***************************************************************************)
(* ota-service: SyncReservations stores a job, at most one for an          *)
(* idempotency key, and after its answer pulls the provider's reservations *)
(* under a lock with a TTL and stores what is new of them.  A mark in      *)
(* Redis, set before the insert, keeps other syncs off a reservation for   *)
(* 24 hours.  SyncProcessor counts retries of jobs and marks them          *)
(* RETRYING; nothing runs a job a second time.                             *)
(*                                                                         *)
(* One hotel and provider: every sync uses the one lock, and pulls all     *)
(* reservations, in one order.  sync_events and published events are left  *)
(* out, their errors are not.  SyncInventory and SyncRates, which push     *)
(* what they read and keep nothing, are left out.                          *)
(***************************************************************************)
EXTENDS Integers, FiniteSets

CONSTANTS
    Sync,              \* requests; the job a request creates has its name
    KeyOf,             \* [Sync -> idempotency key]
    LastReservation,   \* the provider's reservations are 1 .. LastReservation
    RetryWorker,       \* ticks of all RetryWorkers that may run at one time
    maxJobRetries,     \* SyncJob.maxRetries
    None,
    MaxOtaFaults       \* bound: errors of the database or Redis, deaths of processes

ASSUME OtaAssumption ==
    /\ IsFiniteSet(Sync) /\ IsFiniteSet(RetryWorker) /\ None \notin Sync
    /\ DOMAIN KeyOf = Sync
    /\ LastReservation \in Nat \ {0} /\ maxJobRetries \in Nat /\ MaxOtaFaults \in Nat

Reservation == 1 .. LastReservation
IdempotencyKey == {KeyOf[s] : s \in Sync}

VARIABLES
    syncStatus,     \* [Sync -> SyncStatus]  the job's, "none" if there is no job
    jobRetries,     \* [Sync -> Nat]  retryCount
    cachedJob,      \* [IdempotencyKey -> Sync \cup {None}]
    otaLock,        \* its holder, or None
    marks, rows,    \* the reservations that are marked, and those that are stored
    syncAt,         \* where each request and its job are
    left,           \* [Sync -> SUBSET Reservation]  pulled and not dealt with
    itemFailed,     \* SUBSET (Sync \X Reservation)  what each sync has counted as failed
    imported,       \* the syncs that stored some
    selected,       \* [RetryWorker -> SUBSET Sync]
    otaFaults

jobTable == <<syncStatus, jobRetries>>
redis == <<cachedJob, otaLock, marks>>
progress == <<left, itemFailed, imported>>
otaVars == <<jobTable, redis, rows, syncAt, progress, selected, otaFaults>>

SyncStatus == {"none", "PENDING", "RUNNING", "SUCCESS", "FAILED", "RETRYING"}
SyncStop == {"cached", "find", "create", "remember", "lock", "start", "pull", "check", "mark",
             "insert", "event", "finish", "catch", "unlock", "done"}

OtaInit ==
    /\ syncStatus = [s \in Sync |-> "none"]
    /\ jobRetries = [s \in Sync |-> 0]
    /\ cachedJob = [k \in IdempotencyKey |-> None]
    /\ otaLock = None
    /\ marks = {} /\ rows = {}
    /\ syncAt = [s \in Sync |-> "cached"]
    /\ left = [s \in Sync |-> {}]
    /\ itemFailed = {} /\ imported = {}
    /\ selected = [w \in RetryWorker |-> {}]
    /\ otaFaults = 0

-----------------------------------------------------------------------------
SyncTo(s, stop) == syncAt' = [syncAt EXCEPT ![s] = stop]
OtaFault == otaFaults < MaxOtaFaults /\ otaFaults' = otaFaults + 1
SetJob(s, to) == syncStatus' = [syncStatus EXCEPT ![s] = to] /\ UNCHANGED jobRetries

IsCompleted(j) == syncStatus[j] \in {"SUCCESS", "FAILED"}
HasKey(k) == {j \in Sync : syncStatus[j] # "none" /\ KeyOf[j] = k}

(* execute: the job under the key, cached or stored, if it is not completed. *)
FindJob(s) ==
    LET cached == cachedJob[KeyOf[s]]
        open(js) == \E j \in js : ~IsCompleted(j)
    IN  /\ \/ /\ syncAt[s] = "cached"
              /\ SyncTo(s, IF cached # None /\ open({cached}) THEN "done" ELSE "find")
           \/ /\ syncAt[s] = "find"
              /\ SyncTo(s, IF open(HasKey(KeyOf[s])) THEN "done" ELSE "create")
        /\ UNCHANGED <<jobTable, redis, rows, progress, selected, otaFaults>>

(* create: a second job under one key violates its uniqueness, also a completed one's. *)
CreateJob(s) ==
    /\ syncAt[s] = "create"
    /\ IF HasKey(KeyOf[s]) # {}
       THEN SyncTo(s, "done") /\ UNCHANGED jobTable
       ELSE SyncTo(s, "remember") /\ SetJob(s, "PENDING")
    /\ UNCHANGED <<redis, rows, progress, selected, otaFaults>>

(* setIdempotencyResult and appendEvent; the job runs after the answer. *)
RememberJob(s) ==
    /\ syncAt[s] = "remember"
    /\ cachedJob' = [cachedJob EXCEPT ![KeyOf[s]] = s]
    /\ SyncTo(s, "lock")
    /\ UNCHANGED <<jobTable, otaLock, marks, rows, progress, selected, otaFaults>>

AcquireOta(s) ==
    /\ syncAt[s] = "lock" /\ otaLock = None
    /\ otaLock' = s
    /\ SyncTo(s, "start")
    /\ UNCHANGED <<jobTable, cachedJob, marks, rows, progress, selected, otaFaults>>

(* All attempts find the lock taken. *)
OtaLockTaken(s) ==
    /\ syncAt[s] = "lock" /\ otaLock # None
    /\ SyncTo(s, "catch")
    /\ UNCHANGED <<jobTable, redis, rows, progress, selected, otaFaults>>

(* Its TTL runs out, whether its holder still works or not. *)
OtaLockExpires ==
    /\ otaLock # None
    /\ otaLock' = None
    /\ UNCHANGED <<jobTable, cachedJob, marks, rows, syncAt, progress, selected, otaFaults>>

Unlocked(s) == otaLock' = IF otaLock = s THEN None ELSE otaLock

StartSync(s) ==
    /\ syncAt[s] = "start"
    /\ SetJob(s, "RUNNING")
    /\ SyncTo(s, "pull")
    /\ UNCHANGED <<redis, rows, progress, selected, otaFaults>>

(* pullReservations; it may throw. *)
Pull(s) ==
    /\ syncAt[s] = "pull"
    /\ \/ /\ left' = [left EXCEPT ![s] = Reservation]
          /\ SyncTo(s, "check")
          /\ UNCHANGED <<otaLock, itemFailed, imported>>
       \/ SyncTo(s, "catch") /\ Unlocked(s) /\ UNCHANGED progress
    /\ UNCHANGED <<jobTable, cachedJob, marks, rows, selected, otaFaults>>

Item(s, r) == r \in left[s] /\ \A q \in left[s] : r <= q

NextItem(s, r) ==
    /\ left' = [left EXCEPT ![s] = @ \ {r}]
    /\ SyncTo(s, IF left[s] = {r} THEN "finish" ELSE "check")

FindStored(s, r) ==
    /\ syncAt[s] = "check" /\ Item(s, r)
    /\ IF r \in rows THEN NextItem(s, r) ELSE SyncTo(s, "mark") /\ UNCHANGED left
    /\ UNCHANGED <<jobTable, redis, rows, itemFailed, imported, selected, otaFaults>>

(* checkReservationDedup: SET NX. *)
MarkReservation(s, r) ==
    /\ syncAt[s] = "mark" /\ Item(s, r)
    /\ IF r \in marks
       THEN NextItem(s, r) /\ UNCHANGED marks
       ELSE SyncTo(s, "insert") /\ marks' = marks \cup {r} /\ UNCHANGED left
    /\ UNCHANGED <<jobTable, cachedJob, otaLock, rows, itemFailed, imported, selected, otaFaults>>

(* create; a row that is there violates uniqueness and counts as failed. *)
InsertReservation(s, r) ==
    /\ syncAt[s] = "insert" /\ Item(s, r)
    /\ IF r \in rows
       THEN itemFailed' = itemFailed \cup {<<s, r>>} /\ NextItem(s, r) /\ UNCHANGED rows
       ELSE rows' = rows \cup {r} /\ SyncTo(s, "event") /\ UNCHANGED <<itemFailed, left>>
    /\ UNCHANGED <<jobTable, redis, imported, selected, otaFaults>>

AppendReceived(s, r) ==
    /\ syncAt[s] = "event" /\ Item(s, r)
    /\ imported' = imported \cup {s}
    /\ NextItem(s, r)
    /\ UNCHANGED <<jobTable, redis, rows, itemFailed, selected, otaFaults>>

(* MUTANT: the catch of an item does not count it. *)
ItemThrowsUncounted(s, r) ==
    /\ syncAt[s] \in {"check", "mark", "insert", "event"} /\ Item(s, r)
    /\ OtaFault
    /\ \/ UNCHANGED <<marks, rows>>
       \/ syncAt[s] = "mark" /\ marks' = marks \cup {r} /\ UNCHANGED rows
       \/ syncAt[s] = "insert" /\ rows' = rows \cup {r} /\ UNCHANGED marks
    /\ NextItem(s, r)
    /\ UNCHANGED <<jobTable, cachedJob, otaLock, itemFailed, imported, selected>>

(* A call for one reservation throws, after it took effect or before. *)
ItemThrows(s, r) ==
    /\ syncAt[s] \in {"check", "mark", "insert", "event"} /\ Item(s, r)
    /\ OtaFault
    /\ \/ UNCHANGED <<marks, rows>>
       \/ syncAt[s] = "mark" /\ marks' = marks \cup {r} /\ UNCHANGED rows
       \/ syncAt[s] = "insert" /\ rows' = rows \cup {r} /\ UNCHANGED marks
    /\ itemFailed' = itemFailed \cup {<<s, r>>}
    /\ NextItem(s, r)
    /\ UNCHANGED <<jobTable, cachedJob, otaLock, imported, selected>>

Outcome(s) ==
    IF s \notin imported /\ \E r \in Reservation : <<s, r>> \in itemFailed
    THEN "FAILED" ELSE "SUCCESS"

FinishSync(s) ==
    /\ syncAt[s] = "finish"
    /\ SetJob(s, Outcome(s))
    /\ SyncTo(s, "unlock")
    /\ UNCHANGED <<redis, rows, progress, selected, otaFaults>>

(* withLock: release; its error is swallowed. *)
UnlockOta(s) ==
    /\ syncAt[s] = "unlock"
    /\ \/ Unlocked(s) /\ UNCHANGED otaFaults
       \/ OtaFault /\ UNCHANGED otaLock
    /\ SyncTo(s, "done")
    /\ UNCHANGED <<jobTable, cachedJob, marks, rows, progress, selected>>

(* The catch block of executeReservationSync. *)
FailSync(s) ==
    /\ syncAt[s] = "catch"
    /\ SetJob(s, "FAILED")
    /\ SyncTo(s, "done")
    /\ UNCHANGED <<redis, rows, progress, selected, otaFaults>>

(* A call of the request throws, after it took effect or before: it answers with the error. *)
RequestThrows(s) ==
    /\ syncAt[s] \in {"cached", "find", "create", "remember"}
    /\ OtaFault
    /\ SyncTo(s, "done")
    /\ \/ UNCHANGED <<jobTable, cachedJob>>
       \/ syncAt[s] = "create" /\ HasKey(KeyOf[s]) = {} /\ SetJob(s, "PENDING") /\ UNCHANGED cachedJob
       \/ syncAt[s] = "remember" /\ cachedJob' = [cachedJob EXCEPT ![KeyOf[s]] = s] /\ UNCHANGED jobTable
    /\ UNCHANGED <<otaLock, marks, rows, progress, selected>>

(* A call of the job outside the loop throws; withLock releases. *)
JobThrows(s) ==
    /\ OtaFault
    /\ \/ /\ syncAt[s] = "lock" /\ otaLock' \in {otaLock} \cup (IF otaLock = None THEN {s} ELSE {})
          /\ UNCHANGED jobTable
       \/ /\ syncAt[s] \in {"start", "finish"} /\ Unlocked(s)
          /\ \/ SetJob(s, IF syncAt[s] = "start" THEN "RUNNING" ELSE Outcome(s))
             \/ UNCHANGED jobTable
    /\ SyncTo(s, "catch")
    /\ UNCHANGED <<cachedJob, marks, rows, progress, selected>>

(* The catch block lets an error of its own through. *)
FailSyncThrows(s) ==
    /\ syncAt[s] = "catch"
    /\ OtaFault
    /\ SetJob(s, "FAILED") \/ UNCHANGED jobTable
    /\ SyncTo(s, "done")
    /\ UNCHANGED <<redis, rows, progress, selected>>

(* The process dies; `left` still says with what. *)
SyncDies(s) ==
    /\ syncAt[s] \notin {"cached", "done"}
    /\ OtaFault
    /\ SyncTo(s, "done")
    /\ UNCHANGED <<jobTable, redis, rows, progress, selected>>

(* The marks and the cached jobs run out. *)
MarkExpires(r) ==
    /\ r \in marks
    /\ marks' = marks \ {r}
    /\ UNCHANGED <<jobTable, cachedJob, otaLock, rows, syncAt, progress, selected, otaFaults>>
CachedJobExpires(k) ==
    /\ cachedJob[k] # None
    /\ cachedJob' = [cachedJob EXCEPT ![k] = None]
    /\ UNCHANGED <<jobTable, otaLock, marks, rows, syncAt, progress, selected, otaFaults>>

-----------------------------------------------------------------------------
CanRetryJob(j) == syncStatus[j] \in {"FAILED", "RETRYING"} /\ jobRetries[j] < maxJobRetries

(* findPendingRetries; at most 100 jobs, here all. *)
SelectJobs(w) ==
    /\ selected[w] = {}
    /\ \E j \in Sync : CanRetryJob(j)
    /\ selected' = [selected EXCEPT ![w] = {j \in Sync : CanRetryJob(j)}]
    /\ UNCHANGED <<jobTable, redis, rows, syncAt, progress, otaFaults>>

Dealt(w, j) == selected' = [selected EXCEPT ![w] = @ \ {j}]

(* incrementRetry; appendEvent and publishSyncStarted lead nowhere. *)
RetryJob(w, j) ==
    /\ j \in selected[w]
    /\ jobRetries' = [jobRetries EXCEPT ![j] = @ + 1]
    /\ syncStatus' = [syncStatus EXCEPT ![j] = "RETRYING"]
    /\ Dealt(w, j)
    /\ UNCHANGED <<redis, rows, syncAt, progress, otaFaults>>

(* incrementRetry throws, or the process dies. *)
RetryJobThrows(w, j) ==
    /\ j \in selected[w]
    /\ OtaFault
    /\ Dealt(w, j) \/ selected' = [selected EXCEPT ![w] = {}]
    /\ UNCHANGED <<jobTable, redis, rows, syncAt, progress>>

SyncItem(s, r) ==
    \/ FindStored(s, r) \/ MarkReservation(s, r)
    \/ InsertReservation(s, r) \/ AppendReceived(s, r)

SyncStep(s) ==
    \/ FindJob(s) \/ CreateJob(s) \/ RememberJob(s)
    \/ AcquireOta(s) \/ OtaLockTaken(s)
    \/ StartSync(s) \/ Pull(s) \/ FinishSync(s) \/ UnlockOta(s) \/ FailSync(s)
    \/ \E r \in left[s] : SyncItem(s, r)

OtaNext ==
    \/ \E s \in Sync : \/ SyncStep(s)
                       \/ RequestThrows(s) \/ JobThrows(s) \/ FailSyncThrows(s) \/ SyncDies(s)
                       \/ \E r \in left[s] : ItemThrows(s, r)
    \/ OtaLockExpires
    \/ \E r \in Reservation : MarkExpires(r)
    \/ \E k \in IdempotencyKey : CachedJobExpires(k)
    \/ \E w \in RetryWorker : SelectJobs(w) \/ \E j \in selected[w] : RetryJob(w, j) \/ RetryJobThrows(w, j)

OtaSpec == OtaInit /\ [][OtaNext]_otaVars

-----------------------------------------------------------------------------
(* Properties. *)

OtaTypeOK ==
    /\ syncStatus \in [Sync -> SyncStatus] /\ jobRetries \in [Sync -> Nat]
    /\ cachedJob \in [IdempotencyKey -> Sync \cup {None}]
    /\ otaLock \in Sync \cup {None}
    /\ marks \subseteq Reservation /\ rows \subseteq Reservation
    /\ syncAt \in [Sync -> SyncStop]
    /\ left \in [Sync -> SUBSET Reservation]
    /\ itemFailed \subseteq Sync \X Reservation /\ imported \subseteq Sync
    /\ selected \in [RetryWorker -> SUBSET Sync]
    /\ otaFaults \in 0 .. MaxOtaFaults

BeingInserted(r) == \E s \in Sync : syncAt[s] = "insert" /\ Item(s, r)
(* A job reports r as failed, or its process died at r. *)
Failed(r) ==
    \E q \in Sync : <<q, r>> \in itemFailed \/ (syncAt[q] = "done" /\ Item(q, r))

(* When a job succeeded, every reservation it pulled is stored, or another *)
(* sync is storing it, or a job has reported it as failed or died with it, *)
(* maybe another job than the one that succeeded: a mark outlives the sync *)
(* that set it and hides the reservation from the others, but what it      *)
(* hides is in somebody's count (SyncReservations.ts:130-188).             *)
ImportsCovered ==
    (\E s \in Sync : syncStatus[s] = "SUCCESS") =>
        \A r \in Reservation : r \in rows \/ BeingInserted(r) \/ Failed(r)
=============================================================================
