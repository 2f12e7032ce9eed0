---------------------------- MODULE BookingCache ----------------------------
(***************************************************************************)
(* booking-service, the read cache: GetBooking reads one booking through   *)
(* Redis, and the operations that change it (CheckIn, CheckOut,            *)
(* CancelBooking, PatchBooking) delete the entry as their last step.  A    *)
(* read may load the booking before a change and store it after the entry  *)
(* was deleted, and a change that fails half-way deletes nothing.          *)
(*                                                                         *)
(* The booking is the number of changes made to it.                        *)
(***************************************************************************)
EXTENDS Integers, FiniteSets

CONSTANTS
    Reader,        \* reads that may be at work at one time
    Changer,       \* operations that change the booking, each once
    MaxCacheFaults \* bound: errors of Redis or the database, deaths of processes

ASSUME BookingCacheAssumption ==
    IsFiniteSet(Reader) /\ IsFiniteSet(Changer) /\ Reader \cap Changer = {} /\ MaxCacheFaults \in Nat

NoEntry == -1
Version == 0 .. Cardinality(Changer)

VARIABLES
    stored,      \* the booking in the database
    entry,       \* the booking in Redis, or NoEntry
    frontAt,     \* where each read and each change is
    loaded,      \* [Reader -> Version]  what it loaded
    cacheFaults

cacheVars == <<stored, entry, frontAt, loaded, cacheFaults>>

BookingCacheInit ==
    /\ stored = 0 /\ entry = NoEntry
    /\ frontAt = [p \in Reader \cup Changer |-> IF p \in Reader THEN "get" ELSE "update"]
    /\ loaded = [r \in Reader |-> 0]
    /\ cacheFaults = 0

FrontTo(p, stop) == frontAt' = [frontAt EXCEPT ![p] = stop]
CacheFault == cacheFaults < MaxCacheFaults /\ cacheFaults' = cacheFaults + 1

(* GetBooking: cache.get; a hit is the answer. *)
GetMiss(r) ==
    /\ r \in Reader /\ frontAt[r] = "get" /\ entry = NoEntry
    /\ FrontTo(r, "load")
    /\ UNCHANGED <<stored, entry, loaded, cacheFaults>>

Load(r) ==
    /\ r \in Reader /\ frontAt[r] = "load"
    /\ loaded' = [loaded EXCEPT ![r] = stored]
    /\ FrontTo(r, "set")
    /\ UNCHANGED <<stored, entry, cacheFaults>>

(* cache.set; it may throw, with effect or without. *)
SetEntry(r) ==
    /\ r \in Reader /\ frontAt[r] = "set"
    /\ \/ entry' = loaded[r] /\ UNCHANGED cacheFaults
       \/ CacheFault /\ entry' \in {entry, loaded[r]}
    /\ FrontTo(r, "get")
    /\ UNCHANGED <<stored, loaded>>

(* updateStatus, or the update of PatchBooking. *)
Change(c) ==
    /\ c \in Changer /\ frontAt[c] = "update"
    /\ stored' = stored + 1
    /\ FrontTo(c, "invalidate")
    /\ UNCHANGED <<entry, loaded, cacheFaults>>

(* cache.invalidate, after the audit entry. *)
Invalidate(c) ==
    /\ c \in Changer /\ frontAt[c] = "invalidate"
    /\ entry' = NoEntry
    /\ FrontTo(c, "done")
    /\ UNCHANGED <<stored, loaded, cacheFaults>>

(* An earlier call, or the deletion, throws; or the process dies. *)
ChangeBreaksOff(c) ==
    /\ c \in Changer /\ frontAt[c] \in {"update", "invalidate"}
    /\ CacheFault
    /\ FrontTo(c, "done")
    /\ UNCHANGED <<stored, entry, loaded>>

(* MUTANT: the entry is stored without a TTL. *)
EntryStays == entry # NoEntry /\ UNCHANGED cacheVars

(* setex: 300 seconds. *)
EntryExpires ==
    /\ entry # NoEntry
    /\ entry' = NoEntry
    /\ UNCHANGED <<stored, frontAt, loaded, cacheFaults>>

ReadStep(r) == GetMiss(r) \/ Load(r) \/ SetEntry(r)
ChangeStep(c) == Change(c) \/ Invalidate(c)

BookingCacheNext ==
    \/ \E r \in Reader : ReadStep(r)
    \/ \E c \in Changer : ChangeStep(c) \/ ChangeBreaksOff(c)
    \/ EntryExpires

(* Calls return or throw, and Redis removes what has expired. *)
BookingCacheFairness ==
    /\ \A r \in Reader : WF_cacheVars(Load(r) \/ SetEntry(r))
    /\ \A c \in Changer : WF_cacheVars(Invalidate(c))
    /\ WF_cacheVars(EntryExpires)
BookingCacheSpec == BookingCacheInit /\ [][BookingCacheNext]_cacheVars /\ BookingCacheFairness

-----------------------------------------------------------------------------
BookingCacheTypeOK ==
    /\ stored \in Version /\ entry \in Version \cup {NoEntry}
    /\ frontAt \in [Reader \cup Changer -> {"get", "load", "set", "update", "invalidate", "done"}]
    /\ loaded \in [Reader -> Version]
    /\ cacheFaults \in 0 .. MaxCacheFaults

(* Whatever reads and changes overlap and whichever deletion is missed, a  *)
(* stale entry goes: once the changes are over the cache has the booking   *)
(* as it is, or nothing (GetBooking.ts:12-20, BookingCache.ts:57).         *)
StaleEntriesGo == <>[](entry \in {stored, NoEntry})
=============================================================================
