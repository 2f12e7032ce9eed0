-------------------------- MODULE IdempotencyStore --------------------------
(***************************************************************************)
(* booking-service, the idempotency middleware, for one key: the first     *)
(* request marks the key PROCESSING for 60 seconds and runs the handler;   *)
(* its response, whatever it is, is stored for 24 hours by a call nobody   *)
(* waits for.  Requests that find the mark are refused, those that find a  *)
(* response get it again.                                                  *)
(*                                                                         *)
(* The entry in Redis is Absent, Processing, or the request whose response *)
(* it is.                                                                  *)
(***************************************************************************)
EXTENDS Integers, FiniteSets

CONSTANTS
    Attempt,             \* requests with the key
    Absent, Processing,
    MaxLapses,           \* bound: entries that expire
    MaxMiddlewareFaults  \* bound: errors of Redis, deaths of processes

ASSUME IdempotencyAssumption ==
    /\ IsFiniteSet(Attempt) /\ Absent # Processing
    /\ Absent \notin Attempt /\ Processing \notin Attempt
    /\ MaxLapses \in Nat /\ MaxMiddlewareFaults \in Nat

VARIABLES
    keyEntry,          \* what Redis has under the key
    attemptAt,         \* where each request is
    handledBy,         \* the requests whose handler ran
    lapses,            \* expirations so far
    middlewareFaults

idempotencyVars == <<keyEntry, attemptAt, handledBy, lapses, middlewareFaults>>

AttemptStop == {"get", "mark", "handle", "store", "refused", "replayed", "done"}

IdempotencyInit ==
    /\ keyEntry = Absent
    /\ attemptAt = [a \in Attempt |-> "get"]
    /\ handledBy = {}
    /\ lapses = 0 /\ middlewareFaults = 0

AttemptTo(a, stop) == attemptAt' = [attemptAt EXCEPT ![a] = stop]
MiddlewareFault ==
    middlewareFaults < MaxMiddlewareFaults /\ middlewareFaults' = middlewareFaults + 1

(* store.get; an error counts as nothing found. *)
GetKey(a) ==
    /\ attemptAt[a] = "get"
    /\ \/ /\ AttemptTo(a, IF keyEntry = Absent THEN "mark"
                          ELSE IF keyEntry = Processing THEN "refused" ELSE "replayed")
          /\ UNCHANGED middlewareFaults
       \/ MiddlewareFault /\ AttemptTo(a, "mark")
    /\ UNCHANGED <<keyEntry, handledBy, lapses>>

(* MUTANT: SET without NX. *)
MarkAlways(a) ==
    /\ attemptAt[a] = "mark"
    /\ keyEntry' = Processing
    /\ AttemptTo(a, "handle")
    /\ UNCHANGED <<handledBy, lapses, middlewareFaults>>

(* markProcessing: SET NX; an error refuses the request, whether the mark was set or not. *)
MarkProcessing(a) ==
    /\ attemptAt[a] = "mark"
    /\ \/ /\ keyEntry = Absent /\ keyEntry' = Processing
          /\ AttemptTo(a, "handle") /\ UNCHANGED middlewareFaults
       \/ /\ keyEntry # Absent /\ UNCHANGED keyEntry
          /\ AttemptTo(a, "refused") /\ UNCHANGED middlewareFaults
       \/ /\ MiddlewareFault /\ AttemptTo(a, "refused")
          /\ \/ UNCHANGED keyEntry
             \/ keyEntry = Absent /\ keyEntry' = Processing
    /\ UNCHANGED <<handledBy, lapses>>

(* next: the handler runs and calls res.json, which starts the storing. *)
Handle(a) ==
    /\ attemptAt[a] = "handle"
    /\ handledBy' = handledBy \cup {a}
    /\ AttemptTo(a, "store")
    /\ UNCHANGED <<keyEntry, lapses, middlewareFaults>>

StoreResponse(a) ==
    /\ attemptAt[a] = "store"
    /\ keyEntry' = a
    /\ AttemptTo(a, "done")
    /\ UNCHANGED <<handledBy, lapses, middlewareFaults>>

(* The storing fails, which is swallowed, or the process dies. *)
BreaksOff(a) ==
    /\ attemptAt[a] \in {"handle", "store"}
    /\ MiddlewareFault
    /\ keyEntry' \in {keyEntry} \cup (IF attemptAt[a] = "store" THEN {a} ELSE {})
    /\ handledBy' \in {handledBy, handledBy \cup {a}}
    /\ AttemptTo(a, "done")
    /\ UNCHANGED lapses

(* The TTL of the mark, or of the response, runs out. *)
KeyExpires ==
    /\ keyEntry # Absent /\ lapses < MaxLapses
    /\ keyEntry' = Absent
    /\ lapses' = lapses + 1
    /\ UNCHANGED <<attemptAt, handledBy, middlewareFaults>>

IdempotencyNext ==
    \/ \E a \in Attempt : \/ GetKey(a) \/ MarkProcessing(a) \/ Handle(a)
                          \/ StoreResponse(a) \/ BreaksOff(a)
    \/ KeyExpires

IdempotencySpec == IdempotencyInit /\ [][IdempotencyNext]_idempotencyVars

-----------------------------------------------------------------------------
IdempotencyTypeOK ==
    /\ keyEntry \in Attempt \cup {Absent, Processing}
    /\ attemptAt \in [Attempt -> AttemptStop]
    /\ handledBy \in SUBSET Attempt
    /\ lapses \in 0 .. MaxLapses /\ middlewareFaults \in 0 .. MaxMiddlewareFaults

(* The handler runs once for a key, and once more at most for every time   *)
(* the entry expired, its 60 seconds too short for the handler or its      *)
(* response not stored in time; what is replayed is the response of a      *)
(* handler that ran (idempotency.ts:17-58, IdempotencyStore.ts:28).        *)
HandlerRunsBounded ==
    /\ Cardinality(handledBy) <= 1 + lapses
    /\ keyEntry \in handledBy \cup {Absent, Processing}
=============================================================================
