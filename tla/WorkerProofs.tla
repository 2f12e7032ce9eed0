---------------------------- MODULE WorkerProofs ----------------------------
(***************************************************************************)
(* For any number of requests, ticks and failures: how many reservations a *)
(* synchronisation that succeeded may have missed (OtaService), and how    *)
(* often a failed execution is retried and how many executions are         *)
(* stranded (WorkflowService), and how often a notification is sent        *)
(* (NotificationService).                                                  *)
(***************************************************************************)
EXTENDS OtaService, WorkflowService, NotificationService, FiniteSetTheorems, TLAPS

LEMMA OneMore ==
    ASSUME NEW S, IsFiniteSet(S), NEW T \in SUBSET S, NEW x, NEW U, U \subseteq T \cup {x}
    PROVE  /\ Cardinality(T) \in Nat /\ Cardinality(U) \in Nat
           /\ Cardinality(U) <= Cardinality(T) + 1
<1>1. IsFiniteSet(T) /\ Cardinality(T) \in Nat
    BY FS_Subset, FS_CardinalityType
<1>2. /\ IsFiniteSet(T \cup {x})
      /\ \/ Cardinality(T \cup {x}) = Cardinality(T)
         \/ Cardinality(T \cup {x}) = Cardinality(T) + 1
    BY <1>1, FS_AddElement
<1>3. IsFiniteSet(U) /\ Cardinality(U) <= Cardinality(T \cup {x})
    BY <1>2, FS_Subset
<1>4. QED
    BY <1>1, <1>2, <1>3, FS_CardinalityType

LEMMA NoMore ==
    ASSUME NEW S, IsFiniteSet(S), NEW T \in SUBSET S, NEW U, U \subseteq T
    PROVE  /\ Cardinality(T) \in Nat /\ Cardinality(U) \in Nat
           /\ Cardinality(U) <= Cardinality(T)
<1>1. IsFiniteSet(T) /\ Cardinality(T) \in Nat
    BY FS_Subset, FS_CardinalityType
<1>2. QED
    BY <1>1, FS_Subset, FS_CardinalityType

-----------------------------------------------------------------------------
(* OtaService. *)

LEMMA OtaTypeInit == OtaInit => OtaTypeOK
BY OtaAssumption DEF OtaInit, OtaTypeOK, SyncStop, SyncStatus, Reservation, IdempotencyKey

LEMMA SyncTypeNext ==
    ASSUME OtaTypeOK, NEW s \in Sync,
           \/ SyncStep(s) \/ RequestThrows(s) \/ JobThrows(s) \/ FailSyncThrows(s) \/ SyncDies(s)
           \/ \E r \in left[s] : ItemThrows(s, r)
    PROVE  OtaTypeOK'
<1> USE OtaAssumption DEF OtaTypeOK, SyncStop, SyncStatus, SyncTo, jobTable, redis, progress
<1>1. ASSUME FindJob(s) PROVE OtaTypeOK'
    BY <1>1 DEF FindJob
<1>2. ASSUME CreateJob(s) PROVE OtaTypeOK'
    BY <1>2 DEF CreateJob, SetJob
<1>3. ASSUME RememberJob(s) PROVE OtaTypeOK'
    BY <1>3 DEF RememberJob
<1>4. ASSUME AcquireOta(s) \/ OtaLockTaken(s) PROVE OtaTypeOK'
    BY <1>4 DEF AcquireOta, OtaLockTaken
<1>5. ASSUME StartSync(s) \/ FailSync(s) PROVE OtaTypeOK'
    BY <1>5 DEF StartSync, FailSync, SetJob
<1>6. ASSUME Pull(s) PROVE OtaTypeOK'
    BY <1>6 DEF Pull, Unlocked
<1>7. ASSUME FinishSync(s) PROVE OtaTypeOK'
    BY <1>7 DEF FinishSync, SetJob, Outcome
<1>8. ASSUME UnlockOta(s) PROVE OtaTypeOK'
    BY <1>8 DEF UnlockOta, Unlocked, OtaFault
<1>9. ASSUME NEW r \in left[s], SyncItem(s, r) PROVE OtaTypeOK'
    BY <1>9 DEF SyncItem, FindStored, MarkReservation, InsertReservation, AppendReceived, NextItem
<1>10. ASSUME NEW r \in left[s], ItemThrows(s, r) PROVE OtaTypeOK'
    BY <1>10 DEF ItemThrows, NextItem, OtaFault
<1>11. ASSUME RequestThrows(s) PROVE OtaTypeOK'
    BY <1>11 DEF RequestThrows, SetJob, OtaFault
<1>12. ASSUME JobThrows(s) PROVE OtaTypeOK'
  <2>1. otaLock' \in Sync \cup {None}
    BY <1>12 DEF JobThrows, Unlocked
  <2>2. Outcome(s) \in SyncStatus
    BY DEF Outcome, SyncStatus
  <2> HIDE DEF Outcome
  <2>3. syncStatus' \in [Sync -> SyncStatus]
    BY <1>12, <2>2 DEF JobThrows, SetJob
  <2>4. jobRetries' = jobRetries /\ otaFaults' \in 0 .. MaxOtaFaults
    BY <1>12 DEF JobThrows, SetJob, OtaFault
  <2> QED
    BY <1>12, <2>1, <2>3, <2>4 DEF JobThrows
<1>13. ASSUME FailSyncThrows(s) \/ SyncDies(s) PROVE OtaTypeOK'
    BY <1>13 DEF FailSyncThrows, SyncDies, SetJob, OtaFault
<1>14. QED
    BY <1>1, <1>2, <1>3, <1>4, <1>5, <1>6, <1>7, <1>8, <1>9, <1>10, <1>11, <1>12, <1>13 DEF SyncStep

(* What lapses, and the retry workers. *)
OtaRest ==
    \/ OtaLockExpires
    \/ \E r \in Reservation : MarkExpires(r)
    \/ \E k \in IdempotencyKey : CachedJobExpires(k)
    \/ \E w \in RetryWorker : SelectJobs(w) \/ \E j \in selected[w] : RetryJob(w, j) \/ RetryJobThrows(w, j)

LEMMA OtaTypeNext == OtaTypeOK /\ [OtaNext]_otaVars => OtaTypeOK'
<1> SUFFICES ASSUME OtaTypeOK, [OtaNext]_otaVars PROVE OtaTypeOK'
    OBVIOUS
<1>1. ASSUME OtaRest PROVE OtaTypeOK'
  <2> USE OtaAssumption DEF OtaTypeOK, SyncStatus, jobTable, redis, progress
  <2>1. CASE OtaLockExpires
      BY <2>1 DEF OtaLockExpires
  <2>2. ASSUME NEW r \in Reservation, MarkExpires(r) PROVE OtaTypeOK'
      BY <2>2 DEF MarkExpires
  <2>3. ASSUME NEW k \in IdempotencyKey, CachedJobExpires(k) PROVE OtaTypeOK'
      BY <2>3 DEF CachedJobExpires
  <2>4. ASSUME NEW w \in RetryWorker, SelectJobs(w) PROVE OtaTypeOK'
      BY <2>4 DEF SelectJobs
  <2>5. ASSUME NEW w \in RetryWorker, NEW j \in selected[w], RetryJob(w, j) PROVE OtaTypeOK'
      BY <2>5 DEF RetryJob, Dealt
  <2>6. ASSUME NEW w \in RetryWorker, NEW j \in selected[w], RetryJobThrows(w, j) PROVE OtaTypeOK'
      BY <2>6 DEF RetryJobThrows, Dealt, OtaFault
  <2>7. QED
      BY <1>1, <2>1, <2>2, <2>3, <2>4, <2>5, <2>6 DEF OtaRest
<1>2. CASE UNCHANGED otaVars
    BY <1>2 DEF OtaTypeOK, otaVars, jobTable, redis, progress
<1>3. QED
    BY <1>1, <1>2, SyncTypeNext DEF OtaNext, OtaRest

(* What a synchronisation knows at the steps that rely on it. *)
InLoop == {"check", "mark", "insert", "event"}
SyncKnows ==
    \A s \in Sync :
        /\ syncStatus[s] = "SUCCESS" => syncAt[s] \in {"unlock", "catch", "done"}
        /\ syncAt[s] = "finish" => left[s] = {}
        /\ syncAt[s] = "event" => \A r \in left[s] : Item(s, r) => r \in rows

(* The reservations that a synchronisation has dealt with, without error. *)
PassedBy(s) ==
    {r \in Reservation :
        /\ <<s, r>> \notin itemFailed
        /\ \/ syncAt[s] \in InLoop \cup {"finish"} /\ r \notin left[s]
           \/ syncAt[s] \notin InLoop \cup {"finish"} /\ syncStatus[s] = "SUCCESS"}

(* Hidden by a mark, or passed over because of one, and in no table: each  *)
(* of them is somebody's failure.                                          *)
Hidden ==
    {r \in Reservation \ rows :
        ~BeingInserted(r) /\ (r \in marks \/ \E s \in Sync : r \in PassedBy(s))}
HiddenFailed == \A r \in Hidden : Failed(r)

OtaInv == OtaTypeOK /\ SyncKnows /\ HiddenFailed

(* A step of one synchronisation leaves what the others know and passed. *)
OnlyAbout(s) ==
    \A q \in Sync \ {s} :
        /\ syncAt'[q] = syncAt[q] /\ left'[q] = left[q] /\ syncStatus'[q] = syncStatus[q]
        /\ \A r : <<q, r>> \in itemFailed' <=> <<q, r>> \in itemFailed

LEMMA SyncIsAlone ==
    ASSUME OtaTypeOK, NEW s \in Sync,
           \/ SyncStep(s) \/ RequestThrows(s) \/ JobThrows(s) \/ FailSyncThrows(s) \/ SyncDies(s)
           \/ \E r \in left[s] : ItemThrows(s, r)
    PROVE  /\ OnlyAbout(s) /\ rows \subseteq rows' /\ itemFailed \subseteq itemFailed'
           /\ syncAt[s] # "done"
<1> USE OtaAssumption DEF OtaTypeOK, SyncTo, jobTable, redis, progress, OnlyAbout, OtaFault
<1>1. CASE FindJob(s) \/ CreateJob(s) \/ RememberJob(s) \/ RequestThrows(s)
    BY <1>1 DEF FindJob, CreateJob, RememberJob, RequestThrows, SetJob
<1>2. CASE AcquireOta(s) \/ OtaLockTaken(s) \/ StartSync(s) \/ FailSync(s) \/ Pull(s) \/ FinishSync(s)
    BY <1>2 DEF AcquireOta, OtaLockTaken, StartSync, FailSync, Pull, FinishSync, SetJob
<1>3. CASE UnlockOta(s) \/ JobThrows(s) \/ FailSyncThrows(s) \/ SyncDies(s)
    BY <1>3 DEF UnlockOta, JobThrows, FailSyncThrows, SyncDies, SetJob
<1>4. ASSUME NEW r \in left[s], SyncItem(s, r) \/ ItemThrows(s, r)
      PROVE  /\ OnlyAbout(s) /\ rows \subseteq rows' /\ itemFailed \subseteq itemFailed'
             /\ syncAt[s] # "done"
    BY <1>4 DEF SyncItem, FindStored, MarkReservation, InsertReservation, AppendReceived,
                ItemThrows, NextItem
<1>5. QED
    BY <1>1, <1>2, <1>3, <1>4 DEF SyncStep

(* So nothing becomes hidden but by what the step does with its own marks. *)
LEMMA HiddenGrows ==
    ASSUME OtaTypeOK, NEW s \in Sync, OnlyAbout(s), rows \subseteq rows', NEW X,
           \A r \in Reservation \ (rows' \cup X) :
               /\ r \in marks' \/ r \in PassedBy(s)' =>
                     \/ r \in marks \/ r \in PassedBy(s)
                     \/ syncAt'[s] = "insert" /\ Item(s, r)'
               /\ syncAt[s] = "insert" /\ Item(s, r) => syncAt'[s] = "insert" /\ Item(s, r)'
    PROVE  Hidden' \subseteq Hidden \cup X
<1> SUFFICES ASSUME NEW r \in Hidden', r \notin X PROVE r \in Hidden
    OBVIOUS
<1>1. r \in Reservation \ (rows' \cup X) /\ r \notin rows
    BY DEF Hidden
<1>2. \A q \in Sync : ~(syncAt'[q] = "insert" /\ Item(q, r)')
    BY DEF Hidden, BeingInserted
<1>3. \A q \in Sync \ {s} : (r \in PassedBy(q)') <=> (r \in PassedBy(q))
    BY DEF PassedBy, OnlyAbout
<1>4. \A q \in Sync \ {s} : Item(q, r)' <=> Item(q, r)
    BY DEF Item, OnlyAbout
<1>5. ~BeingInserted(r)
    BY <1>1, <1>2, <1>4 DEF BeingInserted, OnlyAbout
<1>6. r \in marks \/ \E q \in Sync : r \in PassedBy(q)
  <2>1. CASE r \in marks' \/ r \in PassedBy(s)'
      BY <1>1, <1>2, <2>1
  <2>2. CASE \E q \in Sync \ {s} : r \in PassedBy(q)'
      BY <1>3, <2>2
  <2>3. QED
      BY <2>1, <2>2 DEF Hidden
<1>7. QED
    BY <1>1, <1>5, <1>6 DEF Hidden

LEMMA FirstIsOne ==
    ASSUME NEW s, NEW r, NEW q, left[s] \subseteq Int, Item(s, r), Item(s, q)
    PROVE  r = q
BY DEF Item

LEMMA HiddenBySync ==
    ASSUME OtaTypeOK, SyncKnows, NEW s \in Sync,
           \/ SyncStep(s) \/ RequestThrows(s) \/ JobThrows(s) \/ FailSyncThrows(s) \/ SyncDies(s)
           \/ \E r \in left[s] : ItemThrows(s, r)
    PROVE  \/ Hidden' \subseteq Hidden
           \/ \E X : Hidden' \subseteq Hidden \cup X /\ \A x \in X : Failed(x)'
<1>0. OnlyAbout(s) /\ rows \subseteq rows'
    BY SyncIsAlone
<1> USE <1>0, OtaAssumption DEF OtaTypeOK, SyncTo, jobTable, redis, progress, InLoop, SyncKnows
(* Outside the loop nothing is marked, and what was passed stays so. *)
<1>1. ASSUME UNCHANGED <<marks, itemFailed>>, syncAt[s] # "insert",
             \A r \in PassedBy(s)' : r \in PassedBy(s)
      PROVE  Hidden' \subseteq Hidden
  <2>1. \A r \in Reservation \ (rows' \cup {}) :
               /\ r \in marks' \/ r \in PassedBy(s)' =>
                     \/ r \in marks \/ r \in PassedBy(s)
                     \/ syncAt'[s] = "insert" /\ Item(s, r)'
               /\ syncAt[s] = "insert" /\ Item(s, r) => syncAt'[s] = "insert" /\ Item(s, r)'
      BY <1>1
  <2>2. Hidden' \subseteq Hidden \cup {}
      BY <2>1, HiddenGrows
  <2>3. QED
      BY <2>2
<1>2. CASE FindJob(s) \/ CreateJob(s) \/ RememberJob(s) \/ RequestThrows(s)
    BY <1>1, <1>2 DEF FindJob, CreateJob, RememberJob, RequestThrows, SetJob, PassedBy, SyncStatus
<1>3. CASE AcquireOta(s) \/ OtaLockTaken(s) \/ StartSync(s) \/ FailSync(s) \/ FailSyncThrows(s)
    BY <1>1, <1>3 DEF AcquireOta, OtaLockTaken, StartSync, FailSync, FailSyncThrows, SetJob, PassedBy
<1>4. CASE Pull(s) \/ UnlockOta(s)
    BY <1>1, <1>4 DEF Pull, UnlockOta, PassedBy
<1>5. CASE FinishSync(s) \/ JobThrows(s)
    BY <1>1, <1>5 DEF FinishSync, JobThrows, SetJob, PassedBy
<1>6. ASSUME NEW r \in left[s], SyncItem(s, r)
      PROVE  Hidden' \subseteq Hidden
  <2>0. r \in Reservation /\ Item(s, r) /\ left[s] \subseteq Reservation /\ Reservation \subseteq Int
      BY <1>6 DEF SyncItem, FindStored, MarkReservation, InsertReservation, AppendReceived, Reservation
  <2>1. \A q \in Reservation \ (rows' \cup {}) :
               /\ q \in marks' \/ q \in PassedBy(s)' =>
                     \/ q \in marks \/ q \in PassedBy(s)
                     \/ syncAt'[s] = "insert" /\ Item(s, q)'
               /\ syncAt[s] = "insert" /\ Item(s, q) => syncAt'[s] = "insert" /\ Item(s, q)'
    <3>1. CASE FindStored(s, r)
        BY <3>1 DEF FindStored, NextItem, PassedBy
    <3>2. CASE MarkReservation(s, r)
        BY <3>2 DEF MarkReservation, NextItem, PassedBy, Item
    <3>3. CASE InsertReservation(s, r)
      <4>1. \A q \in Reservation : Item(s, q) => q = r
          BY <2>0, FirstIsOne
      <4>2. r \in rows'
          BY <3>3 DEF InsertReservation
      <4>3. UNCHANGED marks
          BY <3>3 DEF InsertReservation
      <4>4. \A q \in Reservation \ {r} : q \in PassedBy(s)' => q \in PassedBy(s)
          BY <3>3 DEF InsertReservation, NextItem, PassedBy
      <4>5. QED
          BY <4>1, <4>2, <4>3, <4>4
    <3>4. CASE AppendReceived(s, r)
      <4>1. r \in rows' /\ UNCHANGED marks /\ syncAt[s] = "event"
          BY <3>4 DEF AppendReceived
      <4>2. \A q \in Reservation \ {r} : q \in PassedBy(s)' => q \in PassedBy(s)
          BY <3>4 DEF AppendReceived, NextItem, PassedBy
      <4>3. QED
          BY <4>1, <4>2
    <3>5. QED
        BY <1>6, <3>1, <3>2, <3>3, <3>4 DEF SyncItem
  <2>2. Hidden' \subseteq Hidden \cup {}
      BY <2>1, HiddenGrows
  <2>3. QED
      BY <2>2
(* A call that fails for one reservation, or a process that dies with one. *)
<1>7. ASSUME NEW r \in left[s], ItemThrows(s, r)
      PROVE  Hidden' \subseteq Hidden \cup {r} /\ Failed(r)'
  <2>0. r \in Reservation /\ Item(s, r) /\ left[s] \subseteq Reservation /\ Reservation \subseteq Int
      BY <1>7 DEF ItemThrows, Reservation
  <2>1. \A q \in Reservation : Item(s, q) => q = r
      BY <2>0, FirstIsOne
  <2>2. (\A q \in PassedBy(s)' : q \in PassedBy(s)) /\ marks' \subseteq marks \cup {r}
      BY <1>7 DEF ItemThrows, NextItem, PassedBy
  <2>3. Hidden' \subseteq Hidden \cup {r}
      BY <2>1, <2>2, HiddenGrows
  <2>4. <<s, r>> \in itemFailed'
      BY <1>7 DEF ItemThrows
  <2>5. QED
      BY <2>3, <2>4 DEF Failed
<1>8. ASSUME SyncDies(s)
      PROVE  \E X : Hidden' \subseteq Hidden \cup X /\ \A x \in X : Failed(x)'
  <2> DEFINE X == {q \in Reservation : Item(s, q)}
  <2>1. /\ \A q \in PassedBy(s)' : q \in PassedBy(s)
        /\ UNCHANGED marks
      BY <1>8 DEF SyncDies, PassedBy
  <2>2. Hidden' \subseteq Hidden \cup X
      BY <2>1, HiddenGrows
  <2>3. syncAt'[s] = "done" /\ \A q \in X : Item(s, q)'
      BY <1>8 DEF SyncDies, Item
  <2>4. QED
      BY <2>2, <2>3 DEF Failed
<1>9. ASSUME NEW r \in left[s], ItemThrows(s, r)
      PROVE  \E X : Hidden' \subseteq Hidden \cup X /\ \A x \in X : Failed(x)'
  <2>1. Hidden' \subseteq Hidden \cup {r} /\ Failed(r)'
      BY <1>7, <1>9
  <2> DEFINE X == {r}
  <2>2. \A x \in X : Failed(x)'
      BY <2>1
  <2>3. Hidden' \subseteq Hidden \cup X
      BY <2>1
  <2> HIDE DEF X
  <2>4. QED
      BY <2>2, <2>3
<1>10. QED
    BY <1>2, <1>3, <1>4, <1>5, <1>6, <1>8, <1>9 DEF SyncStep

(* What has failed remains so. *)
LEMMA FailedStays ==
    ASSUME OtaTypeOK, [OtaNext]_otaVars, NEW r, Failed(r)
    PROVE  Failed(r)'
<1>1. PICK q \in Sync : <<q, r>> \in itemFailed \/ (syncAt[q] = "done" /\ Item(q, r))
    BY DEF Failed
<1>2. \/ UNCHANGED <<syncAt, left, itemFailed>>
      \/ \E s \in Sync : OnlyAbout(s) /\ itemFailed \subseteq itemFailed' /\ syncAt[s] # "done"
  <2>1. CASE OtaRest \/ UNCHANGED otaVars
      BY <2>1 DEF OtaRest, OtaLockExpires, MarkExpires, CachedJobExpires, SelectJobs, RetryJob,
                  RetryJobThrows, otaVars, progress
  <2>2. CASE ~(OtaRest \/ UNCHANGED otaVars)
      BY <2>2, SyncIsAlone DEF OtaNext, OtaRest
  <2>3. QED
      BY <2>1, <2>2
<1>3. itemFailed \subseteq itemFailed'
    BY <1>2
<1>4. CASE syncAt[q] = "done" /\ Item(q, r)
  <2>1. syncAt'[q] = "done" /\ left'[q] = left[q]
      BY <1>2, <1>4 DEF OnlyAbout
  <2>2. QED
      BY <1>4, <2>1 DEF Failed, Item
<1>5. QED
    BY <1>1, <1>3, <1>4 DEF Failed

LEMMA SyncKnowsNext ==
    ASSUME OtaTypeOK, SyncKnows, NEW s \in Sync,
           \/ SyncStep(s) \/ RequestThrows(s) \/ JobThrows(s) \/ FailSyncThrows(s) \/ SyncDies(s)
           \/ \E r \in left[s] : ItemThrows(s, r)
    PROVE  SyncKnows'
<1>0. OnlyAbout(s) /\ rows \subseteq rows'
    BY SyncIsAlone
<1> DEFINE Knows == /\ syncStatus'[s] = "SUCCESS" => syncAt'[s] \in {"unlock", "catch", "done"}
                    /\ syncAt'[s] = "finish" => left'[s] = {}
                    /\ syncAt'[s] = "event" => \A r \in left'[s] : Item(s, r)' => r \in rows'
<1>1. ASSUME Knows PROVE SyncKnows'
  <2>1. \A q \in Sync \ {s} : \A r : Item(q, r)' <=> Item(q, r)
      BY <1>0 DEF Item, OnlyAbout
  <2>2. QED
      BY <1>0, <1>1, <2>1 DEF SyncKnows, OnlyAbout
<1> USE OtaAssumption DEF OtaTypeOK, SyncTo, jobTable, redis, progress, SyncKnows
<1>2. ASSUME FindJob(s) \/ CreateJob(s) \/ RememberJob(s) \/ RequestThrows(s) PROVE Knows
    BY <1>2 DEF FindJob, CreateJob, RememberJob, RequestThrows, SetJob
<1>3. ASSUME AcquireOta(s) \/ OtaLockTaken(s) \/ StartSync(s) \/ FailSync(s) \/ FailSyncThrows(s)
      PROVE  Knows
    BY <1>3 DEF AcquireOta, OtaLockTaken, StartSync, FailSync, FailSyncThrows, SetJob
<1>4. ASSUME Pull(s) \/ UnlockOta(s) \/ FinishSync(s) \/ JobThrows(s) \/ SyncDies(s) PROVE Knows
    BY <1>4 DEF Pull, UnlockOta, FinishSync, JobThrows, SyncDies, SetJob
<1>5. ASSUME NEW r \in left[s], SyncItem(s, r) \/ ItemThrows(s, r) PROVE Knows
  <2>1. CASE FindStored(s, r) \/ MarkReservation(s, r) \/ AppendReceived(s, r) \/ ItemThrows(s, r)
      BY <2>1 DEF FindStored, MarkReservation, AppendReceived, ItemThrows, NextItem
  <2>2. CASE InsertReservation(s, r)
    <3>1. left[s] \subseteq Int
        BY DEF Reservation
    <3>2. \A q : Item(s, q) => q = r
        BY <2>2, <3>1, FirstIsOne DEF InsertReservation
    <3>3. CASE r \in rows
        BY <2>2, <3>3 DEF InsertReservation, NextItem
    <3>4. CASE r \notin rows
        BY <2>2, <3>2, <3>4 DEF InsertReservation, Item
    <3>5. QED
        BY <3>3, <3>4
  <2>3. QED
      BY <1>5, <2>1, <2>2 DEF SyncItem
<1>6. QED
    BY <1>1, <1>2, <1>3, <1>4, <1>5 DEF SyncStep

LEMMA HiddenByRest ==
    ASSUME OtaTypeOK, SyncKnows, OtaRest \/ UNCHANGED otaVars
    PROVE  SyncKnows' /\ Hidden' \subseteq Hidden
<1> USE OtaAssumption DEF OtaTypeOK, jobTable, redis, progress
<1>1. /\ UNCHANGED <<rows, syncAt, progress>> /\ marks' \subseteq marks
      /\ \A s \in Sync : syncStatus'[s] = "SUCCESS" => syncStatus[s] = "SUCCESS"
  <2>1. CASE OtaLockExpires \/ UNCHANGED otaVars
      BY <2>1 DEF OtaLockExpires, otaVars
  <2>2. CASE \/ \E r \in Reservation : MarkExpires(r)
             \/ \E k \in IdempotencyKey : CachedJobExpires(k)
      BY <2>2 DEF MarkExpires, CachedJobExpires
  <2>3. CASE \E w \in RetryWorker :
                SelectJobs(w) \/ \E j \in selected[w] : RetryJob(w, j) \/ RetryJobThrows(w, j)
      BY <2>3 DEF SelectJobs, RetryJob, RetryJobThrows, OtaFault
  <2>4. QED
      BY <2>1, <2>2, <2>3 DEF OtaRest
<1>2. \A s \in Sync : \A r : Item(s, r)' <=> Item(s, r)
    BY <1>1 DEF Item
<1>3. SyncKnows'
    BY <1>1, <1>2 DEF SyncKnows
<1>4. \A r : BeingInserted(r)' <=> BeingInserted(r)
    BY <1>1, <1>2 DEF BeingInserted
<1>5. \A s \in Sync : PassedBy(s)' \subseteq PassedBy(s)
    BY <1>1 DEF PassedBy
<1>6. QED
    BY <1>1, <1>3, <1>4, <1>5 DEF Hidden

LEMMA OtaInvNext == OtaInv /\ [OtaNext]_otaVars => OtaInv'
<1> SUFFICES ASSUME OtaInv, [OtaNext]_otaVars PROVE OtaInv'
    OBVIOUS
<1>1. OtaTypeOK /\ SyncKnows /\ OtaTypeOK' /\ HiddenFailed
    BY OtaTypeNext DEF OtaInv
<1>2. /\ SyncKnows'
      /\ \/ Hidden' \subseteq Hidden
         \/ \E X : Hidden' \subseteq Hidden \cup X /\ \A x \in X : Failed(x)'
  <2>1. CASE OtaRest \/ UNCHANGED otaVars
      BY <1>1, <2>1, HiddenByRest
  <2>2. ASSUME NEW s \in Sync,
               \/ SyncStep(s) \/ RequestThrows(s) \/ JobThrows(s) \/ FailSyncThrows(s) \/ SyncDies(s)
               \/ \E r \in left[s] : ItemThrows(s, r)
        PROVE  /\ SyncKnows'
               /\ \/ Hidden' \subseteq Hidden
                  \/ \E X : Hidden' \subseteq Hidden \cup X /\ \A x \in X : Failed(x)'
      BY <1>1, <2>2, SyncKnowsNext, HiddenBySync
  <2>3. QED
      BY <2>1, <2>2 DEF OtaNext, OtaRest
<1>3. \A r \in Hidden : Failed(r)'
    BY <1>1, FailedStays DEF HiddenFailed
<1>4. HiddenFailed'
    BY <1>2, <1>3 DEF HiddenFailed
<1>5. QED
    BY <1>1, <1>2, <1>4 DEF OtaInv

LEMMA OtaInitInv == OtaInit => OtaInv
<1> SUFFICES ASSUME OtaInit PROVE OtaInv
    OBVIOUS
<1>1. SyncKnows
    BY DEF OtaInit, SyncKnows
<1>2. Hidden = {}
    BY DEF OtaInit, Hidden, PassedBy, InLoop
<1>3. QED
    BY <1>1, <1>2, OtaTypeInit DEF OtaInv, HiddenFailed

LEMMA OtaInvCovers == OtaInv => ImportsCovered
<1> SUFFICES ASSUME OtaInv, NEW s \in Sync, syncStatus[s] = "SUCCESS",
                    NEW r \in Reservation, r \notin rows, ~BeingInserted(r)
             PROVE  Failed(r)
    BY DEF ImportsCovered
<1>1. CASE <<s, r>> \in itemFailed
    BY <1>1 DEF Failed
<1>2. CASE <<s, r>> \notin itemFailed
  <2>1. r \in PassedBy(s)
      BY <1>2 DEF OtaInv, SyncKnows, PassedBy, InLoop
  <2>2. QED
      BY <2>1 DEF OtaInv, Hidden, HiddenFailed
<1>3. QED
    BY <1>1, <1>2

(* Once a synchronisation has succeeded, every reservation is stored or    *)
(* being stored, or some job has reported it as failed or died with it,    *)
(* for any number of syncs, of reservations and of lapses                  *)
(* (SyncReservations.ts:130-188).                                          *)
THEOREM ImportsAreCovered == OtaSpec => [](OtaTypeOK /\ ImportsCovered)
<1>1. OtaInv => OtaTypeOK /\ ImportsCovered
    BY OtaInvCovers DEF OtaInv
<1>2. QED
    BY <1>1, OtaInitInv, OtaInvNext, PTL DEF OtaSpec

-----------------------------------------------------------------------------
(* WorkflowService. *)

TriggerMoves(t) == TriggerStep(t) \/ TriggerThrows(t)
RunMoves(e) == RunStep(e) \/ RunThrows(e) \/ RunDies(e)
RetrierMoves(r) ==
    \/ SelectRetries(r) \/ RetrierDies(r)
    \/ \E e \in toRetry[r] : Increment(r, e) \/ Retrigger(r, e) \/ RetryThrows(r, e)

LEMMA WorkflowMoves ==
    ASSUME [WorkflowNext]_workflowVars
    PROVE  \/ \E t \in Trigger : TriggerMoves(t)
           \/ \E e \in Execution : RunMoves(e)
           \/ \E r \in Retrier : RetrierMoves(r)
           \/ ResultExpires \/ UNCHANGED workflowVars
BY DEF WorkflowNext, RetryStep, TriggerMoves, RunMoves, RetrierMoves

LEMMA WorkflowTypeInit == WorkflowInit => WorkflowTypeOK
BY WorkflowAssumption DEF WorkflowInit, WorkflowTypeOK, RunStop, EngineStop, Execution, Retrier

LEMMA InsertTypes ==
    ASSUME WorkflowTypeOK, NEW from \in 0 .. MaxExecutions, Insert(from)
    PROVE  /\ executions \in Nat /\ executions' = executions + 1 /\ executions' \in Execution
           /\ executions' \in 0 .. MaxExecutions /\ 1 .. executions \subseteq 1 .. executions'
           /\ parent' \in [Execution -> 0 .. MaxExecutions]
           /\ \A f \in Execution : f # executions' => parent'[f] = parent[f]
           /\ parent'[executions'] = from
           /\ UNCHANGED <<executionStatus, executionRetries>>
BY WorkflowAssumption DEF WorkflowTypeOK, Insert, Execution

LEMMA MarkTypes ==
    ASSUME WorkflowTypeOK, NEW e \in Execution, MarkRetrying(e)
    PROVE  /\ executionRetries' \in [Execution -> Nat]
           /\ executionStatus' \in
                 [Execution -> {"PENDING", "RUNNING", "COMPLETED", "FAILED", "RETRYING"}]
           /\ executionRetries'[e] = executionRetries[e] + 1 /\ executionStatus'[e] = "RETRYING"
           /\ \A f \in Execution \ {e} : /\ executionRetries'[f] = executionRetries[f]
                                        /\ executionStatus'[f] = executionStatus[f]
           /\ UNCHANGED <<executions, parent, keyed>>
BY DEF WorkflowTypeOK, MarkRetrying

LEMMA NextRetryTypes ==
    ASSUME WorkflowTypeOK, NEW r \in Retrier, NEW e \in toRetry[r], NextRetry(r, e)
    PROVE  /\ toRetry' \in [Retrier -> SUBSET (1 .. executions)]
           /\ engineAt' \in [Trigger \cup Retrier -> EngineStop]
           /\ engineAt'[r] \in {"increment", "select", "done"}
           /\ toRetry'[r] = toRetry[r] \ {e}
           /\ \A a \in Trigger \cup Retrier : a # r => engineAt'[a] = engineAt[a]
           /\ \A q \in Retrier \ {r} : toRetry'[q] = toRetry[q]
           /\ e \in 1 .. executions /\ e \in Execution /\ e \in 0 .. MaxExecutions
BY WorkflowAssumption DEF WorkflowTypeOK, NextRetry, EngineTo, EngineStop, Execution

LEMMA WorkflowTypeNext == WorkflowTypeOK /\ [WorkflowNext]_workflowVars => WorkflowTypeOK'
<1> SUFFICES ASSUME WorkflowTypeOK, [WorkflowNext]_workflowVars PROVE WorkflowTypeOK'
    OBVIOUS
<1> USE WorkflowAssumption
    DEF WorkflowTypeOK, EngineTo, RunTo, executionTable, WorkflowFault, NoWorkflowFault
<1>1. ASSUME NEW t \in Trigger, TriggerMoves(t) PROVE WorkflowTypeOK'
  <2> USE DEF EngineStop
  <2>1. CASE LookUpKey(t)
      BY <2>1 DEF LookUpKey
  <2>2. CASE CreateExecution(t)
    <3>1. CASE keyed # 0
        BY <2>2, <3>1 DEF CreateExecution
    <3>2. CASE keyed = 0
      <4>1. Insert(0) /\ 0 \in 0 .. MaxExecutions
          BY <2>2, <3>2 DEF CreateExecution
      <4>2. /\ UNCHANGED <<cachedResult, runAt, toRetry, stepFailures, workflowFaults>>
            /\ keyed' = executions' /\ engineAt' \in [Trigger \cup Retrier -> EngineStop]
          BY <2>2, <3>2 DEF CreateExecution
      <4>3. QED
          BY <3>2, <4>1, <4>2, InsertTypes
    <3>3. QED
        BY <3>1, <3>2
  <2>3. CASE Remember(t)
      BY <2>3 DEF Remember, RunStop, Execution
  <2>4. CASE TriggerThrows(t)
    <3>1. /\ UNCHANGED <<runAt, toRetry, stepFailures>> /\ workflowFaults' \in 0 .. MaxWorkflowFaults
          /\ engineAt' \in [Trigger \cup Retrier -> EngineStop]
        BY <2>4 DEF TriggerThrows
    <3>2. CASE UNCHANGED executionTable /\ cachedResult' \in {cachedResult, keyed}
        BY <3>1, <3>2
    <3>3. CASE keyed = 0 /\ Insert(0) /\ keyed' = executions' /\ UNCHANGED cachedResult
      <4>1. 0 \in 0 .. MaxExecutions
          OBVIOUS
      <4>2. QED
          BY <3>1, <3>3, <4>1, InsertTypes
    <3>4. QED
        BY <2>4, <3>2, <3>3 DEF TriggerThrows
  <2>5. QED
      BY <1>1, <2>1, <2>2, <2>3, <2>4 DEF TriggerMoves, TriggerStep
<1>2. ASSUME NEW e \in Execution, RunMoves(e) PROVE WorkflowTypeOK'
  <2> USE DEF RunStop, SetStatus
  <2>1. CASE Lock(e) \/ Start(e) \/ StepSucceeds(e) \/ StepFails(e) \/ Finish(e)
      BY <2>1 DEF Lock, Start, StepSucceeds, StepFails, Finish
  <2>2. CASE RunThrows(e) \/ RunDies(e)
      BY <2>2 DEF RunThrows, RunDies
  <2>3. QED
      BY <1>2, <2>1, <2>2 DEF RunMoves, RunStep
<1>3. ASSUME NEW r \in Retrier, RetrierMoves(r) PROVE WorkflowTypeOK'
  <2>1. CASE SelectRetries(r)
      BY <2>1 DEF SelectRetries, PendingRetries, EngineStop
  <2>2. CASE RetrierDies(r)
      BY <2>2 DEF RetrierDies, EngineStop
  <2>3. ASSUME NEW e \in toRetry[r], Increment(r, e) PROVE WorkflowTypeOK'
    <3>1. e \in Execution /\ MarkRetrying(e)
        BY <2>3 DEF Increment, Execution
    <3>2. /\ UNCHANGED <<cachedResult, runAt, toRetry, stepFailures, workflowFaults>>
          /\ engineAt' \in [Trigger \cup Retrier -> EngineStop]
        BY <2>3 DEF Increment, EngineStop
    <3>3. QED
        BY <3>1, <3>2, MarkTypes
  <2>4. ASSUME NEW e \in toRetry[r], Retrigger(r, e) PROVE WorkflowTypeOK'
    <3>1. /\ Insert(e) /\ NextRetry(r, e)
          /\ UNCHANGED <<keyed, cachedResult, stepFailures, workflowFaults>>
        BY <2>4 DEF Retrigger
    <3>2. e \in 0 .. MaxExecutions
        BY <3>1, NextRetryTypes
    <3>3. runAt' \in [Execution -> RunStop]
        BY <2>4, <3>1, <3>2, InsertTypes DEF Retrigger, RunStop
    <3>4. toRetry' \in [Retrier -> SUBSET (1 .. executions')]
        BY <3>1, <3>2, InsertTypes, NextRetryTypes
    <3>5. QED
        BY <3>1, <3>2, <3>3, <3>4, InsertTypes, NextRetryTypes
  <2>5. ASSUME NEW e \in toRetry[r], RetryThrows(r, e) PROVE WorkflowTypeOK'
    <3>1. /\ NextRetry(r, e) /\ workflowFaults' \in 0 .. MaxWorkflowFaults
          /\ UNCHANGED <<cachedResult, runAt, stepFailures>>
        BY <2>5 DEF RetryThrows
    <3>2. CASE UNCHANGED executionTable
        BY <3>1, <3>2, NextRetryTypes
    <3>3. CASE MarkRetrying(e)
        BY <3>1, <3>3, NextRetryTypes, MarkTypes
    <3>4. CASE Insert(e) /\ UNCHANGED keyed
      <4>1. e \in 0 .. MaxExecutions
          BY <3>1, NextRetryTypes
      <4>2. toRetry' \in [Retrier -> SUBSET (1 .. executions')]
          BY <3>1, <3>4, <4>1, InsertTypes, NextRetryTypes
      <4>3. QED
          BY <3>1, <3>4, <4>1, <4>2, InsertTypes, NextRetryTypes
    <3>5. QED
        BY <2>5, <3>2, <3>3, <3>4 DEF RetryThrows
  <2>6. QED
      BY <1>3, <2>1, <2>2, <2>3, <2>4, <2>5 DEF RetrierMoves
<1>4. CASE ResultExpires
    BY <1>4 DEF ResultExpires
<1>5. CASE UNCHANGED workflowVars
    BY <1>5 DEF workflowVars
<1>6. QED
    BY <1>1, <1>2, <1>3, <1>4, <1>5, WorkflowMoves

(* What is known of an execution by those that hold it. *)
OverWhenFailed ==
    \A e \in Execution :
        /\ executionStatus[e] \in {"FAILED", "RETRYING"} => runAt[e] = "done"
        /\ executionRetries[e] # 0 => executionStatus[e] = "RETRYING"
        /\ e > executions => executionStatus[e] = "PENDING" /\ runAt[e] = "none"
HeldHasFailed ==
    \A r \in Retrier : \A e \in toRetry[r] :
        /\ executionStatus[e] \in {"FAILED", "RETRYING"}
        /\ engineAt[r] = "retrigger" /\ Oldest(r, e) => executionStatus[e] = "RETRYING"
OneRemembers ==
    \A t \in Trigger :
        engineAt[t] = "remember" =>
            /\ keyed # 0 /\ executionStatus[keyed] = "PENDING" /\ runAt[keyed] = "none"
            /\ \A u \in Trigger : engineAt[u] = "remember" => u = t
WorkflowKnows == OverWhenFailed /\ HeldHasFailed /\ OneRemembers

LEMMA WorkflowKnowsNext ==
    ASSUME WorkflowTypeOK, WorkflowKnows, [WorkflowNext]_workflowVars
    PROVE  WorkflowKnows'
<1> USE WorkflowAssumption
    DEF WorkflowTypeOK, EngineTo, RunTo, executionTable, WorkflowKnows, OverWhenFailed,
        HeldHasFailed, OneRemembers, Retrier
<1>1. ASSUME NEW t \in Trigger, TriggerMoves(t) PROVE WorkflowKnows'
  <2>0. UNCHANGED toRetry /\ \A r \in Retrier : engineAt'[r] = engineAt[r]
      BY <1>1 DEF TriggerMoves, TriggerStep, LookUpKey, CreateExecution, Remember, TriggerThrows
  <2>1. \A r \in Retrier : \A e : Oldest(r, e)' <=> Oldest(r, e)
      BY <2>0 DEF Oldest
  <2>2. CASE LookUpKey(t)
      BY <2>0, <2>1, <2>2 DEF LookUpKey
  <2>3. CASE CreateExecution(t)
    <3>1. CASE keyed # 0
        BY <2>0, <2>1, <2>3, <3>1 DEF CreateExecution
    <3>2. CASE keyed = 0
      <4>1. /\ Insert(0) /\ 0 \in 0 .. MaxExecutions /\ keyed' = executions' /\ UNCHANGED runAt
            /\ engineAt' = [engineAt EXCEPT ![t] = "remember"]
          BY <2>3, <3>2 DEF CreateExecution
      <4>2. \A u \in Trigger : engineAt[u] # "remember"
          BY <3>2
      <4>3. /\ executions \in Nat /\ executions' = executions + 1 /\ executions' \in Execution
            /\ UNCHANGED <<executionStatus, executionRetries>>
          BY <4>1, InsertTypes
      <4>4. OverWhenFailed'
          BY <4>1, <4>3
      <4>5. HeldHasFailed'
          BY <2>0, <2>1, <4>3
      <4>6. executionStatus[executions'] = "PENDING" /\ runAt[executions'] = "none" /\ executions' # 0
          BY <4>3
      <4>7. OneRemembers'
          BY <4>1, <4>2, <4>3, <4>6
      <4>8. QED
          BY <4>4, <4>5, <4>7
    <3>3. QED
        BY <3>1, <3>2
  <2>4. CASE Remember(t)
      BY <2>0, <2>1, <2>4 DEF Remember, Execution
  <2>5. CASE TriggerThrows(t)
    <3>1. UNCHANGED runAt /\ engineAt' = [engineAt EXCEPT ![t] = "done"]
        BY <2>5 DEF TriggerThrows
    <3>2. CASE UNCHANGED executionTable
        BY <2>0, <2>1, <3>1, <3>2
    <3>3. CASE keyed = 0 /\ Insert(0) /\ keyed' = executions'
      <4>1. 0 \in 0 .. MaxExecutions /\ \A u \in Trigger : engineAt[u] # "remember"
          BY <3>3
      <4>2. /\ executions \in Nat /\ executions' = executions + 1
            /\ UNCHANGED <<executionStatus, executionRetries>>
          BY <3>3, <4>1, InsertTypes
      <4>3. OverWhenFailed'
          BY <3>1, <4>2 DEF Execution
      <4>4. HeldHasFailed'
          BY <2>0, <2>1, <4>2
      <4>5. OneRemembers'
          BY <3>1, <4>1
      <4>6. QED
          BY <4>3, <4>4, <4>5
    <3>4. QED
        BY <2>5, <3>2, <3>3 DEF TriggerThrows
  <2>6. QED
      BY <1>1, <2>2, <2>3, <2>4, <2>5 DEF TriggerMoves, TriggerStep
<1>2. ASSUME NEW e \in Execution, RunMoves(e) PROVE WorkflowKnows'
  <2>0. /\ UNCHANGED <<toRetry, engineAt, keyed, executions, executionRetries>>
        /\ runAt[e] \notin {"none", "done"} /\ runAt'[e] # "none"
        /\ \A f \in Execution \ {e} :
              runAt'[f] = runAt[f] /\ executionStatus'[f] = executionStatus[f]
        /\ \/ executionStatus'[e] = executionStatus[e]
           \/ executionStatus'[e] \in {"RUNNING", "COMPLETED"}
           \/ executionStatus'[e] = "FAILED" /\ runAt'[e] = "done"
    <3>1. CASE RunStep(e)
        BY <3>1 DEF RunStep, Lock, Start, StepSucceeds, StepFails, Finish, SetStatus
    <3>2. CASE RunThrows(e) \/ RunDies(e)
        BY <3>2 DEF RunThrows, RunDies, SetStatus
    <3>3. QED
        BY <1>2, <3>1, <3>2 DEF RunMoves
  <2>1. \A r \in Retrier : \A f : Oldest(r, f)' <=> Oldest(r, f)
      BY <2>0 DEF Oldest
  <2>2. executionStatus[e] \notin {"FAILED", "RETRYING"}
      BY <2>0
  <2>3. OverWhenFailed'
      BY <2>0, <2>2
  <2>4. HeldHasFailed'
    <3>1. ASSUME NEW r \in Retrier, NEW f \in toRetry'[r]
          PROVE  /\ executionStatus'[f] \in {"FAILED", "RETRYING"}
                 /\ engineAt'[r] = "retrigger" /\ Oldest(r, f)' => executionStatus'[f] = "RETRYING"
      <4>1. f \in toRetry[r] /\ f \in Execution
          BY <2>0 DEF Execution
      <4>2. executionStatus'[f] = executionStatus[f]
          BY <2>0, <2>2, <4>1
      <4>3. QED
          BY <2>0, <2>1, <4>1, <4>2
    <3>2. QED
        BY <3>1
  <2>5. OneRemembers'
      BY <2>0, <2>2 DEF Execution
  <2>6. QED
      BY <2>3, <2>4, <2>5
<1>3. ASSUME NEW r \in Retrier, RetrierMoves(r) PROVE WorkflowKnows'
  <2>0. \A t \in Trigger : engineAt'[t] = engineAt[t]
      BY <1>3 DEF RetrierMoves, SelectRetries, RetrierDies, Increment, Retrigger, RetryThrows, NextRetry
  <2>1. CASE SelectRetries(r)
      BY <2>0, <2>1 DEF SelectRetries, PendingRetries, Oldest
  <2>2. CASE RetrierDies(r)
      BY <2>0, <2>2 DEF RetrierDies, Oldest
  <2>3. ASSUME NEW e \in toRetry[r], Increment(r, e) PROVE WorkflowKnows'
    <3>1. /\ e \in Execution /\ MarkRetrying(e) /\ Oldest(r, e)
          /\ UNCHANGED <<runAt, toRetry>> /\ engineAt' = [engineAt EXCEPT ![r] = "retrigger"]
        BY <2>3 DEF Increment, Execution
    <3>2. /\ executionStatus'[e] = "RETRYING" /\ runAt[e] = "done"
          /\ \A f \in Execution \ {e} : /\ executionRetries'[f] = executionRetries[f]
                                       /\ executionStatus'[f] = executionStatus[f]
          /\ UNCHANGED <<executions, keyed>>
        BY <2>3, <3>1, MarkTypes
    <3>3. OverWhenFailed'
        BY <3>1, <3>2
    <3>4. ASSUME NEW q \in Retrier, NEW f \in toRetry'[q]
          PROVE  /\ executionStatus'[f] \in {"FAILED", "RETRYING"}
                 /\ engineAt'[q] = "retrigger" /\ Oldest(q, f)' => executionStatus'[f] = "RETRYING"
      <4>1. f \in toRetry[q] /\ f \in Execution /\ (Oldest(q, f)' <=> Oldest(q, f))
          BY <3>1 DEF Oldest, Execution
      <4>2. executionStatus'[f] = "RETRYING" \/ (f # e /\ executionStatus'[f] = executionStatus[f])
          BY <3>2, <4>1
      <4>3. f # e /\ Oldest(q, f) => q # r
          BY <3>1 DEF Oldest
      <4>4. q # r => engineAt'[q] = engineAt[q]
          BY <3>1
      <4>5. QED
          BY <4>1, <4>2, <4>3, <4>4
    <3>5. OneRemembers'
        BY <2>0, <3>1, <3>2 DEF Execution
    <3>6. QED
        BY <3>3, <3>4, <3>5
  <2>4. ASSUME NEW e \in toRetry[r], Retrigger(r, e) PROVE WorkflowKnows'
    <3>1. /\ NextRetry(r, e) /\ Insert(e) /\ UNCHANGED keyed
          /\ runAt' = [runAt EXCEPT ![executions'] = "lock"]
        BY <2>4 DEF Retrigger
    <3>2. e \in 0 .. MaxExecutions
        BY <3>1, NextRetryTypes
    <3>3. /\ executions \in Nat /\ executions' = executions + 1 /\ executions' \in Execution
          /\ UNCHANGED <<executionStatus, executionRetries>>
        BY <3>1, <3>2, InsertTypes
    <3>4. /\ executionStatus[executions'] = "PENDING"
          /\ \A f \in Execution : f # executions' => runAt'[f] = runAt[f]
        BY <3>1, <3>3
    <3>5. OverWhenFailed'
        BY <3>1, <3>3, <3>4 DEF Execution
    <3>6. ASSUME NEW q \in Retrier, NEW f \in toRetry'[q]
          PROVE  /\ executionStatus'[f] \in {"FAILED", "RETRYING"}
                 /\ engineAt'[q] = "retrigger" /\ Oldest(q, f)' => executionStatus'[f] = "RETRYING"
      <4>1. CASE q = r
          BY <3>1, <3>3, <4>1, NextRetryTypes
      <4>2. CASE q # r
          BY <3>1, <3>3, <4>2, NextRetryTypes DEF Oldest
      <4>3. QED
          BY <4>1, <4>2
    <3>7. OneRemembers'
      <4>1. ASSUME NEW t \in Trigger, engineAt'[t] = "remember"
            PROVE  keyed # executions' /\ runAt'[keyed] = runAt[keyed]
        <5>1. keyed # 0
            BY <2>0, <4>1
        <5>2. keyed # executions' /\ keyed \in Execution
            BY <3>3, <5>1 DEF Execution
        <5>3. QED
            BY <3>4, <5>2
      <4>2. QED
          BY <2>0, <3>1, <3>3, <4>1
    <3>8. QED
        BY <3>5, <3>6, <3>7
  <2>5. ASSUME NEW e \in toRetry[r], RetryThrows(r, e) PROVE WorkflowKnows'
    <3>1. NextRetry(r, e) /\ UNCHANGED runAt
        BY <2>5 DEF RetryThrows
    <3>2. \A q \in Retrier \ {r} : \A f : Oldest(q, f)' <=> Oldest(q, f)
        BY <3>1, NextRetryTypes DEF Oldest
    <3>3. CASE UNCHANGED executionTable
        BY <2>0, <3>1, <3>2, <3>3, NextRetryTypes
    <3>4. CASE MarkRetrying(e)
      <4>1. executionStatus[e] \in {"FAILED", "RETRYING"}
          OBVIOUS
      <4>2. /\ e \in Execution /\ runAt[e] = "done" /\ executionStatus'[e] = "RETRYING"
            /\ \A f \in Execution \ {e} : /\ executionRetries'[f] = executionRetries[f]
                                         /\ executionStatus'[f] = executionStatus[f]
            /\ UNCHANGED <<executions, keyed>>
          BY <3>1, <3>4, <4>1, NextRetryTypes, MarkTypes
      <4>3. OverWhenFailed'
          BY <3>1, <4>1, <4>2
      <4>4. HeldHasFailed'
        <5>1. \A f \in Execution :
                  executionStatus[f] \in {"FAILED", "RETRYING"} => executionStatus'[f] \in {"FAILED", "RETRYING"}
            BY <4>2
        <5>2. \A f \in Execution : executionStatus[f] = "RETRYING" => executionStatus'[f] = "RETRYING"
            BY <4>2
        <5>3. ASSUME NEW q \in Retrier, NEW f \in toRetry'[q]
              PROVE  /\ executionStatus'[f] \in {"FAILED", "RETRYING"}
                     /\ engineAt'[q] = "retrigger" /\ Oldest(q, f)' => executionStatus'[f] = "RETRYING"
          <6>0. toRetry'[q] \subseteq toRetry[q]
              BY <3>1, NextRetryTypes
          <6>1. f \in toRetry[q] /\ f \in Execution
              BY <6>0 DEF Execution
          <6>2. executionStatus'[f] \in {"FAILED", "RETRYING"}
              BY <5>1, <6>1
          <6>3. CASE q = r
              BY <3>1, <6>2, <6>3, NextRetryTypes
          <6>4. CASE q # r
              BY <3>1, <3>2, <5>2, <6>1, <6>2, <6>4, NextRetryTypes
          <6>5. QED
              BY <6>3, <6>4
        <5>4. QED
            BY <5>3
      <4>5. OneRemembers'
          BY <2>0, <3>1, <4>1, <4>2 DEF Execution
      <4>6. QED
          BY <4>3, <4>4, <4>5
    <3>5. CASE Insert(e) /\ UNCHANGED keyed
      <4>1. e \in 0 .. MaxExecutions
          BY <3>1, NextRetryTypes
      <4>2. /\ executions \in Nat /\ executions' = executions + 1
            /\ UNCHANGED <<executionStatus, executionRetries>>
          BY <3>5, <4>1, InsertTypes
      <4>3. OverWhenFailed'
          BY <3>1, <4>2 DEF Execution
      <4>4. HeldHasFailed'
          BY <3>1, <3>2, <4>2, NextRetryTypes
      <4>5. OneRemembers'
          BY <2>0, <3>1, <3>5, <4>2
      <4>6. QED
          BY <4>3, <4>4, <4>5
    <3>6. QED
        BY <2>5, <3>3, <3>4, <3>5 DEF RetryThrows
  <2>6. QED
      BY <1>3, <2>1, <2>2, <2>3, <2>4, <2>5 DEF RetrierMoves
<1>4. CASE ResultExpires \/ UNCHANGED workflowVars
    BY <1>4 DEF ResultExpires, workflowVars, Oldest
<1>5. QED
    BY <1>1, <1>2, <1>3, <1>4, WorkflowMoves

(* Those that may still count a retry of an execution, and those that have *)
(* counted one and not triggered it.                                       *)
Holding(e) == {r \in Retrier : e \in toRetry[r] /\ ~(engineAt[r] = "retrigger" /\ Oldest(r, e))}
Retriggering(e) == {r \in Retrier : engineAt[r] = "retrigger" /\ Oldest(r, e)}
CountsOf(e) ==
    /\ executionRetries[e] + Cardinality(Holding(e)) <= Cardinality(Retrier)
    /\ Cardinality(Followers(e)) + Cardinality(Retriggering(e)) <= executionRetries[e]
CountsKept == \A e \in Execution : CountsOf(e)

LEMMA WorkflowCounts ==
    ASSUME WorkflowTypeOK, NEW e \in Execution
    PROVE  /\ IsFiniteSet(Retrier) /\ Holding(e) \in SUBSET Retrier
           /\ Retriggering(e) \in SUBSET Retrier /\ Holding(e) \cap Retriggering(e) = {}
           /\ IsFiniteSet(Execution) /\ Followers(e) \in SUBSET Execution
           /\ Cardinality(Holding(e)) \in Nat /\ Cardinality(Retriggering(e)) \in Nat
           /\ Cardinality(Followers(e)) \in Nat /\ executionRetries[e] \in Nat
           /\ Cardinality(Retrier) \in Nat /\ Cardinality(Holding(e)) <= Cardinality(Retrier)
<1>1. IsFiniteSet(Retrier) /\ IsFiniteSet(Execution)
  <2>1. IsFiniteSet(RetryTick) /\ IsFiniteSet(RetryRequest) /\ MaxExecutions \in Int
      BY WorkflowAssumption
  <2>2. IsFiniteSet(RetryTick \cup RetryRequest)
      BY <2>1, FS_Union
  <2>3. IsFiniteSet(1 .. MaxExecutions)
      BY <2>1, FS_Interval
  <2>4. QED
      BY <2>2, <2>3 DEF Retrier, Execution
<1>2. /\ Holding(e) \in SUBSET Retrier /\ Retriggering(e) \in SUBSET Retrier
      /\ Holding(e) \cap Retriggering(e) = {}
    BY DEF Holding, Retriggering
<1>3. Followers(e) \in SUBSET Execution /\ executionRetries[e] \in Nat
    BY WorkflowAssumption DEF Followers, Execution, WorkflowTypeOK
<1>4. QED
    BY <1>1, <1>2, <1>3, FS_Subset, FS_CardinalityType

LEMMA OldestIsOne ==
    ASSUME WorkflowTypeOK, NEW r \in Retrier, NEW e, Oldest(r, e), NEW f, Oldest(r, f)
    PROVE  e = f
BY DEF Oldest, WorkflowTypeOK

(* A step of one retrier leaves what the others hold. *)
LEMMA OthersHold ==
    ASSUME NEW r \in Retrier, \A q \in Retrier \ {r} : engineAt'[q] = engineAt[q] /\ toRetry'[q] = toRetry[q]
    PROVE  \A e : \A q \in Retrier \ {r} :
               /\ Oldest(q, e)' <=> Oldest(q, e)
               /\ q \in Holding(e)' <=> q \in Holding(e)
               /\ q \in Retriggering(e)' <=> q \in Retriggering(e)
BY DEF Holding, Retriggering, Oldest

(* Where nobody holds, counts or follows more, the counts are kept. *)
LEMMA CountsStay ==
    ASSUME WorkflowTypeOK, WorkflowTypeOK', NEW e \in Execution, CountsOf(e),
           Holding(e)' \subseteq Holding(e), Retriggering(e)' \subseteq Retriggering(e),
           Followers(e)' \subseteq Followers(e), executionRetries'[e] = executionRetries[e]
    PROVE  CountsOf(e)'
<1>1. /\ Cardinality(Holding(e)) \in Nat /\ Cardinality(Holding(e)') \in Nat
      /\ Cardinality(Holding(e)') <= Cardinality(Holding(e))
    BY WorkflowCounts, NoMore
<1>2. /\ Cardinality(Retriggering(e)) \in Nat /\ Cardinality(Retriggering(e)') \in Nat
      /\ Cardinality(Retriggering(e)') <= Cardinality(Retriggering(e))
    BY WorkflowCounts, NoMore
<1>3. /\ Cardinality(Followers(e)) \in Nat /\ Cardinality(Followers(e)') \in Nat
      /\ Cardinality(Followers(e)') <= Cardinality(Followers(e))
    BY WorkflowCounts, NoMore
<1>4. QED
    BY <1>1, <1>2, <1>3, WorkflowCounts DEF CountsOf

(* One that may count does. *)
LEMMA CountsMark ==
    ASSUME WorkflowTypeOK, WorkflowTypeOK', NEW e \in Execution, CountsOf(e),
           NEW r \in Holding(e), Holding(e)' \subseteq Holding(e) \ {r},
           Retriggering(e)' \subseteq Retriggering(e) \cup {r},
           Followers(e)' \subseteq Followers(e), executionRetries'[e] = executionRetries[e] + 1
    PROVE  CountsOf(e)'
<1>1. /\ Cardinality(Holding(e)) \in Nat /\ Cardinality(Holding(e)') \in Nat
      /\ Cardinality(Holding(e)') <= Cardinality(Holding(e)) - 1
  <2>1. /\ IsFiniteSet(Holding(e))
        /\ IsFiniteSet(Holding(e) \ {r}) /\ Cardinality(Holding(e) \ {r}) = Cardinality(Holding(e)) - 1
      BY WorkflowCounts, FS_Subset, FS_RemoveElement
  <2>2. IsFiniteSet(Holding(e)') /\ Cardinality(Holding(e)') <= Cardinality(Holding(e) \ {r})
      BY <2>1, FS_Subset
  <2>3. QED
      BY <2>1, <2>2, FS_CardinalityType
<1>2. /\ Cardinality(Retriggering(e)) \in Nat /\ Cardinality(Retriggering(e)') \in Nat
      /\ Cardinality(Retriggering(e)') <= Cardinality(Retriggering(e)) + 1
    BY WorkflowCounts, OneMore
<1>3. /\ Cardinality(Followers(e)) \in Nat /\ Cardinality(Followers(e)') \in Nat
      /\ Cardinality(Followers(e)') <= Cardinality(Followers(e))
    BY WorkflowCounts, NoMore
<1>4. QED
    BY <1>1, <1>2, <1>3, WorkflowCounts DEF CountsOf

(* One that counted a retry triggers it. *)
LEMMA CountsFollow ==
    ASSUME WorkflowTypeOK, WorkflowTypeOK', NEW e \in Execution, CountsOf(e),
           NEW r \in Retriggering(e), Retriggering(e)' \subseteq Retriggering(e) \ {r},
           NEW f, Followers(e)' \subseteq Followers(e) \cup {f},
           Holding(e)' \subseteq Holding(e), executionRetries'[e] = executionRetries[e]
    PROVE  CountsOf(e)'
<1>1. /\ Cardinality(Retriggering(e)) \in Nat /\ Cardinality(Retriggering(e)') \in Nat
      /\ Cardinality(Retriggering(e)') <= Cardinality(Retriggering(e)) - 1
  <2>1. /\ IsFiniteSet(Retriggering(e)) /\ IsFiniteSet(Retriggering(e) \ {r})
        /\ Cardinality(Retriggering(e) \ {r}) = Cardinality(Retriggering(e)) - 1
      BY WorkflowCounts, FS_Subset, FS_RemoveElement
  <2>2. /\ IsFiniteSet(Retriggering(e)')
        /\ Cardinality(Retriggering(e)') <= Cardinality(Retriggering(e) \ {r})
      BY <2>1, FS_Subset
  <2>3. QED
      BY <2>1, <2>2, FS_CardinalityType
<1>2. /\ Cardinality(Followers(e)) \in Nat /\ Cardinality(Followers(e)') \in Nat
      /\ Cardinality(Followers(e)') <= Cardinality(Followers(e)) + 1
    BY WorkflowCounts, OneMore
<1>3. /\ Cardinality(Holding(e)) \in Nat /\ Cardinality(Holding(e)') \in Nat
      /\ Cardinality(Holding(e)') <= Cardinality(Holding(e))
    BY WorkflowCounts, NoMore
<1>4. QED
    BY <1>1, <1>2, <1>3, WorkflowCounts DEF CountsOf

(* A new execution that is no retry has nobody to follow. *)
LEMMA FollowersOfInsert ==
    ASSUME WorkflowTypeOK, NEW from \in 0 .. MaxExecutions, Insert(from)
    PROVE  \A e \in Execution : Followers(e)' = IF e = from THEN Followers(e) \cup {executions'}
                                                            ELSE Followers(e)
<1>1. /\ executions \in Nat /\ executions' = executions + 1 /\ executions' \in Execution
      /\ parent'[executions'] = from
      /\ \A f \in Execution : f # executions' => parent'[f] = parent[f]
    BY InsertTypes
<1>2. /\ 1 .. executions' = (1 .. executions) \cup {executions'}
      /\ \A f \in 1 .. executions : f # executions' /\ f \in Execution
    BY <1>1, WorkflowAssumption DEF Execution
<1>3. QED
    BY <1>1, <1>2 DEF Followers

LEMMA RetrierIsAlone ==
    ASSUME WorkflowTypeOK, NEW r \in Retrier, RetrierMoves(r)
    PROVE  /\ \A q \in Retrier \ {r} : engineAt'[q] = engineAt[q] /\ toRetry'[q] = toRetry[q]
           /\ \A t \in Trigger : engineAt'[t] = engineAt[t]
           /\ UNCHANGED keyed
           /\ workflowFaults \in Nat /\ workflowFaults' \in {workflowFaults, workflowFaults + 1}
<1> USE WorkflowAssumption
    DEF WorkflowTypeOK, EngineTo, executionTable, WorkflowFault, NoWorkflowFault, Retrier
<1>1. CASE SelectRetries(r) \/ RetrierDies(r)
    BY <1>1 DEF SelectRetries, RetrierDies
<1>2. ASSUME NEW e \in toRetry[r], Increment(r, e) \/ Retrigger(r, e) \/ RetryThrows(r, e)
      PROVE  /\ \A q \in Retrier \ {r} : engineAt'[q] = engineAt[q] /\ toRetry'[q] = toRetry[q]
             /\ \A t \in Trigger : engineAt'[t] = engineAt[t]
             /\ UNCHANGED keyed
             /\ workflowFaults \in Nat /\ workflowFaults' \in {workflowFaults, workflowFaults + 1}
    BY <1>2 DEF Increment, Retrigger, RetryThrows, MarkRetrying, NextRetry
<1>3. QED
    BY <1>1, <1>2 DEF RetrierMoves

LEMMA SelectCounts ==
    ASSUME WorkflowTypeOK, WorkflowTypeOK', WorkflowKnows, NEW r \in Retrier, SelectRetries(r),
           NEW e \in Execution, CountsOf(e)
    PROVE  CountsOf(e)'
<1>1. /\ UNCHANGED <<executionTable>> /\ engineAt[r] = "select" /\ engineAt'[r] = "increment"
      /\ toRetry'[r] \subseteq PendingRetries
    BY WorkflowAssumption DEF SelectRetries, EngineTo, WorkflowTypeOK
<1>2. \A q \in Retrier \ {r} : engineAt'[q] = engineAt[q] /\ toRetry'[q] = toRetry[q]
    BY RetrierIsAlone DEF RetrierMoves
<1>3. /\ Followers(e)' \subseteq Followers(e) /\ executionRetries'[e] = executionRetries[e]
      /\ Retriggering(e)' \subseteq Retriggering(e)
    BY <1>1, <1>2, OthersHold DEF Followers, Retriggering, executionTable
<1>4. CASE e \in PendingRetries
  <2>1. executionRetries[e] = 0
      BY <1>4 DEF PendingRetries, WorkflowKnows, OverWhenFailed
  <2>2. /\ Cardinality(Holding(e)') <= Cardinality(Retrier) /\ Cardinality(Holding(e)') \in Nat
        /\ Cardinality(Retrier) \in Nat
    <3>1. Holding(e)' \in SUBSET Retrier
        BY DEF Holding
    <3>2. IsFiniteSet(Retrier)
        BY WorkflowCounts
    <3>3. QED
        BY <3>1, <3>2, FS_Subset, FS_CardinalityType
  <2>3. /\ Cardinality(Followers(e)) \in Nat /\ Cardinality(Followers(e)') \in Nat
        /\ Cardinality(Followers(e)') <= Cardinality(Followers(e))
      BY <1>3, WorkflowCounts, NoMore
  <2>4. /\ Cardinality(Retriggering(e)) \in Nat /\ Cardinality(Retriggering(e)') \in Nat
        /\ Cardinality(Retriggering(e)') <= Cardinality(Retriggering(e))
      BY <1>3, WorkflowCounts, NoMore
  <2>5. QED
      BY <1>3, <2>1, <2>2, <2>3, <2>4 DEF CountsOf
<1>5. CASE e \notin PendingRetries
  <2>1. Holding(e)' \subseteq Holding(e)
      BY <1>1, <1>2, <1>5, OthersHold DEF Holding
  <2>2. QED
      BY <1>3, <2>1, CountsStay
<1>6. QED
    BY <1>4, <1>5

(* What a retrier that is done with e, and holds it first, leaves. *)
LEMMA DoneWith ==
    ASSUME WorkflowTypeOK, NEW r \in Retrier, NEW e \in toRetry[r], Oldest(r, e), NextRetry(r, e),
           \A q \in Retrier \ {r} : engineAt'[q] = engineAt[q] /\ toRetry'[q] = toRetry[q]
    PROVE  /\ Holding(e)' \subseteq Holding(e) \ {r}
           /\ Retriggering(e)' \subseteq Retriggering(e) \ {r}
           /\ \A f : /\ Retriggering(f)' \subseteq Retriggering(f)
                     /\ f # e => Holding(f)' \subseteq Holding(f)
<1>1. /\ engineAt'[r] \in {"increment", "select", "done"} /\ toRetry'[r] = toRetry[r] \ {e}
    BY NextRetryTypes
<1>2. \A f : f # e => ~Oldest(r, f)
    BY OldestIsOne
<1>3. QED
    BY <1>1, <1>2, OthersHold DEF Holding, Retriggering

LEMMA CountsByRetrier ==
    ASSUME WorkflowTypeOK, WorkflowTypeOK', WorkflowKnows, CountsKept,
           NEW r \in Retrier, RetrierMoves(r)
    PROVE  CountsKept'
<1>0. \A q \in Retrier \ {r} : engineAt'[q] = engineAt[q] /\ toRetry'[q] = toRetry[q]
    BY RetrierIsAlone
<1>1. CASE SelectRetries(r)
    BY <1>1, SelectCounts DEF CountsKept
<1>2. CASE RetrierDies(r)
  <2>1. /\ UNCHANGED executionTable /\ toRetry'[r] = {}
      BY <1>2 DEF RetrierDies, WorkflowTypeOK
  <2>2. \A e \in Execution : /\ Holding(e)' \subseteq Holding(e)
                             /\ Retriggering(e)' \subseteq Retriggering(e)
                             /\ Followers(e)' \subseteq Followers(e)
                             /\ executionRetries'[e] = executionRetries[e]
      BY <1>0, <2>1, OthersHold DEF Holding, Retriggering, Oldest, Followers, executionTable
  <2>3. QED
      BY <2>2, CountsStay DEF CountsKept
<1>3. ASSUME NEW e \in toRetry[r], Increment(r, e) PROVE CountsKept'
  <2>1. /\ e \in Execution /\ MarkRetrying(e) /\ Oldest(r, e) /\ UNCHANGED toRetry
        /\ engineAt[r] = "increment" /\ engineAt'[r] = "retrigger"
      BY <1>3, WorkflowAssumption DEF Increment, EngineTo, WorkflowTypeOK, Execution
  <2>2. \A f : Followers(f)' = Followers(f)
      BY <2>1 DEF MarkRetrying, Followers
  <2>3. \A f : f # e => ~Oldest(r, f)
      BY <2>1, OldestIsOne
  <2>4. r \in Holding(e) /\ Holding(e)' \subseteq Holding(e) \ {r}
        /\ Retriggering(e)' \subseteq Retriggering(e) \cup {r}
      BY <1>0, <2>1, OthersHold DEF Holding, Retriggering, Oldest
  <2>5. CountsOf(e)'
      BY <2>1, <2>2, <2>4, CountsMark, MarkTypes DEF CountsKept
  <2>6. ASSUME NEW f \in Execution \ {e} PROVE CountsOf(f)'
    <3>1. Holding(f)' \subseteq Holding(f) /\ Retriggering(f)' \subseteq Retriggering(f)
        BY <1>0, <2>1, <2>3, OthersHold DEF Holding, Retriggering, Oldest
    <3>2. QED
        BY <2>1, <2>2, <3>1, CountsStay, MarkTypes DEF CountsKept
  <2>7. QED
      BY <2>5, <2>6 DEF CountsKept
<1>4. ASSUME NEW e \in toRetry[r], NextRetry(r, e), Oldest(r, e), engineAt[r] = "retrigger", Insert(e)
      PROVE  CountsKept'
  <2>1. e \in Execution /\ e \in 0 .. MaxExecutions
      BY <1>4, NextRetryTypes
  <2>2. /\ UNCHANGED executionRetries
        /\ \A f \in Execution : Followers(f)' = IF f = e THEN Followers(f) \cup {executions'}
                                                         ELSE Followers(f)
      BY <1>4, <2>1, InsertTypes, FollowersOfInsert
  <2>3. r \in Retriggering(e)
      BY <1>4 DEF Retriggering
  <2>4. CountsOf(e)'
      BY <1>0, <1>4, <2>1, <2>2, <2>3, DoneWith, CountsFollow DEF CountsKept
  <2>5. ASSUME NEW f \in Execution \ {e} PROVE CountsOf(f)'
      BY <1>0, <1>4, <2>2, DoneWith, CountsStay DEF CountsKept
  <2>6. QED
      BY <2>4, <2>5 DEF CountsKept
<1>5. ASSUME NEW e \in toRetry[r], NextRetry(r, e), Oldest(r, e), engineAt[r] = "increment", MarkRetrying(e)
      PROVE  CountsKept'
  <2>1. e \in Execution
      BY <1>5, NextRetryTypes
  <2>2. \A f : Followers(f)' = Followers(f)
      BY <1>5 DEF MarkRetrying, Followers
  <2>3. r \in Holding(e)
      BY <1>5 DEF Holding
  <2>4. CountsOf(e)'
      BY <1>0, <1>5, <2>1, <2>2, <2>3, DoneWith, MarkTypes, CountsMark DEF CountsKept
  <2>5. ASSUME NEW f \in Execution \ {e} PROVE CountsOf(f)'
      BY <1>0, <1>5, <2>1, <2>2, DoneWith, MarkTypes, CountsStay DEF CountsKept
  <2>6. QED
      BY <2>4, <2>5 DEF CountsKept
<1>6. ASSUME NEW e \in toRetry[r], NextRetry(r, e), Oldest(r, e), UNCHANGED executionTable
      PROVE  CountsKept'
  <2>1. \A f : Followers(f)' = Followers(f) /\ executionRetries'[f] = executionRetries[f]
      BY <1>6 DEF Followers, executionTable
  <2>2. \A f : Holding(f)' \subseteq Holding(f) /\ Retriggering(f)' \subseteq Retriggering(f)
      BY <1>0, <1>6, DoneWith
  <2>3. QED
      BY <2>1, <2>2, CountsStay DEF CountsKept
<1>7. QED
    BY <1>1, <1>2, <1>3, <1>4, <1>5, <1>6 DEF RetrierMoves, Retrigger, RetryThrows

LEMMA CountsNext ==
    ASSUME WorkflowTypeOK, WorkflowTypeOK', WorkflowKnows, CountsKept, [WorkflowNext]_workflowVars
    PROVE  CountsKept'
<1>1. ASSUME UNCHANGED <<toRetry, executionRetries>>, \A r \in Retrier : engineAt'[r] = engineAt[r],
             \A e \in Execution : Followers(e)' = Followers(e)
      PROVE  CountsKept'
  <2>1. \A e : Holding(e)' = Holding(e) /\ Retriggering(e)' = Retriggering(e)
      BY <1>1 DEF Holding, Retriggering, Oldest
  <2>2. QED
      BY <1>1, <2>1, CountsStay DEF CountsKept
<1>2. ASSUME NEW t \in Trigger, TriggerMoves(t) PROVE CountsKept'
  <2>1. UNCHANGED toRetry /\ \A r \in Retrier : engineAt'[r] = engineAt[r]
      BY <1>2, WorkflowAssumption
      DEF TriggerMoves, TriggerStep, LookUpKey, CreateExecution, Remember, TriggerThrows, EngineTo,
          WorkflowTypeOK, Retrier
  <2>2. UNCHANGED executionTable \/ Insert(0)
      BY <1>2 DEF TriggerMoves, TriggerStep, LookUpKey, CreateExecution, Remember, TriggerThrows
  <2>3. CASE UNCHANGED executionTable
      BY <1>1, <2>1, <2>3 DEF executionTable, Followers
  <2>4. CASE Insert(0)
    <3>1. 0 \in 0 .. MaxExecutions /\ 0 \notin Execution
        BY WorkflowAssumption DEF Execution
    <3>2. \A e \in Execution : Followers(e)' = Followers(e)
        BY <2>4, <3>1, FollowersOfInsert
    <3>3. QED
        BY <1>1, <2>1, <2>4, <3>1, <3>2, InsertTypes
  <2>5. QED
      BY <2>2, <2>3, <2>4
<1>3. ASSUME NEW e \in Execution, RunMoves(e) PROVE CountsKept'
  <2>1. UNCHANGED <<toRetry, engineAt, executions, parent, executionRetries>>
      BY <1>3 DEF RunMoves, RunStep, Lock, Start, StepSucceeds, StepFails, Finish, RunThrows,
                  RunDies, SetStatus, executionTable
  <2>2. QED
      BY <1>1, <2>1 DEF Followers
<1>4. CASE ResultExpires \/ UNCHANGED workflowVars
    BY <1>1, <1>4 DEF ResultExpires, workflowVars, executionTable, Followers
<1>5. QED
    BY <1>2, <1>3, <1>4, WorkflowMoves, CountsByRetrier

(* What a step may strand: the executions that it leaves, whose process    *)
(* stops, or whose one follower is gone.                                   *)
LEMMA StrandedGrows ==
    ASSUME WorkflowTypeOK, NEW X,
           \A e \in (1 .. executions') \ X :
               \/ e \notin Stranded'
               \/ /\ e \in 1 .. executions /\ executionStatus'[e] = executionStatus[e]
                  /\ runAt'[e] \in {"none", "done"} => runAt[e] \in {"none", "done"}
                  /\ Followers(e)' = {} => Followers(e) = {}
                  /\ BeingTriggered(e) => BeingTriggered(e)'
    PROVE  Stranded' \subseteq Stranded \cup X
<1> SUFFICES ASSUME NEW e \in Stranded', e \notin X PROVE e \in Stranded
    OBVIOUS
<1>1. e \in (1 .. executions') \ X
    BY DEF Stranded
<1>2. /\ e \in 1 .. executions /\ executionStatus'[e] = executionStatus[e]
      /\ runAt'[e] \in {"none", "done"} => runAt[e] \in {"none", "done"}
      /\ Followers(e)' = {} => Followers(e) = {}
      /\ BeingTriggered(e) => BeingTriggered(e)'
    BY <1>1
<1>3. QED
    BY <1>2 DEF Stranded

StrandsOne == \E x : Stranded' \subseteq Stranded \cup {x} /\ workflowFaults' = workflowFaults + 1

LEMMA StrandedByTrigger ==
    ASSUME WorkflowTypeOK, WorkflowKnows, NEW t \in Trigger, TriggerMoves(t)
    PROVE  Stranded' \subseteq Stranded \/ StrandsOne
<1> USE WorkflowAssumption DEF WorkflowTypeOK, EngineTo, RunTo, Retrier
<1>0. UNCHANGED toRetry /\ \A r \in Retrier : engineAt'[r] = engineAt[r]
    BY DEF TriggerMoves, TriggerStep, LookUpKey, CreateExecution, Remember, TriggerThrows
<1>1. \A e : (\E r \in Retrier : engineAt[r] = "retrigger" /\ Oldest(r, e))
               => (\E r \in Retrier : engineAt'[r] = "retrigger" /\ Oldest(r, e)')
    BY <1>0 DEF Oldest
(* With no new row, only the one that was remembered is left. *)
<1>2. ASSUME UNCHANGED executionTable, NEW X, runAt' = runAt, keyed \in X \/ engineAt[t] # "remember"
      PROVE  Stranded' \subseteq Stranded \cup X
  <2>1. \A e : Followers(e)' = Followers(e)
      BY <1>2 DEF Followers, executionTable
  <2>2. \A u \in Trigger \ {t} : engineAt'[u] = engineAt[u]
      BY DEF TriggerMoves, TriggerStep, LookUpKey, CreateExecution, Remember, TriggerThrows
  <2>3. \A e : e \notin X /\ BeingTriggered(e) => BeingTriggered(e)'
      BY <1>1, <1>2, <2>2 DEF BeingTriggered, executionTable, WorkflowKnows, OneRemembers
  <2>4. QED
      BY <1>2, <2>1, <2>3, StrandedGrows DEF executionTable
<1>3. CASE LookUpKey(t)
  <2>1. Stranded' \subseteq Stranded \cup {}
      BY <1>2, <1>3 DEF LookUpKey
  <2>2. QED
      BY <2>1
(* A new row is its own: no other had the key. *)
<1>4. ASSUME Insert(0), keyed = 0, keyed' = executions', runAt' = runAt
      PROVE  /\ Stranded' \subseteq Stranded \cup {executions'}
             /\ engineAt'[t] = "remember" => Stranded' \subseteq Stranded
  <2>1. 0 \in 0 .. MaxExecutions /\ 0 \notin Execution
      BY DEF Execution
  <2>2. /\ executions \in Nat /\ executions' = executions + 1 /\ executions' \in Execution
        /\ UNCHANGED executionStatus
        /\ \A e \in Execution : Followers(e)' = Followers(e)
      BY <1>4, <2>1, InsertTypes, FollowersOfInsert
  <2>3. \A e \in 1 .. executions : BeingTriggered(e) => BeingTriggered(e)'
      BY <1>1, <1>4 DEF BeingTriggered
  <2>4. \A e \in (1 .. executions') \ {executions'} :
            e \in 1 .. executions /\ e \in Execution /\ BeingTriggered(e) => BeingTriggered(e)'
      BY <2>2, <2>3 DEF Execution
  <2>5. \A e \in (1 .. executions') \ {executions'} : e \in 1 .. executions /\ e \in Execution
      BY <2>2 DEF Execution
  <2>6. Stranded' \subseteq Stranded \cup {executions'}
      BY <1>4, <2>2, <2>4, <2>5, StrandedGrows
  <2>7. engineAt'[t] = "remember" => executions' \notin Stranded'
      BY <1>4 DEF Stranded, BeingTriggered
  <2>8. QED
      BY <2>6, <2>7
<1>5. CASE CreateExecution(t)
  <2>1. CASE keyed # 0
    <3>1. Stranded' \subseteq Stranded \cup {}
        BY <1>2, <1>5, <2>1 DEF CreateExecution
    <3>2. QED
        BY <3>1
  <2>2. CASE keyed = 0
      BY <1>4, <1>5, <2>2 DEF CreateExecution
  <2>3. QED
      BY <2>1, <2>2
<1>6. CASE Remember(t)
  <2>1. /\ UNCHANGED executionTable /\ runAt' = [runAt EXCEPT ![keyed] = "lock"]
        /\ keyed \in Execution /\ executionStatus[keyed] = "PENDING"
      BY <1>6 DEF Remember, WorkflowKnows, OneRemembers, Execution
  <2>2. \A e : Followers(e)' = Followers(e)
      BY <2>1 DEF Followers, executionTable
  <2>3. keyed \notin Stranded'
      BY <2>1 DEF Stranded, executionTable
  <2>4. \A e : e # keyed /\ BeingTriggered(e) => BeingTriggered(e)'
      BY <1>1 DEF BeingTriggered
  <2>5. \A e \in (1 .. executions') \ {} :
            \/ e \notin Stranded'
            \/ /\ e \in 1 .. executions /\ executionStatus'[e] = executionStatus[e]
               /\ runAt'[e] \in {"none", "done"} => runAt[e] \in {"none", "done"}
               /\ Followers(e)' = {} => Followers(e) = {}
               /\ BeingTriggered(e) => BeingTriggered(e)'
      BY <2>1, <2>2, <2>3, <2>4 DEF executionTable, Execution
  <2>6. Stranded' \subseteq Stranded \cup {}
      BY <2>5, StrandedGrows
  <2>7. QED
      BY <2>6
<1>7. CASE TriggerThrows(t)
  <2>1. workflowFaults' = workflowFaults + 1 /\ runAt' = runAt
      BY <1>7 DEF TriggerThrows, WorkflowFault
  <2>2. CASE UNCHANGED executionTable
    <3>1. Stranded' \subseteq Stranded \cup {keyed}
        BY <1>2, <2>1, <2>2
    <3>2. QED
        BY <2>1, <3>1 DEF StrandsOne
  <2>3. CASE keyed = 0 /\ Insert(0) /\ keyed' = executions'
      BY <1>4, <2>1, <2>3 DEF StrandsOne
  <2>4. QED
      BY <1>7, <2>2, <2>3 DEF TriggerThrows
<1>8. QED
    BY <1>3, <1>5, <1>6, <1>7 DEF TriggerMoves, TriggerStep

LEMMA StrandedByRun ==
    ASSUME WorkflowTypeOK, WorkflowKnows, NEW e \in Execution, RunMoves(e)
    PROVE  Stranded' \subseteq Stranded \/ StrandsOne
<1>1. /\ UNCHANGED <<toRetry, engineAt, keyed, executions, parent>>
      /\ runAt[e] \notin {"none", "done"}
      /\ \A f \in Execution \ {e} :
            runAt'[f] = runAt[f] /\ executionStatus'[f] = executionStatus[f]
    BY DEF RunMoves, RunStep, Lock, Start, StepSucceeds, StepFails, Finish, RunThrows, RunDies,
           SetStatus, RunTo, executionTable, WorkflowTypeOK
<1>2. \A f : /\ Followers(f)' = Followers(f)
             /\ BeingTriggered(f) => BeingTriggered(f)'
    BY <1>1 DEF Followers, BeingTriggered, Oldest
<1>3. \A f \in (1 .. executions') \ {e} :
          /\ f \in 1 .. executions /\ executionStatus'[f] = executionStatus[f]
          /\ runAt'[f] = runAt[f]
    BY <1>1, WorkflowAssumption DEF Execution, WorkflowTypeOK
<1>4. Stranded' \subseteq Stranded \cup {e}
    BY <1>2, <1>3, StrandedGrows
<1>5. CASE RunStep(e)
  <2>1. executionStatus[e] # "RETRYING"
      BY <1>1 DEF WorkflowKnows, OverWhenFailed
  <2>2. \/ executionStatus'[e] # "RETRYING" /\ runAt'[e] \notin {"none", "done"}
        \/ executionStatus'[e] \in {"COMPLETED", "FAILED"}
      BY <1>5, <2>1 DEF RunStep, Lock, Start, StepSucceeds, StepFails, Finish, SetStatus, RunTo,
                        executionTable, WorkflowTypeOK
  <2>3. e \notin Stranded'
      BY <2>2 DEF Stranded
  <2>4. QED
      BY <1>4, <2>3
<1>6. CASE RunThrows(e) \/ RunDies(e)
    BY <1>4, <1>6 DEF StrandsOne, RunThrows, RunDies, WorkflowFault
<1>7. QED
    BY <1>5, <1>6 DEF RunMoves

LEMMA StrandedByRetrier ==
    ASSUME WorkflowTypeOK, WorkflowTypeOK', WorkflowKnows, NEW r \in Retrier, RetrierMoves(r)
    PROVE  Stranded' \subseteq Stranded \/ StrandsOne
<1>0. /\ \A q \in Retrier \ {r} : engineAt'[q] = engineAt[q] /\ toRetry'[q] = toRetry[q]
      /\ \A t \in Trigger : engineAt'[t] = engineAt[t]
      /\ UNCHANGED keyed
    BY RetrierIsAlone
(* Only what r was about to trigger may be triggered by nobody. *)
<1>1. \A e : /\ BeingTriggered(e) => BeingTriggered(e)' \/ (engineAt[r] = "retrigger" /\ Oldest(r, e))
             /\ engineAt'[r] = "retrigger" /\ Oldest(r, e)' => BeingTriggered(e)'
    BY <1>0 DEF BeingTriggered, Oldest
<1>2. CASE SelectRetries(r)
  <2>1. UNCHANGED <<executionTable, runAt>> /\ engineAt[r] = "select"
      BY <1>2 DEF SelectRetries
  <2>2. \A e \in (1 .. executions') \ {} :
            /\ e \in 1 .. executions /\ executionStatus'[e] = executionStatus[e]
            /\ runAt'[e] = runAt[e] /\ Followers(e)' = Followers(e)
            /\ BeingTriggered(e) => BeingTriggered(e)'
      BY <1>1, <2>1 DEF executionTable, Followers
  <2>3. Stranded' \subseteq Stranded \cup {}
      BY <2>2, StrandedGrows
  <2>4. QED
      BY <2>3
<1>3. CASE RetrierDies(r)
  <2>1. UNCHANGED <<executionTable, runAt>> /\ workflowFaults' = workflowFaults + 1
      BY <1>3 DEF RetrierDies, WorkflowFault
  <2>2. PICK x : \A e : Oldest(r, e) => e = x
      BY OldestIsOne
  <2>3. \A e \in (1 .. executions') \ {x} :
            /\ e \in 1 .. executions /\ executionStatus'[e] = executionStatus[e]
            /\ runAt'[e] = runAt[e] /\ Followers(e)' = Followers(e)
            /\ BeingTriggered(e) => BeingTriggered(e)'
      BY <1>1, <2>1, <2>2 DEF executionTable, Followers
  <2>4. QED
      BY <2>1, <2>3, StrandedGrows DEF StrandsOne
<1>4. ASSUME NEW e \in toRetry[r], Oldest(r, e), MarkRetrying(e), UNCHANGED runAt,
             engineAt[r] = "increment"
      PROVE  /\ Stranded' \subseteq Stranded \cup {e}
             /\ BeingTriggered(e)' => Stranded' \subseteq Stranded
  <2>1. e \in Execution
      BY WorkflowAssumption DEF WorkflowTypeOK, Execution
  <2>2. \A f \in (1 .. executions') \ {e} :
            /\ f \in 1 .. executions /\ f \in Execution /\ executionStatus'[f] = executionStatus[f]
            /\ runAt'[f] = runAt[f] /\ Followers(f)' = Followers(f)
            /\ BeingTriggered(f) => BeingTriggered(f)'
    <3>1. UNCHANGED <<executions, parent>>
        BY <1>4 DEF MarkRetrying
    <3>2. \A f \in (1 .. executions') \ {e} : f \in 1 .. executions /\ f \in Execution
        BY <3>1, WorkflowAssumption DEF WorkflowTypeOK, Execution
    <3>3. \A f \in Execution \ {e} : executionStatus'[f] = executionStatus[f]
        BY <1>4, <2>1, MarkTypes
    <3>4. QED
        BY <1>1, <1>4, <3>1, <3>2, <3>3 DEF Followers
  <2>3. Stranded' \subseteq Stranded \cup {e}
      BY <2>2, StrandedGrows
  <2>4. QED
      BY <2>3 DEF Stranded
<1>5. ASSUME NEW e \in toRetry[r], Oldest(r, e), Insert(e), NextRetry(r, e), engineAt[r] = "retrigger",
             \A f \in Execution : f # executions' => runAt'[f] = runAt[f]
      PROVE  /\ Stranded' \subseteq Stranded \cup {executions'}
             /\ runAt'[executions'] = "lock" => Stranded' \subseteq Stranded
  <2>1. /\ e \in 1 .. executions /\ e \in Execution /\ e \in 0 .. MaxExecutions
        /\ executionStatus[e] = "RETRYING"
      BY <1>5, NextRetryTypes DEF WorkflowKnows, HeldHasFailed
  <2>2. /\ executions \in Nat /\ executions' = executions + 1 /\ executions' \in Execution
        /\ UNCHANGED executionStatus
        /\ \A f \in Execution : Followers(f)' = IF f = e THEN Followers(f) \cup {executions'}
                                                         ELSE Followers(f)
      BY <1>5, <2>1, InsertTypes, FollowersOfInsert
  <2>3. e \notin Stranded'
      BY <2>1, <2>2 DEF Stranded
  <2>4. \A f : f # e /\ BeingTriggered(f) => BeingTriggered(f)'
      BY <1>1, <1>5, OldestIsOne
  <2>5. \A f \in (1 .. executions') \ {executions'} : f \in 1 .. executions /\ f \in Execution
      BY <2>2, WorkflowAssumption DEF Execution
  <2>6. \A f \in (1 .. executions') \ {executions'} :
            \/ f \notin Stranded'
            \/ /\ f \in 1 .. executions /\ executionStatus'[f] = executionStatus[f]
               /\ runAt'[f] = runAt[f] /\ Followers(f)' = Followers(f)
               /\ BeingTriggered(f) => BeingTriggered(f)'
      BY <1>5, <2>2, <2>3, <2>4, <2>5
  <2>7. Stranded' \subseteq Stranded \cup {executions'}
      BY <2>6, StrandedGrows
  <2>8. executionStatus'[executions'] = "PENDING"
      BY <2>2 DEF WorkflowKnows, OverWhenFailed
  <2>9. QED
      BY <2>7, <2>8 DEF Stranded
<1>6. ASSUME NEW e \in toRetry[r], Increment(r, e) PROVE Stranded' \subseteq Stranded
  <2>1. /\ MarkRetrying(e) /\ Oldest(r, e) /\ UNCHANGED <<runAt, toRetry>>
        /\ engineAt[r] = "increment" /\ engineAt'[r] = "retrigger"
      BY <1>6 DEF Increment, EngineTo, WorkflowTypeOK
  <2>2. BeingTriggered(e)'
      BY <1>1, <2>1 DEF Oldest
  <2>3. QED
      BY <1>4, <2>1, <2>2
<1>7. ASSUME NEW e \in toRetry[r], Retrigger(r, e) PROVE Stranded' \subseteq Stranded
  <2>1. /\ Insert(e) /\ NextRetry(r, e) /\ Oldest(r, e) /\ engineAt[r] = "retrigger"
        /\ runAt' = [runAt EXCEPT ![executions'] = "lock"]
      BY <1>7 DEF Retrigger, RunTo
  <2>2. executions' \in Execution /\ runAt \in [Execution -> RunStop]
      BY <2>1, NextRetryTypes, InsertTypes DEF WorkflowTypeOK
  <2>3. QED
      BY <1>5, <2>1, <2>2
<1>8. ASSUME NEW e \in toRetry[r], RetryThrows(r, e) PROVE StrandsOne
  <2>1. /\ Oldest(r, e) /\ NextRetry(r, e) /\ UNCHANGED runAt /\ workflowFaults' = workflowFaults + 1
      BY <1>8 DEF RetryThrows, WorkflowFault
  <2>2. CASE UNCHANGED executionTable
    <3>1. \A f \in (1 .. executions') \ {e} :
              /\ f \in 1 .. executions /\ executionStatus'[f] = executionStatus[f]
              /\ runAt'[f] = runAt[f] /\ Followers(f)' = Followers(f)
              /\ BeingTriggered(f) => BeingTriggered(f)'
        BY <1>1, <2>1, <2>2, OldestIsOne DEF executionTable, Followers
    <3>2. QED
        BY <2>1, <3>1, StrandedGrows DEF StrandsOne
  <2>3. CASE engineAt[r] = "increment" /\ MarkRetrying(e)
      BY <1>4, <2>1, <2>3 DEF StrandsOne
  <2>4. CASE engineAt[r] = "retrigger" /\ Insert(e)
      BY <1>5, <2>1, <2>4 DEF StrandsOne
  <2>5. QED
      BY <1>8, <2>2, <2>3, <2>4 DEF RetryThrows
<1>9. QED
    BY <1>2, <1>3, <1>6, <1>7, <1>8 DEF RetrierMoves

StrandedPaid == Cardinality(Stranded) <= workflowFaults

LEMMA StrandedPaidNext ==
    ASSUME WorkflowTypeOK, WorkflowTypeOK', WorkflowKnows, StrandedPaid, [WorkflowNext]_workflowVars
    PROVE  StrandedPaid'
<1>1. IsFiniteSet(Execution) /\ Stranded \in SUBSET Execution
  <2>1. IsFiniteSet(1 .. MaxExecutions)
      BY WorkflowAssumption, FS_Interval
  <2>2. QED
      BY <2>1, WorkflowAssumption DEF Stranded, Execution, WorkflowTypeOK
<1>2. Stranded' \subseteq Stranded \/ StrandsOne
  <2>1. CASE ResultExpires \/ UNCHANGED workflowVars
      BY <2>1 DEF ResultExpires, workflowVars, executionTable, Stranded, BeingTriggered, Oldest, Followers
  <2>2. QED
      BY <2>1, WorkflowMoves, StrandedByTrigger, StrandedByRun, StrandedByRetrier
<1>3. workflowFaults \in Nat /\ workflowFaults' \in {workflowFaults, workflowFaults + 1}
  <2>1. workflowFaults \in Nat
      BY WorkflowAssumption DEF WorkflowTypeOK
  <2>2. ASSUME NEW t \in Trigger, TriggerMoves(t)
        PROVE  workflowFaults' \in {workflowFaults, workflowFaults + 1}
      BY <2>2 DEF TriggerMoves, TriggerStep, LookUpKey, CreateExecution, Remember, TriggerThrows,
                  WorkflowFault, NoWorkflowFault
  <2>3. ASSUME NEW e \in Execution, RunMoves(e)
        PROVE  workflowFaults' \in {workflowFaults, workflowFaults + 1}
      BY <2>3 DEF RunMoves, RunStep, Lock, Start, StepSucceeds, StepFails, Finish, RunThrows, RunDies,
                  WorkflowFault, NoWorkflowFault
  <2>4. CASE ResultExpires \/ UNCHANGED workflowVars
      BY <2>1, <2>4 DEF ResultExpires, workflowVars, NoWorkflowFault
  <2>5. ASSUME NEW r \in Retrier, RetrierMoves(r)
        PROVE  workflowFaults' \in {workflowFaults, workflowFaults + 1}
      BY <2>5, RetrierIsAlone
  <2>6. QED
      BY <2>1, <2>2, <2>3, <2>4, <2>5, WorkflowMoves
<1>4. CASE Stranded' \subseteq Stranded
    BY <1>1, <1>3, <1>4, NoMore DEF StrandedPaid
<1>5. CASE StrandsOne
  <2>1. PICK x : Stranded' \subseteq Stranded \cup {x} /\ workflowFaults' = workflowFaults + 1
      BY <1>5 DEF StrandsOne
  <2>2. /\ Cardinality(Stranded) \in Nat /\ Cardinality(Stranded') \in Nat
        /\ Cardinality(Stranded') <= Cardinality(Stranded) + 1
      BY <1>1, <2>1, OneMore
  <2>3. QED
      BY <1>3, <2>1, <2>2 DEF StrandedPaid
<1>6. QED
    BY <1>2, <1>4, <1>5

-----------------------------------------------------------------------------
WorkflowInv == WorkflowTypeOK /\ WorkflowKnows /\ CountsKept /\ StrandedPaid

LEMMA WorkflowInitInv == WorkflowInit => WorkflowInv
<1> SUFFICES ASSUME WorkflowInit PROVE WorkflowInv
    OBVIOUS
<1>1. WorkflowTypeOK
    BY WorkflowTypeInit
<1>2. WorkflowKnows
    BY WorkflowAssumption
    DEF WorkflowInit, WorkflowKnows, OverWhenFailed, HeldHasFailed, OneRemembers, Retrier
<1>3. Stranded = {}
    BY DEF WorkflowInit, Stranded
<1>4. ASSUME NEW e \in Execution PROVE CountsOf(e)
  <2>1. Holding(e) = {} /\ Retriggering(e) = {} /\ Followers(e) = {} /\ executionRetries[e] = 0
      BY WorkflowAssumption DEF WorkflowInit, Holding, Retriggering, Followers, Oldest, Retrier
  <2>2. Cardinality(Retrier) \in Nat
      BY <1>1, WorkflowCounts
  <2>3. QED
      BY <2>1, <2>2, FS_EmptySet DEF CountsOf
<1>5. workflowFaults = 0
    BY DEF WorkflowInit
<1>6. QED
    BY <1>1, <1>2, <1>3, <1>4, <1>5, FS_EmptySet DEF WorkflowInv, CountsKept, StrandedPaid

LEMMA WorkflowInvNext == WorkflowInv /\ [WorkflowNext]_workflowVars => WorkflowInv'
BY WorkflowTypeNext, WorkflowKnowsNext, CountsNext, StrandedPaidNext DEF WorkflowInv

LEMMA WorkflowInvRetries == WorkflowInv => RetriedOnceEach
<1> SUFFICES ASSUME WorkflowInv, NEW e \in Execution
             PROVE  /\ executionRetries[e] <= Cardinality(Retrier)
                    /\ Cardinality(Followers(e)) <= executionRetries[e]
    BY DEF WorkflowInv, StrandedPaid, RetriedOnceEach
<1>1. CountsOf(e) /\ WorkflowTypeOK
    BY DEF WorkflowInv, CountsKept
<1>2. QED
    BY <1>1, WorkflowCounts DEF CountsOf

(* For any number of triggers, ticks and calls of RetryWorkflow: a failed  *)
(* execution is counted as retried no more often than there are retriers,  *)
(* and triggered again no more often than it was counted; no more          *)
(* executions are left without a process than there were failures          *)
(* (WorkflowRetryWorker.ts:43-60, RetryWorkflow.ts:32-54).                 *)
THEOREM RetriedAtMostOnceEach == WorkflowSpec => [](WorkflowTypeOK /\ RetriedOnceEach)
<1>1. WorkflowInv => WorkflowTypeOK /\ RetriedOnceEach
    BY WorkflowInvRetries DEF WorkflowInv
<1>2. QED
    BY <1>1, WorkflowInitInv, WorkflowInvNext, PTL DEF WorkflowSpec
-----------------------------------------------------------------------------
(* NotificationService. *)

(* The processes that retry.                                               *)
Retriers == Tick \cup RetryCall

(* Who holds notification n and has not raised its count for it yet. *)
ToCount(n) ==
    {s \in Retriers : \E i \in DOMAIN toDeliver[s] :
                         toDeliver[s][i] = n /\ (i = 1 => senderAt[s] = "increment")}

(* Who is on the way to send it, before its first delivery included. *)
ToSend(n) ==
    {s \in Sender : \/ s = n /\ senderAt[s] = "start"
                    \/ senderAt[s] \in {"queue", "send"} /\ Current(s) = n}

(* Where a process has a notification in hand.                             *)
Queued == {"increment", "queue", "send", "delivered", "failed", "catch"}

(* What the processes may rely on: a queue holds a notification once and   *)
(* is not empty while one of it is worked on; who is about to mark a       *)
(* notification DELIVERED has sent it; a first delivery that has not begun *)
(* has stored nothing; and only a tick or a call of RetryNotification      *)
(* selects or counts.                                                      *)
SendersKnow ==
    /\ byUpdatedAt \in Seq(Notice)
    /\ toDeliver \in [Sender -> Seq(Notice)]
    /\ \A s \in Sender :
          /\ \A i, j \in DOMAIN toDeliver[s] : i # j => toDeliver[s][i] # toDeliver[s][j]
          /\ senderAt[s] \in Queued => toDeliver[s] # <<>>
          /\ senderAt[s] = "delivered" => sends[Current(s)] > 0
          /\ s \in Notice /\ senderAt[s] = "start" => deliveryStatus[s] = "none"
          /\ s \in Tick => senderAt[s] # "start"
          /\ senderAt[s] \in {"select", "increment"} => s \in Retriers

(* The count of a notification, together with those who hold it and have   *)
(* yet to raise it, stays below maxRetries and the number of all who       *)
(* retry: each of them found the count below maxRetries when it took the   *)
(* notification up.                                                        *)
CountsBounded ==
    \A n \in Notice :
        noticeRetries[n] + Cardinality(ToCount(n)) < maxRetries + Cardinality(Retriers)

(* A send was paid for beforehand: the sends of a notification, with those *)
(* on the way, are at most its retries and its first delivery.             *)
SendsCounted ==
    \A n \in Notice :
        /\ sends[n] + Cardinality(ToSend(n)) <= noticeRetries[n] + 1
        /\ deliveryStatus[n] = "DELIVERED" => sends[n] > 0

(* There are finitely many processes.                                      *)
LEMMA RetriersFinite ==
    /\ IsFiniteSet(Retriers) /\ IsFiniteSet(Sender)
    /\ Cardinality(Retriers) \in Nat
    /\ Retriers \subseteq Sender
BY NotificationAssumption, FS_Union, FS_CardinalityType DEF Retriers, Sender

(* So there are finitely many of either kind.                              *)
LEMMA SetsFinite ==
    \A n : /\ IsFiniteSet(ToCount(n)) /\ Cardinality(ToCount(n)) \in Nat
           /\ Cardinality(ToCount(n)) <= Cardinality(Retriers)
           /\ IsFiniteSet(ToSend(n)) /\ Cardinality(ToSend(n)) \in Nat
<1> SUFFICES ASSUME NEW n
             PROVE  /\ IsFiniteSet(ToCount(n)) /\ Cardinality(ToCount(n)) \in Nat
                    /\ Cardinality(ToCount(n)) <= Cardinality(Retriers)
                    /\ IsFiniteSet(ToSend(n)) /\ Cardinality(ToSend(n)) \in Nat
  OBVIOUS
<1>1. ToCount(n) \subseteq Retriers
  BY DEF ToCount
<1>2. ToSend(n) \subseteq Sender
  BY DEF ToSend
<1> QED
  BY <1>1, <1>2, RetriersFinite, FS_Subset, FS_CardinalityType

(* A row that is updated goes to the end of the order, which holds the     *)
(* same rows as before, each once.                                         *)
LEMMA MovedToEnd ==
    ASSUME NEW S, NEW q \in Seq(S), NEW i \in DOMAIN q,
           \A j, k \in DOMAIN q : j # k => q[j] # q[k],
           NEW p, p = Append(RemoveAt(q, i), q[i])
    PROVE  /\ p \in Seq(S)
           /\ ToSet(p) = ToSet(q)
           /\ \A j, k \in DOMAIN p : j # k => p[j] # p[k]
<1>1. i \in 1 .. Len(q) /\ Len(q) \in Nat
  OBVIOUS
<1> DEFINE a == SubSeq(q, 1, i - 1)
           b == SubSeq(q, i + 1, Len(q))
           c == RemoveAt(q, i)
<1>2. a \in Seq(S) /\ Len(a) = i - 1 /\ \A k \in 1 .. i - 1 : a[k] = q[k]
  BY <1>1
<1>3. b \in Seq(S) /\ Len(b) = Len(q) - i /\ \A k \in 1 .. Len(q) - i : b[k] = q[i + k]
  BY <1>1
<1>4. c = a \o b
  BY DEF RemoveAt
<1> HIDE DEF a, b, c
<1>len. Len(a) = i - 1 /\ Len(b) = Len(q) - i /\ i \in Nat \ {0} /\ Len(q) \in Nat
  BY <1>1, <1>2, <1>3
<1>cat. /\ c \in Seq(S) /\ Len(c) = Len(a) + Len(b)
        /\ \A k \in 1 .. Len(a) + Len(b) : c[k] = IF k <= Len(a) THEN a[k] ELSE b[k - Len(a)]
  <2>1. a \in Seq(S) /\ b \in Seq(S)
    BY <1>2, <1>3
  <2> QED
    BY <1>4, <2>1
<1>5. /\ c \in Seq(S) /\ Len(c) = Len(q) - 1
      /\ \A k \in 1 .. Len(q) - 1 : c[k] = IF k < i THEN q[k] ELSE q[k + 1]
  <2>1. c \in Seq(S) /\ Len(c) = Len(q) - 1
    BY <1>len, <1>cat
  <2>2. ASSUME NEW k \in 1 .. Len(q) - 1 PROVE c[k] = IF k < i THEN q[k] ELSE q[k + 1]
    <3>1. CASE k < i
      <4>1. k \in 1 .. Len(a) + Len(b) /\ k <= Len(a) /\ k \in 1 .. i - 1
        BY <1>1, <1>len, <3>1
      <4>2. c[k] = a[k]
        BY <1>cat, <4>1
      <4> QED
        BY <1>2, <3>1, <4>1, <4>2
    <3>2. CASE ~(k < i)
      <4>0. /\ k \in Nat /\ i \in Nat /\ i <= k /\ k <= Len(q) - 1
            /\ k - (i - 1) \in 1 .. Len(q) - i
        BY <1>1, <3>2
      <4>1. c[k] = b[k - (i - 1)] /\ k - (i - 1) \in 1 .. Len(q) - i
        <5>1. k \in 1 .. Len(a) + Len(b) /\ k > Len(a)
          BY <1>len, <4>0
        <5>2. c[k] = b[k - Len(a)]
          BY <1>len, <1>cat, <5>1
        <5> QED
          BY <1>len, <4>0, <5>2
      <4>2. i + (k - (i - 1)) = k + 1
        BY <1>1
      <4> QED
        BY <1>3, <3>2, <4>1, <4>2
    <3> QED
      BY <3>1, <3>2
  <2> QED
    BY <2>1, <2>2
<1>6. p = Append(c, q[i])
  BY DEF c
<1>7. /\ p \in Seq(S) /\ Len(p) = Len(q)
      /\ \A k \in 1 .. Len(q) : p[k] = IF k = Len(q) THEN q[i]
                                       ELSE IF k < i THEN q[k] ELSE q[k + 1]
  <2>1. c \in Seq(S) /\ Len(c) = Len(q) - 1 /\ q[i] \in S /\ Len(q) \in Nat \ {0}
    BY <1>1, <1>5
  <2>2. p \in Seq(S) /\ Len(p) = Len(q) /\ p[Len(q)] = q[i]
    BY <1>6, <2>1
  <2>3. \A k \in 1 .. Len(q) - 1 : p[k] = c[k]
    BY <1>6, <2>1
  <2>4. \A k \in 1 .. Len(q) : k # Len(q) => k \in 1 .. Len(q) - 1
    BY <2>1
  <2> QED
    BY <1>5, <2>2, <2>3, <2>4
<1>dom. DOMAIN p = 1 .. Len(q) /\ DOMAIN q = 1 .. Len(q)
  BY <1>7
<1>8. ToSet(p) \subseteq ToSet(q)
  <2>1. ASSUME NEW k \in 1 .. Len(q) PROVE p[k] \in ToSet(q)
    <3>1. CASE k = Len(q)
      BY <1>1, <1>7, <1>dom, <3>1 DEF ToSet
    <3>2. CASE k # Len(q) /\ k < i
      BY <1>1, <1>7, <1>dom, <3>2 DEF ToSet
    <3>3. CASE k # Len(q) /\ ~(k < i)
      <4>1. p[k] = q[k + 1] /\ k + 1 \in 1 .. Len(q)
        BY <1>1, <1>7, <3>3
      <4> QED
        BY <1>dom, <4>1 DEF ToSet
    <3> QED
      BY <3>1, <3>2, <3>3
  <2>2. ASSUME NEW x \in ToSet(p) PROVE x \in ToSet(q)
    <3>1. PICK k \in 1 .. Len(q) : x = p[k]
      BY <1>dom DEF ToSet
    <3> QED
      BY <2>1, <3>1
  <2> QED
    BY <2>2
<1>9. ASSUME NEW k \in 1 .. Len(q) PROVE q[k] \in ToSet(p)
  <2>1. CASE k < i
    BY <1>1, <1>7, <2>1 DEF ToSet
  <2>2. CASE k = i
    BY <1>1, <1>7, <2>2 DEF ToSet
  <2>3. CASE k > i
    <3>1. k - 1 \in 1 .. Len(q) /\ k - 1 # Len(q) /\ ~(k - 1 < i) /\ (k - 1) + 1 = k
      BY <1>1, <2>3
    <3>2. p[k - 1] = q[k]
      BY <1>7, <3>1
    <3>3. k - 1 \in DOMAIN p
      BY <1>7, <3>1
    <3> QED
      BY <3>2, <3>3 DEF ToSet
  <2> QED
    BY <1>1, <2>1, <2>2, <2>3
<1>10. ToSet(q) \subseteq ToSet(p)
  BY <1>9 DEF ToSet
<1>11. ASSUME NEW j \in 1 .. Len(q), NEW k \in 1 .. Len(q), j # k PROVE p[j] # p[k]
  <2> DEFINE at(x) == IF x = Len(q) THEN i ELSE IF x < i THEN x ELSE x + 1
  <2>1. at(j) \in 1 .. Len(q) /\ at(k) \in 1 .. Len(q) /\ at(j) # at(k)
    BY <1>1, <1>11
  <2>2. p[j] = q[at(j)] /\ p[k] = q[at(k)]
    BY <1>7
  <2> QED
    BY <2>1, <2>2
<1> QED
  BY <1>7, <1>8, <1>10, <1>11, <1>dom

(* A queue without its head. *)
LEMMA TailFacts ==
    ASSUME NEW S, NEW q \in Seq(S), q # <<>>, \A i, j \in DOMAIN q : i # j => q[i] # q[j]
    PROVE  /\ Head(q) = q[1] /\ q[1] \in S /\ 1 \in DOMAIN q
           /\ Tail(q) \in Seq(S)
           /\ Len(q) # 1 => Tail(q) # <<>>
           /\ \A i \in DOMAIN Tail(q) : /\ i \in Nat \ {0}
                                        /\ Tail(q)[i] = q[i + 1] /\ i + 1 \in DOMAIN q
                                        /\ Tail(q)[i] # Head(q)
           /\ \A i, j \in DOMAIN Tail(q) : i # j => Tail(q)[i] # Tail(q)[j]
           /\ ToSet(Tail(q)) \subseteq ToSet(q)
<1>1. /\ Len(q) \in Nat \ {0} /\ DOMAIN q = 1 .. Len(q)
      /\ Head(q) = q[1] /\ Tail(q) \in Seq(S) /\ Len(Tail(q)) = Len(q) - 1
      /\ DOMAIN Tail(q) = 1 .. Len(q) - 1
      /\ \A i \in 1 .. Len(q) - 1 : Tail(q)[i] = q[i + 1]
  OBVIOUS
<1> DEFINE t == Tail(q)
<1> HIDE DEF t
<1>2. \A i \in DOMAIN Tail(q) : i \in Nat \ {0} /\ Tail(q)[i] = q[i + 1] /\ i + 1 \in DOMAIN q
  BY <1>1
<1>3. 1 \in DOMAIN q /\ q[1] \in S
  BY <1>1
<1>4. Len(q) # 1 => Tail(q) # <<>>
  BY <1>1
<1>5. \A i \in DOMAIN Tail(q) : Tail(q)[i] # Head(q)
  BY <1>1, <1>2, <1>3
<1>6. \A i, j \in DOMAIN Tail(q) : i # j => Tail(q)[i] # Tail(q)[j]
  BY <1>2
<1>7. ToSet(Tail(q)) \subseteq ToSet(q)
  BY <1>2 DEF ToSet
<1> QED
  BY <1>1, <1>2, <1>3, <1>4, <1>5, <1>6, <1>7

(* The inductive invariant.                                                *)
SenderInv == NotificationTypeOK /\ SendersKnow /\ CountsBounded /\ SendsCounted

(* The order of the rows still holds the same rows, each once.             *)
OrderKept ==
    /\ byUpdatedAt' \in Seq(Notice) /\ ToSet(byUpdatedAt') = ToSet(byUpdatedAt)
    /\ \A i, j \in DOMAIN byUpdatedAt' : i # j => byUpdatedAt'[i] # byUpdatedAt'[j]

(* An update keeps it.                                                     *)
LEMMA OrderMoves ==
    ASSUME NotificationTypeOK, SendersKnow, NEW n, Updated(n) \/ byUpdatedAt' = byUpdatedAt
    PROVE  OrderKept
<1>1. CASE byUpdatedAt' = byUpdatedAt
  BY <1>1 DEF OrderKept, NotificationTypeOK, SendersKnow
<1>2. CASE Updated(n)
  <2>1. PICK i \in DOMAIN byUpdatedAt :
           byUpdatedAt[i] = n /\ byUpdatedAt' = Append(RemoveAt(byUpdatedAt, i), n)
    BY <1>2 DEF Updated
  <2>2. /\ byUpdatedAt \in Seq(Notice)
        /\ \A j, k \in DOMAIN byUpdatedAt : j # k => byUpdatedAt[j] # byUpdatedAt[k]
        /\ byUpdatedAt' = Append(RemoveAt(byUpdatedAt, i), byUpdatedAt[i])
    BY <2>1 DEF NotificationTypeOK, SendersKnow
  <2> HIDE DEF OrderKept
  <2> DEFINE q == byUpdatedAt
             p == byUpdatedAt'
  <2> HIDE DEF q, p
  <2>3. /\ p \in Seq(Notice) /\ ToSet(p) = ToSet(q)
        /\ \A j, k \in DOMAIN p : j # k => p[j] # p[k]
    <3>1. q \in Seq(Notice)
      BY <2>2 DEF q
    <3>2. i \in DOMAIN q
      BY DEF q
    <3>3. \A j, k \in DOMAIN q : j # k => q[j] # q[k]
      BY <2>2 DEF q
    <3>4. p = Append(RemoveAt(q, i), q[i])
      BY <2>2 DEF p, q
    <3>5. p \in Seq(Notice)
      BY <3>1, <3>2, <3>3, <3>4, MovedToEnd, ZenonT(40)
    <3>6. ToSet(p) = ToSet(q)
      BY <3>1, <3>2, <3>3, <3>4, MovedToEnd, ZenonT(40)
    <3>7. \A j, k \in DOMAIN p : j # k => p[j] # p[k]
      BY <3>1, <3>2, <3>3, <3>4, MovedToEnd, SMT
    <3> QED
      BY <3>5, <3>6, <3>7
  <2> QED
    BY <2>3 DEF p, q, OrderKept
<1> QED
  BY <1>1, <1>2

(* What a step of a process with notification m in hand may do. *)
Works(s, m) ==
    /\ senderAt[s] \in Queued
    /\ OrderKept
    /\ \/ deliveryStatus' = deliveryStatus
       \/ \E to \in {"QUEUED", "DELIVERED", "FAILED"} :
             /\ deliveryStatus' = [deliveryStatus EXCEPT ![m] = to]
             /\ to = "DELIVERED" => senderAt[s] = "delivered"
    /\ \/ noticeRetries' = noticeRetries /\ senderAt'[s] # "queue"
       \/ /\ noticeRetries' = [noticeRetries EXCEPT ![m] = @ + 1]
          /\ senderAt[s] = "increment"
    /\ \/ sends' = sends /\ senderAt'[s] # "delivered"
       \/ /\ sends' = [sends EXCEPT ![m] = @ + 1]
          /\ senderAt[s] = "send" /\ senderAt'[s] \in {"delivered", "failed", "catch"}
    /\ senderAt'[s] = "queue" => senderAt[s] = "increment"
    /\ senderAt'[s] = "send" => senderAt[s] = "queue"
    /\ senderAt' = [senderAt EXCEPT ![s] = senderAt'[s]]
    /\ \/ /\ toDeliver' = toDeliver
          /\ senderAt'[s] \in {"queue", "send", "delivered", "failed", "catch"}
       \/ /\ toDeliver' = [toDeliver EXCEPT ![s] = Tail(@)]
          /\ \/ senderAt'[s] = "done"
             \/ s \in Tick /\ senderAt'[s] = "select"
             \/ s \in Tick /\ senderAt'[s] = "increment" /\ Len(toDeliver[s]) # 1
       \/ /\ toDeliver' = [toDeliver EXCEPT ![s] = <<>>]
          /\ senderAt'[s] = "done" \/ (s \in Tick /\ senderAt'[s] = "select")
    /\ noticeFaults' \in 0 .. MaxNoticeFaults

(* Every step of a process with a notification in hand is such a step,     *)
(* failures and deaths included.                                           *)
LEMMA StepsWork ==
    ASSUME NotificationTypeOK, SendersKnow, NEW s \in Sender,
           \/ IncrementRetry(s) \/ Enqueue(s) \/ SendNotice(s) \/ Settle(s)
           \/ IncrementThrows(s) \/ UpdateThrowsInTry(s) \/ UpdateThrowsInCatch(s)
           \/ SenderDies(s)
    PROVE  Works(s, Current(s))
<1> DEFINE m == Current(s)
<1> HIDE DEF m
<1>typ. /\ senderAt \in [Sender -> SenderStop] /\ noticeFaults \in 0 .. MaxNoticeFaults
        /\ MaxNoticeFaults \in Nat
        /\ noticeRetries \in [Notice -> Nat] /\ sends \in [Notice -> Nat]
  BY NotificationAssumption DEF NotificationTypeOK
<1>ft. NoticeFault => noticeFaults' \in 0 .. MaxNoticeFaults
  BY <1>typ DEF NoticeFault
<1>to. ASSUME NEW stop, SenderTo(s, stop)
       PROVE  senderAt'[s] = stop /\ senderAt' = [senderAt EXCEPT ![s] = stop]
  BY <1>to, <1>typ DEF SenderTo
<1>nx. ASSUME NextNotice(s)
       PROVE  /\ senderAt' = [senderAt EXCEPT ![s] = senderAt'[s]]
              /\ toDeliver' = [toDeliver EXCEPT ![s] = Tail(@)]
              /\ \/ senderAt'[s] = "done"
                 \/ s \in Tick /\ senderAt'[s] = "select"
                 \/ s \in Tick /\ senderAt'[s] = "increment" /\ Len(toDeliver[s]) # 1
  <2>1. PICK stop : /\ SenderTo(s, stop)
                    /\ \/ stop = "done"
                       \/ s \in Tick /\ stop = "select"
                       \/ s \in Tick /\ stop = "increment" /\ Len(toDeliver[s]) # 1
    BY <1>nx DEF NextNotice
  <2> QED
    BY <1>nx, <1>to, <2>1 DEF NextNotice
<1>1. ASSUME IncrementRetry(s) PROVE Works(s, m)
  BY <1>1, <1>typ, <1>to, OrderMoves
     DEF m, IncrementRetry, CountRetry, Works, Queued
<1>2. ASSUME Enqueue(s) PROVE Works(s, m)
  BY <1>2, <1>typ, <1>to, OrderMoves
     DEF m, Enqueue, UpdateStatus, Works, Queued
<1>3. ASSUME SendNotice(s) PROVE Works(s, m)
  BY <1>3, <1>typ, <1>to, OrderMoves
     DEF m, SendNotice, noticeTable, Works, Queued
<1>4. ASSUME Settle(s) PROVE Works(s, m)
  BY <1>4, <1>typ, <1>nx, OrderMoves
     DEF m, Settle, UpdateStatus, Works, Queued
<1>5. ASSUME IncrementThrows(s) PROVE Works(s, m)
  <2>1. /\ senderAt[s] = "increment" /\ sends' = sends
        /\ noticeFaults' \in 0 .. MaxNoticeFaults
        /\ deliveryStatus' = deliveryStatus
        /\ \/ noticeRetries' = [noticeRetries EXCEPT ![m] = @ + 1]
           \/ noticeRetries' = noticeRetries
        /\ OrderKept
    BY <1>5, <1>ft, OrderMoves DEF m, IncrementThrows, CountRetry, noticeTable
  <2>2. CASE SenderTo(s, "catch") /\ toDeliver' = toDeliver
    BY <1>to, <2>1, <2>2 DEF Works, Queued
  <2>3. CASE NextNotice(s)
    BY <1>nx, <2>1, <2>3 DEF Works, Queued
  <2> QED
    BY <1>5, <2>2, <2>3 DEF IncrementThrows
<1>6. ASSUME UpdateThrowsInTry(s) PROVE Works(s, m)
  <2>1. PICK to \in {"QUEUED", "DELIVERED", "FAILED"} :
           /\ UpdateStatusThrows(m, to)
           /\ to = "DELIVERED" => senderAt[s] = "delivered"
           /\ senderAt[s] \in {"queue", "delivered", "failed"}
    BY <1>6 DEF m, UpdateThrowsInTry
  <2>2. /\ noticeFaults' \in 0 .. MaxNoticeFaults /\ noticeRetries' = noticeRetries
        /\ \/ deliveryStatus' = deliveryStatus
           \/ deliveryStatus' = [deliveryStatus EXCEPT ![m] = to]
        /\ OrderKept
    BY <1>ft, <2>1, OrderMoves DEF UpdateStatusThrows, UpdateStatus, noticeTable
  <2>3. SenderTo(s, "catch") /\ toDeliver' = toDeliver /\ sends' = sends
    BY <1>6 DEF UpdateThrowsInTry
  <2> QED
    BY <1>to, <2>1, <2>2, <2>3 DEF Works, Queued
<1>7. ASSUME UpdateThrowsInCatch(s) PROVE Works(s, m)
  <2>1. /\ senderAt[s] = "catch" /\ UpdateStatusThrows(m, "FAILED") /\ NextNotice(s)
        /\ sends' = sends
    BY <1>7 DEF m, UpdateThrowsInCatch
  <2>2. /\ noticeFaults' \in 0 .. MaxNoticeFaults /\ noticeRetries' = noticeRetries
        /\ \/ deliveryStatus' = deliveryStatus
           \/ deliveryStatus' = [deliveryStatus EXCEPT ![m] = "FAILED"]
        /\ OrderKept
    BY <1>ft, <2>1, OrderMoves DEF UpdateStatusThrows, UpdateStatus, noticeTable
  <2> QED
    BY <1>nx, <2>1, <2>2 DEF Works, Queued
<1>8. ASSUME SenderDies(s) PROVE Works(s, m)
  <2>1. /\ senderAt[s] \in Queued /\ noticeFaults' \in 0 .. MaxNoticeFaults
        /\ toDeliver' = [toDeliver EXCEPT ![s] = <<>>] /\ sends' = sends
        /\ deliveryStatus' = deliveryStatus /\ noticeRetries' = noticeRetries /\ OrderKept
        /\ \/ SenderTo(s, "done")
           \/ s \in Tick /\ SenderTo(s, "select")
    BY <1>8, <1>typ, <1>ft, OrderMoves DEF SenderDies, noticeTable, Queued, SenderStop
  <2> QED
    BY <1>to, <2>1 DEF Works
<1> QED
  BY <1>1, <1>2, <1>3, <1>4, <1>5, <1>6, <1>7, <1>8 DEF m

(* The notification in hand, and the rest of the queue. *)
LEMMA InHand ==
    ASSUME NotificationTypeOK, SendersKnow, NEW s \in Sender, senderAt[s] \in Queued
    PROVE  /\ Current(s) = toDeliver[s][1] /\ Current(s) \in Notice /\ 1 \in DOMAIN toDeliver[s]
           /\ deliveryStatus[Current(s)] # "none"
           /\ Tail(toDeliver[s]) \in Seq(Notice)
           /\ Len(toDeliver[s]) # 1 => Tail(toDeliver[s]) # <<>>
           /\ \A i \in DOMAIN Tail(toDeliver[s]) :
                 /\ i \in Nat \ {0}
                 /\ Tail(toDeliver[s])[i] = toDeliver[s][i + 1] /\ i + 1 \in DOMAIN toDeliver[s]
                 /\ Tail(toDeliver[s])[i] # Current(s)
           /\ \A i, j \in DOMAIN Tail(toDeliver[s]) :
                 i # j => Tail(toDeliver[s])[i] # Tail(toDeliver[s])[j]
           /\ ToSet(Tail(toDeliver[s])) \subseteq ToSet(byUpdatedAt)
<1>1. /\ toDeliver[s] \in Seq(Notice) /\ toDeliver[s] # <<>>
      /\ \A i, j \in DOMAIN toDeliver[s] : i # j => toDeliver[s][i] # toDeliver[s][j]
      /\ ToSet(toDeliver[s]) \subseteq ToSet(byUpdatedAt)
  BY DEF SendersKnow, NotificationTypeOK
<1> DEFINE q == toDeliver[s]
<1> HIDE DEF q
<1>2. q \in Seq(Notice) /\ q # <<>> /\ \A i, j \in DOMAIN q : i # j => q[i] # q[j]
  BY <1>1 DEF q
<1>3. /\ Head(q) = q[1] /\ q[1] \in Notice /\ 1 \in DOMAIN q
      /\ Tail(q) \in Seq(Notice)
      /\ Len(q) # 1 => Tail(q) # <<>>
      /\ \A i \in DOMAIN Tail(q) : /\ i \in Nat \ {0}
                                   /\ Tail(q)[i] = q[i + 1] /\ i + 1 \in DOMAIN q
                                   /\ Tail(q)[i] # Head(q)
      /\ \A i, j \in DOMAIN Tail(q) : i # j => Tail(q)[i] # Tail(q)[j]
      /\ ToSet(Tail(q)) \subseteq ToSet(q)
  BY <1>2, TailFacts
<1>4. q[1] \in ToSet(byUpdatedAt)
  BY <1>1, <1>3 DEF ToSet, q
<1>5. deliveryStatus[q[1]] # "none"
  BY <1>4 DEF NotificationTypeOK
<1> QED
  BY <1>1, <1>3, <1>5 DEF q, Current

(* Such a step keeps the types and what the processes rely on.             *)
LEMMA WorksTypes ==
    ASSUME NotificationTypeOK, SendersKnow, NEW s \in Sender, Works(s, Current(s))
    PROVE  NotificationTypeOK' /\ SendersKnow'
<1> DEFINE m == Current(s)
<1>typ. /\ deliveryStatus \in [Notice -> DeliveryStatus]
        /\ noticeRetries \in [Notice -> Nat] /\ sends \in [Notice -> Nat]
        /\ senderAt \in [Sender -> SenderStop] /\ toDeliver \in [Sender -> Seq(Notice)]
        /\ ToSet(byUpdatedAt) = {n \in Notice : deliveryStatus[n] # "none"}
  BY DEF NotificationTypeOK, SendersKnow
<1>1. senderAt[s] \in Queued /\ OrderKept
  BY DEF Works
<1>2. /\ m = toDeliver[s][1] /\ m \in Notice /\ 1 \in DOMAIN toDeliver[s]
      /\ deliveryStatus[m] # "none"
  BY <1>1, InHand
<1> HIDE DEF m
<1>w. Works(s, m)
  BY DEF m
<1>3. /\ deliveryStatus' \in [Notice -> DeliveryStatus]
      /\ \A n \in Notice : deliveryStatus'[n] = "none" <=> deliveryStatus[n] = "none"
  <2>1. \/ deliveryStatus' = deliveryStatus
        \/ \E to \in {"QUEUED", "DELIVERED", "FAILED"} :
              deliveryStatus' = [deliveryStatus EXCEPT ![m] = to]
    BY <1>w DEF Works
  <2> QED
    BY <1>typ, <1>2, <2>1 DEF DeliveryStatus
<1>4. noticeRetries' \in [Notice -> Nat]
  <2>1. \/ noticeRetries' = noticeRetries
        \/ noticeRetries' = [noticeRetries EXCEPT ![m] = @ + 1]
    BY <1>w DEF Works
  <2>2. noticeRetries \in [Notice -> Nat] /\ m \in Notice
    BY <1>typ, <1>2
  <2> QED
    BY <2>1, <2>2
<1>5. /\ sends' \in [Notice -> Nat] /\ \A n \in Notice : sends'[n] >= sends[n]
      /\ senderAt'[s] = "delivered" => sends'[m] > 0
  <2>1. \/ sends' = sends /\ senderAt'[s] # "delivered"
        \/ sends' = [sends EXCEPT ![m] = @ + 1]
    BY <1>w DEF Works
  <2>2. sends \in [Notice -> Nat] /\ m \in Notice
    BY <1>typ, <1>2
  <2> QED
    BY <2>1, <2>2
<1>6. /\ senderAt'[s] \in {"queue", "send", "delivered", "failed", "catch", "done",
                           "select", "increment"}
      /\ senderAt'[s] \in {"select", "increment"} => s \in Tick
      /\ \A q \in Sender \ {s} : senderAt'[q] = senderAt[q]
  BY <1>typ, <1>w DEF Works
<1>7. senderAt' \in [Sender -> SenderStop]
  <2>1. senderAt' = [senderAt EXCEPT ![s] = senderAt'[s]]
    BY DEF Works
  <2> QED
    BY <1>typ, <1>6, <2>1 DEF SenderStop
<1>8. /\ toDeliver' \in [Sender -> Seq(Notice)]
      /\ \A q \in Sender \ {s} : toDeliver'[q] = toDeliver[q]
      /\ \/ toDeliver'[s] = toDeliver[s] /\ senderAt'[s] # "increment"
         \/ /\ toDeliver'[s] = Tail(toDeliver[s])
            /\ senderAt'[s] \in Queued => Len(toDeliver[s]) # 1 /\ senderAt'[s] # "delivered"
         \/ toDeliver'[s] = <<>> /\ senderAt'[s] \notin Queued
  <2>1. Tail(toDeliver[s]) \in Seq(Notice) /\ <<>> \in Seq(Notice)
    BY <1>1, InHand
  <2>2. \/ /\ toDeliver' = toDeliver
           /\ senderAt'[s] \in {"queue", "send", "delivered", "failed", "catch"}
        \/ /\ toDeliver' = [toDeliver EXCEPT ![s] = Tail(@)]
           /\ \/ senderAt'[s] \in {"done", "select"}
              \/ senderAt'[s] = "increment" /\ Len(toDeliver[s]) # 1
        \/ /\ toDeliver' = [toDeliver EXCEPT ![s] = <<>>]
           /\ senderAt'[s] \in {"done", "select"}
    BY <1>w DEF Works
  <2> QED
    BY <1>typ, <2>1, <2>2 DEF Queued
<1>9. /\ \A i, j \in DOMAIN toDeliver'[s] : i # j => toDeliver'[s][i] # toDeliver'[s][j]
      /\ ToSet(toDeliver'[s]) \subseteq ToSet(byUpdatedAt)
      /\ senderAt'[s] \in Queued => toDeliver'[s] # <<>>
  <2>1. CASE toDeliver'[s] = toDeliver[s]
    BY <1>1, <2>1 DEF NotificationTypeOK, SendersKnow
  <2>2. CASE toDeliver'[s] = Tail(toDeliver[s])
            /\ (senderAt'[s] \in Queued => Len(toDeliver[s]) # 1)
    BY <1>1, <2>2, InHand
  <2>3. CASE toDeliver'[s] = <<>> /\ senderAt'[s] \notin Queued
    BY <2>3 DEF ToSet
  <2> QED
    BY <1>8, <2>1, <2>2, <2>3
<1>10. NotificationTypeOK'
  <2>1. ToSet(byUpdatedAt') = {n \in Notice : deliveryStatus'[n] # "none"}
    BY <1>typ, <1>1, <1>3 DEF OrderKept
  <2>2. \A q \in Sender : ToSet(toDeliver'[q]) \subseteq ToSet(byUpdatedAt')
    BY <1>1, <1>8, <1>9 DEF NotificationTypeOK, OrderKept
  <2>3. noticeFaults' \in 0 .. MaxNoticeFaults
    BY DEF Works
  <2> QED
    BY <1>1, <1>3, <1>4, <1>5, <1>7, <2>1, <2>2, <2>3 DEF NotificationTypeOK, OrderKept
<1>11. SendersKnow'
  <2> SUFFICES ASSUME NEW q \in Sender
               PROVE  /\ \A i, j \in DOMAIN toDeliver'[q] :
                            i # j => toDeliver'[q][i] # toDeliver'[q][j]
                      /\ senderAt'[q] \in Queued => toDeliver'[q] # <<>>
                      /\ senderAt'[q] = "delivered" => sends'[Head(toDeliver'[q])] > 0
                      /\ q \in Notice /\ senderAt'[q] = "start" => deliveryStatus'[q] = "none"
                      /\ q \in Tick => senderAt'[q] # "start"
                      /\ senderAt'[q] \in {"select", "increment"} => q \in Retriers
    BY <1>1, <1>8 DEF SendersKnow, OrderKept, Current
  <2>1. CASE q = s
    <3>1. senderAt'[s] = "delivered" => toDeliver'[s] = toDeliver[s]
      BY <1>8 DEF Queued
    <3> QED
      BY <1>5, <1>6, <1>9, <2>1, <3>1 DEF Retriers, Current, m
  <2>2. CASE q # s
    <3>1. senderAt[q] = "delivered" => Head(toDeliver[q]) \in Notice
      BY InHand DEF Queued, Current
    <3>2. senderAt[q] = "delivered" => sends'[Head(toDeliver[q])] > 0
      BY <1>typ, <1>5, <3>1 DEF SendersKnow, Current
    <3> QED
      BY <1>3, <1>6, <1>8, <2>2, <3>2 DEF SendersKnow
  <2> QED
    BY <2>1, <2>2
<1> QED
  BY <1>10, <1>11

(* No step with a notification in hand puts anyone before a count, and the *)
(* one that raises the count takes its process from there.                 *)
LEMMA WorksCounts ==
    ASSUME SenderInv, NEW s \in Sender, Works(s, Current(s))
    PROVE  CountsBounded'
<1> USE DEF SenderInv
<1> DEFINE m == Current(s)
<1>typ. /\ noticeRetries \in [Notice -> Nat] /\ senderAt \in [Sender -> SenderStop]
        /\ toDeliver \in [Sender -> Seq(Notice)]
        /\ maxRetries \in Nat /\ Cardinality(Retriers) \in Nat /\ Retriers \subseteq Sender
  BY RetriersFinite, NotificationAssumption DEF NotificationTypeOK, SendersKnow
<1>1. /\ senderAt[s] \in Queued /\ m \in Notice /\ m = toDeliver[s][1] /\ 1 \in DOMAIN toDeliver[s]
      /\ \A i, j \in DOMAIN toDeliver[s] : i # j => toDeliver[s][i] # toDeliver[s][j]
  BY InHand DEF Works, SendersKnow
<1>2. \A q \in Sender \ {s} : senderAt'[q] = senderAt[q] /\ toDeliver'[q] = toDeliver[q]
  BY <1>typ DEF Works
<1>3. \/ toDeliver'[s] = toDeliver[s] /\ senderAt'[s] # "increment"
      \/ toDeliver'[s] = Tail(toDeliver[s])
      \/ toDeliver'[s] = <<>>
  BY <1>typ DEF Works
<1>4. \/ noticeRetries' = noticeRetries
      \/ noticeRetries' = [noticeRetries EXCEPT ![m] = @ + 1] /\ senderAt[s] = "increment"
  BY DEF Works
<1>5. /\ \A i \in DOMAIN Tail(toDeliver[s]) :
            /\ i \in Nat \ {0} /\ Tail(toDeliver[s])[i] = toDeliver[s][i + 1]
            /\ i + 1 \in DOMAIN toDeliver[s] /\ Tail(toDeliver[s])[i] # m
  BY <1>1, InHand
<1> HIDE DEF m
<1> SUFFICES ASSUME NEW n \in Notice
             PROVE  noticeRetries'[n] + Cardinality(ToCount(n)')
                    < maxRetries + Cardinality(Retriers)
  BY <1>typ DEF CountsBounded, Retriers
<1>6. ASSUME s \in ToCount(n)' PROVE s \in ToCount(n) /\ (n = m => senderAt[s] # "increment")
  <2>1. PICK i \in DOMAIN toDeliver'[s] :
           s \in Retriers /\ toDeliver'[s][i] = n /\ (i = 1 => senderAt'[s] = "increment")
    BY <1>6 DEF ToCount
  <2>2. CASE toDeliver'[s] = toDeliver[s] /\ senderAt'[s] # "increment"
    BY <1>1, <2>1, <2>2 DEF ToCount
  <2>3. CASE toDeliver'[s] = Tail(toDeliver[s])
    <3>1. /\ i + 1 \in DOMAIN toDeliver[s] /\ i + 1 # 1 /\ toDeliver[s][i + 1] = n /\ n # m
      BY <1>5, <2>1, <2>3
    <3> QED
      BY <2>1, <3>1 DEF ToCount
  <2>4. CASE toDeliver'[s] = <<>>
    BY <2>1, <2>4
  <2> QED
    BY <1>3, <2>2, <2>3, <2>4
<1>7. ToCount(n)' \subseteq ToCount(n)
  BY <1>typ, <1>2, <1>6 DEF ToCount
<1>8. /\ IsFiniteSet(ToCount(n)) /\ Cardinality(ToCount(n)) \in Nat
      /\ Cardinality(ToCount(n)') \in Nat
      /\ Cardinality(ToCount(n)') <= Cardinality(ToCount(n))
  BY <1>7, SetsFinite, FS_Subset, FS_CardinalityType
<1>9. noticeRetries[n] + Cardinality(ToCount(n)) < maxRetries + Cardinality(Retriers)
  BY DEF CountsBounded
<1>10. CASE noticeRetries'[n] = noticeRetries[n]
  BY <1>typ, <1>8, <1>9, <1>10
<1>11. CASE noticeRetries'[n] # noticeRetries[n]
  <2>1. n = m /\ senderAt[s] = "increment" /\ noticeRetries'[n] = noticeRetries[n] + 1
    BY <1>typ, <1>1, <1>4, <1>11
  <2>2. s \in ToCount(n)
    <3>1. s \in Retriers
      BY <2>1 DEF SendersKnow
    <3> QED
      BY <1>1, <2>1, <3>1 DEF ToCount
  <2>3. ToCount(n)' \subseteq ToCount(n) \ {s}
    BY <1>6, <1>7, <2>1
  <2>4. Cardinality(ToCount(n)') <= Cardinality(ToCount(n)) - 1
    <3>1. /\ IsFiniteSet(ToCount(n) \ {s})
          /\ Cardinality(ToCount(n) \ {s}) = Cardinality(ToCount(n)) - 1
      BY <1>8, <2>2, FS_RemoveElement
    <3> QED
      BY <2>3, <3>1, FS_Subset
  <2> QED
    BY <1>typ, <1>8, <1>9, <2>1, <2>4
<1> QED
  BY <1>10, <1>11

(* Every way to provider.send leads past the count, once each. *)
LEMMA WorksSends ==
    ASSUME SenderInv, NEW s \in Sender, Works(s, Current(s))
    PROVE  SendsCounted'
<1> USE DEF SenderInv
<1> DEFINE m == Current(s)
<1>typ. /\ noticeRetries \in [Notice -> Nat] /\ senderAt \in [Sender -> SenderStop]
        /\ toDeliver \in [Sender -> Seq(Notice)] /\ sends \in [Notice -> Nat]
        /\ deliveryStatus \in [Notice -> DeliveryStatus]
  BY DEF NotificationTypeOK, SendersKnow
<1>1. senderAt[s] \in Queued /\ m \in Notice
  BY InHand DEF Works
<1>2. \A q \in Sender \ {s} : senderAt'[q] = senderAt[q] /\ toDeliver'[q] = toDeliver[q]
  BY <1>typ DEF Works
<1>3. /\ senderAt'[s] \in {"queue", "send"} => toDeliver'[s] = toDeliver[s]
      /\ senderAt'[s] # "start"
      /\ senderAt'[s] = "send" => senderAt[s] = "queue"
      /\ senderAt'[s] = "queue" => senderAt[s] = "increment"
  BY <1>typ DEF Works
<1>4. \/ noticeRetries' = noticeRetries /\ senderAt'[s] # "queue"
      \/ noticeRetries' = [noticeRetries EXCEPT ![m] = @ + 1] /\ senderAt[s] = "increment"
  BY DEF Works
<1>5. \/ sends' = sends
      \/ /\ sends' = [sends EXCEPT ![m] = @ + 1]
         /\ senderAt[s] = "send" /\ senderAt'[s] \notin {"queue", "send"}
  BY DEF Works
<1>6. \/ deliveryStatus' = deliveryStatus
      \/ \E to \in {"QUEUED", "DELIVERED", "FAILED"} :
            /\ deliveryStatus' = [deliveryStatus EXCEPT ![m] = to]
            /\ to = "DELIVERED" => senderAt[s] = "delivered"
  BY DEF Works
<1>up. \A k \in Notice : /\ sends[k] \in Nat /\ sends'[k] \in Nat /\ sends'[k] >= sends[k]
                         /\ noticeRetries'[k] \in Nat /\ noticeRetries'[k] >= noticeRetries[k]
  <2>1. /\ noticeRetries \in [Notice -> Nat] /\ m \in Notice
        /\ noticeRetries' = noticeRetries \/ noticeRetries' = [noticeRetries EXCEPT ![m] = @ + 1]
    BY <1>typ, <1>1, <1>4
  <2>2. /\ sends \in [Notice -> Nat] /\ m \in Notice
        /\ sends' = sends \/ sends' = [sends EXCEPT ![m] = @ + 1]
    BY <1>typ, <1>1, <1>5
  <2> HIDE DEF m
  <2>3. \A k \in Notice : noticeRetries'[k] \in Nat /\ noticeRetries'[k] >= noticeRetries[k]
    BY <2>1
  <2>4. \A k \in Notice : sends[k] \in Nat /\ sends'[k] \in Nat /\ sends'[k] >= sends[k]
    BY <2>2
  <2> QED
    BY <2>3, <2>4
<1>7. senderAt[s] = "delivered" => sends[m] > 0
  BY DEF SendersKnow
<1>8. s \in ToSend(m)' /\ ~(s \in ToSend(m)) => senderAt'[s] = "queue"
  BY <1>3 DEF ToSend, Current
<1> SUFFICES ASSUME NEW n \in Notice
             PROVE  /\ sends'[n] + Cardinality(ToSend(n)') <= noticeRetries'[n] + 1
                    /\ deliveryStatus'[n] = "DELIVERED" => sends'[n] > 0
  BY DEF SendsCounted
<1>9. ToSend(n)' \ {s} = ToSend(n) \ {s}
  BY <1>2 DEF ToSend, Current
<1>10. s \in ToSend(n)' => n = m /\ senderAt'[s] \in {"queue", "send"}
  BY <1>3 DEF ToSend, Current
<1>11. s \in ToSend(m) <=> senderAt[s] \in {"queue", "send"}
  BY <1>1 DEF ToSend, Queued
<1> HIDE DEF m
<1>12. /\ IsFiniteSet(ToSend(n)) /\ Cardinality(ToSend(n)) \in Nat
       /\ sends[n] + Cardinality(ToSend(n)) <= noticeRetries[n] + 1
  BY SetsFinite DEF SendsCounted
<1>13. deliveryStatus'[n] = "DELIVERED" => sends'[n] > 0
  <2>1. deliveryStatus[n] = "DELIVERED" => sends[n] > 0
    BY DEF SendsCounted
  <2>3. deliveryStatus'[n] = "DELIVERED" => deliveryStatus[n] = "DELIVERED" \/ sends[n] > 0
    BY <1>typ, <1>1, <1>6, <1>7
  <2> QED
    BY <1>up, <2>1, <2>3
<1>14. CASE senderAt'[s] = "queue" /\ n = m
  <2>1. noticeRetries'[n] = noticeRetries[n] + 1 /\ sends'[n] = sends[n]
    BY <1>typ, <1>1, <1>3, <1>4, <1>5, <1>14
  <2>2. s \notin ToSend(n) /\ ToSend(n)' \subseteq ToSend(n) \cup {s}
    BY <1>3, <1>9, <1>11, <1>14
  <2>3. /\ IsFiniteSet(ToSend(n) \cup {s})
        /\ Cardinality(ToSend(n) \cup {s}) = Cardinality(ToSend(n)) + 1
    BY <1>12, <2>2, FS_AddElement
  <2>4. /\ Cardinality(ToSend(n)') <= Cardinality(ToSend(n)) + 1
        /\ Cardinality(ToSend(n)') \in Nat
    BY <2>2, <2>3, FS_Subset, FS_CardinalityType
  <2> QED
    BY <1>typ, <1>12, <1>13, <2>1, <2>4
<1>15. CASE sends'[n] # sends[n]
  <2>1. /\ n = m /\ sends'[n] = sends[n] + 1 /\ senderAt[s] = "send"
        /\ senderAt'[s] \notin {"queue", "send"} /\ noticeRetries'[n] = noticeRetries[n]
    BY <1>typ, <1>1, <1>4, <1>5, <1>15
  <2>2. s \in ToSend(n) /\ ToSend(n)' \subseteq ToSend(n) \ {s}
    BY <1>9, <1>10, <1>11, <2>1
  <2>3. /\ IsFiniteSet(ToSend(n) \ {s})
        /\ Cardinality(ToSend(n) \ {s}) = Cardinality(ToSend(n)) - 1
    BY <1>12, <2>2, FS_RemoveElement
  <2>4. /\ Cardinality(ToSend(n)') <= Cardinality(ToSend(n)) - 1
        /\ Cardinality(ToSend(n)') \in Nat
    BY <2>2, <2>3, FS_Subset, FS_CardinalityType
  <2> QED
    BY <1>typ, <1>12, <1>13, <2>1, <2>4
<1>16. CASE ~(senderAt'[s] = "queue" /\ n = m) /\ sends'[n] = sends[n]
  <2>1. ToSend(n)' \subseteq ToSend(n)
    BY <1>3, <1>9, <1>10, <1>11, <1>16
  <2>2. /\ Cardinality(ToSend(n)') <= Cardinality(ToSend(n))
        /\ Cardinality(ToSend(n)') \in Nat
    BY <1>12, <2>1, FS_Subset, FS_CardinalityType
  <2> QED
    BY <1>typ, <1>12, <1>13, <1>16, <1>up, <2>2
<1> QED
  BY <1>14, <1>15, <1>16

(* Nothing is stored and nothing is sent at first.                         *)
LEMMA SenderInit == NotificationInit => SenderInv
<1> SUFFICES ASSUME NotificationInit PROVE SenderInv
  OBVIOUS
<1> USE NotificationAssumption DEF NotificationInit
<1>1. DOMAIN byUpdatedAt = {} /\ byUpdatedAt \in Seq(Notice) /\ ToSet(byUpdatedAt) = {}
  BY DEF ToSet
<1>2. \A s \in Sender : toDeliver[s] = <<>> /\ ToSet(toDeliver[s]) = {}
  BY DEF ToSet
<1>3. NotificationTypeOK
  BY <1>1, <1>2 DEF NotificationTypeOK, DeliveryStatus, SenderStop
<1>4. SendersKnow
  BY <1>1, <1>2 DEF SendersKnow, Queued, Retriers, Sender
<1>5. ASSUME NEW n \in Notice PROVE ToCount(n) = {} /\ ToSend(n) = {n}
  <2>1. ToCount(n) = {}
    BY <1>2, RetriersFinite DEF ToCount
  <2>2. ToSend(n) = {n}
    BY DEF ToSend, Sender
  <2> QED
    BY <2>1, <2>2
<1>6. /\ Cardinality({}) = 0
      /\ \A n \in Notice : Cardinality({n}) = 1
      /\ \A n \in Notice : noticeRetries[n] = 0 /\ sends[n] = 0 /\ deliveryStatus[n] = "none"
      /\ maxRetries \in Nat \ {0} /\ Cardinality(Retriers) \in Nat
  BY RetriersFinite, FS_EmptySet, FS_Singleton
<1> HIDE NotificationAssumption DEF NotificationInit
<1>7. CountsBounded
  <2> SUFFICES ASSUME NEW n \in Notice
               PROVE  noticeRetries[n] + Cardinality(ToCount(n))
                      < maxRetries + Cardinality(Retriers)
    BY DEF CountsBounded
  <2>1. Cardinality(ToCount(n)) = 0
    BY <1>5, <1>6
  <2> QED
    BY <1>6, <2>1
<1>8. SendsCounted
  <2> SUFFICES ASSUME NEW n \in Notice
               PROVE  /\ sends[n] + Cardinality(ToSend(n)) <= noticeRetries[n] + 1
                      /\ deliveryStatus[n] # "DELIVERED"
    BY DEF SendsCounted
  <2>1. Cardinality(ToSend(n)) = 1
    BY <1>5, <1>6
  <2> QED
    BY <1>6, <2>1
<1> QED
  BY <1>3, <1>4, <1>7, <1>8 DEF SenderInv

(* A notification is created. *)
LEMMA CreateKeeps ==
    ASSUME SenderInv, NEW n \in Notice, CreateNotice(n)
    PROVE  SenderInv'
<1> USE DEF SenderInv
<1>typ. /\ deliveryStatus \in [Notice -> DeliveryStatus] /\ byUpdatedAt \in Seq(Notice)
        /\ senderAt \in [Sender -> SenderStop] /\ toDeliver \in [Sender -> Seq(Notice)]
        /\ ToSet(byUpdatedAt) = {m \in Notice : deliveryStatus[m] # "none"}
        /\ n \in Sender /\ n \notin Retriers
  BY NotificationAssumption DEF NotificationTypeOK, SendersKnow, Sender, Retriers
<1>1. /\ senderAt[n] = "start" /\ deliveryStatus[n] = "none"
      /\ noticeRetries' = noticeRetries /\ sends' = sends /\ noticeFaults' = noticeFaults
      /\ deliveryStatus' = [deliveryStatus EXCEPT ![n] = "PENDING"]
      /\ byUpdatedAt' = Append(byUpdatedAt, n)
  BY <1>typ DEF CreateNotice, SendersKnow
<1>2. /\ \A q \in Sender \ {n} : senderAt'[q] = senderAt[q] /\ toDeliver'[q] = toDeliver[q]
      /\ \/ senderAt'[n] = "queue" /\ toDeliver'[n] = <<n>>
         \/ senderAt'[n] = "done" /\ toDeliver'[n] = toDeliver[n]
      /\ senderAt' \in [Sender -> SenderStop] /\ toDeliver' \in [Sender -> Seq(Notice)]
  <2>1. \/ senderAt' = [senderAt EXCEPT ![n] = "queue"]
           /\ toDeliver' = [toDeliver EXCEPT ![n] = <<n>>]
        \/ senderAt' = [senderAt EXCEPT ![n] = "done"] /\ toDeliver' = toDeliver
    BY DEF CreateNotice, SenderTo
  <2>2. /\ senderAt \in [Sender -> SenderStop] /\ n \in Sender
        /\ {"queue", "done"} \subseteq SenderStop
    BY <1>typ DEF SenderStop
  <2>3. toDeliver \in [Sender -> Seq(Notice)] /\ <<n>> \in Seq(Notice)
    BY <1>typ
  <2>4. CASE senderAt' = [senderAt EXCEPT ![n] = "queue"]
             /\ toDeliver' = [toDeliver EXCEPT ![n] = <<n>>]
    <3>1. senderAt' \in [Sender -> SenderStop] /\ senderAt'[n] = "queue"
          /\ \A q \in Sender \ {n} : senderAt'[q] = senderAt[q]
      BY <2>2, <2>4
    <3>2. toDeliver' \in [Sender -> Seq(Notice)] /\ toDeliver'[n] = <<n>>
          /\ \A q \in Sender \ {n} : toDeliver'[q] = toDeliver[q]
      BY <2>2, <2>3, <2>4
    <3> QED
      BY <3>1, <3>2
  <2>5. CASE senderAt' = [senderAt EXCEPT ![n] = "done"] /\ toDeliver' = toDeliver
    <3>1. senderAt' \in [Sender -> SenderStop] /\ senderAt'[n] = "done"
          /\ \A q \in Sender \ {n} : senderAt'[q] = senderAt[q]
      BY <2>2, <2>5
    <3> QED
      BY <2>3, <2>5, <3>1
  <2> QED
    BY <2>1, <2>4, <2>5
<1>3. n \notin ToSet(byUpdatedAt)
  BY <1>typ, <1>1
<1>4. /\ byUpdatedAt' \in Seq(Notice)
      /\ ToSet(byUpdatedAt') = ToSet(byUpdatedAt) \cup {n}
      /\ \A i, j \in DOMAIN byUpdatedAt' : i # j => byUpdatedAt'[i] # byUpdatedAt'[j]
  <2> DEFINE q == byUpdatedAt
             p == byUpdatedAt'
  <2>1. /\ q \in Seq(Notice) /\ p = Append(q, n) /\ n \notin ToSet(q)
        /\ \A i, j \in DOMAIN q : i # j => q[i] # q[j]
    BY <1>typ, <1>1, <1>3 DEF NotificationTypeOK
  <2> HIDE DEF q, p
  <2>2. /\ p \in Seq(Notice) /\ Len(q) \in Nat
        /\ DOMAIN q = 1 .. Len(q) /\ DOMAIN p = 1 .. Len(q) + 1
        /\ \A i \in 1 .. Len(q) : p[i] = q[i]
        /\ p[Len(q) + 1] = n
    BY <2>1
  <2>3. \A i \in 1 .. Len(q) : q[i] # n
    BY <2>1, <2>2 DEF ToSet
  <2>4. ToSet(p) = ToSet(q) \cup {n}
    <3>1. \A i \in DOMAIN p : p[i] \in ToSet(q) \cup {n}
      BY <2>2 DEF ToSet
    <3>2. \A i \in DOMAIN q : q[i] \in ToSet(p)
      BY <2>2 DEF ToSet
    <3>3. n \in ToSet(p)
      BY <2>2 DEF ToSet
    <3>4. ToSet(p) \subseteq ToSet(q) \cup {n}
      BY <3>1 DEF ToSet
    <3>5. ToSet(q) \subseteq ToSet(p)
      BY <3>2 DEF ToSet
    <3> QED
      BY <3>3, <3>4, <3>5
  <2>5. \A i, j \in DOMAIN p : i # j => p[i] # p[j]
    <3> SUFFICES ASSUME NEW i \in DOMAIN p, NEW j \in DOMAIN p, i # j PROVE p[i] # p[j]
      OBVIOUS
    <3>1. CASE i \in 1 .. Len(q) /\ j \in 1 .. Len(q)
      BY <2>1, <2>2, <3>1
    <3>2. CASE i = Len(q) + 1 /\ j \in 1 .. Len(q)
      BY <2>2, <2>3, <3>2
    <3>3. CASE j = Len(q) + 1 /\ i \in 1 .. Len(q)
      BY <2>2, <2>3, <3>3
    <3> QED
      BY <2>2, <3>1, <3>2, <3>3
  <2> QED
    BY <2>2, <2>4, <2>5 DEF p, q
<1>5. ToSet(<<n>>) = {n}
  BY DEF ToSet
<1>6. NotificationTypeOK'
  <2>1. /\ deliveryStatus' \in [Notice -> DeliveryStatus]
        /\ ToSet(byUpdatedAt') = {m \in Notice : deliveryStatus'[m] # "none"}
    BY <1>typ, <1>1, <1>4 DEF DeliveryStatus
  <2>2. \A q \in Sender : ToSet(toDeliver'[q]) \subseteq ToSet(byUpdatedAt')
    BY <1>typ, <1>2, <1>4, <1>5 DEF NotificationTypeOK
  <2> QED
    BY <1>1, <1>2, <1>4, <2>1, <2>2 DEF NotificationTypeOK
<1>7. SendersKnow'
  <2> SUFFICES ASSUME NEW q \in Sender
               PROVE  /\ \A i, j \in DOMAIN toDeliver'[q] :
                            i # j => toDeliver'[q][i] # toDeliver'[q][j]
                      /\ senderAt'[q] \in Queued => toDeliver'[q] # <<>>
                      /\ senderAt'[q] = "delivered" => sends'[Head(toDeliver'[q])] > 0
                      /\ q \in Notice /\ senderAt'[q] = "start" => deliveryStatus'[q] = "none"
                      /\ q \in Tick => senderAt'[q] # "start"
                      /\ senderAt'[q] \in {"select", "increment"} => q \in Retriers
    BY <1>2, <1>4 DEF SendersKnow, Current
  <2>1. CASE q = n /\ senderAt'[n] = "queue" /\ toDeliver'[n] = <<n>>
    <3>1. n \notin Tick
      BY NotificationAssumption
    <3>2. /\ toDeliver'[q] # <<>> /\ DOMAIN toDeliver'[q] = {1}
          /\ senderAt'[q] = "queue"
      BY <2>1
    <3> QED
      BY <2>1, <3>1, <3>2
  <2>2. CASE q = n /\ senderAt'[n] = "done" /\ toDeliver'[n] = toDeliver[n]
    <3>1. n \notin Tick
      BY NotificationAssumption
    <3>2. toDeliver'[q] = toDeliver[n] /\ senderAt'[q] = "done"
      BY <2>2
    <3>3. \A i, j \in DOMAIN toDeliver[n] : i # j => toDeliver[n][i] # toDeliver[n][j]
      BY <1>typ DEF SendersKnow
    <3> QED
      BY <2>2, <3>1, <3>2, <3>3 DEF Queued
  <2>3. CASE q # n
    <3>1. /\ \A i, j \in DOMAIN toDeliver[q] : i # j => toDeliver[q][i] # toDeliver[q][j]
          /\ senderAt[q] \in Queued => toDeliver[q] # <<>>
          /\ senderAt[q] = "delivered" => sends[Head(toDeliver[q])] > 0
          /\ q \in Notice /\ senderAt[q] = "start" => deliveryStatus[q] = "none"
          /\ q \in Tick => senderAt[q] # "start"
          /\ senderAt[q] \in {"select", "increment"} => q \in Retriers
      BY DEF SendersKnow, Current
    <3>2. senderAt'[q] = senderAt[q] /\ toDeliver'[q] = toDeliver[q] /\ sends' = sends
      BY <1>1, <1>2, <2>3
    <3>3. q \in Notice => deliveryStatus'[q] = deliveryStatus[q]
      BY <1>typ, <1>1, <2>3
    <3> QED
      BY <3>1, <3>2, <3>3
  <2> QED
    BY <1>2, <2>1, <2>2, <2>3
<1>8. ASSUME NEW m \in Notice PROVE ToCount(m)' = ToCount(m)
  BY <1>typ, <1>2, RetriersFinite DEF ToCount
<1>9. ASSUME NEW m \in Notice PROVE ToSend(m)' \subseteq ToSend(m)
  <2>1. n \in ToSend(m)' => n \in ToSend(m)
    <3>1. n \in ToSend(m)' => senderAt'[n] = "queue" /\ toDeliver'[n] = <<n>> /\ m = n
      BY <1>2 DEF ToSend, Current
    <3> QED
      BY <1>typ, <1>1, <3>1 DEF ToSend
  <2>2. \A q \in Sender \ {n} : q \in ToSend(m)' => q \in ToSend(m)
    BY <1>2 DEF ToSend, Current
  <2> QED
    BY <2>1, <2>2 DEF ToSend
<1>10. CountsBounded'
  BY <1>1, <1>8 DEF CountsBounded, Retriers
<1>11. SendsCounted'
  <2> SUFFICES ASSUME NEW m \in Notice
               PROVE  /\ sends[m] + Cardinality(ToSend(m)') <= noticeRetries[m] + 1
                      /\ deliveryStatus'[m] = "DELIVERED" => sends[m] > 0
    BY <1>1 DEF SendsCounted
  <2>1. Cardinality(ToSend(m)') \in Nat /\ Cardinality(ToSend(m)') <= Cardinality(ToSend(m))
    BY <1>9, SetsFinite, FS_Subset, FS_CardinalityType
  <2>2. /\ sends[m] + Cardinality(ToSend(m)) <= noticeRetries[m] + 1
        /\ sends[m] \in Nat /\ noticeRetries[m] \in Nat /\ Cardinality(ToSend(m)) \in Nat
    BY SetsFinite DEF SendsCounted, NotificationTypeOK
  <2>3. deliveryStatus'[m] = "DELIVERED" => deliveryStatus[m] = "DELIVERED"
    BY <1>typ, <1>1
  <2> QED
    BY <2>1, <2>2, <2>3 DEF SendsCounted
<1> QED
  BY <1>6, <1>7, <1>10, <1>11

(* A process that takes up notifications which may still be retried, each  *)
(* once, keeps the bound: nobody else can have counted past it.            *)
LEMMA TakingKeeps ==
    ASSUME SenderInv, NEW s \in Retriers, NEW batch \in Seq(Notice), batch # <<>>,
           senderAt[s] \in {"start", "select"},
           \A i, j \in DOMAIN batch : i # j => batch[i] # batch[j],
           \A i \in DOMAIN batch : batch[i] \in ToSet(byUpdatedAt) /\ CanRetry(batch[i]),
           toDeliver' = [toDeliver EXCEPT ![s] = batch], SenderTo(s, "increment"),
           UNCHANGED <<noticeTable, sends, noticeFaults>>
    PROVE  SenderInv'
<1> USE DEF SenderInv
<1>typ. /\ senderAt \in [Sender -> SenderStop] /\ toDeliver \in [Sender -> Seq(Notice)]
        /\ s \in Sender
  BY RetriersFinite DEF NotificationTypeOK, SendersKnow
<1>1. /\ deliveryStatus' = deliveryStatus /\ noticeRetries' = noticeRetries
      /\ byUpdatedAt' = byUpdatedAt /\ sends' = sends /\ noticeFaults' = noticeFaults
  BY DEF noticeTable
<1>2. /\ \A q \in Sender \ {s} : senderAt'[q] = senderAt[q] /\ toDeliver'[q] = toDeliver[q]
      /\ senderAt'[s] = "increment" /\ toDeliver'[s] = batch
      /\ senderAt' \in [Sender -> SenderStop] /\ toDeliver' \in [Sender -> Seq(Notice)]
  BY <1>typ DEF SenderTo, SenderStop
<1>3. ToSet(batch) \subseteq ToSet(byUpdatedAt)
  BY DEF ToSet
<1>4. NotificationTypeOK'
  BY <1>1, <1>2, <1>3 DEF NotificationTypeOK
<1>5. SendersKnow'
  <2> SUFFICES ASSUME NEW q \in Sender
               PROVE  /\ \A i, j \in DOMAIN toDeliver'[q] :
                            i # j => toDeliver'[q][i] # toDeliver'[q][j]
                      /\ senderAt'[q] \in Queued => toDeliver'[q] # <<>>
                      /\ senderAt'[q] = "delivered" => sends'[Head(toDeliver'[q])] > 0
                      /\ q \in Notice /\ senderAt'[q] = "start" => deliveryStatus'[q] = "none"
                      /\ q \in Tick => senderAt'[q] # "start"
                      /\ senderAt'[q] \in {"select", "increment"} => q \in Retriers
    BY <1>1, <1>2 DEF SendersKnow, Current
  <2>1. CASE q = s
    BY <1>2, <2>1
  <2>2. CASE q # s
    <3>1. /\ \A i, j \in DOMAIN toDeliver[q] : i # j => toDeliver[q][i] # toDeliver[q][j]
          /\ senderAt[q] \in Queued => toDeliver[q] # <<>>
          /\ senderAt[q] = "delivered" => sends[Head(toDeliver[q])] > 0
          /\ q \in Notice /\ senderAt[q] = "start" => deliveryStatus[q] = "none"
          /\ q \in Tick => senderAt[q] # "start"
          /\ senderAt[q] \in {"select", "increment"} => q \in Retriers
      BY DEF SendersKnow, Current
    <3>2. senderAt'[q] = senderAt[q] /\ toDeliver'[q] = toDeliver[q] /\ sends' = sends
      BY <1>1, <1>2, <2>2
    <3>3. q \in Notice => deliveryStatus'[q] = deliveryStatus[q]
      BY <1>1
    <3> QED
      BY <3>1, <3>2, <3>3
  <2> QED
    BY <2>1, <2>2
<1>6. ASSUME NEW n \in Notice
      PROVE  noticeRetries[n] + Cardinality(ToCount(n)') < maxRetries + Cardinality(Retriers)
  <2>1. ToCount(n)' \subseteq Retriers
    BY DEF ToCount, Retriers
  <2>2. /\ Cardinality(ToCount(n)') \in Nat /\ Cardinality(ToCount(n)') <= Cardinality(Retriers)
        /\ Cardinality(Retriers) \in Nat /\ maxRetries \in Nat /\ noticeRetries[n] \in Nat
    BY <2>1, RetriersFinite, NotificationAssumption, FS_Subset, FS_CardinalityType
       DEF NotificationTypeOK
  <2>3. CASE s \in ToCount(n)'
    <3>1. CanRetry(n)
      BY <1>2, <2>3 DEF ToCount
    <3> QED
      BY <2>2, <3>1 DEF CanRetry
  <2>4. CASE s \notin ToCount(n)'
    <3>1. ToCount(n)' \subseteq ToCount(n)
      BY <1>2, <2>4, RetriersFinite DEF ToCount, Retriers
    <3>2. /\ Cardinality(ToCount(n)') <= Cardinality(ToCount(n))
          /\ Cardinality(ToCount(n)) \in Nat
      BY <3>1, SetsFinite, FS_Subset
    <3>3. noticeRetries[n] + Cardinality(ToCount(n)) < maxRetries + Cardinality(Retriers)
      BY DEF CountsBounded
    <3> QED
      BY <2>2, <3>2, <3>3
  <2> QED
    BY <2>3, <2>4
<1>7. CountsBounded'
  BY <1>1, <1>6 DEF CountsBounded, Retriers
<1>8. ASSUME NEW n \in Notice PROVE ToSend(n)' \subseteq ToSend(n)
  BY <1>2 DEF ToSend, Current
<1>9. SendsCounted'
  <2> SUFFICES ASSUME NEW n \in Notice
               PROVE  sends[n] + Cardinality(ToSend(n)') <= noticeRetries[n] + 1
    BY <1>1 DEF SendsCounted
  <2>1. Cardinality(ToSend(n)') \in Nat /\ Cardinality(ToSend(n)') <= Cardinality(ToSend(n))
    BY <1>8, SetsFinite, FS_Subset, FS_CardinalityType
  <2>2. /\ sends[n] + Cardinality(ToSend(n)) <= noticeRetries[n] + 1
        /\ sends[n] \in Nat /\ noticeRetries[n] \in Nat /\ Cardinality(ToSend(n)) \in Nat
    BY SetsFinite DEF SendsCounted, NotificationTypeOK
  <2> QED
    BY <2>1, <2>2
<1> QED
  BY <1>4, <1>5, <1>7, <1>9

(* A tick that selects takes up a queue of that kind: the positions it     *)
(* chose are distinct, and so are the notifications there.                 *)
LEMMA SelectKeeps ==
    ASSUME SenderInv, NEW t \in Sender, SelectFailed(t)
    PROVE  SenderInv'
<1> DEFINE due == FindFailedForRetry
<1>1. PICK row \in [1 .. Cardinality(due) -> due] :
         /\ \A k, l \in DOMAIN row : k < l => row[k] < row[l]
         /\ toDeliver' = [toDeliver EXCEPT ![t] = [k \in DOMAIN row |-> byUpdatedAt[row[k]]]]
  BY DEF SelectFailed
<1>2. /\ t \in Tick /\ senderAt[t] = "select" /\ due # {} /\ SenderTo(t, "increment")
      /\ UNCHANGED <<noticeTable, sends, noticeFaults>>
  BY DEF SelectFailed
<1>3. /\ byUpdatedAt \in Seq(Notice) /\ Len(byUpdatedAt) \in Nat
      /\ DOMAIN byUpdatedAt = 1 .. Len(byUpdatedAt)
      /\ \A i, j \in DOMAIN byUpdatedAt : i # j => byUpdatedAt[i] # byUpdatedAt[j]
  BY DEF SenderInv, SendersKnow, NotificationTypeOK
<1>4. due \subseteq 1 .. Len(byUpdatedAt) /\ \A i \in due : CanRetry(byUpdatedAt[i])
  BY <1>3 DEF FindFailedForRetry
<1> HIDE DEF due
<1>5. Cardinality(due) \in Nat \ {0}
  <2>1. IsFiniteSet(1 .. Len(byUpdatedAt))
    BY <1>3, FS_Interval
  <2>2. IsFiniteSet(due)
    BY <1>4, <2>1, FS_Subset
  <2> QED
    BY <1>2, <2>2, FS_CardinalityType, FS_EmptySet
<1> DEFINE c == Cardinality(due)
           batch == [k \in 1 .. c |-> byUpdatedAt[row[k]]]
<1> HIDE DEF c
<1>6. /\ row \in [1 .. c -> due] /\ DOMAIN row = 1 .. c /\ c \in Nat \ {0}
  BY <1>1, <1>5 DEF c
<1>7. \A k \in 1 .. c : /\ row[k] \in 1 .. Len(byUpdatedAt) /\ row[k] \in Nat
                        /\ byUpdatedAt[row[k]] \in Notice /\ CanRetry(byUpdatedAt[row[k]])
                        /\ byUpdatedAt[row[k]] \in ToSet(byUpdatedAt)
  <2> SUFFICES ASSUME NEW k \in 1 .. c
               PROVE  /\ row[k] \in 1 .. Len(byUpdatedAt) /\ row[k] \in Nat
                      /\ byUpdatedAt[row[k]] \in Notice /\ CanRetry(byUpdatedAt[row[k]])
                      /\ byUpdatedAt[row[k]] \in ToSet(byUpdatedAt)
    OBVIOUS
  <2>1. row[k] \in due
    BY <1>6
  <2>2. row[k] \in 1 .. Len(byUpdatedAt) /\ CanRetry(byUpdatedAt[row[k]])
    BY <1>4, <2>1
  <2>3. row[k] \in Nat /\ row[k] \in DOMAIN byUpdatedAt
    BY <1>3, <2>2
  <2>4. byUpdatedAt[row[k]] \in Notice
    BY <1>3, <2>2
  <2>5. byUpdatedAt[row[k]] \in ToSet(byUpdatedAt)
    BY <2>3 DEF ToSet
  <2> QED
    BY <2>2, <2>3, <2>4, <2>5
<1>8. \A k, l \in 1 .. c : k # l => row[k] # row[l]
  <2> SUFFICES ASSUME NEW k \in 1 .. c, NEW l \in 1 .. c, k # l PROVE row[k] # row[l]
    OBVIOUS
  <2>1. k \in Nat /\ l \in Nat /\ row[k] \in Nat /\ row[l] \in Nat
    BY <1>6, <1>7
  <2>2. (k < l => row[k] < row[l]) /\ (l < k => row[l] < row[k])
    BY <1>1, <1>6
  <2> QED
    BY <2>1, <2>2
<1>9. batch \in Seq(Notice) /\ DOMAIN batch = 1 .. c /\ batch # <<>>
  <2>1. batch \in [1 .. c -> Notice]
    BY <1>7
  <2>2. batch \in Seq(Notice) /\ DOMAIN batch = 1 .. c
    BY <1>6, <2>1
  <2>3. 1 \in DOMAIN batch
    BY <1>6
  <2> QED
    BY <2>2, <2>3
<1>10. \A i, j \in DOMAIN batch : i # j => batch[i] # batch[j]
  BY <1>3, <1>7, <1>8
<1>11. \A i \in DOMAIN batch : batch[i] \in ToSet(byUpdatedAt) /\ CanRetry(batch[i])
  BY <1>7
<1>12. toDeliver' = [toDeliver EXCEPT ![t] = batch]
  BY <1>1, <1>6
<1> HIDE DEF batch
<1>13. t \in Retriers
  BY <1>2 DEF Retriers
<1> QED
  BY <1>2, <1>9, <1>10, <1>11, <1>12, <1>13, TakingKeeps

(* A call of RetryNotification takes up a queue of one.                    *)
LEMMA CallKeeps ==
    ASSUME SenderInv, NEW n \in Notice, NEW c \in RetryCall, CallRetry(c, n)
    PROVE  SenderInv'
<1> DEFINE batch == <<n>>
<1>1. /\ batch \in Seq(Notice) /\ batch # <<>> /\ DOMAIN batch = {1} /\ batch[1] = n
  OBVIOUS
<1>2. /\ CanRetry(n) /\ senderAt[c] = "start" /\ SenderTo(c, "increment")
      /\ toDeliver' = [toDeliver EXCEPT ![c] = batch]
      /\ UNCHANGED <<noticeTable, sends, noticeFaults>>
  BY DEF CallRetry
<1>3. n \in ToSet(byUpdatedAt)
  BY <1>2 DEF CanRetry, SenderInv, NotificationTypeOK
<1> HIDE DEF batch
<1>4. c \in Retriers
  BY DEF Retriers
<1>5. \A i, j \in DOMAIN batch : i # j => batch[i] # batch[j]
  BY <1>1
<1>6. \A i \in DOMAIN batch : batch[i] \in ToSet(byUpdatedAt) /\ CanRetry(batch[i])
  BY <1>1, <1>2, <1>3
<1>7. senderAt[c] \in {"start", "select"}
  BY <1>2
<1>8. batch \in Seq(Notice) /\ batch # <<>>
  BY <1>1
<1> QED
  BY ONLY SenderInv, <1>2, <1>4, <1>5, <1>6, <1>7, <1>8, TakingKeeps, Zenon

(* Every step of the service, and a stutter, keeps the invariant.          *)
LEMMA SenderNext == SenderInv /\ [NotificationNext]_noticeVars => SenderInv'
<1> SUFFICES ASSUME SenderInv, [NotificationNext]_noticeVars PROVE SenderInv'
  OBVIOUS
<1>1. ASSUME NEW s \in Sender, Works(s, Current(s)) PROVE SenderInv'
  BY <1>1, WorksTypes, WorksCounts, WorksSends DEF SenderInv
<1>2. ASSUME NEW s \in Sender,
             \/ SenderStep(s) \/ IncrementThrows(s) \/ UpdateThrowsInTry(s)
             \/ UpdateThrowsInCatch(s) \/ SenderDies(s)
      PROVE  SenderInv'
  BY <1>1, <1>2, StepsWork, SelectKeeps DEF SenderInv, SenderStep
<1>3. CASE UNCHANGED noticeVars
  <2>1. /\ deliveryStatus' = deliveryStatus /\ noticeRetries' = noticeRetries
        /\ byUpdatedAt' = byUpdatedAt /\ sends' = sends /\ senderAt' = senderAt
        /\ toDeliver' = toDeliver /\ noticeFaults' = noticeFaults
    BY <1>3 DEF noticeVars, noticeTable
  <2>2. NotificationTypeOK'
    BY <2>1 DEF SenderInv, NotificationTypeOK
  <2>3. SendersKnow'
    BY <2>1 DEF SenderInv, SendersKnow, Current
  <2>4. \A n \in Notice : ToCount(n)' = ToCount(n) /\ ToSend(n)' = ToSend(n)
    BY <2>1 DEF ToCount, ToSend, Current
  <2>5. CountsBounded' /\ SendsCounted'
    BY <2>1, <2>4 DEF SenderInv, CountsBounded, SendsCounted
  <2> QED
    BY <2>2, <2>3, <2>5 DEF SenderInv
<1> QED
  BY <1>2, <1>3, CreateKeeps, CallKeeps DEF NotificationNext

(* With nobody on the way left out, the bounds follow.                     *)
LEMMA SenderBounds == SenderInv => SendsBounded
<1> SUFFICES ASSUME SenderInv, NEW n \in Notice
             PROVE  /\ noticeRetries[n] < maxRetries + Cardinality(Retriers)
                    /\ sends[n] <= noticeRetries[n] + 1
                    /\ deliveryStatus[n] = "DELIVERED" => sends[n] > 0
  BY DEF SendsBounded, Retriers
<1>1. /\ Cardinality(ToCount(n)) \in Nat /\ Cardinality(ToSend(n)) \in Nat
      /\ noticeRetries[n] \in Nat /\ sends[n] \in Nat
      /\ maxRetries \in Nat /\ Cardinality(Retriers) \in Nat
  BY SetsFinite, RetriersFinite, NotificationAssumption DEF SenderInv, NotificationTypeOK
<1> QED
  BY <1>1 DEF SenderInv, CountsBounded, SendsCounted

(* However many ticks of however many replicas and calls of                *)
(* RetryNotification hold one notification at a time, its count passes     *)
(* maxRetries by less than their number, it is sent at most once more than *)
(* it was counted, and one that is DELIVERED was sent                      *)
(* (NotificationRetryWorker.ts:43-76, RetryNotification.ts:24-47).         *)
THEOREM SendsAreBounded == NotificationSpec => [](NotificationTypeOK /\ SendsBounded)
<1>1. SenderInv => NotificationTypeOK /\ SendsBounded
  BY SenderBounds DEF SenderInv
<1> QED
  BY <1>1, SenderInit, SenderNext, PTL DEF NotificationSpec
=============================================================================
