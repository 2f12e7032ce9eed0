------------------------ MODULE NotificationService ------------------------
(***************************************************************************)
(* notification-service: SendNotification stores a notification and        *)
(* delivers it after its answer; RetryNotification and the ticks of        *)
(* NotificationRetryWorker deliver what FAILED again.  Nothing claims a    *)
(* notification: a tick does not wait for the one before, replicas tick    *)
(* on their own, and every update is by id alone.                          *)
(*                                                                         *)
(* findFailedForRetry takes the `limit` FAILED rows longest not updated    *)
(* and only then drops those without retries left.  The deduplication mark *)
(* changes nothing but a log line and is left out, with templates and      *)
(* published events.                                                       *)
(***************************************************************************)
EXTENDS Integers, FiniteSets, Sequences, SequencesExt

CONSTANTS
    Notice,           \* notifications; their first delivery is a process of that name
    Tick,             \* ticks of all retry workers that may run at one time
    RetryCall,        \* calls of RetryNotification
    maxRetries,       \* of every notification
    limit,            \* findFailedForRetry: limit
    MaxNoticeFaults   \* bound: errors of the database and deaths of processes

ASSUME NotificationAssumption ==
    /\ IsFiniteSet(Notice) /\ IsFiniteSet(Tick) /\ IsFiniteSet(RetryCall)
    /\ Notice \cap (Tick \cup RetryCall) = {} /\ Tick \cap RetryCall = {}
    /\ maxRetries \in Nat \ {0} /\ limit \in Nat \ {0} /\ MaxNoticeFaults \in Nat

Sender == Notice \cup Tick \cup RetryCall

VARIABLES
    deliveryStatus,   \* [Notice -> DeliveryStatus]
    noticeRetries,    \* [Notice -> Nat]  retryCount
    byUpdatedAt,      \* the notifications there are, the one longest not updated first
    sends,            \* [Notice -> Nat]  calls of provider.send
    senderAt,         \* where each process is
    toDeliver,        \* [Sender -> Seq(Notice)]  what it has still to deliver
    noticeFaults      \* errors and deaths so far

noticeTable == <<deliveryStatus, noticeRetries, byUpdatedAt>>
noticeVars == <<noticeTable, sends, senderAt, toDeliver, noticeFaults>>

DeliveryStatus == {"none", "PENDING", "QUEUED", "DELIVERED", "FAILED"}
SenderStop == {"start", "select", "increment", "queue", "send", "delivered", "failed", "catch", "done"}

NotificationInit ==
    /\ deliveryStatus = [n \in Notice |-> "none"]
    /\ noticeRetries = [n \in Notice |-> 0]
    /\ byUpdatedAt = <<>>
    /\ sends = [n \in Notice |-> 0]
    /\ senderAt = [s \in Sender |-> IF s \in Tick THEN "select" ELSE "start"]
    /\ toDeliver = [s \in Sender |-> <<>>]
    /\ noticeFaults = 0

-----------------------------------------------------------------------------
SenderTo(s, stop) == senderAt' = [senderAt EXCEPT ![s] = stop]
Current(s) == Head(toDeliver[s])
NoticeFault == noticeFaults < MaxNoticeFaults /\ noticeFaults' = noticeFaults + 1

(* The loop of a tick goes on; deliverNotification and deliverRetry end. *)
NextNotice(s) ==
    /\ toDeliver' = [toDeliver EXCEPT ![s] = Tail(@)]
    /\ SenderTo(s, IF s \notin Tick THEN "done"
                   ELSE IF Len(toDeliver[s]) = 1 THEN "select" ELSE "increment")

Updated(n) ==
    \E i \in DOMAIN byUpdatedAt :
        byUpdatedAt[i] = n /\ byUpdatedAt' = Append(RemoveAt(byUpdatedAt, i), n)
UpdateStatus(n, to) ==
    /\ deliveryStatus' = [deliveryStatus EXCEPT ![n] = to]
    /\ Updated(n)
    /\ UNCHANGED noticeRetries
UpdateStatusThrows(n, to) == NoticeFault /\ (UpdateStatus(n, to) \/ UNCHANGED noticeTable)

(* SendNotification.execute; a scheduled notification is delivered by nobody. *)
CreateNotice(n) ==
    /\ senderAt[n] = "start"
    /\ deliveryStatus' = [deliveryStatus EXCEPT ![n] = "PENDING"]
    /\ byUpdatedAt' = Append(byUpdatedAt, n)
    /\ \/ SenderTo(n, "queue") /\ toDeliver' = [toDeliver EXCEPT ![n] = <<n>>]
       \/ SenderTo(n, "done") /\ UNCHANGED toDeliver
    /\ UNCHANGED <<noticeRetries, sends, noticeFaults>>

(* MUTANT: notifications without retries left are selected too. *)
AnyFailed(n) == deliveryStatus[n] = "FAILED"
CanRetry(n) == deliveryStatus[n] = "FAILED" /\ noticeRetries[n] < maxRetries

(* MUTANT: the rows last updated come first. *)
FindNewestForRetry ==
    LET failed == {i \in DOMAIN byUpdatedAt : deliveryStatus[byUpdatedAt[i]] = "FAILED"}
    IN  {i \in failed : /\ Cardinality({j \in failed : j > i}) < limit
                        /\ CanRetry(byUpdatedAt[i])}

(* Where in the order the selection stands: the first of those that FAILED *)
(* are taken before the ones out of retries are dropped.                   *)
FindFailedForRetry ==
    LET failed == {i \in DOMAIN byUpdatedAt : deliveryStatus[byUpdatedAt[i]] = "FAILED"}
    IN  {i \in failed : /\ Cardinality({j \in failed : j < i}) < limit
                        /\ CanRetry(byUpdatedAt[i])}

SelectFailed(t) ==
    /\ t \in Tick /\ senderAt[t] = "select"
    /\ FindFailedForRetry # {}
    /\ \E row \in [1 .. Cardinality(FindFailedForRetry) -> FindFailedForRetry] :
          /\ \A k, l \in DOMAIN row : k < l => row[k] < row[l]
          /\ toDeliver' = [toDeliver EXCEPT ![t] = [k \in DOMAIN row |-> byUpdatedAt[row[k]]]]
    /\ SenderTo(t, "increment")
    /\ UNCHANGED <<noticeTable, sends, noticeFaults>>

(* RetryNotification.execute: findById and canRetry. *)
CallRetry(c, n) ==
    /\ c \in RetryCall /\ senderAt[c] = "start"
    /\ CanRetry(n)
    /\ toDeliver' = [toDeliver EXCEPT ![c] = <<n>>]
    /\ SenderTo(c, "increment")
    /\ UNCHANGED <<noticeTable, sends, noticeFaults>>

CountRetry(n) ==
    /\ noticeRetries' = [noticeRetries EXCEPT ![n] = @ + 1]
    /\ Updated(n)
    /\ UNCHANGED deliveryStatus

IncrementRetry(s) ==
    /\ senderAt[s] = "increment"
    /\ CountRetry(Current(s))
    /\ SenderTo(s, "queue")
    /\ UNCHANGED <<sends, toDeliver, noticeFaults>>

(* A tick catches the error, a call answers with it. *)
IncrementThrows(s) ==
    /\ senderAt[s] = "increment"
    /\ NoticeFault
    /\ CountRetry(Current(s)) \/ UNCHANGED noticeTable
    /\ IF s \in Tick THEN SenderTo(s, "catch") /\ UNCHANGED toDeliver ELSE NextNotice(s)
    /\ UNCHANGED sends

Enqueue(s) ==
    /\ senderAt[s] = "queue"
    /\ UpdateStatus(Current(s), "QUEUED")
    /\ SenderTo(s, "send")
    /\ UNCHANGED <<sends, toDeliver, noticeFaults>>

(* provider.send succeeds, reports an error, or throws. *)
SendNotice(s) ==
    /\ senderAt[s] = "send"
    /\ sends' = [sends EXCEPT ![Current(s)] = @ + 1]
    /\ \E outcome \in {"delivered", "failed", "catch"} : SenderTo(s, outcome)
    /\ UNCHANGED <<noticeTable, toDeliver, noticeFaults>>

Settle(s) ==
    /\ \/ senderAt[s] = "delivered" /\ UpdateStatus(Current(s), "DELIVERED")
       \/ senderAt[s] \in {"failed", "catch"} /\ UpdateStatus(Current(s), "FAILED")
    /\ NextNotice(s)
    /\ UNCHANGED <<sends, noticeFaults>>

(* An update inside the try block throws, or one in the catch block, which is swallowed. *)
UpdateThrowsInTry(s) ==
    /\ \/ senderAt[s] = "queue" /\ UpdateStatusThrows(Current(s), "QUEUED")
       \/ senderAt[s] = "delivered" /\ UpdateStatusThrows(Current(s), "DELIVERED")
       \/ senderAt[s] = "failed" /\ UpdateStatusThrows(Current(s), "FAILED")
    /\ SenderTo(s, "catch")
    /\ UNCHANGED <<sends, toDeliver>>
UpdateThrowsInCatch(s) ==
    /\ senderAt[s] = "catch" /\ UpdateStatusThrows(Current(s), "FAILED")
    /\ NextNotice(s)
    /\ UNCHANGED sends

(* The process dies; its timer starts again with it. *)
SenderDies(s) ==
    /\ senderAt[s] \notin {"start", "select", "done"}
    /\ NoticeFault
    /\ toDeliver' = [toDeliver EXCEPT ![s] = <<>>]
    /\ SenderTo(s, IF s \in Tick THEN "select" ELSE "done")
    /\ UNCHANGED <<noticeTable, sends>>

SenderStep(s) ==
    \/ s \in Tick /\ SelectFailed(s)
    \/ IncrementRetry(s) \/ Enqueue(s) \/ SendNotice(s) \/ Settle(s)

NotificationNext ==
    \/ \E n \in Notice : CreateNotice(n) \/ \E c \in RetryCall : CallRetry(c, n)
    \/ \E s \in Sender : \/ SenderStep(s)
                         \/ IncrementThrows(s) \/ UpdateThrowsInTry(s) \/ UpdateThrowsInCatch(s)
                         \/ SenderDies(s)

(* Timers fire, calls return or throw. *)
NotificationFairness == \A s \in Sender : WF_noticeVars(SenderStep(s))
NotificationSpec == NotificationInit /\ [][NotificationNext]_noticeVars /\ NotificationFairness

-----------------------------------------------------------------------------
(* Properties. *)

NotificationTypeOK ==
    /\ deliveryStatus \in [Notice -> DeliveryStatus]
    /\ noticeRetries \in [Notice -> Nat] /\ sends \in [Notice -> Nat]
    /\ \A i, j \in DOMAIN byUpdatedAt : i # j => byUpdatedAt[i] # byUpdatedAt[j]
    /\ ToSet(byUpdatedAt) = {n \in Notice : deliveryStatus[n] # "none"}
    /\ senderAt \in [Sender -> SenderStop]
    /\ \A s \in Sender : ToSet(toDeliver[s]) \subseteq ToSet(byUpdatedAt)
    /\ noticeFaults \in 0 .. MaxNoticeFaults

(* However many ticks and calls hold one notification, all of which read   *)
(* its count before any of them raised it, the count passes maxRetries by  *)
(* less than their number, no message goes out that was not counted        *)
(* before, and one that is DELIVERED went out                              *)
(* (NotificationRetryWorker.ts:43-76, RetryNotification.ts:24-47).         *)
SendsBounded ==
    \A n \in Notice :
        /\ noticeRetries[n] < maxRetries + Cardinality(Tick \cup RetryCall)
        /\ sends[n] <= noticeRetries[n] + 1
        /\ deliveryStatus[n] = "DELIVERED" => sends[n] > 0

Waits(n) == deliveryStatus[n] = "FAILED" /\ noticeRetries[n] < maxRetries

(* The places ahead of n that are held by notifications out of retries. *)
SpentAhead(n) ==
    {i \in DOMAIN byUpdatedAt : /\ deliveryStatus[byUpdatedAt[i]] = "FAILED"
                                /\ noticeRetries[byUpdatedAt[i]] >= maxRetries
                                /\ \E j \in DOMAIN byUpdatedAt : i < j /\ byUpdatedAt[j] = n}

(* A notification that failed does not wait for its retry for ever behind  *)
(* others that are retried: each of those moves to the end of the order.   *)
(* Only where `limit` that are out of retries stand ahead of it, those are *)
(* selected in its place and dropped afterwards                            *)
(* (PrismaNotificationRepository.ts:107-116).                              *)
RetriesComeAround == \A n \in Notice : []<>(~Waits(n) \/ Cardinality(SpentAhead(n)) >= limit)

(* "Retry worker: re-processes FAILED notifications with retryCount <      *)
(* maxRetries" (agents/notification-workflow-agent/GEMINI.md:12): none of  *)
(* them waits for ever.                                                    *)
FailedAreReprocessed == \A n \in Notice : []<>~Waits(n)
=============================================================================
