-------------------------- MODULE PaymentService --------------------------
(***************************************************************************)
(* payment-service: initiating, confirming, cancelling and refunding a     *)
(* payment, and the webhooks of the gateway.  Each API operation takes a   *)
(* Redis lock of its own name, so two confirmations exclude each other but *)
(* a confirmation and a cancellation do not; webhooks take none.  An       *)
(* idempotency store keeps initiations and refunds with one key, and       *)
(* deliveries of one webhook, from being carried out twice.  Every await   *)
(* is a step of its own.                                                   *)
(*                                                                         *)
(* The currency, the audit trail's contents, the cache, the invoices and   *)
(* the tenant check are not part of the state, and publishing is           *)
(* fire-and-forget.  Amounts are whole cents and all payments are of one   *)
(* amount.  A webhook of another type than these four only adds an audit   *)
(* entry.                                                                  *)
(***************************************************************************)
EXTENDS Integers

CONSTANTS
    Request,        \* HTTP requests: of staff, of retrying clients, of the gateway
    Payment,        \* payments there are or will be
    Booking,        \* bookings they pay for
    BookingOf,      \* the booking of each payment
    Key,            \* Idempotency-Key headers and webhook event ids
    None,           \* no key, no holder
    Amount,         \* the amount of a payment
    Workload,       \* the assignments of jobs to requests to consider
    StartStatus,    \* the assignments of statuses to payments to start from
    HoldersTimely,  \* TRUE: critical sections and keyed requests end before their TTL
    MayFail         \* TRUE: Redis, the database and the replicas may fail

PaymentStatus == {"PENDING", "PROCESSING", "AUTHORIZED", "CAPTURED", "SUCCESS", "FAILED",
                  "REFUNDED", "PARTIALLY_REFUNDED", "CANCELLED"}

(* "none" stands for a payment that has not been initiated. *)
Status == PaymentStatus \cup {"none"}
Api == {"initiate", "confirm", "cancel", "refund"}
WebhookEventType == {"authorized", "captured", "failed", "voided"}
Job == [op: Api \cup WebhookEventType, pay: Payment, amount: Nat, key: Key \cup {None}]
Resource == ({"initiate"} \X Booking) \cup (Api \X Payment)

ASSUME PaymentAssumption ==
    /\ BookingOf \in [Payment -> Booking]
    /\ None \notin Key \cup Request
    /\ Amount \in Nat \ {0}
    /\ Workload \subseteq [Request -> Job]
    /\ \A w \in Workload, r \in Request :
          /\ w[r].op = "refund" => w[r].amount > 0           \* processRefundSchema
          /\ w[r].op \in {"confirm", "cancel"} => w[r].key = None
          /\ w[r].op \in WebhookEventType => w[r].key # None
    /\ StartStatus \subseteq [Payment -> Status \ {"REFUNDED", "PARTIALLY_REFUNDED"}]
    /\ \A w \in Workload, r \in Request : w[r].op = "initiate" =>   \* create makes a new id
          /\ \A s \in StartStatus : s[w[r].pay] = "none"
          /\ \A q \in Request \ {r} : w[q].op = "initiate" => w[q].pay # w[r].pay
    /\ {HoldersTimely, MayFail} \subseteq BOOLEAN

VARIABLES
    status,     \* [Payment -> Status]
    refunded,   \* [Payment -> Nat]  sum of its Refund rows, which are never changed
    credits,    \* [Payment -> Nat]  number of its CREDIT ledger entries
    debits,     \* [Payment -> Nat]  sum of its DEBIT ledger entries
    lock,       \* [Resource -> Request or None]  owner of the token under the Redis key
    idem,       \* [Key -> "absent", "PROCESSING" or "stored"]  the idempotency store
    job,        \* what each request asks for; never changes
    pc,         \* where each handler is
    known,      \* a refund's `alreadyRefunded`
    made,       \* the requests that have inserted their Payment or Refund row
    outcome     \* how the request ended, or is about to

payments == <<status, refunded>>
ledger == <<credits, debits>>
vars == <<payments, ledger, lock, idem, job, pc, known, made, outcome>>

Label == {"check", "claim", "lock", "read", "total", "create", "status", "audit",
          "ledger", "invalidate", "unlock", "store", "done"}
Outcome == {"open", "ok", "refused", "conflict", "replayed", "error", "unstored", "crashed"}

Of(r) == job[r].pay
LockKey(r) == IF job[r].op = "initiate" THEN <<"initiate", BookingOf[Of(r)]>>
                                        ELSE <<job[r].op, Of(r)>>

Init ==
    /\ job \in Workload
    /\ status \in StartStatus
    /\ refunded = [p \in Payment |-> 0]
    /\ credits = [p \in Payment |-> 0]
    /\ debits = [p \in Payment |-> 0]
    /\ lock = [x \in Resource |-> None]
    /\ idem = [k \in Key |-> "absent"]
    /\ pc = [r \in Request |-> IF job[r].key # None THEN "check" ELSE "lock"]
    /\ known = [r \in Request |-> 0]
    /\ made = {}
    /\ outcome = [r \in Request |-> "open"]

-----------------------------------------------------------------------------
(* Control. *)

Goto(r, label) == pc' = [pc EXCEPT ![r] = label]
End(r, how) == outcome' = [outcome EXCEPT ![r] = how]

(* The answer goes through res.json, which the middleware has wrapped. *)
Reply(r, how) ==
    /\ End(r, how)
    /\ Goto(r, IF job[r].key = None THEN "done" ELSE "store")

(* The handler returns or throws.  A webhook that throws stores nothing. *)
Leave(r, how) ==
    /\ End(r, how)
    /\ Goto(r, IF job[r].op \in Api THEN "unlock" ELSE IF how = "error" THEN "done" ELSE "store")

(* Between SET and the release script of withLock. *)
Inside(r) ==
    /\ job[r].op \in Api
    /\ pc[r] \in {"read", "total", "create", "status", "audit", "ledger", "invalidate", "unlock"}

(* Between markProcessing and what ends it. *)
Claiming(r) == job[r].key # None /\ pc[r] \notin {"check", "claim", "done"}

-----------------------------------------------------------------------------
(* The idempotency store. *)

(* A failed GET counts as nothing stored. *)
Check(r) ==
    /\ pc[r] = "check"
    /\ \/ /\ idem[job[r].key] = "PROCESSING"
          /\ Goto(r, "done") /\ End(r, "conflict")
       \/ /\ idem[job[r].key] = "stored"
          /\ Goto(r, "done") /\ End(r, "replayed")
       \/ /\ idem[job[r].key] = "absent" \/ MayFail
          /\ Goto(r, "claim")
          /\ UNCHANGED outcome
    /\ UNCHANGED <<payments, ledger, lock, idem, job, known, made>>

(* MUTANT: SET without NX. *)
UnclaimedAnyway(k) == TRUE

(* markProcessing: SET ... NX succeeds. *)
Unclaimed(k) == idem[k] = "absent"

Claim(r) ==
    /\ pc[r] = "claim"
    /\ IF Unclaimed(job[r].key)
       THEN /\ idem' = [idem EXCEPT ![job[r].key] = "PROCESSING"]
            /\ Goto(r, IF job[r].op \in Api THEN "lock" ELSE "read")
            /\ UNCHANGED outcome
       ELSE /\ Goto(r, "done") /\ End(r, "conflict")
            /\ UNCHANGED idem
    /\ UNCHANGED <<payments, ledger, lock, job, known, made>>

(* A SET whose answer is lost counts as refused; the key may be there. *)
ClaimError(r) ==
    /\ MayFail
    /\ pc[r] = "claim"
    /\ \/ UNCHANGED idem
       \/ /\ Unclaimed(job[r].key)
          /\ idem' = [idem EXCEPT ![job[r].key] = "PROCESSING"]
    /\ Goto(r, "done") /\ End(r, "conflict")
    /\ UNCHANGED <<payments, ledger, lock, job, known, made>>

(* An answer below 500 is kept; after a 500 the key is given up. *)
Stored(r) == IF outcome[r] = "error" THEN "absent" ELSE "stored"

(* Nobody waits for the SETEX or DEL, and its error is swallowed. *)
Store(r) ==
    /\ pc[r] = "store"
    /\ \/ /\ idem' = [idem EXCEPT ![job[r].key] = Stored(r)]
          /\ UNCHANGED outcome
       \/ /\ MayFail
          /\ End(r, IF outcome[r] = "error" THEN "error" ELSE "unstored")
          /\ UNCHANGED idem
    /\ Goto(r, "done")
    /\ UNCHANGED <<payments, ledger, lock, job, known, made>>

(* PROCESSING lasts 60 s, under a working request only if it is not timely. *)
ExpireKey(k) ==
    /\ idem[k] = "PROCESSING"
    /\ HoldersTimely => \A r \in Request : job[r].key = k => ~Claiming(r)
    /\ idem' = [idem EXCEPT ![k] = "absent"]
    /\ UNCHANGED <<payments, ledger, lock, job, pc, known, made, outcome>>

-----------------------------------------------------------------------------
(* withLock. *)

(* MUTANT: SET without NX. *)
FreeAnyway(x) == TRUE

(* SET ... NX succeeds. *)
Free(x) == lock[x] = None

Acquire(r) ==
    /\ pc[r] = "lock"
    /\ Free(LockKey(r))
    /\ lock' = [lock EXCEPT ![LockKey(r)] = r]
    /\ Goto(r, IF job[r].op = "initiate" THEN "create" ELSE "read")
    /\ UNCHANGED <<payments, ledger, idem, job, known, made, outcome>>

(* MUTANT: the retries of withLock have no end. *)
LockTakenWaits(r) == pc[r] = "lock" /\ ~Free(LockKey(r)) /\ UNCHANGED vars

(* Whichever attempt found the key taken may have been the last of the four. *)
LockTaken(r) ==
    /\ pc[r] = "lock"
    /\ ~Free(LockKey(r))
    /\ Reply(r, "error")
    /\ UNCHANGED <<payments, ledger, lock, idem, job, known, made>>

(* SET throws; the key may have been set all the same. *)
LockError(r) ==
    /\ MayFail
    /\ pc[r] = "lock"
    /\ \/ UNCHANGED lock
       \/ Free(LockKey(r)) /\ lock' = [lock EXCEPT ![LockKey(r)] = r]
    /\ Reply(r, "error")
    /\ UNCHANGED <<payments, ledger, idem, job, known, made>>

(* The finally block: the script deletes a key that still carries the      *)
(* request's token; an error of the script is swallowed.                   *)
Unlock(r) ==
    /\ pc[r] = "unlock"
    /\ \/ lock' = [lock EXCEPT ![LockKey(r)] = IF @ = r THEN None ELSE @]
       \/ MayFail /\ UNCHANGED lock
    /\ Reply(r, outcome[r])
    /\ UNCHANGED <<payments, ledger, idem, job, known, made>>

(* PX: the key expires, under a working holder only if it is not timely. *)
Expire(x) ==
    /\ lock[x] # None
    /\ HoldersTimely => ~(LockKey(lock[x]) = x /\ Inside(lock[x]))
    /\ lock' = [lock EXCEPT ![x] = None]
    /\ UNCHANGED <<payments, ledger, idem, job, pc, known, made, outcome>>

-----------------------------------------------------------------------------
(* The handlers. *)

InFlight == {"PENDING", "PROCESSING", "AUTHORIZED"}

(* isPending, canBeCancelled and canBeRefunded, as each handler asks them. *)
Allowed == [confirm |-> InFlight, cancel |-> {"PENDING", "AUTHORIZED"},
            refund |-> {"SUCCESS", "PARTIALLY_REFUNDED", "CAPTURED"},
            authorized |-> InFlight, captured |-> InFlight, failed |-> InFlight,
            voided |-> InFlight]

(* What updateStatus is given. *)
Target == [confirm |-> "SUCCESS", cancel |-> "CANCELLED", authorized |-> "PROCESSING",
           captured |-> "SUCCESS", failed |-> "FAILED", voided |-> "FAILED"]

(* findById or findByReference, and the checks on what it returned; a      *)
(* webhook that comes too late is acknowledged.                            *)
Read(r) ==
    /\ pc[r] = "read"
    /\ \/ /\ status[Of(r)] \in Allowed[job[r].op]
          /\ job[r].op = "refund" => job[r].amount <= Amount
          /\ Goto(r, IF job[r].op = "refund" THEN "total" ELSE "status")
          /\ UNCHANGED outcome
       \/ /\ \/ status[Of(r)] \notin Allowed[job[r].op]
             \/ job[r].op = "refund" /\ job[r].amount > Amount
          /\ Leave(r, IF job[r].op \in Api THEN "refused" ELSE "ok")
    /\ UNCHANGED <<payments, ledger, lock, idem, job, known, made>>

(* MUTANT: the sum is taken from the ledger. *)
DebitsOnly(r) == debits[Of(r)]

(* getTotalRefunded: the sum of the Refund rows. *)
TotalRefunded(r) == refunded[Of(r)]

(* The sum, inside the lock, and the check against what is left. *)
Total(r) ==
    /\ pc[r] = "total"
    /\ known' = [known EXCEPT ![r] = TotalRefunded(r)]
    /\ IF job[r].amount > Amount - TotalRefunded(r)
       THEN Leave(r, "refused")
       ELSE Goto(r, "create") /\ UNCHANGED outcome
    /\ UNCHANGED <<payments, ledger, lock, idem, job, made>>

(* The transaction of create commits. *)
CreatePayment(r) ==
    /\ pc[r] = "create"
    /\ job[r].op = "initiate"
    /\ status' = [status EXCEPT ![Of(r)] = "PENDING"]
    /\ made' = made \cup {r}
    /\ Leave(r, "ok")
    /\ UNCHANGED <<refunded, ledger, lock, idem, job, known>>

CreateRefund(r) ==
    /\ pc[r] = "create"
    /\ job[r].op = "refund"
    /\ refunded' = [refunded EXCEPT ![Of(r)] = @ + job[r].amount]
    /\ made' = made \cup {r}
    /\ Goto(r, "status")
    /\ UNCHANGED <<status, ledger, lock, idem, job, known, outcome>>

(* MUTANT: the sum is read after the insert and the refund added once more. *)
NewStatusTwice(r) ==
    IF refunded[Of(r)] + job[r].amount >= Amount THEN "REFUNDED" ELSE "PARTIALLY_REFUNDED"

NewStatus(r) == IF known[r] + job[r].amount >= Amount THEN "REFUNDED" ELSE "PARTIALLY_REFUNDED"

(* The status is written by id alone, whatever it has become. *)
UpdateStatus(r) ==
    /\ pc[r] = "status"
    /\ status' = [status EXCEPT ![Of(r)] =
           IF job[r].op = "refund" THEN NewStatus(r) ELSE Target[job[r].op]]
    /\ Goto(r, "audit")
    /\ UNCHANGED <<refunded, ledger, lock, idem, job, known, made, outcome>>

AddAuditEntry(r) ==
    /\ pc[r] = "audit"
    /\ \/ job[r].op \in {"confirm", "refund"} /\ Goto(r, "ledger") /\ UNCHANGED outcome
       \/ job[r].op \in {"cancel", "captured", "failed", "voided"}
             /\ Goto(r, "invalidate") /\ UNCHANGED outcome
       \/ job[r].op = "authorized" /\ Leave(r, "ok")
    /\ UNCHANGED <<payments, ledger, lock, idem, job, known, made>>

(* recordPayment and recordRefund; their errors are logged and swallowed. *)
Record(r) ==
    /\ pc[r] = "ledger"
    /\ \/ /\ job[r].op = "confirm"
          /\ credits' = [credits EXCEPT ![Of(r)] = @ + 1]
          /\ UNCHANGED debits
       \/ /\ job[r].op = "refund"
          /\ debits' = [debits EXCEPT ![Of(r)] = @ + job[r].amount]
          /\ UNCHANGED credits
       \/ MayFail /\ UNCHANGED ledger
    /\ Goto(r, "invalidate")
    /\ UNCHANGED <<payments, lock, idem, job, known, made, outcome>>

Invalidate(r) ==
    /\ pc[r] = "invalidate"
    /\ Leave(r, "ok")
    /\ UNCHANGED <<payments, ledger, lock, idem, job, known, made>>

-----------------------------------------------------------------------------
(* Failures. *)

(* A query, or the DEL of the cache, throws, and has changed nothing. *)
StepError(r) ==
    /\ MayFail
    /\ pc[r] \in {"read", "total", "create", "status", "audit", "invalidate"}
    /\ Leave(r, "error")
    /\ UNCHANGED <<payments, ledger, lock, idem, job, known, made>>

(* The replica dies; its keys stay until they expire. *)
Crash(r) ==
    /\ MayFail
    /\ pc[r] # "done"
    /\ Goto(r, "done") /\ End(r, "crashed")
    /\ UNCHANGED <<payments, ledger, lock, idem, job, known, made>>

-----------------------------------------------------------------------------
Handle(r) ==
    \/ Check(r) \/ Claim(r) \/ Store(r)
    \/ Acquire(r) \/ LockTaken(r) \/ Unlock(r)
    \/ Read(r) \/ Total(r) \/ CreatePayment(r) \/ CreateRefund(r)
    \/ UpdateStatus(r) \/ AddAuditEntry(r) \/ Record(r) \/ Invalidate(r)

Next ==
    \/ \E r \in Request :
          Handle(r) \/ ClaimError(r) \/ LockError(r) \/ StepError(r) \/ Crash(r)
    \/ \E x \in Resource : Expire(x)
    \/ \E k \in Key : ExpireKey(k)

Spec == Init /\ [][Next]_vars

(* Node.js runs every continuation that is ready. *)
FairSpec == Spec /\ \A r \in Request : WF_vars(Handle(r))

-----------------------------------------------------------------------------
(* Rows, counters, keys and handlers keep their types. *)
TypeOK ==
    /\ status \in [Payment -> Status]
    /\ refunded \in [Payment -> Nat]
    /\ credits \in [Payment -> Nat]
    /\ debits \in [Payment -> Nat]
    /\ lock \in [Resource -> Request \cup {None}]
    /\ idem \in [Key -> {"absent", "PROCESSING", "stored"}]
    /\ job \in Workload
    /\ pc \in [Request -> Label]
    /\ known \in [Request -> Nat]
    /\ made \subseteq Request
    /\ outcome \in [Request -> Outcome]

(* The refunds of a payment never exceed its amount, however many run and  *)
(* whatever fails: the sum is read again inside the lock, and the refund   *)
(* row is inserted by a later statement.  Needs HoldersTimely.             *)
RefundsCovered == \A p \in Payment : refunded[p] <= Amount

(* A status that speaks of refunds is true of the refund rows, although it *)
(* is written after them, from a sum read before them.                     *)
RefundStatusTrue ==
    \A p \in Payment :
        /\ status[p] = "REFUNDED" => refunded[p] >= Amount
        /\ status[p] = "PARTIALLY_REFUNDED" => refunded[p] > 0

(* The ledger never shows more refunds than there are, nor two credits for *)
(* one payment unless webhooks rewrote its status: the lock of ConfirmPayment *)
(* alone keeps a second confirmation out.  Needs HoldersTimely.            *)
LedgerBacked ==
    \A p \in Payment :
        /\ debits[p] <= refunded[p]
        /\ \/ credits[p] <= 1
           \/ \E r \in Request : Of(r) = p /\ job[r].op \in WebhookEventType

Failed(r) == outcome[r] \in {"error", "unstored", "crashed"}

(* Two requests with one Idempotency-Key both insert their row only if one *)
(* of them failed or could not store its answer: the middleware holds back *)
(* a retry that comes while the first attempt runs, or later.  Needs       *)
(* HoldersTimely.                                                          *)
OncePerKey ==
    \A q, r \in made :
        q # r /\ job[q].key = job[r].key /\ job[r].key # None => Failed(q) \/ Failed(r)

Quiet == \A r \in Request : pc[r] = "done"

(* Every request is answered, although the lock it needs may belong to a    *)
(* replica that died or whose answer was lost, and no key need ever expire. *)
Answered == <>[]Quiet

(* What the middleware is for: one key, one payment or refund. *)
NeverTwice ==
    \A q, r \in made : q # r => job[q].key # job[r].key \/ job[r].key = None

(* Only PENDING or AUTHORIZED payments can be cancelled. *)
CancelsOnlyOpen ==
    [][\A p \in Payment :
          status'[p] = "CANCELLED" /\ status[p] # "CANCELLED"
              => status[p] \in {"PENDING", "AUTHORIZED"}]_vars
=============================================================================
