--------------------------- MODULE PaymentProofs ---------------------------
(***************************************************************************)
(* Theorems of PaymentService, for every number of requests, payments and  *)
(* keys, every amount and every workload.  The invariants are stacked:     *)
(* types and routes, then who owns which lock and which idempotency key,   *)
(* then what that says of refunds, of the ledger and of retries.           *)
(***************************************************************************)
EXTENDS PaymentService, TLAPS

(* Each handler keeps to the steps of its operation. *)
Routed ==
    \A r \in Request :
        /\ pc[r] \in {"check", "claim", "store"} => job[r].key # None
        /\ pc[r] \in {"lock", "total", "create", "ledger", "unlock"} => job[r].op \in Api
        /\ pc[r] \in {"read", "total", "status", "audit", "ledger", "invalidate"}
              => job[r].op # "initiate"
        /\ pc[r] \in {"total", "create"} => job[r].op \in {"initiate", "refund"}
        /\ pc[r] = "ledger" => job[r].op \in {"confirm", "refund"}

TypeInv == TypeOK /\ Routed

(* What the assumptions say of the job of one request. *)
LEMMA JobType ==
    ASSUME TypeOK, NEW r \in Request
    PROVE  /\ job[r].op \in Api \cup WebhookEventType
           /\ Of(r) \in Payment
           /\ job[r].amount \in Nat
           /\ job[r].key \in Key \cup {None}
           /\ job[r].op \in Api => LockKey(r) \in Resource
           /\ job[r].op = "refund" => job[r].amount > 0
           /\ job[r].op \in {"confirm", "cancel"} => job[r].key = None
           /\ job[r].op \in WebhookEventType => job[r].key # None
<1>1. job \in [Request -> Job] /\ job \in Workload
  BY PaymentAssumption DEF TypeOK
<1>2. job[r] \in Job
  BY <1>1
<1>3. /\ job[r].op \in Api \cup WebhookEventType /\ job[r].pay \in Payment
      /\ job[r].amount \in Nat /\ job[r].key \in Key \cup {None}
  BY <1>2 DEF Job
<1>4. BookingOf[job[r].pay] \in Booking
  BY <1>3, PaymentAssumption
<1>5. /\ job[r].op = "refund" => job[r].amount > 0
      /\ job[r].op \in {"confirm", "cancel"} => job[r].key = None
      /\ job[r].op \in WebhookEventType => job[r].key # None
  BY <1>1, PaymentAssumption
<1> QED
  BY <1>3, <1>4, <1>5 DEF Of, LockKey, Resource

(* Only the request that moves changes its place and its answer. *)
Others(r) == \A q \in Request \ {r} : pc'[q] = pc[q] /\ outcome'[q] = outcome[q]

Typed == pc' \in [Request -> Label] /\ outcome' \in [Request -> Outcome]

(* What going on to the next step does to the control state. *)
LEMMA GotoMoves ==
    ASSUME TypeOK, NEW r \in Request, NEW l \in Label, Goto(r, l), UNCHANGED outcome
    PROVE  Typed /\ Others(r) /\ pc'[r] = l /\ outcome'[r] = outcome[r]
BY DEF TypeOK, Goto, Typed, Others

(* What ending without an answer through res.json does to it. *)
LEMMA EndMoves ==
    ASSUME TypeOK, NEW r \in Request, NEW l \in Label, NEW how \in Outcome, Goto(r, l), End(r, how)
    PROVE  Typed /\ Others(r) /\ pc'[r] = l /\ outcome'[r] = how
<1>1. pc' \in [Request -> Label] /\ outcome' \in [Request -> Outcome]
  BY DEF TypeOK, Goto, End
<1> QED
  BY <1>1 DEF TypeOK, Goto, End, Typed, Others

(* What answering does to it. *)
LEMMA ReplyMoves ==
    ASSUME TypeOK, NEW r \in Request, NEW how \in Outcome, Reply(r, how)
    PROVE  /\ Typed /\ Others(r) /\ outcome'[r] = how
           /\ pc'[r] = IF job[r].key = None THEN "done" ELSE "store"
<1> DEFINE l == IF job[r].key = None THEN "done" ELSE "store"
<1>1. l \in Label
  BY DEF Label
<1>2. Goto(r, l) /\ End(r, how)
  BY DEF Reply
<1> QED
  BY <1>1, <1>2, EndMoves

(* What returning or throwing does to it. *)
LEMMA LeaveMoves ==
    ASSUME TypeOK, NEW r \in Request, NEW how \in Outcome, Leave(r, how)
    PROVE  /\ Typed /\ Others(r) /\ outcome'[r] = how
           /\ pc'[r] = IF job[r].op \in Api THEN "unlock"
                       ELSE IF how = "error" THEN "done" ELSE "store"
<1> DEFINE l == IF job[r].op \in Api THEN "unlock" ELSE IF how = "error" THEN "done" ELSE "store"
<1>1. l \in Label
  BY DEF Label
<1>2. Goto(r, l) /\ End(r, how)
  BY DEF Leave
<1> QED
  BY <1>1, <1>2, EndMoves

(* The initial states are well typed. *)
LEMMA InitType == Init => TypeInv
<1> SUFFICES ASSUME Init PROVE TypeInv
  OBVIOUS
<1>1. status \in [Payment -> Status]
  BY PaymentAssumption DEF Init
<1>2. TypeOK
  BY <1>1, PaymentAssumption DEF Init, TypeOK, Label, Outcome
<1>3. \A r \in Request : pc[r] = "lock" => job[r].op \in Api
  BY <1>2, JobType DEF Init
<1> QED
  BY <1>2, <1>3 DEF TypeInv, Routed, Init

(* Every step of one request is one of these, and names its place. *)
Moved(r) == Typed /\ Others(r) /\ UNCHANGED job

StepOf(r) == Handle(r) \/ ClaimError(r) \/ LockError(r) \/ StepError(r) \/ Crash(r)

Went(r, from, to) == Moved(r) /\ pc[r] \in from /\ pc'[r] \in to

Returned(r) ==
    pc'[r] = IF job[r].op \in Api THEN "unlock" ELSE IF outcome'[r] = "error" THEN "done" ELSE "store"

Answers(r) == pc'[r] = IF job[r].key = None THEN "done" ELSE "store"

Same(r) == outcome'[r] = outcome[r]

(* The places each action leads from and to, and the answer it sets. *)
LEMMA Paths ==
    ASSUME TypeInv, NEW r \in Request
    PROVE  /\ Check(r) => /\ Went(r, {"check"}, {"done", "claim"})
                          /\ pc'[r] = "claim" => Same(r)
           /\ Claim(r) => /\ Went(r, {"claim"}, {"done", "lock", "read"})
                          /\ pc'[r] = "lock" => job[r].op \in Api
                          /\ pc'[r] = "read" => job[r].op \notin Api
                          /\ pc'[r] # "done" => Same(r)
           /\ ClaimError(r) => Went(r, {"claim"}, {"done"})
           /\ Store(r) => /\ Went(r, {"store"}, {"done"})
                          /\ Same(r) \/ Failed(r)'
           /\ Acquire(r) => /\ Went(r, {"lock"}, {"create", "read"})
                            /\ pc'[r] = "create" <=> job[r].op = "initiate"
                            /\ Same(r)
           /\ LockTaken(r) => Went(r, {"lock"}, {"store", "done"}) /\ Answers(r)
           /\ LockError(r) => Went(r, {"lock"}, {"store", "done"}) /\ Answers(r)
           /\ Unlock(r) => Went(r, {"unlock"}, {"store", "done"}) /\ Answers(r) /\ Same(r)
           /\ Read(r) => /\ Went(r, {"read"}, {"total", "status", "unlock", "store"})
                         /\ \/ pc'[r] = "total" /\ job[r].op = "refund" /\ Same(r)
                            \/ pc'[r] = "status" /\ job[r].op # "refund" /\ Same(r)
                            \/ Returned(r) /\ outcome'[r] \in {"refused", "ok"}
           /\ Total(r) => /\ Went(r, {"total"}, {"create", "unlock"})
                          /\ pc'[r] = "create" => Same(r)
           /\ CreatePayment(r) => /\ Went(r, {"create"}, {"unlock"})
                                  /\ job[r].op = "initiate" /\ outcome'[r] = "ok"
           /\ CreateRefund(r) => /\ Went(r, {"create"}, {"status"})
                                 /\ job[r].op = "refund" /\ Same(r)
           /\ UpdateStatus(r) => Went(r, {"status"}, {"audit"}) /\ Same(r)
           /\ AddAuditEntry(r) => /\ Went(r, {"audit"}, {"ledger", "invalidate", "store"})
                                  /\ pc'[r] = "ledger" => job[r].op \in {"confirm", "refund"}
                                  /\ pc'[r] = "store" => job[r].op = "authorized"
                                  /\ pc'[r] # "store" => Same(r)
           /\ Record(r) => Went(r, {"ledger"}, {"invalidate"}) /\ Same(r)
           /\ Invalidate(r) => /\ Went(r, {"invalidate"}, {"unlock", "store"})
                               /\ Returned(r) /\ outcome'[r] = "ok"
           /\ StepError(r) => /\ Went(r, {"read", "total", "create", "status", "audit",
                                           "invalidate"}, {"unlock", "done"})
                              /\ Returned(r) /\ outcome'[r] = "error"
           /\ Crash(r) => /\ Went(r, Label \ {"done"}, {"done"})
                          /\ outcome'[r] = "crashed"
<1> USE DEF TypeInv, Went, Moved, Same
<1>lab. /\ {"check", "claim", "lock", "read", "total", "create", "status", "audit",
            "ledger", "invalidate", "unlock", "store", "done"} \subseteq Label
        /\ {"open", "ok", "refused", "conflict", "replayed", "error", "unstored",
            "crashed"} \subseteq Outcome
  BY DEF Label, Outcome
<1>op. /\ Api = {"initiate", "confirm", "cancel", "refund"}
       /\ WebhookEventType = {"authorized", "captured", "failed", "voided"}
       /\ job[r].op \in Api \cup WebhookEventType
  BY JobType DEF Api, WebhookEventType
<1>1. ASSUME Check(r)
      PROVE  Went(r, {"check"}, {"done", "claim"}) /\ (pc'[r] = "claim" => Same(r))
  <2>1. CASE Goto(r, "done") /\ End(r, "conflict")
    BY <1>1, <2>1, <1>lab, EndMoves DEF Check
  <2>2. CASE Goto(r, "done") /\ End(r, "replayed")
    BY <1>1, <2>2, <1>lab, EndMoves DEF Check
  <2>3. CASE Goto(r, "claim") /\ UNCHANGED outcome
    BY <1>1, <2>3, <1>lab, GotoMoves DEF Check
  <2> QED
    BY <1>1, <2>1, <2>2, <2>3 DEF Check
<1>2. ASSUME Claim(r)
      PROVE  /\ Went(r, {"claim"}, {"done", "lock", "read"})
             /\ pc'[r] = "lock" => job[r].op \in Api
             /\ pc'[r] = "read" => job[r].op \notin Api
             /\ pc'[r] # "done" => Same(r)
  <2>1. CASE Goto(r, IF job[r].op \in Api THEN "lock" ELSE "read") /\ UNCHANGED outcome
    BY <1>2, <2>1, <1>lab, GotoMoves DEF Claim
  <2>2. CASE Goto(r, "done") /\ End(r, "conflict")
    BY <1>2, <2>2, <1>lab, EndMoves DEF Claim
  <2> QED
    BY <1>2, <2>1, <2>2 DEF Claim
<1>3. ASSUME ClaimError(r) PROVE Went(r, {"claim"}, {"done"})
  BY <1>3, <1>lab, EndMoves DEF ClaimError
<1>4. ASSUME Store(r) PROVE Went(r, {"store"}, {"done"}) /\ (Same(r) \/ Failed(r)')
  <2>1. CASE Goto(r, "done") /\ UNCHANGED outcome
    BY <1>4, <2>1, <1>lab, GotoMoves DEF Store
  <2>2. CASE Goto(r, "done") /\ End(r, IF outcome[r] = "error" THEN "error" ELSE "unstored")
    BY <1>4, <2>2, <1>lab, EndMoves DEF Store, Failed
  <2> QED
    BY <1>4, <2>1, <2>2 DEF Store
<1>5. ASSUME Acquire(r)
      PROVE  /\ Went(r, {"lock"}, {"create", "read"}) /\ Same(r)
             /\ pc'[r] = "create" <=> job[r].op = "initiate"
  BY <1>5, <1>lab, GotoMoves DEF Acquire
<1>6. ASSUME LockTaken(r) PROVE Went(r, {"lock"}, {"store", "done"}) /\ Answers(r)
  BY <1>6, <1>lab, ReplyMoves DEF LockTaken, Answers
<1>7. ASSUME LockError(r) PROVE Went(r, {"lock"}, {"store", "done"}) /\ Answers(r)
  BY <1>7, <1>lab, ReplyMoves DEF LockError, Answers
<1>8. ASSUME Unlock(r) PROVE Went(r, {"unlock"}, {"store", "done"}) /\ Answers(r) /\ Same(r)
  BY <1>8, ReplyMoves DEF Unlock, Answers, TypeOK
<1>9. ASSUME Read(r)
      PROVE  /\ Went(r, {"read"}, {"total", "status", "unlock", "store"})
             /\ \/ pc'[r] = "total" /\ job[r].op = "refund" /\ Same(r)
                \/ pc'[r] = "status" /\ job[r].op # "refund" /\ Same(r)
                \/ Returned(r) /\ outcome'[r] \in {"refused", "ok"}
  <2>1. CASE Goto(r, IF job[r].op = "refund" THEN "total" ELSE "status") /\ UNCHANGED outcome
    BY <1>9, <2>1, <1>lab, GotoMoves DEF Read
  <2>2. CASE Leave(r, IF job[r].op \in Api THEN "refused" ELSE "ok")
    BY <1>9, <2>2, <1>lab, LeaveMoves DEF Read, Returned
  <2> QED
    BY <1>9, <2>1, <2>2 DEF Read
<1>10. ASSUME Total(r)
       PROVE  Went(r, {"total"}, {"create", "unlock"}) /\ (pc'[r] = "create" => Same(r))
  <2>1. CASE Leave(r, "refused")
    BY <1>10, <2>1, <1>lab, <1>op, LeaveMoves DEF Total, Routed
  <2>2. CASE Goto(r, "create") /\ UNCHANGED outcome
    BY <1>10, <2>2, <1>lab, GotoMoves DEF Total
  <2> QED
    BY <1>10, <2>1, <2>2 DEF Total
<1>11. ASSUME CreatePayment(r)
       PROVE  Went(r, {"create"}, {"unlock"}) /\ job[r].op = "initiate" /\ outcome'[r] = "ok"
  BY <1>11, <1>lab, <1>op, LeaveMoves DEF CreatePayment
<1>12. ASSUME CreateRefund(r)
       PROVE  Went(r, {"create"}, {"status"}) /\ job[r].op = "refund" /\ Same(r)
  BY <1>12, <1>lab, GotoMoves DEF CreateRefund
<1>13. ASSUME UpdateStatus(r) PROVE Went(r, {"status"}, {"audit"}) /\ Same(r)
  BY <1>13, <1>lab, GotoMoves DEF UpdateStatus
<1>14. ASSUME AddAuditEntry(r)
       PROVE  /\ Went(r, {"audit"}, {"ledger", "invalidate", "store"})
              /\ pc'[r] = "ledger" => job[r].op \in {"confirm", "refund"}
              /\ pc'[r] = "store" => job[r].op = "authorized"
              /\ pc'[r] # "store" => Same(r)
  <2>1. CASE job[r].op \in {"confirm", "refund"} /\ Goto(r, "ledger") /\ UNCHANGED outcome
    BY <1>14, <2>1, <1>lab, GotoMoves DEF AddAuditEntry
  <2>2. CASE Goto(r, "invalidate") /\ UNCHANGED outcome
    BY <1>14, <2>2, <1>lab, GotoMoves DEF AddAuditEntry
  <2>3. CASE job[r].op = "authorized" /\ Leave(r, "ok")
    BY <1>14, <2>3, <1>lab, <1>op, LeaveMoves DEF AddAuditEntry
  <2> QED
    BY <1>14, <2>1, <2>2, <2>3 DEF AddAuditEntry
<1>15. ASSUME Record(r) PROVE Went(r, {"ledger"}, {"invalidate"}) /\ Same(r)
  BY <1>15, <1>lab, GotoMoves DEF Record
<1>16. ASSUME Invalidate(r)
       PROVE  Went(r, {"invalidate"}, {"unlock", "store"}) /\ Returned(r) /\ outcome'[r] = "ok"
  BY <1>16, <1>lab, LeaveMoves DEF Invalidate, Returned
<1>17. ASSUME StepError(r)
       PROVE  /\ Went(r, {"read", "total", "create", "status", "audit", "invalidate"},
                       {"unlock", "done"})
              /\ Returned(r) /\ outcome'[r] = "error"
  BY <1>17, <1>lab, LeaveMoves DEF StepError, Returned
<1>18. ASSUME Crash(r) PROVE Went(r, Label \ {"done"}, {"done"}) /\ outcome'[r] = "crashed"
  BY <1>18, <1>lab, EndMoves DEF Crash, TypeOK
<1> QED
  BY <1>1, <1>2, <1>3, <1>4, <1>5, <1>6, <1>7, <1>8, <1>9, <1>10, <1>11, <1>12, <1>13, <1>14,
     <1>15, <1>16, <1>17, <1>18

(* Every step keeps each handler to its route. *)
LEMMA StepRoute ==
    ASSUME TypeInv, NEW r \in Request, StepOf(r)
    PROVE  Moved(r) /\ Routed'
<1> USE DEF TypeInv
<1>op. /\ Api = {"initiate", "confirm", "cancel", "refund"}
       /\ WebhookEventType = {"authorized", "captured", "failed", "voided"}
       /\ job[r].op \in Api \cup WebhookEventType
       /\ job[r].op \in WebhookEventType => job[r].key # None
  BY JobType DEF Api, WebhookEventType
<1>now. /\ pc[r] \in {"check", "claim", "store"} => job[r].key # None
        /\ pc[r] \in {"lock", "total", "create", "ledger", "unlock"} => job[r].op \in Api
        /\ pc[r] \in {"read", "total", "status", "audit", "ledger", "invalidate"}
              => job[r].op # "initiate"
        /\ pc[r] \in {"total", "create"} => job[r].op \in {"initiate", "refund"}
        /\ pc[r] = "ledger" => job[r].op \in {"confirm", "refund"}
  BY DEF Routed
<1>1. Moved(r)
  BY Paths DEF StepOf, Handle, Went
<1>2. /\ pc'[r] \in {"check", "claim", "store"} => job[r].key # None
      /\ pc'[r] \in {"lock", "total", "create", "ledger", "unlock"} => job[r].op \in Api
      /\ pc'[r] \in {"read", "total", "status", "audit", "ledger", "invalidate"}
            => job[r].op # "initiate"
      /\ pc'[r] \in {"total", "create"} => job[r].op \in {"initiate", "refund"}
      /\ pc'[r] = "ledger" => job[r].op \in {"confirm", "refund"}
  <2>1. CASE Check(r) \/ Claim(r) \/ ClaimError(r) \/ Store(r)
    BY <2>1, Paths, <1>now, <1>op DEF Went
  <2>2. CASE Acquire(r) \/ LockTaken(r) \/ LockError(r) \/ Unlock(r)
    BY <2>2, Paths, <1>now, <1>op DEF Went, Answers
  <2>3. CASE Read(r) \/ Total(r) \/ CreatePayment(r) \/ CreateRefund(r) \/ UpdateStatus(r)
    BY <2>3, Paths, <1>now, <1>op DEF Went, Returned
  <2>4. CASE AddAuditEntry(r) \/ Record(r) \/ Invalidate(r) \/ StepError(r) \/ Crash(r)
    BY <2>4, Paths, <1>now, <1>op DEF Went, Returned
  <2> QED
    BY <2>1, <2>2, <2>3, <2>4 DEF StepOf, Handle
<1>3. \A q \in Request \ {r} : pc'[q] = pc[q]
  BY <1>1 DEF Moved, Others
<1> QED
  BY <1>1, <1>2, <1>3 DEF Routed, Moved

(* Every step keeps the types. *)
LEMMA NextType == TypeInv /\ [Next]_vars => TypeInv'
<1> SUFFICES ASSUME TypeInv, [Next]_vars PROVE TypeInv'
  OBVIOUS
<1> USE DEF TypeInv, TypeOK
<1>1. ASSUME NEW r \in Request, StepOf(r) PROVE TypeInv'
  <2>1. /\ pc' \in [Request -> Label] /\ outcome' \in [Request -> Outcome]
        /\ job' \in Workload /\ Routed'
    BY <1>1, StepRoute DEF Moved, Typed
  <2>2. /\ Of(r) \in Payment /\ job[r].amount \in Nat /\ job[r].key \in Key \cup {None}
        /\ job[r].op \in Api => LockKey(r) \in Resource
        /\ job[r].op \in {"initiate", "confirm", "cancel", "refund"} \cup
                          {"authorized", "captured", "failed", "voided"}
    BY JobType DEF Api, WebhookEventType
  <2>3. CASE Check(r) \/ LockTaken(r) \/ Read(r) \/ AddAuditEntry(r) \/ Invalidate(r)
             \/ StepError(r) \/ Crash(r)
    BY <2>1, <2>3 DEF Check, LockTaken, Read, AddAuditEntry, Invalidate, StepError, Crash,
       payments, ledger
  <2>4. CASE Claim(r) \/ ClaimError(r) \/ Store(r)
    <3>1. job[r].key \in Key
      BY <2>2, <2>4 DEF Claim, ClaimError, Store, Routed
    <3>2. idem' \in [Key -> {"absent", "PROCESSING", "stored"}]
      BY <2>4, <3>1 DEF Claim, ClaimError, Store, Stored
    <3> QED
      BY <2>1, <2>4, <3>2 DEF Claim, ClaimError, Store, payments, ledger
  <2>5. CASE Acquire(r) \/ LockError(r) \/ Unlock(r)
    <3>1. LockKey(r) \in Resource
      BY <2>2, <2>5 DEF Acquire, LockError, Unlock, Routed
    <3>2. lock' \in [Resource -> Request \cup {None}]
      BY <2>5, <3>1 DEF Acquire, LockError, Unlock
    <3> QED
      BY <2>1, <2>5, <3>2 DEF Acquire, LockError, Unlock, payments, ledger
  <2>6. CASE Total(r)
    <3>1. known' \in [Request -> Nat]
      BY <2>2, <2>6 DEF Total, TotalRefunded
    <3> QED
      BY <2>1, <2>6, <3>1 DEF Total, payments, ledger
  <2>7. CASE CreatePayment(r) \/ CreateRefund(r)
    <3>1. status' \in [Payment -> Status] /\ refunded' \in [Payment -> Nat]
      BY <2>2, <2>7 DEF CreatePayment, CreateRefund, Status, PaymentStatus
    <3> QED
      BY <2>1, <2>7, <3>1 DEF CreatePayment, CreateRefund, ledger
  <2>8. CASE UpdateStatus(r)
    <3>1. job[r].op # "initiate"
      BY <2>8 DEF UpdateStatus, Routed
    <3>2. (IF job[r].op = "refund" THEN NewStatus(r) ELSE Target[job[r].op]) \in Status
      BY <2>2, <3>1 DEF NewStatus, Target, Status, PaymentStatus
    <3>3. status' \in [Payment -> Status]
      BY <2>8, <3>2 DEF UpdateStatus
    <3> QED
      BY <2>1, <2>8, <3>3 DEF UpdateStatus, ledger
  <2>9. CASE Record(r)
    <3>1. credits' \in [Payment -> Nat] /\ debits' \in [Payment -> Nat]
      BY <2>2, <2>9 DEF Record, ledger
    <3> QED
      BY <2>1, <2>9, <3>1 DEF Record, payments
  <2> QED
    BY <1>1, <2>3, <2>4, <2>5, <2>6, <2>7, <2>8, <2>9 DEF StepOf, Handle
<1>2. ASSUME NEW x \in Resource, Expire(x) PROVE TypeInv'
  <2>1. lock' \in [Resource -> Request \cup {None}]
    BY <1>2 DEF Expire
  <2> QED
    BY <1>2, <2>1 DEF Expire, Routed, payments, ledger
<1>3. ASSUME NEW k \in Key, ExpireKey(k) PROVE TypeInv'
  <2>1. idem' \in [Key -> {"absent", "PROCESSING", "stored"}]
    BY <1>3 DEF ExpireKey
  <2> QED
    BY <1>3, <2>1 DEF ExpireKey, Routed, payments, ledger
<1>4. CASE UNCHANGED vars
  BY <1>4 DEF vars, payments, ledger, Routed
<1> QED
  BY <1>1, <1>2, <1>3, <1>4 DEF Next, StepOf

(* Rows, counters, keys and handlers keep their types. *)
THEOREM TypeCorrect == Spec => []TypeOK
<1>1. TypeInv => TypeOK
  BY DEF TypeInv
<1> QED
  BY <1>1, InitType, NextType, PTL DEF Spec

-----------------------------------------------------------------------------
(* The locks. *)

(* Whoever is inside withLock owns its key, if critical sections are timely. *)
Owned ==
    /\ HoldersTimely
    /\ \A r \in Request : Inside(r) => lock[LockKey(r)] = r

(* Every step keeps the locks owned by those inside. *)
LEMMA NextOwned == TypeInv /\ Owned /\ [Next]_vars => Owned'
<1> SUFFICES ASSUME TypeInv, Owned, [Next]_vars PROVE Owned'
  OBVIOUS
<1> USE DEF TypeInv
<1>time. HoldersTimely' = HoldersTimely
  OBVIOUS
<1>1. ASSUME NEW r \in Request, StepOf(r) PROVE Owned'
  <2>1. job' = job /\ \A q \in Request \ {r} : pc'[q] = pc[q]
    BY <1>1, StepRoute DEF Moved, Others
  <2>2. \A q \in Request : LockKey(q)' = LockKey(q)
    BY <2>1 DEF LockKey, Of
  <2>3. \A q \in Request \ {r} : Inside(q)' = Inside(q)
    BY <2>1 DEF Inside
  <2>4. CASE Acquire(r)
    <3>1. job[r].op \in Api
      BY <2>4 DEF Acquire, Routed
    <3>2. LockKey(r) \in Resource
      BY <3>1, JobType
    <3>3. lock' = [lock EXCEPT ![LockKey(r)] = r] /\ lock[LockKey(r)] = None
      BY <2>4 DEF Acquire, Free
    <3>4. lock'[LockKey(r)] = r
      BY <3>2, <3>3 DEF TypeOK
    <3>5. ASSUME NEW q \in Request \ {r}, Inside(q) PROVE lock'[LockKey(q)] = q
      <4>1. lock[LockKey(q)] = q /\ q # None
        BY <3>5, PaymentAssumption DEF Owned
      <4>2. LockKey(q) # LockKey(r)
        BY <4>1, <3>3
      <4> QED
        BY <4>1, <4>2, <3>3 DEF TypeOK
    <3> QED
      BY <2>2, <2>3, <3>4, <3>5 DEF Owned
  <2>5. CASE LockError(r)
    <3>1. ~Inside(r)'
      BY <2>5, Paths DEF Went, Inside
    <3>2. ASSUME NEW q \in Request \ {r}, Inside(q) PROVE lock'[LockKey(q)] = q
      <4>1. lock[LockKey(q)] = q /\ q # None
        BY <3>2, PaymentAssumption DEF Owned
      <4>2. lock[LockKey(r)] = None => LockKey(q) # LockKey(r)
        BY <4>1
      <4>3. \/ UNCHANGED lock
            \/ lock[LockKey(r)] = None /\ lock' = [lock EXCEPT ![LockKey(r)] = r]
        BY <2>5 DEF LockError, Free
      <4>4. LockKey(q) \in Resource
        BY <3>2, JobType DEF Inside
      <4>5. lock \in [Resource -> Request \cup {None}]
        BY DEF TypeOK
      <4> QED
        BY <4>1, <4>2, <4>3, <4>4, <4>5
    <3> QED
      BY <2>2, <2>3, <3>1, <3>2 DEF Owned
  <2>6. CASE Unlock(r)
    <3>1. ~Inside(r)'
      BY <2>6, Paths DEF Went, Inside
    <3>2. ASSUME NEW q \in Request \ {r}, Inside(q) PROVE lock'[LockKey(q)] = q
      <4>1. lock[LockKey(q)] = q
        BY <3>2 DEF Owned
      <4>2. \/ UNCHANGED lock
            \/ lock' = [lock EXCEPT ![LockKey(r)] = IF lock[LockKey(r)] = r THEN None
                                                   ELSE lock[LockKey(r)]]
        BY <2>6 DEF Unlock
      <4>3. LockKey(q) \in Resource
        BY <3>2, JobType DEF Inside
      <4>4. lock \in [Resource -> Request \cup {None}]
        BY DEF TypeOK
      <4>5. CASE LockKey(q) = LockKey(r)
        <5>1. lock[LockKey(r)] # r
          BY <4>1, <4>5
        <5> QED
          BY <4>1, <4>2, <4>3, <4>4, <4>5, <5>1
      <4>6. CASE LockKey(q) # LockKey(r)
        BY <4>1, <4>2, <4>3, <4>4, <4>6
      <4> QED
        BY <4>5, <4>6
    <3> QED
      BY <2>2, <2>3, <3>1, <3>2 DEF Owned
  <2>7. CASE lock' = lock /\ (Inside(r)' => Inside(r))
    BY <2>7, <2>2, <2>3 DEF Owned
  <2>8. CASE Check(r) \/ Claim(r) \/ ClaimError(r) \/ Store(r) \/ LockTaken(r) \/ Crash(r)
    <3>1. ~Inside(r)'
      BY <2>1, <2>8, Paths DEF Went, Inside
    <3> QED
      BY <2>7, <2>8, <3>1 DEF Check, Claim, ClaimError, Store, LockTaken, Crash
  <2>9. CASE Read(r) \/ Total(r) \/ CreatePayment(r) \/ CreateRefund(r) \/ UpdateStatus(r)
             \/ AddAuditEntry(r) \/ Record(r) \/ Invalidate(r) \/ StepError(r)
    <3>1. pc[r] \in {"read", "total", "create", "status", "audit", "ledger", "invalidate"}
      BY <2>9 DEF Read, Total, CreatePayment, CreateRefund, UpdateStatus, AddAuditEntry, Record,
         Invalidate, StepError
    <3>2. Inside(r)' => Inside(r)
      BY <2>1, <3>1 DEF Inside
    <3> QED
      BY <2>7, <2>9, <3>2 DEF Read, Total, CreatePayment, CreateRefund, UpdateStatus,
         AddAuditEntry, Record, Invalidate, StepError
  <2> QED
    BY <1>1, <2>4, <2>5, <2>6, <2>8, <2>9 DEF StepOf, Handle
<1>2. ASSUME NEW x \in Resource, Expire(x) PROVE Owned'
  <2>1. ASSUME NEW q \in Request, Inside(q) PROVE lock'[LockKey(q)] = q
    <3>1. lock[LockKey(q)] = q
      BY <2>1 DEF Owned
    <3>2. LockKey(q) # x
      BY <1>2, <2>1, <3>1 DEF Expire, Owned
    <3> QED
      BY <1>2, <3>1, <3>2 DEF Expire, TypeOK
  <2> QED
    BY <1>2, <2>1 DEF Expire, Owned, Inside, LockKey, Of
<1>3. ASSUME NEW k \in Key, ExpireKey(k) PROVE Owned'
  BY <1>3 DEF ExpireKey, Owned, Inside, LockKey, Of
<1>4. CASE UNCHANGED vars
  BY <1>4 DEF vars, Owned, Inside, LockKey, Of
<1> QED
  BY <1>1, <1>2, <1>3, <1>4 DEF Next, StepOf

(* So no two requests are inside the lock of one operation and payment. *)
LEMMA Alone ==
    ASSUME Owned, NEW q \in Request, NEW r \in Request, Inside(q), Inside(r),
           job[q].op = job[r].op, Of(q) = Of(r)
    PROVE  q = r
<1>1. LockKey(q) = LockKey(r)
  BY DEF LockKey
<1> QED
  BY <1>1 DEF Owned

-----------------------------------------------------------------------------
(* Which step changes what. *)

(* Each part of the state has few writers. *)
LEMMA Writers ==
    ASSUME NEW r \in Request, StepOf(r)
    PROVE  /\ status' = status \/ CreatePayment(r) \/ UpdateStatus(r)
           /\ refunded' = refunded \/ CreateRefund(r)
           /\ ledger' = ledger \/ Record(r)
           /\ known' = known \/ Total(r)
           /\ made' = made \/ CreatePayment(r) \/ CreateRefund(r)
           /\ idem' = idem \/ Claim(r) \/ ClaimError(r) \/ Store(r)
BY DEF StepOf, Handle, Check, Claim, ClaimError, Store, Acquire, LockTaken, LockError, Unlock, Read,
   Total, CreatePayment, CreateRefund, UpdateStatus, AddAuditEntry, Record, Invalidate, StepError,
   Crash, payments, ledger

(* A request comes to a step of its operation by one action. *)
LEMMA Arrivals ==
    ASSUME TypeInv, NEW r \in Request, StepOf(r)
    PROVE  /\ pc'[r] = "total" => Read(r)
           /\ pc'[r] = "create" => Total(r) \/ (Acquire(r) /\ job[r].op = "initiate")
           /\ pc'[r] = "status" => CreateRefund(r) \/ (Read(r) /\ job[r].op # "refund")
           /\ pc'[r] = "audit" => UpdateStatus(r)
           /\ pc'[r] = "ledger" => AddAuditEntry(r)
<1>1. CASE Check(r) \/ Claim(r) \/ ClaimError(r) \/ Store(r)
  BY <1>1, Paths DEF Went
<1>2. CASE Acquire(r) \/ LockTaken(r) \/ LockError(r) \/ Unlock(r)
  BY <1>2, Paths DEF Went
<1>3. CASE Read(r) \/ Total(r) \/ CreatePayment(r) \/ CreateRefund(r) \/ UpdateStatus(r)
  BY <1>3, Paths DEF Went, Returned
<1>4. CASE AddAuditEntry(r) \/ Record(r) \/ Invalidate(r) \/ StepError(r) \/ Crash(r)
  BY <1>4, Paths DEF Went
<1> QED
  BY <1>1, <1>2, <1>3, <1>4 DEF StepOf, Handle

(* What a stutter or an expiry leaves alone: all but locks and keys. *)
Idle == UNCHANGED <<payments, ledger, job, pc, known, made, outcome>>

(* A step is a step of one request, or leaves rows and handlers alone. *)
LEMMA Kinds ==
    ASSUME [Next]_vars
    PROVE  (\E r \in Request : StepOf(r)) \/ Idle
BY DEF Next, StepOf, Expire, ExpireKey, vars, Idle

-----------------------------------------------------------------------------
(* The status and the refund rows. *)

(* `alreadyRefunded` is never more than there is, as rows are only added. *)
SumOld ==
    \A r \in Request :
        job[r].op = "refund" =>
            /\ pc[r] = "create" => known[r] <= refunded[Of(r)]
            /\ pc[r] = "status" => known[r] + job[r].amount <= refunded[Of(r)]

RefundInv == SumOld /\ RefundStatusTrue

(* Refund rows are only added. *)
LEMMA RowsGrow ==
    ASSUME TypeInv, NEW r \in Request, StepOf(r), NEW p \in Payment
    PROVE  /\ refunded'[p] \in Nat /\ refunded[p] \in Nat /\ refunded'[p] >= refunded[p]
           /\ CreateRefund(r) /\ p = Of(r) => refunded'[p] = refunded[p] + job[r].amount
           /\ ~(CreateRefund(r) /\ p = Of(r)) => refunded'[p] = refunded[p]
<1>1. refunded \in [Payment -> Nat] /\ job[r].amount \in Nat /\ Of(r) \in Payment
  BY JobType DEF TypeInv, TypeOK
<1>2. CASE CreateRefund(r)
  BY <1>1, <1>2 DEF CreateRefund
<1>3. CASE ~CreateRefund(r)
  BY <1>1, <1>3, Writers
<1> QED
  BY <1>2, <1>3

(* A handler's step keeps RefundInv. *)
LEMMA StepRefundInv ==
    ASSUME TypeInv, RefundInv, NEW r \in Request, StepOf(r)
    PROVE  RefundInv'
<1>typ. /\ known \in [Request -> Nat] /\ status \in [Payment -> Status]
        /\ Of(r) \in Payment /\ job[r].amount \in Nat /\ Amount \in Nat \ {0}
        /\ job[r].op = "refund" => job[r].amount > 0
  BY JobType, PaymentAssumption DEF TypeInv, TypeOK
<1>mov. /\ job' = job
        /\ \A q \in Request \ {r} : pc'[q] = pc[q]
  BY StepRoute DEF Moved, Others
<1>1. SumOld'
  <2> SUFFICES ASSUME NEW q \in Request, job[q].op = "refund"
               PROVE  /\ pc'[q] = "create" => known'[q] <= refunded'[Of(q)]
                      /\ pc'[q] = "status" => known'[q] + job[q].amount <= refunded'[Of(q)]
    BY <1>mov DEF SumOld, Of
  <2>1. /\ Of(q) \in Payment /\ job[q].amount \in Nat /\ known[q] \in Nat
        /\ refunded[Of(q)] \in Nat /\ refunded'[Of(q)] \in Nat
        /\ refunded[Of(q)] <= refunded'[Of(q)]
    BY <1>typ, JobType, RowsGrow DEF TypeInv
  <2>2. CASE q # r
    <3>1. known'[q] = known[q] /\ pc'[q] = pc[q]
      BY <1>typ, <1>mov, <2>2, Writers DEF Total
    <3> QED
      BY <2>1, <3>1 DEF RefundInv, SumOld
  <2>3. CASE q = r /\ pc'[r] = "create"
    <3>1. Total(r)
      BY <2>3, Arrivals
    <3>2. known'[r] = refunded[Of(r)]
      BY <1>typ, <3>1 DEF Total, TotalRefunded
    <3> QED
      BY <2>1, <2>3, <3>2
  <2>4. CASE q = r /\ pc'[r] = "status"
    <3>1. CreateRefund(r)
      BY <2>4, Arrivals
    <3>2. known[r] <= refunded[Of(r)] /\ known' = known
      BY <3>1, <2>4 DEF CreateRefund, RefundInv, SumOld
    <3>3. refunded'[Of(r)] = refunded[Of(r)] + job[r].amount
      BY <1>typ, <3>1, RowsGrow
    <3> QED
      BY <2>1, <2>4, <3>2, <3>3
  <2> QED
    BY <2>2, <2>3, <2>4
<1>2. RefundStatusTrue'
  <2> SUFFICES ASSUME NEW p \in Payment
               PROVE  /\ status'[p] = "REFUNDED" => refunded'[p] >= Amount
                      /\ status'[p] = "PARTIALLY_REFUNDED" => refunded'[p] > 0
    BY DEF RefundStatusTrue
  <2>1. refunded[p] \in Nat /\ refunded'[p] \in Nat /\ refunded'[p] >= refunded[p]
    BY RowsGrow
  <2>2. CASE status'[p] = status[p]
    BY <1>typ, <2>1, <2>2 DEF RefundInv, RefundStatusTrue
  <2>3. CASE CreatePayment(r)
    <3>1. status'[p] = status[p] \/ status'[p] = "PENDING"
      BY <1>typ, <2>3 DEF CreatePayment
    <3> QED
      BY <2>2, <3>1
  <2>4. CASE UpdateStatus(r) /\ p = Of(r)
    <3>1. CASE job[r].op = "refund"
      <4>1. known[r] + job[r].amount <= refunded[p] /\ known[r] \in Nat
        BY <1>typ, <2>4, <3>1 DEF UpdateStatus, RefundInv, SumOld
      <4>2. status'[p] = NewStatus(r)
        BY <1>typ, <2>4, <3>1 DEF UpdateStatus
      <4> QED
        BY <1>typ, <2>1, <3>1, <4>1, <4>2 DEF NewStatus
    <3>2. CASE job[r].op # "refund"
      <4>1. job[r].op \in {"confirm", "cancel", "authorized", "captured", "failed", "voided"}
        BY <2>4, <3>2, JobType DEF UpdateStatus, TypeInv, Routed, Api, WebhookEventType
      <4>2. status'[p] = Target[job[r].op]
        BY <1>typ, <2>4, <3>2 DEF UpdateStatus
      <4> QED
        BY <4>1, <4>2 DEF Target
    <3> QED
      BY <3>1, <3>2
  <2>5. CASE UpdateStatus(r) /\ p # Of(r)
    BY <1>typ, <2>2, <2>5 DEF UpdateStatus
  <2> QED
    BY <2>2, <2>3, <2>4, <2>5, Writers
<1> QED
  BY <1>1, <1>2 DEF RefundInv

(* A status that speaks of refunds is true of the refund rows, with or     *)
(* without timely holders.                                                 *)
THEOREM RefundStatusIsTrue == Spec => []RefundStatusTrue
<1>1. Init => RefundInv
  BY PaymentAssumption DEF Init, RefundInv, SumOld, RefundStatusTrue
<1>2. ASSUME TypeInv, RefundInv, [Next]_vars PROVE RefundInv'
  <2>1. CASE Idle
    BY <1>2, <2>1 DEF Idle, RefundInv, SumOld, RefundStatusTrue, payments, Of
  <2> QED
    BY <1>2, <2>1, Kinds, StepRefundInv
<1>3. RefundInv => RefundStatusTrue
  BY DEF RefundInv
<1> QED
  BY <1>1, <1>2, <1>3, InitType, NextType, PTL DEF Spec

-----------------------------------------------------------------------------
(* The refunds fit. *)

(* A refund that has passed the check of the sum still fits: no other one  *)
(* is between its own check and its insert.                                *)
Room ==
    \A r \in Request :
        job[r].op = "refund" /\ pc[r] = "create" => refunded[Of(r)] + job[r].amount <= Amount

CoverInv == Room /\ RefundsCovered

(* A handler's step keeps CoverInv. *)
LEMMA StepCoverInv ==
    ASSUME TypeInv, Owned, CoverInv, NEW r \in Request, StepOf(r)
    PROVE  CoverInv'
<1>typ. Of(r) \in Payment /\ job[r].amount \in Nat /\ Amount \in Nat \ {0}
  BY JobType, PaymentAssumption DEF TypeInv
<1>mov. /\ job' = job
        /\ \A q \in Request \ {r} : pc'[q] = pc[q]
  BY StepRoute DEF Moved, Others
<1>1. Room'
  <2> SUFFICES ASSUME NEW q \in Request, job[q].op = "refund", pc'[q] = "create"
               PROVE  refunded'[Of(q)] + job[q].amount <= Amount
    BY <1>mov DEF Room, Of
  <2>1. Of(q) \in Payment /\ job[q].amount \in Nat /\ refunded[Of(q)] \in Nat
    BY JobType, RowsGrow DEF TypeInv
  <2>2. CASE q = r
    <3>1. Total(r)
      BY <2>2, Arrivals
    <3>2. refunded' = refunded
      BY <3>1 DEF Total, payments
    <3>3. ~(job[r].amount > Amount - refunded[Of(r)])
      <4>1. pc'[r] # "unlock"
        BY <2>2
      <4>2. ~Leave(r, "refused")
        BY <2>2, <4>1, LeaveMoves DEF TypeInv, Outcome
      <4> QED
        BY <3>1, <4>2 DEF Total, TotalRefunded
    <3> QED
      BY <1>typ, <2>1, <2>2, <3>2, <3>3
  <2>3. CASE q # r
    <3>1. pc[q] = "create"
      BY <1>mov, <2>3
    <3>2. ~(CreateRefund(r) /\ Of(q) = Of(r))
      <4> SUFFICES ASSUME CreateRefund(r), Of(q) = Of(r) PROVE FALSE
        OBVIOUS
      <4>1. Inside(q) /\ Inside(r) /\ job[q].op = job[r].op
        BY <3>1 DEF CreateRefund, Inside, Api
      <4> QED
        BY <2>3, <4>1, Alone
    <3>3. refunded'[Of(q)] = refunded[Of(q)]
      BY <2>1, <3>2, RowsGrow
    <3> QED
      BY <3>1, <3>3 DEF CoverInv, Room
  <2> QED
    BY <2>2, <2>3
<1>2. RefundsCovered'
  <2> SUFFICES ASSUME NEW p \in Payment PROVE refunded'[p] <= Amount
    BY DEF RefundsCovered
  <2>1. CASE CreateRefund(r) /\ p = Of(r)
    <3>1. refunded[p] + job[r].amount <= Amount
      BY <2>1 DEF CreateRefund, CoverInv, Room
    <3> QED
      BY <2>1, <3>1, RowsGrow
  <2>2. CASE ~(CreateRefund(r) /\ p = Of(r))
    BY <2>2, RowsGrow DEF CoverInv, RefundsCovered
  <2> QED
    BY <2>1, <2>2
<1> QED
  BY <1>1, <1>2 DEF CoverInv

(* With timely holders the refunds of a payment never exceed its amount:   *)
(* the lock of ProcessRefund makes the check and the insert one.           *)
THEOREM RefundsAreCovered == HoldersTimely => (Spec => []RefundsCovered)
<1> SUFFICES ASSUME HoldersTimely PROVE Spec => []RefundsCovered
  OBVIOUS
<1>1. Init => Owned
  BY DEF Init, Owned, Inside
<1>2. Init => CoverInv
  <2> SUFFICES ASSUME Init PROVE CoverInv
    OBVIOUS
  <2>1. \A r \in Request : pc[r] # "create"
    BY DEF Init
  <2> QED
    BY <2>1, PaymentAssumption DEF Init, CoverInv, Room, RefundsCovered
<1>3. ASSUME TypeInv, Owned, CoverInv, [Next]_vars PROVE CoverInv'
  <2>1. CASE Idle
    BY <1>3, <2>1 DEF Idle, CoverInv, Room, RefundsCovered, payments, Of
  <2> QED
    BY <1>3, <2>1, Kinds, StepCoverInv
<1>4. CoverInv => RefundsCovered
  BY DEF CoverInv
<1> QED
  BY <1>1, <1>2, <1>3, <1>4, InitType, NextType, NextOwned, PTL DEF Spec

-----------------------------------------------------------------------------
(* The DEBIT entries. *)

(* A refund that has still to record its entry has its row already. *)
Due == \A r \in Request :
    job[r].op = "refund" /\ pc[r] \in {"status", "audit", "ledger"}
        => debits[Of(r)] + job[r].amount <= refunded[Of(r)]

Backed == \A p \in Payment : debits[p] <= refunded[p]

DebitInv == Due /\ Backed

(* A handler's step keeps DebitInv. *)
LEMMA StepDebitInv ==
    ASSUME TypeInv, Owned, DebitInv, NEW r \in Request, StepOf(r)
    PROVE  DebitInv'
<1>typ. Of(r) \in Payment /\ job[r].amount \in Nat /\ debits \in [Payment -> Nat]
  BY JobType DEF TypeInv, TypeOK
<1>mov. /\ job' = job
        /\ \A q \in Request \ {r} : pc'[q] = pc[q]
  BY StepRoute DEF Moved, Others
<1>deb. \A p \in Payment :
            \/ debits'[p] = debits[p]
            \/ /\ Record(r) /\ job[r].op = "refund" /\ p = Of(r)
               /\ debits'[p] = debits[p] + job[r].amount
  BY <1>typ, Writers DEF Record, ledger
<1>1. Due'
  <2> SUFFICES ASSUME NEW q \in Request, job[q].op = "refund",
                      pc'[q] \in {"status", "audit", "ledger"}
               PROVE  debits'[Of(q)] + job[q].amount <= refunded'[Of(q)]
    BY <1>mov DEF Due, Of
  <2>1. /\ Of(q) \in Payment /\ job[q].amount \in Nat /\ debits[Of(q)] \in Nat
        /\ refunded[Of(q)] \in Nat /\ refunded'[Of(q)] \in Nat
        /\ refunded'[Of(q)] >= refunded[Of(q)]
    BY <1>typ, JobType, RowsGrow DEF TypeInv
  <2>2. CASE q = r /\ CreateRefund(r)
    <3>1. debits' = debits /\ refunded'[Of(r)] = refunded[Of(r)] + job[r].amount
      BY <1>typ, <2>2, RowsGrow DEF CreateRefund, ledger
    <3> QED
      BY <2>1, <2>2, <3>1 DEF DebitInv, Backed
  <2>3. CASE q = r /\ ~CreateRefund(r)
    <3>1. UpdateStatus(r) \/ AddAuditEntry(r)
      BY <2>3, Arrivals
    <3>2. debits' = debits /\ pc[r] \in {"status", "audit"}
      BY <3>1 DEF UpdateStatus, AddAuditEntry, ledger
    <3> QED
      BY <2>1, <2>3, <3>2 DEF DebitInv, Due
  <2>4. CASE q # r
    <3>1. pc[q] \in {"status", "audit", "ledger"}
      BY <1>mov, <2>4
    <3>2. ~(Record(r) /\ job[r].op = "refund" /\ Of(q) = Of(r))
      <4> SUFFICES ASSUME Record(r), job[r].op = "refund", Of(q) = Of(r) PROVE FALSE
        OBVIOUS
      <4>1. Inside(q) /\ Inside(r) /\ job[q].op = job[r].op
        BY <3>1 DEF Record, Inside, Api
      <4> QED
        BY <2>4, <4>1, Alone
    <3>3. debits'[Of(q)] = debits[Of(q)]
      BY <1>deb, <2>1, <3>2
    <3> QED
      BY <2>1, <3>1, <3>3 DEF DebitInv, Due
  <2> QED
    BY <2>2, <2>3, <2>4
<1>2. Backed'
  <2> SUFFICES ASSUME NEW p \in Payment PROVE debits'[p] <= refunded'[p]
    BY DEF Backed
  <2>1. /\ refunded[p] \in Nat /\ refunded'[p] \in Nat /\ refunded'[p] >= refunded[p]
        /\ debits[p] \in Nat /\ debits[p] <= refunded[p]
    BY <1>typ, RowsGrow DEF DebitInv, Backed
  <2>2. CASE debits'[p] = debits[p]
    BY <2>1, <2>2
  <2>3. CASE /\ Record(r) /\ job[r].op = "refund" /\ p = Of(r)
             /\ debits'[p] = debits[p] + job[r].amount
    <3>1. debits[p] + job[r].amount <= refunded[p]
      BY <2>3 DEF Record, DebitInv, Due
    <3> QED
      BY <1>typ, <2>1, <2>3, <3>1
  <2> QED
    BY <1>deb, <2>2, <2>3
<1> QED
  BY <1>1, <1>2 DEF DebitInv

-----------------------------------------------------------------------------
(* The CREDIT entries. *)

(* A payment comes into being by its one initiation, and stays. *)
Born ==
    \A r \in Request :
        /\ job[r].op = "initiate" /\ pc[r] \in {"check", "claim", "lock", "create"}
              => status[Of(r)] = "none"
        /\ job[r].op # "initiate" /\ pc[r] \in {"total", "create", "status"}
              => status[Of(r)] # "none"

(* No webhook is about payment p. *)
Unhooked(p) == \A r \in Request : Of(r) = p => job[r].op \notin WebhookEventType

Open == InFlight \cup {"none"}

(* Without webhooks a payment that was credited, or is about to be once    *)
(* more, is no longer open, and only one confirmation at a time is about   *)
(* to add a credit.                                                        *)
Credited ==
    \A p \in Payment : Unhooked(p) =>
        /\ credits[p] <= 1
        /\ credits[p] = 1 => status[p] \notin Open
        /\ \A r \in Request : Of(r) = p /\ job[r].op = "confirm" =>
              /\ pc[r] \in {"status", "audit", "ledger"} => credits[p] = 0
              /\ pc[r] \in {"audit", "ledger"} => status[p] \notin Open

CreditInv == Born /\ Credited

(* What a step may write into the status of a payment. *)
LEMMA Writes ==
    ASSUME TypeInv, NEW r \in Request, StepOf(r), NEW p \in Payment
    PROVE  \/ status'[p] = status[p]
           \/ CreatePayment(r) /\ p = Of(r) /\ status'[p] = "PENDING"
           \/ /\ UpdateStatus(r) /\ p = Of(r) /\ status'[p] # "none"
              /\ job[r].op \in Api => status'[p] \notin Open
<1>typ. status \in [Payment -> Status] /\ Of(r) \in Payment
  BY JobType DEF TypeInv, TypeOK
<1>1. CASE CreatePayment(r)
  BY <1>typ, <1>1 DEF CreatePayment
<1>2. CASE UpdateStatus(r)
  <2>1. job[r].op \in {"confirm", "cancel", "refund", "authorized", "captured", "failed", "voided"}
    BY <1>2, JobType DEF UpdateStatus, TypeInv, Routed, Api, WebhookEventType
  <2>2. status' = [status EXCEPT ![Of(r)] =
                      IF job[r].op = "refund" THEN NewStatus(r) ELSE Target[job[r].op]]
    BY <1>2 DEF UpdateStatus
  <2>3. CASE p # Of(r)
    BY <1>typ, <2>2, <2>3
  <2>4. CASE p = Of(r) /\ job[r].op = "refund"
    BY <1>typ, <1>2, <2>2, <2>4 DEF NewStatus, Open, InFlight
  <2>5. CASE p = Of(r) /\ job[r].op # "refund"
    <3>1. status'[p] = Target[job[r].op]
      BY <1>typ, <2>2, <2>5
    <3> QED
      BY <1>2, <2>1, <2>5, <3>1 DEF Target, Open, InFlight, Api
  <2> QED
    BY <2>3, <2>4, <2>5
<1> QED
  BY <1>1, <1>2, Writers

(* Nobody returns to the steps before an initiation's insert. *)
LEMMA Early ==
    ASSUME TypeInv, NEW r \in Request, StepOf(r),
           pc'[r] \in {"check", "claim", "lock", "create"}, job[r].op = "initiate"
    PROVE  pc[r] \in {"check", "claim", "lock", "create"}
<1>1. CASE Check(r) \/ Claim(r) \/ ClaimError(r) \/ Store(r)
  BY <1>1, Paths DEF Went
<1>2. CASE Acquire(r) \/ LockTaken(r) \/ LockError(r) \/ Unlock(r)
  BY <1>2, Paths DEF Went
<1>3. CASE Read(r) \/ Total(r) \/ CreatePayment(r) \/ CreateRefund(r) \/ UpdateStatus(r)
  BY <1>3, Paths DEF Went, TypeInv, Routed
<1>4. CASE AddAuditEntry(r) \/ Record(r) \/ Invalidate(r) \/ StepError(r) \/ Crash(r)
  BY <1>4, Paths DEF Went
<1> QED
  BY <1>1, <1>2, <1>3, <1>4 DEF StepOf, Handle

(* A handler's step keeps Born. *)
LEMMA StepBorn ==
    ASSUME TypeInv, Born, NEW r \in Request, StepOf(r)
    PROVE  Born'
<1>mov. /\ job' = job
        /\ \A q \in Request \ {r} : pc'[q] = pc[q]
  BY StepRoute DEF Moved, Others
<1>one. ASSUME NEW q \in Request, job[q].op = "initiate", job[r].op = "initiate", Of(q) = Of(r)
        PROVE  q = r
  BY <1>one, PaymentAssumption DEF Of, TypeInv, TypeOK
<1>1. ASSUME NEW q \in Request, job[q].op = "initiate",
             pc'[q] \in {"check", "claim", "lock", "create"}
      PROVE  status'[Of(q)] = "none"
  <2>1. Of(q) \in Payment
    BY JobType DEF TypeInv
  <2>2. pc[q] \in {"check", "claim", "lock", "create"}
    BY <1>mov, <1>1, Early
  <2>3. status[Of(q)] = "none"
    BY <1>1, <2>2 DEF Born
  <2>4. ASSUME CreatePayment(r), Of(q) = Of(r) PROVE FALSE
    <3>1. q = r
      BY <1>1, <1>one, <2>4 DEF CreatePayment
    <3> QED
      BY <1>1, <2>4, <3>1, Paths DEF Went
  <2>5. ASSUME UpdateStatus(r), Of(q) = Of(r) PROVE FALSE
    <3>1. job[r].op # "initiate" /\ pc[r] = "status"
      BY <2>5 DEF UpdateStatus, TypeInv, Routed
    <3> QED
      BY <2>3, <2>5, <3>1 DEF Born
  <2> QED
    BY <2>1, <2>3, <2>4, <2>5, Writes
<1>2. ASSUME NEW q \in Request, job[q].op # "initiate",
             pc'[q] \in {"total", "create", "status"}
      PROVE  status'[Of(q)] # "none"
  <2>1. Of(q) \in Payment
    BY JobType DEF TypeInv
  <2>2. status[Of(q)] # "none"
    <3>1. CASE q # r
      BY <1>mov, <1>2, <3>1 DEF Born
    <3>2. CASE q = r /\ pc[r] \in {"total", "create", "status"}
      BY <1>2, <3>2 DEF Born
    <3>3. CASE q = r /\ Read(r)
      <4>1. pc'[r] \notin {"unlock", "store", "done"}
        BY <1>2, <3>3
      <4>2. ~Leave(r, IF job[r].op \in Api THEN "refused" ELSE "ok")
        BY <4>1, LeaveMoves DEF TypeInv, Outcome
      <4>3. status[Of(r)] \in Allowed[job[r].op]
        BY <3>3, <4>2 DEF Read
      <4>4. job[r].op \in {"confirm", "cancel", "refund", "authorized", "captured", "failed",
                           "voided"}
        BY <1>2, <3>3, JobType DEF TypeInv, Api, WebhookEventType
      <4> QED
        BY <3>3, <4>3, <4>4 DEF Allowed, InFlight
    <3> QED
      BY <1>2, <3>1, <3>2, <3>3, Arrivals DEF Total, CreateRefund
  <2> QED
    BY <2>1, <2>2, Writes
<1> QED
  BY <1>mov, <1>1, <1>2 DEF Born, Of

(* A handler's step keeps Credited. *)
LEMMA StepCredited ==
    ASSUME TypeInv, Owned, CreditInv, NEW r \in Request, StepOf(r)
    PROVE  Credited'
<1>typ. Of(r) \in Payment /\ credits \in [Payment -> Nat]
  BY JobType DEF TypeInv, TypeOK
<1>mov. /\ job' = job
        /\ \A q \in Request \ {r} : pc'[q] = pc[q]
  BY StepRoute DEF Moved, Others
<1> SUFFICES ASSUME NEW p \in Payment, Unhooked(p)
             PROVE  /\ credits'[p] <= 1
                    /\ credits'[p] = 1 => status'[p] \notin Open
                    /\ \A q \in Request : Of(q) = p /\ job[q].op = "confirm" =>
                          /\ pc'[q] \in {"status", "audit", "ledger"} => credits'[p] = 0
                          /\ pc'[q] \in {"audit", "ledger"} => status'[p] \notin Open
  BY <1>mov DEF Credited, Unhooked, Of
<1>old. /\ credits[p] \in Nat /\ credits[p] <= 1
        /\ credits[p] = 1 => status[p] \notin Open
        /\ \A q \in Request : Of(q) = p /\ job[q].op = "confirm" =>
              /\ pc[q] \in {"status", "audit", "ledger"} => credits[p] = 0
              /\ pc[q] \in {"audit", "ledger"} => status[p] \notin Open
  BY <1>typ DEF CreditInv, Credited
<1>sta. status[p] \notin Open => status'[p] \notin Open
  <2>1. ASSUME CreatePayment(r), p = Of(r) PROVE status[p] = "none"
    BY <2>1 DEF CreatePayment, CreditInv, Born
  <2>2. ASSUME p = Of(r) PROVE job[r].op \in Api
    BY <2>2, JobType DEF Unhooked, TypeInv
  <2> QED
    BY <2>1, <2>2, Writes DEF Open
<1>cre. \/ credits'[p] = credits[p]
        \/ /\ Record(r) /\ job[r].op = "confirm" /\ p = Of(r)
           /\ credits'[p] = credits[p] + 1
  BY <1>typ, Writers DEF Record, ledger
<1>1. CASE Record(r) /\ job[r].op = "confirm" /\ p = Of(r) /\ credits'[p] = credits[p] + 1
  <2>1. credits[p] = 0 /\ status[p] \notin Open
    BY <1>1, <1>old DEF Record
  <2>2. ASSUME NEW q \in Request, Of(q) = p, job[q].op = "confirm",
               pc'[q] \in {"status", "audit", "ledger"}
        PROVE  FALSE
    <3>1. q # r
      BY <1>1, <2>2, Paths DEF Went
    <3>2. Inside(q) /\ Inside(r) /\ job[q].op = job[r].op
      BY <1>1, <1>mov, <2>2, <3>1 DEF Record, Inside, Api
    <3> QED
      BY <1>1, <2>2, <3>1, <3>2, Alone
  <2> QED
    BY <1>1, <1>sta, <2>1, <2>2
<1>2. CASE credits'[p] = credits[p]
  <2>1. ASSUME NEW q \in Request, Of(q) = p, job[q].op = "confirm"
        PROVE  /\ pc'[q] \in {"status", "audit", "ledger"} => credits[p] = 0
               /\ pc'[q] \in {"audit", "ledger"} => status'[p] \notin Open
    <3>1. CASE q # r
      BY <1>mov, <1>old, <1>sta, <2>1, <3>1
    <3>2. CASE q = r /\ pc'[r] = "status"
      <4>1. Read(r)
        BY <2>1, <3>2, Arrivals DEF CreateRefund
      <4>2. ~Leave(r, "refused")
        BY <3>2, LeaveMoves DEF TypeInv, Outcome
      <4>3. status[p] \in Open
        BY <2>1, <3>2, <4>1, <4>2 DEF Read, Allowed, Open, Api
      <4> QED
        BY <1>old, <3>2, <4>3
    <3>3. CASE q = r /\ pc'[r] = "audit"
      <4>1. UpdateStatus(r)
        BY <3>3, Arrivals
      <4>2. status'[p] = "SUCCESS"
        BY <2>1, <3>3, <4>1 DEF UpdateStatus, Target, TypeInv, TypeOK
      <4> QED
        BY <1>old, <2>1, <3>3, <4>1, <4>2 DEF UpdateStatus, Open, InFlight
    <3>4. CASE q = r /\ pc'[r] = "ledger"
      <4>1. pc[r] = "audit"
        BY <3>4, Arrivals DEF AddAuditEntry
      <4> QED
        BY <1>old, <1>sta, <2>1, <3>4, <4>1
    <3> QED
      BY <3>1, <3>2, <3>3, <3>4
  <2> QED
    BY <1>2, <1>old, <1>sta, <2>1
<1> QED
  BY <1>cre, <1>1, <1>2

(* With timely holders the ledger never shows more refunds than there are, *)
(* nor two credits for a payment that no webhook is about.                 *)
THEOREM LedgerIsBacked == HoldersTimely => (Spec => []LedgerBacked)
<1> SUFFICES ASSUME HoldersTimely PROVE Spec => []LedgerBacked
  OBVIOUS
<1>1. Init => Owned
  BY DEF Init, Owned, Inside
<1>2. Init => DebitInv /\ CreditInv
  <2> SUFFICES ASSUME Init PROVE DebitInv /\ CreditInv
    OBVIOUS
  <2>1. \A r \in Request : pc[r] \in {"check", "lock"}
    BY DEF Init
  <2>2. DebitInv
    BY <2>1 DEF Init, DebitInv, Due, Backed
  <2>3. Born
    BY <2>1, PaymentAssumption DEF Init, Born, Of
  <2>4. Credited
    BY <2>1 DEF Init, Credited
  <2> QED
    BY <2>2, <2>3, <2>4 DEF CreditInv
<1>3. ASSUME TypeInv, Owned, DebitInv, CreditInv, [Next]_vars PROVE DebitInv' /\ CreditInv'
  <2>1. CASE Idle
    BY <1>3, <2>1 DEF Idle, DebitInv, Due, Backed, CreditInv, Born, Credited, Unhooked,
       payments, ledger, Of
  <2> QED
    BY <1>3, <2>1, Kinds, StepDebitInv, StepBorn, StepCredited DEF CreditInv
<1>4. TypeInv /\ DebitInv /\ CreditInv => LedgerBacked
  <2> SUFFICES ASSUME TypeInv, DebitInv, CreditInv, NEW p \in Payment
               PROVE  /\ debits[p] <= refunded[p]
                      /\ \/ credits[p] <= 1
                         \/ \E r \in Request : Of(r) = p /\ job[r].op \in WebhookEventType
    BY DEF LedgerBacked
  <2> QED
    BY DEF DebitInv, Backed, CreditInv, Credited, Unhooked
<1> QED
  BY <1>1, <1>2, <1>3, <1>4, InitType, NextType, NextOwned, PTL DEF Spec

-----------------------------------------------------------------------------
(* The idempotency keys. *)

(* A request that works under a key has it marked, and is the only one. *)
Marked ==
    /\ HoldersTimely
    /\ \A r \in Request : Claiming(r) => idem[job[r].key] = "PROCESSING"
    /\ \A q, r \in Request : Claiming(q) /\ Claiming(r) /\ job[q].key = job[r].key => q = r

(* A failed request is on its way out. *)
Leaving == \A r \in Request : Failed(r) => pc[r] \in {"unlock", "store", "done"}

(* Whoever has inserted its row is past the insert, and once it is done,   *)
(* its answer is stored, unless it failed.                                 *)
Kept ==
    \A r \in made :
        /\ pc[r] \in {"status", "audit", "ledger", "invalidate", "unlock", "store", "done"}
        /\ pc[r] = "done" /\ job[r].key # None /\ ~Failed(r) => idem[job[r].key] = "stored"

KeyInv == Marked /\ Leaving /\ Kept /\ OncePerKey

(* Who marks a key finds it absent; who gives it up was working under it. *)
LEMMA StepKeys ==
    ASSUME TypeInv, Marked, NEW r \in Request, StepOf(r), NEW k \in Key
    PROVE  /\ Claiming(r)' /\ job[r].key = k => Claiming(r) \/ (idem[k] = "absent" /\ Claim(r))
           /\ Claiming(r)' /\ job[r].key = k => idem'[k] = "PROCESSING"
           /\ idem'[k] # idem[k] => \/ idem[k] = "absent"
                                    \/ Store(r) /\ job[r].key = k /\ Claiming(r)
           /\ idem'[k] = "absent" /\ idem[k] # "absent" => Store(r)
<1>typ. idem \in [Key -> {"absent", "PROCESSING", "stored"}] /\ job' = job
  BY StepRoute DEF TypeInv, TypeOK, Moved
<1>key. Claiming(r) => idem[job[r].key] = "PROCESSING"
  BY DEF Marked
<1>1. CASE Claim(r)
  <2>1. \/ Claiming(r)' /\ idem[job[r].key] = "absent"
           /\ idem' = [idem EXCEPT ![job[r].key] = "PROCESSING"]
        \/ ~Claiming(r)' /\ idem' = idem
    <3>1. CASE /\ idem[job[r].key] = "absent" /\ idem' = [idem EXCEPT ![job[r].key] = "PROCESSING"]
               /\ Goto(r, IF job[r].op \in Api THEN "lock" ELSE "read")
      <4>1. pc'[r] \in {"lock", "read"}
        BY <3>1 DEF Goto, TypeInv, TypeOK
      <4>2. job[r].key # None
        BY <1>1 DEF Claim, TypeInv, Routed
      <4> QED
        BY <1>typ, <3>1, <4>1, <4>2 DEF Claiming
    <3>2. CASE idem' = idem /\ Goto(r, "done")
      BY <3>2 DEF Goto, Claiming, TypeInv, TypeOK
    <3> QED
      BY <1>1, <3>1, <3>2 DEF Claim, Unclaimed
  <2> QED
    BY <1>1, <1>typ, <2>1
<1>2. CASE ClaimError(r)
  <2>1. ~Claiming(r)'
    BY <1>2, Paths DEF Claiming, Went
  <2>2. \/ idem[job[r].key] = "absent" /\ idem' = [idem EXCEPT ![job[r].key] = "PROCESSING"]
        \/ idem' = idem
    BY <1>2 DEF ClaimError, Unclaimed
  <2> QED
    BY <1>typ, <2>1, <2>2
<1>3. CASE Store(r)
  <2>1. ~Claiming(r)'
    BY <1>3, Paths DEF Claiming, Went
  <2>2. pc[r] = "store" /\ job[r].key # None
    BY <1>3 DEF Store, TypeInv, Routed
  <2>3. idem' = idem \/ idem' = [idem EXCEPT ![job[r].key] = Stored(r)]
    BY <1>3 DEF Store
  <2>4. idem'[k] # idem[k] => job[r].key = k
    BY <1>typ, <2>3
  <2> QED
    BY <1>3, <2>1, <2>2, <2>4 DEF Claiming
<1>4. CASE ~Claim(r) /\ ~ClaimError(r) /\ ~Store(r)
  <2>1. idem' = idem
    BY <1>4, Writers
  <2>2. Claiming(r)' => Claiming(r)
    <3>1. CASE Check(r)
      BY <3>1, <1>typ, Paths DEF Went, Claiming
    <3>2. CASE pc[r] \notin {"check", "claim", "done"}
      BY <3>2, <1>typ DEF Claiming
    <3>3. Check(r) \/ pc[r] \notin {"check", "claim", "done"} \/ pc'[r] = "done"
      BY <1>4, Paths DEF StepOf, Handle, Went
    <3> QED
      BY <3>1, <3>2, <3>3 DEF Claiming
  <2> QED
    BY <1>key, <1>typ, <2>1, <2>2
<1> QED
  BY <1>1, <1>2, <1>3, <1>4

(* A handler's step keeps Marked. *)
LEMMA StepMarked ==
    ASSUME TypeInv, Marked, NEW r \in Request, StepOf(r)
    PROVE  Marked'
<1>mov. /\ job' = job
        /\ \A q \in Request \ {r} : pc'[q] = pc[q]
  BY StepRoute DEF Moved, Others
<1>oth. \A q \in Request \ {r} : Claiming(q)' = Claiming(q)
  BY <1>mov DEF Claiming
<1>key. \A q \in Request : job[q].key # None => job[q].key \in Key
  BY JobType DEF TypeInv
<1>1. ASSUME NEW q \in Request \ {r}, Claiming(q), Claiming(r)'
      PROVE  job[q].key # job[r].key
  <2> SUFFICES ASSUME job[q].key = job[r].key PROVE FALSE
    OBVIOUS
  <2>1. idem[job[q].key] = "PROCESSING" /\ job[r].key \in Key
    BY <1>1, <1>key DEF Marked, Claiming
  <2>2. Claiming(r)
    BY <1>1, <2>1, StepKeys
  <2> QED
    BY <1>1, <2>2 DEF Marked
<1>2. ASSUME NEW q \in Request, Claiming(q)' PROVE idem'[job[q].key] = "PROCESSING"
  <2>1. job[q].key \in Key
    BY <1>mov, <1>key, <1>2 DEF Claiming
  <2>2. CASE q = r
    BY <1>2, <2>1, <2>2, StepKeys
  <2>3. CASE q # r
    <3>1. Claiming(q) /\ idem[job[q].key] = "PROCESSING"
      BY <1>oth, <1>2, <2>3 DEF Marked
    <3>2. ~(Claiming(r) /\ job[r].key = job[q].key)
      BY <2>3, <3>1 DEF Marked
    <3> QED
      BY <2>1, <3>1, <3>2, StepKeys
  <2> QED
    BY <2>2, <2>3
<1>3. ASSUME NEW q \in Request, NEW s \in Request, Claiming(q)', Claiming(s)',
             job[q].key = job[s].key
      PROVE  q = s
  BY <1>oth, <1>1, <1>3 DEF Marked
<1> QED
  BY <1>mov, <1>2, <1>3 DEF Marked

(* A handler's step keeps Leaving. *)
LEMMA StepLeaving ==
    ASSUME TypeInv, Leaving, NEW r \in Request, StepOf(r)
    PROVE  Leaving' /\ \A q \in Request : Failed(q) => Failed(q)'
<1>1. Others(r)
  BY StepRoute DEF Moved
<1>2. /\ Failed(r)' => pc'[r] \in {"unlock", "store", "done"}
      /\ Failed(r) => Failed(r)'
  <2>1. CASE Check(r) \/ Claim(r) \/ ClaimError(r) \/ Store(r)
    BY <2>1, Paths DEF Went, Same, Failed, Leaving
  <2>2. CASE Acquire(r) \/ LockTaken(r) \/ LockError(r) \/ Unlock(r)
    BY <2>2, Paths DEF Went, Same, Failed, Leaving
  <2>3. CASE Read(r) \/ Total(r) \/ CreatePayment(r) \/ CreateRefund(r) \/ UpdateStatus(r)
    BY <2>3, Paths DEF Went, Same, Failed, Leaving
  <2>4. CASE AddAuditEntry(r) \/ Record(r) \/ Invalidate(r) \/ StepError(r) \/ Crash(r)
    BY <2>4, Paths DEF Went, Same, Failed, Leaving
  <2> QED
    BY <2>1, <2>2, <2>3, <2>4 DEF StepOf, Handle
<1> QED
  BY <1>1, <1>2 DEF Leaving, Others, Failed

(* A handler's step keeps Kept. *)
LEMMA StepKept ==
    ASSUME TypeInv, Marked, Leaving, Kept, NEW r \in Request, StepOf(r)
    PROVE  Kept'
<1>mov. /\ job' = job
        /\ \A q \in Request \ {r} : pc'[q] = pc[q]
        /\ \A q \in Request \ {r} : Failed(q)' = Failed(q)
  BY StepRoute DEF Moved, Others, Failed
<1>typ. /\ made \subseteq Request
        /\ idem \in [Key -> {"absent", "PROCESSING", "stored"}]
        /\ \A q \in Request : job[q].key # None => job[q].key \in Key
  BY JobType DEF TypeInv, TypeOK
<1>sto. ASSUME NEW k \in Key, idem[k] = "stored" PROVE idem'[k] = "stored"
  BY <1>sto, StepKeys DEF Marked
<1>1. ASSUME NEW q \in made', q # r
      PROVE  /\ pc'[q] \in {"status", "audit", "ledger", "invalidate", "unlock", "store", "done"}
             /\ pc'[q] = "done" /\ job[q].key # None /\ ~Failed(q)' => idem'[job[q].key] = "stored"
  <2>1. q \in made /\ q \in Request \ {r}
    BY <1>typ, <1>1, Writers DEF CreatePayment, CreateRefund
  <2> QED
    BY <1>mov, <1>typ, <1>sto, <2>1 DEF Kept
<1>2. ASSUME r \in made'
      PROVE  /\ pc'[r] \in {"status", "audit", "ledger", "invalidate", "unlock", "store", "done"}
             /\ pc'[r] = "done" /\ job[r].key # None /\ ~Failed(r)' => idem'[job[r].key] = "stored"
  <2>0. \/ r \in made \/ CreatePayment(r) \/ CreateRefund(r)
    BY <1>2, Writers
  <2>1. CASE CreatePayment(r) \/ CreateRefund(r)
    BY <2>1, Paths DEF Went
  <2>2. CASE r \in made /\ Store(r)
    <3>1. pc'[r] = "done" /\ job[r].key # None /\ job[r].key \in Key
      BY <1>typ, <2>2, Paths DEF Went, Store, TypeInv, Routed
    <3>2. CASE idem' = [idem EXCEPT ![job[r].key] = Stored(r)] /\ UNCHANGED outcome
      BY <1>typ, <3>1, <3>2 DEF Stored, Failed
    <3>3. CASE End(r, IF outcome[r] = "error" THEN "error" ELSE "unstored")
      <4>1. Failed(r)'
        BY <3>3 DEF End, Failed, TypeInv, TypeOK
      <4> QED
        BY <3>1, <4>1
    <3> QED
      BY <2>2, <3>2, <3>3 DEF Store
  <2>3. CASE r \in made /\ ~Store(r) /\ ~CreatePayment(r) /\ ~CreateRefund(r)
    <3>1. pc[r] \in {"status", "audit", "ledger", "invalidate", "unlock", "store", "done"}
      BY <2>3 DEF Kept
    <3>2. ~(Check(r) \/ Claim(r) \/ ClaimError(r) \/ Acquire(r) \/ LockTaken(r) \/ LockError(r)
              \/ Read(r) \/ Total(r))
      BY <3>1 DEF Check, Claim, ClaimError, Acquire, LockTaken, LockError, Read, Total
    <3>3. CASE UpdateStatus(r) \/ AddAuditEntry(r) \/ Record(r) \/ Invalidate(r)
      BY <3>3, Paths DEF Went
    <3>4. CASE Unlock(r)
      BY <3>4, Paths DEF Went, Answers
    <3>5. CASE StepError(r) \/ Crash(r)
      <4>1. Failed(r)' /\ pc'[r] \in {"unlock", "done"}
        BY <3>5, Paths DEF Went, Failed
      <4> QED
        BY <4>1
    <3> QED
      BY <2>3, <3>2, <3>3, <3>4, <3>5 DEF StepOf, Handle
  <2> QED
    BY <2>0, <2>1, <2>2, <2>3
<1> QED
  BY <1>mov, <1>1, <1>2 DEF Kept

(* A handler's step keeps OncePerKey: an insert under a key finds every    *)
(* earlier one under it done, and not stored.                              *)
LEMMA StepOnce ==
    ASSUME TypeInv, KeyInv, NEW r \in Request, StepOf(r)
    PROVE  OncePerKey'
<1>mov. job' = job
  BY StepRoute DEF Moved
<1>typ. made \subseteq Request
  BY DEF TypeInv, TypeOK
<1>fai. \A q \in Request : Failed(q) => Failed(q)'
  BY StepLeaving DEF KeyInv
<1>1. ASSUME NEW q \in made, CreatePayment(r) \/ CreateRefund(r), q # r,
             job[q].key = job[r].key, job[r].key # None
      PROVE  Failed(q)
  <2>1. Claiming(r) /\ idem[job[r].key] = "PROCESSING"
    BY <1>1 DEF CreatePayment, CreateRefund, Claiming, KeyInv, Marked
  <2>2. ~Claiming(q)
    BY <1>typ, <1>1, <2>1 DEF KeyInv, Marked
  <2>3. pc[q] = "done"
    BY <1>1, <2>2 DEF KeyInv, Kept, Claiming
  <2> QED
    BY <1>1, <2>1, <2>3 DEF KeyInv, Kept
<1> SUFFICES ASSUME NEW q \in made', NEW s \in made', q # s, job[q].key = job[s].key,
                    job[s].key # None
             PROVE  Failed(q)' \/ Failed(s)'
  BY <1>mov DEF OncePerKey
<1>2. CASE q \in made /\ s \in made
  BY <1>typ, <1>fai, <1>2 DEF KeyInv, OncePerKey
<1>3. CASE q \in made /\ s \notin made
  <2>1. s = r /\ (CreatePayment(r) \/ CreateRefund(r))
    BY <1>3, Writers DEF CreatePayment, CreateRefund
  <2> QED
    BY <1>typ, <1>fai, <1>1, <1>3, <2>1
<1>4. CASE q \notin made /\ s \in made
  <2>1. q = r /\ (CreatePayment(r) \/ CreateRefund(r))
    BY <1>4, Writers DEF CreatePayment, CreateRefund
  <2> QED
    BY <1>typ, <1>fai, <1>1, <1>4, <2>1
<1>5. CASE q \notin made /\ s \notin made
  BY <1>5, Writers DEF CreatePayment, CreateRefund
<1> QED
  BY <1>2, <1>3, <1>4, <1>5

(* With timely holders two requests with one key both insert their row     *)
(* only if one of them failed.                                             *)
THEOREM OncePerIdempotencyKey == HoldersTimely => (Spec => []OncePerKey)
<1> SUFFICES ASSUME HoldersTimely PROVE Spec => []OncePerKey
  OBVIOUS
<1>1. Init => KeyInv
  <2> SUFFICES ASSUME Init PROVE KeyInv
    OBVIOUS
  <2>1. \A r \in Request : ~Claiming(r) /\ ~Failed(r)
    BY DEF Init, Claiming, Failed
  <2> QED
    BY <2>1 DEF Init, KeyInv, Marked, Leaving, Kept, OncePerKey
<1>2. ASSUME TypeInv, KeyInv, [Next]_vars PROVE KeyInv'
  <2>1. ASSUME NEW r \in Request, StepOf(r) PROVE KeyInv'
    BY <1>2, <2>1, StepMarked, StepLeaving, StepKept, StepOnce DEF KeyInv
  <2>2. CASE Idle /\ idem' = idem
    BY <1>2, <2>2 DEF Idle, KeyInv, Marked, Leaving, Kept, OncePerKey, Claiming, Failed
  <2>3. ASSUME NEW k \in Key, ExpireKey(k) PROVE KeyInv'
    <3>1. UNCHANGED <<job, pc, made, outcome>>
      BY <2>3 DEF ExpireKey
    <3>2. \A l \in Key : idem'[l] # idem[l] => l = k
      BY <1>2, <2>3 DEF ExpireKey, TypeInv, TypeOK
    <3>3. \A r \in Request : Claiming(r) => job[r].key # k
      BY <2>3 DEF ExpireKey
    <3>4. \A r \in Request : job[r].key # None => job[r].key \in Key
      BY <1>2, JobType DEF TypeInv
    <3>5. idem[k] = "PROCESSING" /\ made \subseteq Request
      BY <1>2, <2>3 DEF ExpireKey, TypeInv, TypeOK
    <3>6. Marked'
      BY <1>2, <3>1, <3>2, <3>3, <3>4 DEF KeyInv, Marked, Claiming
    <3>7. Kept'
      BY <1>2, <3>1, <3>2, <3>4, <3>5 DEF KeyInv, Kept, Failed
    <3>8. Leaving' /\ OncePerKey'
      BY <1>2, <3>1 DEF KeyInv, Leaving, OncePerKey, Failed
    <3> QED
      BY <3>6, <3>7, <3>8 DEF KeyInv
  <2>4. ASSUME NEW x \in Resource, Expire(x) PROVE Idle /\ idem' = idem
    BY <2>4 DEF Expire, Idle
  <2>5. CASE UNCHANGED vars
    BY <2>2, <2>5 DEF vars, Idle
  <2> QED
    BY <1>2, <2>1, <2>2, <2>3, <2>4, <2>5 DEF Next, StepOf
<1>3. KeyInv => OncePerKey
  BY DEF KeyInv
<1> QED
  BY <1>1, <1>2, <1>3, InitType, NextType, PTL DEF Spec

=============================================================================
