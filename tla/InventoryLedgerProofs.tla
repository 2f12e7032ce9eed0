----------------------- MODULE InventoryLedgerProofs -----------------------
(***************************************************************************)
(* InventoryService implements RoomLedger, for every calendar and every    *)
(* workload that satisfies the two assumptions about callers.  On top of   *)
(* the invariants of InventoryProofs this needs to know what has become of *)
(* a booking reference: who may have written its reservation rows.         *)
(***************************************************************************)
EXTENDS InventoryProofs

(* Every handler is at a step of its own operation. *)
OnRoute ==
    \A r \in Request :
        /\ pc[r] \in {"validate", "txread", "txwrite", "commit"} => job[r].op = "reserve"
        /\ pc[r] \in Unlocked => job[r].op = "release"
        /\ pc[r] \in {"find", "increment", "record"} => job[r].op = "block"
        /\ pc[r] \in {"read", "decrement", "oldest", "deactivate"} => job[r].op = "unblock"

(* A reservation that has not committed has left no row. *)
Uncommitted ==
    \A r \in Request :
        job[r].op = "reserve"
        /\ pc[r] \in {"acquire", "validate", "txread", "txwrite", "commit", "abort", "failed"}
        => \A d \in Night : active[job[r].ref][d] = 0

(* What a release has read is what is there, and it is something. *)
Snapped ==
    \A r \in Request :
        pc[r] \in {"update", "release"} => /\ snap[r] = active[job[r].ref]
                                           /\ \E d \in Night : snap[r][d] # 0

(* A granted reservation has its rows until the reference is released. *)
Granted ==
    \A r \in Request :
        job[r].op = "reserve" /\ pc[r] \in {"unlock", "done"}
        => \/ \A d \in Nights(r) : active[job[r].ref][d] = job[r].qty
           \/ \E q \in Request : job[q].op = "release" /\ job[q].ref = job[r].ref /\ pc[q] = "done"

RefInv == OnRoute /\ Uncommitted /\ Snapped /\ Granted

(* One reference has at most one request of each operation. *)
LEMMA SameRequest ==
    ASSUME OneRequestPerRef, TypeOK, NEW r \in Request, NEW q \in Request,
           job[r].op = job[q].op, job[r].ref = job[q].ref,
           job[r].op \in {"reserve", "release"}
    PROVE  r = q
<1>1. job \in Workload
  BY DEF TypeOK
<1> QED
  BY <1>1 DEF OneRequestPerRef

(* The moves of one handler, as far as the rows' references are concerned. *)
Early == {"acquire", "validate", "txread", "txwrite", "commit", "abort", "failed"}

(* A step of r that writes no reservation row and reads none. *)
LEMMA RefQuiet ==
    ASSUME TypeOK, RefInv, NEW r \in Request, UNCHANGED <<active, snap, job>>,
           \A q \in Request \ {r} : pc'[q] = pc[q],
           OnRoute', pc'[r] \notin {"update", "release"}, pc[r] \notin {"done"},
           job[r].op = "reserve" /\ pc'[r] \in Early => pc[r] \in Early,
           job[r].op = "reserve" /\ pc'[r] \in {"unlock", "done"} => pc[r] = "unlock"
    PROVE  RefInv'
<1> USE DEF Early
<1>1. Uncommitted'
  BY DEF RefInv, Uncommitted
<1>2. Snapped'
  BY DEF RefInv, Snapped
<1>3. Granted'
  <2> SUFFICES ASSUME NEW p \in Request, job[p].op = "reserve", pc'[p] \in {"unlock", "done"}
               PROVE  \/ \A d \in Nights(p) : active[job[p].ref][d] = job[p].qty
                      \/ \E q \in Request : /\ job[q].op = "release"
                                            /\ job[q].ref = job[p].ref
                                            /\ pc'[q] = "done"
    BY DEF Granted, Nights
  <2>1. pc[p] \in {"unlock", "done"}
    BY DEF RefInv
  <2>2. CASE \A d \in Nights(p) : active[job[p].ref][d] = job[p].qty
    BY <2>2
  <2>3. ASSUME NEW q \in Request, job[q].op = "release", job[q].ref = job[p].ref, pc[q] = "done"
        PROVE  \E x \in Request : /\ job[x].op = "release"
                                  /\ job[x].ref = job[p].ref
                                  /\ pc'[x] = "done"
    <3>1. q # r
      BY <2>3
    <3> QED
      BY <2>3, <3>1
  <2> QED
    BY <2>1, <2>2, <2>3 DEF RefInv, Granted
<1> QED
  BY <1>1, <1>2, <1>3 DEF RefInv

(* No reservation row exists at the start. *)
LEMMA InitRef == Init => RefInv
<1> SUFFICES ASSUME Init PROVE RefInv
  OBVIOUS
<1>1. TypeOK
  BY InitType DEF TypeInv
<1>2. \A r \in Request : job[r].ref \in Ref
  BY <1>1, JobType
<1>3. Uncommitted
  BY <1>2 DEF Init, Uncommitted
<1> QED
  BY <1>3 DEF Init, RefInv, OnRoute, Snapped, Granted, Unlocked

(* Handlers stay on the route of their operation. *)
LEMMA NextRoute == ASSUME TypeInv, OnRoute, [Next]_vars PROVE OnRoute'
<1> USE DEF TypeInv, local
<1>lab. {"acquire", "unlock", "abort", "validate", "txread", "txwrite", "commit", "find",
         "increment", "record", "read", "decrement", "oldest", "deactivate", "count", "select",
         "update", "release", "done", "failed", "crashed"} \subseteq Label
  BY DEF Label, InDatabase, Unlocked, Terminal
<1>off. Unlocked = {"count", "select", "update", "release"}
  BY DEF Unlocked
<1>go. ASSUME NEW r \in Request, NEW l \in Label, Goto(r, l), job' = job
       PROVE  /\ pc'[r] = l
              /\ \A q \in Request \ {r} : pc'[q] = pc[q]
  BY <1>go DEF Goto, TypeOK
<1>adv. ASSUME NEW r \in Request, NEW d \in Night, NEW again \in Label, NEW after \in Label,
               Advance(r, d, again, after)
        PROVE  /\ pc'[r] \in {again, after}
               /\ \A q \in Request \ {r} : pc'[q] = pc[q]
  BY <1>adv, AdvanceType
<1>leave. ASSUME NEW r \in Request, job' = job, \A q \in Request \ {r} : pc'[q] = pc[q],
                 pc'[r] \in {"acquire", "unlock", "abort", "done", "failed", "crashed"}
          PROVE  OnRoute'
  BY <1>leave, <1>off DEF OnRoute
<1>reserve. ASSUME NEW r \in Request, job' = job, \A q \in Request \ {r} : pc'[q] = pc[q],
                 job[r].op = "reserve",
                 pc'[r] \in {"acquire", "validate", "txread", "txwrite", "commit"}
          PROVE  OnRoute'
  BY <1>reserve, <1>off DEF OnRoute
<1>block. ASSUME NEW r \in Request, job' = job, \A q \in Request \ {r} : pc'[q] = pc[q],
                 job[r].op = "block", pc'[r] \in {"find", "increment", "record"}
          PROVE  OnRoute'
  BY <1>block, <1>off DEF OnRoute
<1>unblock. ASSUME NEW r \in Request, job' = job, \A q \in Request \ {r} : pc'[q] = pc[q],
                 job[r].op = "unblock", pc'[r] \in {"read", "decrement", "oldest", "deactivate"}
          PROVE  OnRoute'
  BY <1>unblock, <1>off DEF OnRoute
<1>release. ASSUME NEW r \in Request, job' = job, \A q \in Request \ {r} : pc'[q] = pc[q],
                 job[r].op = "release", pc'[r] \in Unlocked
          PROVE  OnRoute'
  BY <1>release, <1>off DEF OnRoute
<1>1. ASSUME NEW r \in Request, Acquire(r) PROVE OnRoute'
  <2>1. PICK d \in Night : Advance(r, d, "acquire", Body[job[r].op])
    BY <1>1 DEF Acquire
  <2>2. pc[r] = "acquire" /\ job' = job
    BY <1>1 DEF Acquire
  <2>3. job[r].op \in {"reserve", "block", "unblock"}
    BY <2>2, JobType DEF Routed
  <2>4. Body[job[r].op] = (IF job[r].op = "reserve" THEN "validate"
                           ELSE IF job[r].op = "block" THEN "find" ELSE "read")
    BY <2>3 DEF Body
  <2>5. Body[job[r].op] \in Label
    BY <2>4, <1>lab
  <2>6. /\ pc'[r] \in {"acquire", Body[job[r].op]}
        /\ \A q \in Request \ {r} : pc'[q] = pc[q]
    BY <2>1, <2>5, <1>lab, <1>adv
  <2> QED
    BY <2>2, <2>3, <2>4, <2>6, <1>leave, <1>reserve, <1>block, <1>unblock
<1>2. ASSUME NEW r \in Request, AcquireRefused(r) \/ AcquireReplyLost(r) PROVE OnRoute'
  <2>1. (Goto(r, "failed") \/ Goto(r, "abort")) /\ job' = job
    BY <1>2 DEF AcquireRefused, AcquireReplyLost, Unwind
  <2> QED
    BY <2>1, <1>lab, <1>go, <1>leave
<1>3. ASSUME NEW r \in Request, Unlock(r) PROVE OnRoute'
  <2>1. /\ Goto(r, "unlock") \/ Goto(r, "abort") \/ Goto(r, "done") \/ Goto(r, "failed")
        /\ job' = job
    BY <1>3 DEF Unlock
  <2> QED
    BY <2>1, <1>lab, <1>go, <1>leave
<1>4. ASSUME NEW r \in Request, Validate(r) PROVE OnRoute'
  <2>1. PICK d \in Night : Advance(r, d, "validate", "txread") \/ Goto(r, "abort")
    BY <1>4 DEF Validate
  <2>2. job' = job /\ job[r].op = "reserve"
    BY <1>4 DEF Validate, OnRoute
  <2>3. /\ pc'[r] \in {"validate", "txread", "abort"}
        /\ \A q \in Request \ {r} : pc'[q] = pc[q]
    BY <2>1, <2>2, <1>lab, <1>adv, <1>go
  <2> QED
    BY <2>2, <2>3, <1>leave, <1>reserve
<1>5. ASSUME NEW r \in Request, TxRead(r) PROVE OnRoute'
  <2>1. /\ Goto(r, "txwrite") \/ Goto(r, "abort")
        /\ job' = job /\ job[r].op = "reserve"
    BY <1>5 DEF TxRead, OnRoute
  <2> QED
    BY <2>1, <1>lab, <1>go, <1>leave, <1>reserve
<1>6. ASSUME NEW r \in Request, TxWrite(r) PROVE OnRoute'
  <2>1. PICK d \in Night : Advance(r, d, "txread", "commit")
    BY <1>6 DEF TxWrite
  <2>2. job' = job /\ job[r].op = "reserve"
    BY <1>6 DEF TxWrite, OnRoute
  <2>3. /\ pc'[r] \in {"txread", "commit"}
        /\ \A q \in Request \ {r} : pc'[q] = pc[q]
    BY <2>1, <2>2, <1>lab, <1>adv
  <2> QED
    BY <2>2, <2>3, <1>reserve
<1>7. ASSUME NEW r \in Request, Commit(r) PROVE OnRoute'
  BY <1>7, <1>lab, <1>go, <1>leave DEF Commit
<1>8. ASSUME NEW r \in Request, BlockFind(r) PROVE OnRoute'
  <2>1. /\ Goto(r, "increment") \/ Goto(r, "abort")
        /\ job' = job /\ job[r].op = "block"
    BY <1>8 DEF BlockFind, OnRoute
  <2> QED
    BY <2>1, <1>lab, <1>go, <1>leave, <1>block
<1>9. ASSUME NEW r \in Request, BlockIncrement(r) PROVE OnRoute'
  <2>1. Goto(r, "record") /\ job' = job /\ job[r].op = "block"
    BY <1>9 DEF BlockIncrement, OnRoute
  <2> QED
    BY <2>1, <1>lab, <1>go, <1>block
<1>10. ASSUME NEW r \in Request, BlockRecord(r) PROVE OnRoute'
  <2>1. PICK d \in Night : Advance(r, d, "find", "unlock")
    BY <1>10 DEF BlockRecord
  <2>2. job' = job /\ job[r].op = "block"
    BY <1>10 DEF BlockRecord, OnRoute
  <2>3. /\ pc'[r] \in {"find", "unlock"}
        /\ \A q \in Request \ {r} : pc'[q] = pc[q]
    BY <2>1, <2>2, <1>lab, <1>adv
  <2> QED
    BY <2>2, <2>3, <1>leave, <1>block
<1>11. ASSUME NEW r \in Request, UnblockRead(r) PROVE OnRoute'
  <2>1. /\ Goto(r, "decrement") \/ Goto(r, "abort")
        /\ job' = job /\ job[r].op = "unblock"
    BY <1>11 DEF UnblockRead, OnRoute
  <2> QED
    BY <2>1, <1>lab, <1>go, <1>leave, <1>unblock
<1>12. ASSUME NEW r \in Request, UnblockDecrement(r) PROVE OnRoute'
  <2>1. Goto(r, "oldest") /\ job' = job /\ job[r].op = "unblock"
    BY <1>12 DEF UnblockDecrement, OnRoute
  <2> QED
    BY <2>1, <1>lab, <1>go, <1>unblock
<1>find. ASSUME NEW r \in Request, UnblockFind(r) PROVE OnRoute'
  <2>1. Goto(r, "deactivate") /\ job' = job /\ job[r].op = "unblock"
    BY <1>find DEF UnblockFind, OnRoute
  <2> QED
    BY <2>1, <1>lab, <1>go, <1>unblock
<1>13. ASSUME NEW r \in Request, UnblockDeactivate(r) PROVE OnRoute'
  <2>1. PICK d \in Night : Advance(r, d, "read", "unlock")
    BY <1>13 DEF UnblockDeactivate
  <2>2. job' = job /\ job[r].op = "unblock"
    BY <1>13 DEF UnblockDeactivate, OnRoute
  <2>3. /\ pc'[r] \in {"read", "unlock"}
        /\ \A q \in Request \ {r} : pc'[q] = pc[q]
    BY <2>1, <2>2, <1>lab, <1>adv
  <2> QED
    BY <2>2, <2>3, <1>leave, <1>unblock
<1>14. ASSUME NEW r \in Request, ReleaseCount(r) \/ ReleaseSelect(r) \/ ReleaseCommit(r)
       PROVE  OnRoute'
  <2>1. Goto(r, "select") \/ Goto(r, "update") \/ Goto(r, "failed") \/ Goto(r, "done")
    BY <1>14 DEF ReleaseCount, ReleaseSelect, ReleaseCommit
  <2>2. job' = job /\ job[r].op = "release"
    BY <1>14, <1>off DEF ReleaseCount, ReleaseSelect, ReleaseCommit, OnRoute
  <2> QED
    BY <2>1, <2>2, <1>lab, <1>off, <1>go, <1>leave, <1>release
<1>upd. ASSUME NEW r \in Request, ReleaseUpdate(r) PROVE OnRoute'
  <2>1. pc[r] = "update" /\ job' = job /\ job[r].op = "release"
    BY <1>upd, <1>off DEF ReleaseUpdate, OnRoute
  <2>2. Goto(r, "release") \/ UNCHANGED pc
    BY <1>upd DEF ReleaseUpdate
  <2> QED
    BY <2>1, <2>2, <1>lab, <1>off, <1>go, <1>release
<1>15. ASSUME NEW r \in Request, DatabaseError(r) \/ Crash(r) PROVE OnRoute'
  <2>1. /\ Goto(r, "abort") \/ Goto(r, "failed") \/ Goto(r, "crashed")
        /\ job' = job
    BY <1>15 DEF DatabaseError, Crash
  <2> QED
    BY <2>1, <1>lab, <1>go, <1>leave
<1>16. CASE UNCHANGED <<job, pc>>
  BY <1>16 DEF OnRoute
<1> QED
  BY <1>1, <1>2, <1>3, <1>4, <1>5, <1>6, <1>7, <1>8, <1>9, <1>10, <1>11, <1>12, <1>13, <1>14,
     <1>15, <1>16, <1>find, <1>upd DEF Next, Step, Expire, Finished, vars

(* Every step keeps the invariants about reservation rows. *)
LEMMA NextRef == ASSUME OneRequestPerRef, TypeInv, RefInv, [Next]_vars PROVE RefInv'
<1> USE DEF TypeInv, local, Early
<1>route. OnRoute'
  BY NextRoute DEF RefInv
<1>lab. {"acquire", "unlock", "abort", "validate", "txread", "txwrite", "commit", "find",
         "increment", "record", "read", "decrement", "oldest", "deactivate", "count", "select",
         "update", "release", "done", "failed", "crashed"} \subseteq Label
  BY DEF Label, InDatabase, Unlocked, Terminal
<1>off. /\ Unlocked = {"count", "select", "update", "release"}
        /\ Terminal = {"done", "failed", "crashed"}
        /\ InDatabase = {"validate", "txread", "txwrite", "commit", "find", "increment",
                         "record", "read", "decrement", "oldest", "deactivate"}
  BY DEF Unlocked, Terminal, InDatabase
<1>go. ASSUME NEW r \in Request, NEW l \in Label, Goto(r, l)
       PROVE  /\ pc'[r] = l
              /\ \A q \in Request \ {r} : pc'[q] = pc[q]
  BY <1>go DEF Goto, TypeOK
<1>adv. ASSUME NEW r \in Request, NEW d \in Night, NEW again \in Label, NEW after \in Label,
               Advance(r, d, again, after)
        PROVE  /\ pc'[r] \in {again, after}
               /\ \A q \in Request \ {r} : pc'[q] = pc[q]
  BY <1>adv, AdvanceType
<1>job. \A r \in Request : /\ job[r].ref \in Ref /\ Nights(r) \subseteq Night
                           /\ job[r].qty \in Nat \ {0}
  BY JobType
<1>act. active \in [Ref -> [Night -> Nat]] /\ snap \in [Request -> [Night -> Nat]]
  BY DEF TypeOK
<1>1. ASSUME NEW r \in Request, Acquire(r) PROVE RefInv'
  <2>1. PICK d \in Night : Advance(r, d, "acquire", Body[job[r].op])
    BY <1>1 DEF Acquire
  <2>2. pc[r] = "acquire" /\ UNCHANGED <<active, snap, job>>
    BY <1>1 DEF Acquire, rows
  <2>3. Body[job[r].op] \in {"validate", "find", "read"}
    <3>1. job[r].op \in {"reserve", "block", "unblock"}
      BY <2>2, JobType DEF Routed
    <3> QED
      BY <3>1 DEF Body
  <2>4. /\ pc'[r] \in {"acquire", "validate", "find", "read"}
        /\ \A q \in Request \ {r} : pc'[q] = pc[q]
    BY <2>1, <2>3, <1>lab, <1>adv
  <2> QED
    BY <2>2, <2>4, <1>route, RefQuiet
<1>2. ASSUME NEW r \in Request, AcquireRefused(r) \/ AcquireReplyLost(r) PROVE RefInv'
  <2>1. /\ Goto(r, "failed") \/ Goto(r, "abort")
        /\ pc[r] = "acquire" /\ UNCHANGED <<active, snap, job>>
    BY <1>2 DEF AcquireRefused, AcquireReplyLost, Unwind, rows
  <2>2. pc'[r] \in {"failed", "abort"} /\ \A q \in Request \ {r} : pc'[q] = pc[q]
    BY <2>1, <1>lab, <1>go
  <2> QED
    BY <2>1, <2>2, <1>route, RefQuiet
<1>3. ASSUME NEW r \in Request, Unlock(r) PROVE RefInv'
  <2>1. \/ pc[r] = "unlock" /\ (Goto(r, "unlock") \/ Goto(r, "done"))
        \/ pc[r] = "abort" /\ (Goto(r, "abort") \/ Goto(r, "failed"))
    BY <1>3 DEF Unlock
  <2>2. UNCHANGED <<active, snap, job>>
    BY <1>3 DEF Unlock, rows
  <2>3. /\ \/ pc[r] = "unlock" /\ pc'[r] \in {"unlock", "done"}
           \/ pc[r] = "abort" /\ pc'[r] \in {"abort", "failed"}
        /\ \A q \in Request \ {r} : pc'[q] = pc[q]
    BY <2>1, <1>lab, <1>go
  <2> QED
    BY <2>2, <2>3, <1>route, RefQuiet
<1>4. ASSUME NEW r \in Request, Validate(r) PROVE RefInv'
  <2>1. PICK d \in Night : Advance(r, d, "validate", "txread") \/ Goto(r, "abort")
    BY <1>4 DEF Validate
  <2>2. pc[r] = "validate" /\ UNCHANGED <<active, snap, job>>
    BY <1>4 DEF Validate
  <2>3. /\ pc'[r] \in {"validate", "txread", "abort"}
        /\ \A q \in Request \ {r} : pc'[q] = pc[q]
    BY <2>1, <1>lab, <1>adv, <1>go
  <2> QED
    BY <2>2, <2>3, <1>route, RefQuiet
<1>5. ASSUME NEW r \in Request, TxRead(r) PROVE RefInv'
  <2>1. /\ Goto(r, "txwrite") \/ Goto(r, "abort")
        /\ pc[r] = "txread" /\ UNCHANGED <<active, snap, job>>
    BY <1>5 DEF TxRead, rows
  <2>2. pc'[r] \in {"txwrite", "abort"} /\ \A q \in Request \ {r} : pc'[q] = pc[q]
    BY <2>1, <1>lab, <1>go
  <2> QED
    BY <2>1, <2>2, <1>route, RefQuiet
<1>6. ASSUME NEW r \in Request, TxWrite(r) PROVE RefInv'
  <2>1. PICK d \in Night : Advance(r, d, "txread", "commit")
    BY <1>6 DEF TxWrite
  <2>2. pc[r] = "txwrite" /\ UNCHANGED <<active, snap, job>>
    BY <1>6 DEF TxWrite, rows
  <2>3. pc'[r] \in {"txread", "commit"} /\ \A q \in Request \ {r} : pc'[q] = pc[q]
    BY <2>1, <1>lab, <1>adv
  <2> QED
    BY <2>2, <2>3, <1>route, RefQuiet
<1>7. ASSUME NEW r \in Request, Commit(r) PROVE RefInv'
  <2> DEFINE ref == job[r].ref
  <2>1. /\ pc[r] = "commit" /\ Goto(r, "unlock") /\ UNCHANGED <<job, snap>>
        /\ active' = [active EXCEPT ![ref] = [d \in Night |->
                         IF d \in Nights(r) THEN @[d] + job[r].qty ELSE @[d]]]
    BY <1>7 DEF Commit
  <2>2. pc'[r] = "unlock" /\ \A q \in Request \ {r} : pc'[q] = pc[q]
    BY <2>1, <1>lab, <1>go
  <2>3. job[r].op = "reserve"
    BY <2>1 DEF RefInv, OnRoute
  <2>4. \A d \in Night : active[ref][d] = 0
    BY <2>1, <2>3 DEF RefInv, Uncommitted
  <2>5. \A b \in Ref \ {ref} : active'[b] = active[b]
    BY <2>1, <1>act
  <2>6. \A d \in Nights(r) : active'[ref][d] = job[r].qty
    BY <2>1, <2>4, <1>act, <1>job
  <2>7. \A q \in Request \ {r} : job[q].op = "reserve" => job[q].ref # ref
    BY <2>3, SameRequest
  <2>8. Uncommitted'
    BY <2>1, <2>2, <2>5, <2>7, <1>job DEF RefInv, Uncommitted
  <2>9. Snapped'
    <3> SUFFICES ASSUME NEW q \in Request, pc'[q] \in {"update", "release"}
                 PROVE  /\ snap[q] = active'[job[q].ref]
                        /\ \E d \in Night : snap[q][d] # 0
      BY <2>1 DEF Snapped
    <3>1. q # r /\ pc[q] \in {"update", "release"}
      BY <2>2
    <3>2. snap[q] = active[job[q].ref] /\ \E d \in Night : snap[q][d] # 0
      BY <3>1 DEF RefInv, Snapped
    <3>3. job[q].ref # ref
      BY <3>2, <2>4
    <3> QED
      BY <3>2, <3>3, <2>5, <1>job
  <2>10. Granted'
    <3> SUFFICES ASSUME NEW p \in Request, job[p].op = "reserve", pc'[p] \in {"unlock", "done"}
                 PROVE  \/ \A d \in Nights(p) : active'[job[p].ref][d] = job[p].qty
                        \/ \E q \in Request : /\ job[q].op = "release"
                                              /\ job[q].ref = job[p].ref
                                              /\ pc'[q] = "done"
      <4>1. job' = job
        BY <2>1
      <4> QED
        BY <4>1 DEF Granted, Nights
    <3>1. CASE p = r
      BY <3>1, <2>6
    <3>2. CASE p # r
      <4>1. pc[p] \in {"unlock", "done"} /\ active'[job[p].ref] = active[job[p].ref]
        BY <3>2, <2>2, <2>5, <2>7, <1>job
      <4>2. \A q \in Request : pc[q] = "done" => pc'[q] = "done"
        BY <2>1, <2>2
      <4> QED
        BY <4>1, <4>2 DEF RefInv, Granted
    <3> QED
      BY <3>1, <3>2
  <2> QED
    BY <1>route, <2>8, <2>9, <2>10 DEF RefInv
<1>8. ASSUME NEW r \in Request,
             \/ BlockFind(r) \/ BlockIncrement(r)
             \/ UnblockRead(r) \/ UnblockDecrement(r) \/ UnblockFind(r)
      PROVE  RefInv'
  <2>1. /\ \/ Goto(r, "increment") \/ Goto(r, "abort") \/ Goto(r, "record")
           \/ Goto(r, "decrement") \/ Goto(r, "oldest") \/ Goto(r, "deactivate")
        /\ pc[r] \in {"find", "increment", "read", "decrement", "oldest"}
        /\ UNCHANGED <<active, snap, job>>
    BY <1>8 DEF BlockFind, BlockIncrement, UnblockRead, UnblockDecrement, UnblockFind, rows
  <2>2. /\ pc'[r] \in {"increment", "abort", "record", "decrement", "oldest", "deactivate"}
        /\ \A q \in Request \ {r} : pc'[q] = pc[q]
    BY <2>1, <1>lab, <1>go
  <2>3. job[r].op # "reserve"
    BY <2>1 DEF RefInv, OnRoute
  <2> QED
    BY <2>1, <2>2, <2>3, <1>route, RefQuiet
<1>9. ASSUME NEW r \in Request, BlockRecord(r) \/ UnblockDeactivate(r) PROVE RefInv'
  <2>1. PICK d \in Night : Advance(r, d, "find", "unlock") \/ Advance(r, d, "read", "unlock")
    BY <1>9 DEF BlockRecord, UnblockDeactivate
  <2>2. pc[r] \in {"record", "deactivate"} /\ UNCHANGED <<active, snap, job>>
    BY <1>9 DEF BlockRecord, UnblockDeactivate
  <2>3. pc'[r] \in {"find", "read", "unlock"} /\ \A q \in Request \ {r} : pc'[q] = pc[q]
    BY <2>1, <1>lab, <1>adv
  <2>4. job[r].op # "reserve"
    BY <2>2 DEF RefInv, OnRoute
  <2> QED
    BY <2>2, <2>3, <2>4, <1>route, RefQuiet
<1>10. ASSUME NEW r \in Request, ReleaseCount(r) PROVE RefInv'
  <2>1. /\ Goto(r, "select") \/ Goto(r, "failed")
        /\ pc[r] = "count" /\ UNCHANGED <<active, snap, job>>
    BY <1>10 DEF ReleaseCount, rows
  <2>2. pc'[r] \in {"select", "failed"} /\ \A q \in Request \ {r} : pc'[q] = pc[q]
    BY <2>1, <1>lab, <1>go
  <2>3. job[r].op # "reserve"
    BY <2>1, <1>off DEF RefInv, OnRoute
  <2> QED
    BY <2>1, <2>2, <2>3, <1>route, RefQuiet
<1>11. ASSUME NEW r \in Request, ReleaseSelect(r) PROVE RefInv'
  <2> DEFINE seen == [d \in Night |-> IF job[r].own THEN active[job[r].ref][d] ELSE 0]
  <2>1. /\ pc[r] = "select" /\ UNCHANGED <<active, job>>
        /\ snap' = [snap EXCEPT ![r] = seen]
        /\ Goto(r, "done") \/ ((\E d \in Night : seen[d] # 0) /\ Goto(r, "update"))
    BY <1>11 DEF ReleaseSelect, rows
  <2>2. job[r].op = "release"
    BY <2>1, <1>off DEF RefInv, OnRoute
  <2>3. /\ snap'[r] = seen
        /\ \A q \in Request \ {r} : snap'[q] = snap[q] /\ pc'[q] = pc[q]
        /\ pc'[r] = "done" \/ (pc'[r] = "update" /\ \E d \in Night : seen[d] # 0)
    BY <2>1, <1>act, <1>lab, <1>go DEF TypeOK
  <2>4. pc'[r] = "update" => seen = active[job[r].ref] /\ \E d \in Night : seen[d] # 0
    <3> SUFFICES ASSUME pc'[r] = "update"
                 PROVE  seen = active[job[r].ref] /\ \E d \in Night : seen[d] # 0
      OBVIOUS
    <3>1. PICK d \in Night : seen[d] # 0
      BY <2>3
    <3>2. job[r].own
      BY <3>1
    <3>3. active[job[r].ref] \in [Night -> Nat]
      BY <1>act, <1>job
    <3>4. seen = active[job[r].ref]
      BY <3>2, <3>3
    <3> QED
      BY <3>1, <3>4
  <2> HIDE DEF seen
  <2>5. Uncommitted'
    BY <2>1, <2>2, <2>3 DEF RefInv, Uncommitted
  <2>6. Snapped'
    BY <2>1, <2>3, <2>4 DEF RefInv, Snapped
  <2>7. Granted'
    <3> SUFFICES ASSUME NEW p \in Request, job[p].op = "reserve", pc'[p] \in {"unlock", "done"}
                 PROVE  \/ \A d \in Nights(p) : active[job[p].ref][d] = job[p].qty
                        \/ \E q \in Request : /\ job[q].op = "release"
                                              /\ job[q].ref = job[p].ref
                                              /\ pc'[q] = "done"
      BY <2>1 DEF Granted, Nights
    <3>1. p # r /\ pc[p] \in {"unlock", "done"}
      BY <2>2, <2>3
    <3>2. \A q \in Request : pc[q] = "done" => pc'[q] = "done"
      BY <2>1, <2>3
    <3> QED
      BY <3>1, <3>2 DEF RefInv, Granted
  <2> QED
    BY <1>route, <2>5, <2>6, <2>7 DEF RefInv
<1>upd. ASSUME NEW r \in Request, ReleaseUpdate(r) PROVE RefInv'
  <2>1. pc[r] = "update" /\ UNCHANGED <<active, snap, job>>
    BY <1>upd DEF ReleaseUpdate, rows
  <2>2. Goto(r, "release") \/ UNCHANGED pc
    BY <1>upd DEF ReleaseUpdate
  <2>3. pc'[r] \in {"update", "release"} /\ \A q \in Request \ {r} : pc'[q] = pc[q]
    BY <2>1, <2>2, <1>lab, <1>go
  <2>4. job[r].op = "release"
    BY <2>1, <1>off DEF RefInv, OnRoute
  <2>5. Uncommitted'
    BY <2>1, <2>3, <2>4 DEF RefInv, Uncommitted
  <2>6. Snapped'
    BY <2>1, <2>3 DEF RefInv, Snapped
  <2>7. Granted'
    BY <2>1, <2>3, <2>4 DEF RefInv, Granted, Nights
  <2> QED
    BY <1>route, <2>5, <2>6, <2>7 DEF RefInv
<1>12. ASSUME NEW r \in Request, ReleaseCommit(r) PROVE RefInv'
  <2> DEFINE ref == job[r].ref
  <2>1. /\ pc[r] = "release" /\ Goto(r, "done") /\ UNCHANGED <<job, snap>>
        /\ active' = [active EXCEPT ![ref] = [d \in Night |-> 0]]
    BY <1>12 DEF ReleaseCommit
  <2>2. pc'[r] = "done" /\ \A q \in Request \ {r} : pc'[q] = pc[q]
    BY <2>1, <1>lab, <1>go
  <2>3. job[r].op = "release"
    BY <2>1, <1>off DEF RefInv, OnRoute
  <2>4. /\ \A b \in Ref \ {ref} : active'[b] = active[b]
        /\ \A d \in Night : active'[ref][d] = 0
    BY <2>1, <1>act, <1>job
  <2>5. Uncommitted'
    BY <2>1, <2>2, <2>3, <2>4, <1>job DEF RefInv, Uncommitted
  <2>6. Snapped'
    <3> SUFFICES ASSUME NEW q \in Request, pc'[q] \in {"update", "release"}
                 PROVE  /\ snap[q] = active'[job[q].ref]
                        /\ \E d \in Night : snap[q][d] # 0
      BY <2>1 DEF Snapped
    <3>1. q # r /\ pc[q] \in {"update", "release"}
      BY <2>2
    <3>2. job[q].op = "release"
      BY <3>1, <1>off DEF RefInv, OnRoute
    <3>3. job[q].ref # ref
      BY <3>1, <3>2, <2>3, SameRequest
    <3> QED
      BY <3>1, <3>3, <2>4, <1>job DEF RefInv, Snapped
  <2>7. Granted'
    <3> SUFFICES ASSUME NEW p \in Request, job[p].op = "reserve", pc'[p] \in {"unlock", "done"}
                 PROVE  \/ \A d \in Nights(p) : active'[job[p].ref][d] = job[p].qty
                        \/ \E q \in Request : /\ job[q].op = "release"
                                              /\ job[q].ref = job[p].ref
                                              /\ pc'[q] = "done"
      BY <2>1 DEF Granted, Nights
    <3>1. p # r /\ pc[p] \in {"unlock", "done"}
      BY <2>2, <2>3
    <3>2. \A q \in Request : pc[q] = "done" => pc'[q] = "done"
      BY <2>2
    <3>3. CASE job[p].ref = ref
      BY <3>3, <2>2, <2>3
    <3>4. CASE job[p].ref # ref
      BY <3>1, <3>2, <3>4, <2>4, <1>job DEF RefInv, Granted
    <3> QED
      BY <3>3, <3>4
  <2> QED
    BY <1>route, <2>5, <2>6, <2>7 DEF RefInv
<1>13. ASSUME NEW r \in Request, DatabaseError(r) PROVE RefInv'
  <2>1. /\ \/ pc[r] \in InDatabase /\ Goto(r, "abort")
           \/ pc[r] \in Unlocked /\ Goto(r, "failed")
        /\ UNCHANGED <<active, snap, job>>
    BY <1>13 DEF DatabaseError, rows
  <2>2. pc'[r] \in {"abort", "failed"} /\ \A q \in Request \ {r} : pc'[q] = pc[q]
    BY <2>1, <1>lab, <1>go
  <2>3. job[r].op = "reserve" => pc[r] \in {"validate", "txread", "txwrite", "commit"}
    BY <2>1, <1>off DEF RefInv, OnRoute
  <2>4. pc[r] # "done"
    BY <2>1, <1>off
  <2> QED
    BY <2>1, <2>2, <2>3, <2>4, <1>route, RefQuiet
<1>14. ASSUME NEW r \in Request, Crash(r) PROVE RefInv'
  <2>1. Goto(r, "crashed") /\ pc[r] # "done" /\ UNCHANGED <<active, snap, job>>
    BY <1>14, <1>off DEF Crash, rows
  <2>2. pc'[r] = "crashed" /\ \A q \in Request \ {r} : pc'[q] = pc[q]
    BY <2>1, <1>lab, <1>go
  <2> QED
    BY <2>1, <2>2, <1>route, RefQuiet
<1>15. CASE UNCHANGED <<active, snap, job, pc>>
  BY <1>15, <1>route DEF RefInv, Uncommitted, Snapped, Granted, Nights
<1>16. ASSUME NEW d \in Night, Expire(d) PROVE RefInv'
  BY <1>15, <1>16 DEF Expire, rows
<1>17. CASE UNCHANGED vars \/ Finished
  BY <1>15, <1>17 DEF vars, rows, Finished
<1> QED
  BY <1>1, <1>2, <1>3, <1>4, <1>5, <1>6, <1>7, <1>8, <1>9, <1>10, <1>11, <1>12, <1>13, <1>14,
     <1>16, <1>17, <1>upd DEF Next, Step

-----------------------------------------------------------------------------
(* The steps of RoomLedger. *)

Inv == TypeInv /\ LockInv /\ FitInv /\ RefInv

(* The invariants together hold throughout. *)
LEMMA Invariant ==
    ASSUME HoldersTimely, HintsAgree, OneRequestPerRef
    PROVE  Spec => []Inv
<1>1. Init => Inv
  BY HintsAgree, InitType, InitLock, InitFit, InitRef DEF Inv
<1>2. Inv /\ [Next]_vars => Inv'
  BY HoldersTimely, HintsAgree, OneRequestPerRef, NextType, NextLock, NextFit, NextRef DEF Inv
<1> QED
  BY <1>1, <1>2, PTL DEF Spec

(* A reservation that was refused or failed left nothing behind, and one   *)
(* that was granted is there on every night until its reference is         *)
(* released: reserveDateRange is all or nothing, checks, errors, crashes   *)
(* and interleaving included.                                              *)
THEOREM AllOrNothing ==
    ASSUME HoldersTimely, HintsAgree, OneRequestPerRef
    PROVE  Spec => []ReservationsAllOrNothing
<1>1. Spec => []Inv
  BY HoldersTimely, HintsAgree, OneRequestPerRef, Invariant
<1>2. Inv => ReservationsAllOrNothing
  BY DEF Inv, RefInv, Uncommitted, Granted, ReservationsAllOrNothing
<1> QED
  BY <1>1, <1>2, PTL

(* The initial states are the initial states of RoomLedger. *)
LEMMA LedgerInit == Init => Ledger!Init
BY DEF Init, Ledger!Init

(* A commit of a reservation is one Reserve of RoomLedger. *)
LEMMA LedgerReserve ==
    ASSUME Inv, NEW r \in Request, Commit(r)
    PROVE  Ledger!Reserve(Nights(r), job[r].ref, job[r].qty)
<1>1. TypeOK
  BY DEF Inv, TypeInv
<1>2. pc[r] = "commit" /\ UNCHANGED blocked
  BY DEF Commit
<1>3. \A d \in Nights(r) : Room(d) >= job[r].qty
  BY <1>2 DEF Inv, FitInv, RoomKept
<1>4. \A d \in Nights(r) : Ledger!Room(d) >= job[r].qty
  BY <1>3 DEF Room, Ledger!Room
<1>5. total' = total
  <2>1. \A d \in Nights(r) : Upserted(r, d) = total[d]
    BY <1>1, <1>2, JobType DEF Inv, FitInv, Written, Upserted
  <2>2. total' = [d \in Night |-> total[d]]
    BY <2>1 DEF Commit
  <2> QED
    BY <1>1, <2>2 DEF TypeOK
<1>6. reserved' = [d \in Night |->
                     IF d \in Nights(r) THEN reserved[d] + job[r].qty ELSE reserved[d]]
  BY DEF Commit
<1>7. active' = [active EXCEPT ![job[r].ref] = [d \in Night |->
                   IF d \in Nights(r) THEN @[d] + job[r].qty ELSE @[d]]]
  BY DEF Commit
<1> QED
  BY <1>2, <1>4, <1>5, <1>6, <1>7 DEF Ledger!Reserve

(* An increment of the blocked count is one Block of RoomLedger. *)
LEMMA LedgerBlock ==
    ASSUME Inv, NEW r \in Request, BlockIncrement(r)
    PROVE  \E d \in Night : Ledger!Block(d, job[r].qty)
<1>1. PICK d \in Night : NextNight(r, d) /\ blocked' = [blocked EXCEPT ![d] = @ + job[r].qty]
  BY DEF BlockIncrement
<1>2. pc[r] = "increment" /\ UNCHANGED <<total, reserved, active>>
  BY DEF BlockIncrement
<1>3. d \in Nights(r)
  BY <1>1 DEF NextNight, Inv, LockInv, InRange
<1>4. Room(d) >= job[r].qty
  BY <1>1, <1>2, <1>3 DEF Inv, FitInv, RoomKept
<1> QED
  BY <1>1, <1>2, <1>4 DEF Room, Ledger!Room, Ledger!Block

(* A decrement of the blocked count is one Unblock of RoomLedger. *)
LEMMA LedgerUnblock ==
    ASSUME Inv, NEW r \in Request, UnblockDecrement(r)
    PROVE  \E d \in Night : Ledger!Unblock(d, job[r].qty)
<1>1. PICK d \in Night : NextNight(r, d) /\ blocked' = [blocked EXCEPT ![d] = @ - job[r].qty]
  BY DEF UnblockDecrement
<1>2. pc[r] = "decrement" /\ UNCHANGED <<total, reserved, active>>
  BY DEF UnblockDecrement
<1>3. d \in Nights(r)
  BY <1>1 DEF NextNight, Inv, LockInv, InRange
<1>4. blocked[d] >= job[r].qty
  BY <1>1, <1>2, <1>3 DEF Inv, FitInv, BlockKept
<1> QED
  BY <1>1, <1>2, <1>4 DEF Ledger!Unblock

(* A commit of a release is one Release of RoomLedger. *)
LEMMA LedgerRelease ==
    ASSUME Inv, NEW r \in Request, ReleaseCommit(r)
    PROVE  Ledger!Release(job[r].ref)
<1>1. snap[r] = active[job[r].ref]
  BY DEF ReleaseCommit, Inv, RefInv, Snapped
<1> QED
  BY <1>1 DEF ReleaseCommit, Ledger!Release

(* Every step is a step of RoomLedger or a stutter. *)
LEMMA LedgerStep ==
    ASSUME HoldersTimely, HintsAgree, OneRequestPerRef, Inv, [Next]_vars
    PROVE  [Ledger!Next]_(Ledger!vars)
<1>type. TypeOK
  BY DEF Inv, TypeInv
<1>job. ASSUME NEW r \in Request
        PROVE  /\ job[r].qty \in Quantity /\ job[r].ref \in Ref
               /\ job[r].from \in Night /\ job[r].to \in Night
               /\ Nights(r) = job[r].from .. job[r].to
  BY <1>type, JobType DEF Job, Nights
<1>still. UNCHANGED <<total, reserved, blocked, active>> => [Ledger!Next]_(Ledger!vars)
  BY DEF Ledger!vars
<1>1. ASSUME NEW r \in Request, Commit(r) PROVE Ledger!Next
  BY <1>1, <1>job, LedgerReserve DEF Ledger!Next
<1>2. ASSUME NEW r \in Request, BlockIncrement(r) PROVE Ledger!Next
  BY <1>2, <1>job, LedgerBlock DEF Ledger!Next
<1>3. ASSUME NEW r \in Request, UnblockDecrement(r) PROVE Ledger!Next
  BY <1>3, <1>job, LedgerUnblock DEF Ledger!Next
<1>4. ASSUME NEW r \in Request, ReleaseCommit(r) PROVE Ledger!Next
  BY <1>4, <1>job, LedgerRelease DEF Ledger!Next
<1>5. ASSUME NEW r \in Request, Validate(r) \/ BlockFind(r)
      PROVE  Ledger!AddRooms
  <2>1. PICK d \in Night : NextNight(r, d) /\ FindOrCreate(r, d)
    BY <1>5 DEF Validate, BlockFind
  <2>2. d \in Nights(r)
    BY <2>1 DEF NextNight, Inv, LockInv, InRange
  <2>3. Upserted(r, d) \in Int /\ Upserted(r, d) >= total[d]
    <3>1. total[d] \in Int /\ job[r].hint \in Nat
      BY <1>type, JobType DEF TypeOK
    <3>2. job[r].hint > 0 => total[d] <= job[r].hint
      BY <2>2 DEF Inv, FitInv, Raised
    <3> QED
      BY <3>1, <3>2 DEF Upserted
  <2>4. total \in [Night -> Int] /\ total' = [total EXCEPT ![d] = Upserted(r, d)]
    BY <2>1, <1>type DEF FindOrCreate, TypeOK
  <2>5. UNCHANGED <<reserved, blocked, active>>
    BY <1>5 DEF Validate, BlockFind
  <2> QED
    BY <2>3, <2>4, <2>5 DEF Ledger!AddRooms
<1>6. ASSUME NEW r \in Request,
             \/ Acquire(r) \/ AcquireRefused(r) \/ AcquireReplyLost(r) \/ Unlock(r)
             \/ TxRead(r) \/ TxWrite(r) \/ UnblockRead(r) \/ UnblockFind(r)
             \/ ReleaseCount(r) \/ ReleaseSelect(r) \/ ReleaseUpdate(r)
      PROVE  UNCHANGED <<total, reserved, blocked, active>>
  BY <1>6 DEF Acquire, AcquireRefused, AcquireReplyLost, Unlock, TxRead, TxWrite, UnblockRead,
              UnblockFind, ReleaseCount, ReleaseSelect, ReleaseUpdate, rows
<1>7. ASSUME NEW r \in Request,
             BlockRecord(r) \/ UnblockDeactivate(r) \/ DatabaseError(r) \/ Crash(r)
      PROVE  UNCHANGED <<total, reserved, blocked, active>>
  BY <1>7 DEF BlockRecord, UnblockDeactivate, DatabaseError, Crash, rows
<1>8. ASSUME (\E d \in Night : Expire(d)) \/ Finished \/ UNCHANGED vars
      PROVE  UNCHANGED <<total, reserved, blocked, active>>
  BY <1>8 DEF Expire, Finished, vars, rows
<1> QED
  BY <1>still, <1>1, <1>2, <1>3, <1>4, <1>5, <1>6, <1>7, <1>8 DEF Next, Step, Ledger!Next

(* Seen from outside, reserving, releasing, blocking and unblocking happen *)
(* at one instant each: the handlers with their locks, separate reads and  *)
(* writes, failures and crashes implement RoomLedger.                      *)
THEOREM Refinement ==
    ASSUME HoldersTimely, HintsAgree, OneRequestPerRef
    PROVE  Spec => ImplementsLedger
<1>1. Spec => []Inv
  BY HoldersTimely, HintsAgree, OneRequestPerRef, Invariant
<1>2. Inv /\ [Next]_vars => [Ledger!Next]_(Ledger!vars)
  BY HoldersTimely, HintsAgree, OneRequestPerRef, LedgerStep
<1> QED
  BY <1>1, <1>2, LedgerInit, PTL DEF Spec, ImplementsLedger, Ledger!Spec

-----------------------------------------------------------------------------
(* Even when locks expire under their holders, the finally block never     *)
(* deletes a key that by then carries another request's token.             *)
THEOREM TokenChecked == Spec => NoForeignUnlock
<1>1. Spec => []TypeInv
  BY InitType, NextType, PTL DEF Spec
<1>2. TypeInv /\ [Next]_vars =>
        [\A r \in Request : \A d \in held[r] \ held'[r] :
              lock[d] # r => lock'[d] = lock[d]]_vars
  <2> SUFFICES ASSUME TypeInv, Next, NEW r \in Request, NEW d \in held[r] \ held'[r], lock[d] # r
               PROVE  lock'[d] = lock[d]
    OBVIOUS
  <2>1. held # held'
    OBVIOUS
  <2>2. \/ \E q \in Request : Acquire(q)
        \/ \E q \in Request : Unlock(q)
    <3>1. ASSUME NEW q \in Request, Step(q) PROVE Acquire(q) \/ Unlock(q)
      <4>1. CASE AcquireRefused(q) \/ AcquireReplyLost(q) \/ Validate(q) \/ TxRead(q)
                 \/ TxWrite(q) \/ Commit(q)
        BY <2>1, <4>1 DEF AcquireRefused, AcquireReplyLost, Validate, TxRead, TxWrite, Commit
      <4>2. CASE \/ BlockFind(q) \/ BlockIncrement(q) \/ BlockRecord(q) \/ UnblockRead(q)
                 \/ UnblockDecrement(q) \/ UnblockFind(q) \/ UnblockDeactivate(q)
        BY <2>1, <4>2 DEF BlockFind, BlockIncrement, BlockRecord, UnblockRead,
                          UnblockDecrement, UnblockFind, UnblockDeactivate
      <4>3. CASE ReleaseCount(q) \/ ReleaseSelect(q) \/ ReleaseUpdate(q) \/ ReleaseCommit(q)
        BY <2>1, <4>3 DEF ReleaseCount, ReleaseSelect, ReleaseUpdate, ReleaseCommit
      <4> QED
        BY <3>1, <4>1, <4>2, <4>3 DEF Step
    <3>2. ASSUME NEW q \in Request, DatabaseError(q) \/ Crash(q) PROVE FALSE
      BY <2>1, <3>2 DEF DatabaseError, Crash
    <3>3. ASSUME NEW e \in Night, Expire(e) PROVE FALSE
      BY <2>1, <3>3 DEF Expire
    <3>4. ~Finished
      BY <2>1 DEF Finished, vars
    <3> QED
      BY <3>1, <3>2, <3>3, <3>4 DEF Next
  <2>3. ASSUME NEW q \in Request, Acquire(q) PROVE FALSE
    <3>1. PICK e \in Night : held' = [held EXCEPT ![q] = @ \cup {e}]
      BY <2>3 DEF Acquire
    <3>2. held[r] \subseteq held'[r]
      BY <3>1 DEF TypeInv, TypeOK
    <3> QED
      BY <3>2
  <2>4. ASSUME NEW q \in Request, Unlock(q) PROVE lock'[d] = lock[d]
    <3>1. PICK e \in held[q] : /\ lock' \in {lock, [lock EXCEPT ![e] = Deleted(q, e)]}
                              /\ held' = [held EXCEPT ![q] = @ \ {e}]
      BY <2>4 DEF Unlock
    <3>2. r = q /\ d = e
      BY <3>1 DEF TypeInv, TypeOK
    <3>3. Deleted(q, e) = lock[e]
      BY <3>2 DEF Deleted
    <3> QED
      BY <3>1, <3>2, <3>3 DEF TypeInv, TypeOK
  <2> QED
    BY <2>2, <2>3, <2>4
<1> QED
  BY <1>1, <1>2, PTL DEF Spec, NoForeignUnlock
=============================================================================
