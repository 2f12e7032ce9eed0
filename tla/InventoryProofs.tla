-------------------------- MODULE InventoryProofs --------------------------
(***************************************************************************)
(* Theorems of InventoryService, for every calendar, every set of requests *)
(* and every workload.  The invariants are stacked: types, then who owns   *)
(* which key, then what fits, then what became of a booking reference.     *)
(***************************************************************************)
EXTENDS InventoryService, SequenceTheorems, TLAPS

(* A release never stands at a step of the locked operations. *)
Routed == \A r \in Request : pc[r] = "acquire" => job[r].op # "release"

TypeInv == TypeOK /\ Routed

(* What the assumptions say of one request. *)
LEMMA JobType ==
    ASSUME TypeOK, NEW r \in Request
    PROVE  /\ job[r] \in Job
           /\ Nights(r) \subseteq Night
           /\ Nights(r) # {}
           /\ job[r].qty \in Nat \ {0}
           /\ job[r].hint \in Nat
           /\ job[r].ref \in Ref
           /\ job[r].op \in {"reserve", "release", "block", "unblock"}
<1>1. job \in [Request -> Job] /\ job \in Workload
  BY InventoryAssumption DEF TypeOK
<1>2. job[r].from <= job[r].to /\ job[r].from .. job[r].to \subseteq Night
  BY <1>1, InventoryAssumption
<1>3. job[r] \in Job
  BY <1>1
<1>4. job[r].from \in Night /\ job[r].to \in Night
  BY <1>3 DEF Job
<1>5. job[r].from \in Nat /\ job[r].to \in Nat
  BY <1>4, InventoryAssumption
<1>6. job[r].from \in Nights(r)
  BY <1>2, <1>5 DEF Nights
<1>7. job[r].qty \in Nat \ {0}
  BY <1>3, InventoryAssumption DEF Job
<1> QED
  BY <1>2, <1>3, <1>6, <1>7 DEF Job, Nights

(* The loop's bookkeeping keeps its types. *)
LEMMA AdvanceType ==
    ASSUME TypeOK, NEW r \in Request, NEW d \in Night,
           NEW again \in Label, NEW after \in Label,
           Advance(r, d, again, after)
    PROVE  /\ todo' \in [Request -> (SUBSET Night) \ {{}}]
           /\ pc' \in [Request -> Label]
           /\ \A q \in Request \ {r} : pc'[q] = pc[q]
           /\ pc'[r] \in {again, after}
<1>1. Nights(r) \in (SUBSET Night) \ {{}}
  BY JobType
<1>2. todo \in [Request -> (SUBSET Night) \ {{}}] /\ pc \in [Request -> Label]
  BY DEF TypeOK
<1>3. CASE todo[r] = {d}
  BY <1>1, <1>2, <1>3 DEF Advance, Goto
<1>4. CASE todo[r] # {d}
  <2>1. todo[r] \ {d} \in (SUBSET Night) \ {{}}
    BY <1>2, <1>4
  <2> QED
    BY <1>2, <1>4, <2>1 DEF Advance, Goto
<1> QED
  BY <1>3, <1>4

(* The initial states are well typed. *)
LEMMA InitType == Init => TypeInv
<1> SUFFICES ASSUME Init PROVE TypeInv
  OBVIOUS
<1>1. job \in [Request -> Job] /\ job \in Workload
  BY InventoryAssumption DEF Init
<1>2. \A r \in Request : Nights(r) \in (SUBSET Night) \ {{}}
  <2> SUFFICES ASSUME NEW r \in Request PROVE Nights(r) \in (SUBSET Night) \ {{}}
    OBVIOUS
  <2>1. job[r].from <= job[r].to /\ job[r].from .. job[r].to \subseteq Night
    BY <1>1, InventoryAssumption
  <2>2. job[r].from \in Nat /\ job[r].to \in Nat
    BY <1>1, InventoryAssumption DEF Job
  <2>3. job[r].from \in job[r].from .. job[r].to
    BY <2>1, <2>2
  <2> QED
    BY <2>1, <2>3 DEF Nights
<1>3. total \in [Night -> Int]
  BY InventoryAssumption DEF Init
<1>4. pc \in [Request -> Label]
  BY DEF Init, Label, InDatabase, Unlocked
<1>5. row \in [Request -> Night] /\ oldest \in [Request -> Nat]
  BY <1>1 DEF Init, Job
<1>6. todo \in [Request -> (SUBSET Night) \ {{}}]
  BY <1>2 DEF Init
<1>7. TypeOK
  BY <1>1, <1>3, <1>4, <1>5, <1>6 DEF Init, TypeOK
<1> QED
  BY <1>7 DEF TypeInv, Routed, Init

(* Every step of every handler keeps the types. *)
LEMMA NextType == TypeInv /\ [Next]_vars => TypeInv'
<1> SUFFICES ASSUME TypeInv, [Next]_vars PROVE TypeInv'
  OBVIOUS
<1> USE DEF TypeInv, local
<1>lab. /\ {"acquire", "unlock", "abort", "validate", "txread", "txwrite", "commit", "find",
            "increment", "record", "read", "decrement", "oldest", "deactivate", "count", "select",
            "update", "release", "done", "failed", "crashed"} \subseteq Label
        /\ InDatabase \subseteq Label /\ Unlocked \subseteq Label
  BY DEF Label, InDatabase, Unlocked, Terminal
<1>job. \A r \in Request : /\ job[r].qty \in Nat \ {0} /\ job[r].hint \in Nat /\ job[r].ref \in Ref
                            /\ Nights(r) \subseteq Night
  BY JobType
<1>go. \A r \in Request, l \in Label :
          Goto(r, l) => /\ pc' \in [Request -> Label]
                        /\ pc'[r] = l
                        /\ \A q \in Request \ {r} : pc'[q] = pc[q]
  BY DEF Goto, TypeOK
<1>1. ASSUME NEW r \in Request, Acquire(r) PROVE TypeInv'
  <2>1. PICK d \in Night :
           /\ NextNight(r, d)
           /\ lock' = [lock EXCEPT ![d] = r]
           /\ held' = [held EXCEPT ![r] = @ \cup {d}]
           /\ Advance(r, d, "acquire", Body[job[r].op])
    BY <1>1 DEF Acquire
  <2>2. pc[r] = "acquire" /\ UNCHANGED <<rows, job, tx, local>>
    BY <1>1 DEF Acquire
  <2>3. job[r].op \in {"reserve", "block", "unblock"}
    BY <2>2, JobType DEF Routed
  <2>4. Body[job[r].op] \in {"validate", "find", "read"}
    BY <2>3 DEF Body
  <2>5. /\ todo' \in [Request -> (SUBSET Night) \ {{}}]
        /\ pc' \in [Request -> Label]
        /\ \A q \in Request \ {r} : pc'[q] = pc[q]
    BY <2>1, <2>4, <1>lab, AdvanceType
  <2>6. lock' \in [Night -> Request \cup {None}] /\ held' \in [Request -> SUBSET Night]
    <3>1. lock \in [Night -> Request \cup {None}] /\ held \in [Request -> SUBSET Night]
      BY DEF TypeOK
    <3>2. lock' \in [Night -> Request \cup {None}]
      BY <2>1, <3>1
    <3>3. held' \in [Request -> SUBSET Night]
      BY <2>1, <3>1
    <3> QED
      BY <3>2, <3>3
  <2>7. Routed'
    BY <2>2, <2>3, <2>5 DEF Routed
  <2> QED
    BY <2>2, <2>5, <2>6, <2>7 DEF TypeOK, rows
<1>2. ASSUME NEW r \in Request, AcquireRefused(r) PROVE TypeInv'
  BY <1>2, <1>go, <1>lab DEF AcquireRefused, Unwind, TypeOK, Routed, rows
<1>3. ASSUME NEW r \in Request, AcquireReplyLost(r) PROVE TypeInv'
  <2>1. lock' \in [Night -> Request \cup {None}]
    BY <1>3 DEF AcquireReplyLost, TypeOK
  <2> QED
    BY <1>3, <2>1, <1>go, <1>lab DEF AcquireReplyLost, Unwind, TypeOK, Routed, rows
<1>4. ASSUME NEW r \in Request, Unlock(r) PROVE TypeInv'
  <2>1. PICK d \in held[r] :
           /\ lock' \in {lock, [lock EXCEPT ![d] = Deleted(r, d)]}
           /\ held' = [held EXCEPT ![r] = @ \ {d}]
           /\ Goto(r, IF held[r] # {d} THEN pc[r]
                       ELSE IF pc[r] = "unlock" THEN "done" ELSE "failed")
    BY <1>4 DEF Unlock
  <2>2. d \in Night /\ Deleted(r, d) \in Request \cup {None}
    BY <2>1 DEF TypeOK, Deleted
  <2>3. lock' \in [Night -> Request \cup {None}] /\ held' \in [Request -> SUBSET Night]
    <3>1. lock \in [Night -> Request \cup {None}] /\ held \in [Request -> SUBSET Night]
      BY DEF TypeOK
    <3>2. lock' \in [Night -> Request \cup {None}]
      BY <2>1, <2>2, <3>1
    <3>3. held' \in [Request -> SUBSET Night]
      BY <2>1, <3>1
    <3> QED
      BY <3>2, <3>3
  <2>4. pc' \in [Request -> Label] /\ \A q \in Request : pc'[q] # "acquire" \/ pc'[q] = pc[q]
    BY <1>4, <2>1, <1>go, <1>lab DEF Unlock, TypeOK
  <2> QED
    BY <1>4, <2>3, <2>4 DEF Unlock, TypeOK, Routed, rows
<1>5. ASSUME NEW r \in Request, Validate(r) PROVE TypeInv'
  <2>1. PICK d \in Night :
           /\ FindOrCreate(r, d)
           /\ IF job[r].own /\ Fits(r, d)
              THEN Advance(r, d, "validate", "txread")
              ELSE Goto(r, "abort") /\ UNCHANGED todo
    BY <1>5 DEF Validate
  <2>2. UNCHANGED <<reserved, blocked, active, released, blocks, ended, lock, job, held, tx, local>>
    BY <1>5 DEF Validate
  <2>3. total' \in [Night -> Int]
    <3>1. total' = [total EXCEPT ![d] = Upserted(r, d)]
      BY <2>1 DEF FindOrCreate
    <3>2. total \in [Night -> Int]
      BY DEF TypeOK
    <3>3. Upserted(r, d) \in Int
      BY <3>2, <1>job DEF Upserted
    <3> QED
      BY ONLY <3>1, <3>2, <3>3
  <2>4. /\ todo' \in [Request -> (SUBSET Night) \ {{}}]
        /\ pc' \in [Request -> Label]
        /\ \A q \in Request : pc'[q] # "acquire" \/ pc'[q] = pc[q]
    <3>1. CASE job[r].own /\ Fits(r, d)
      BY <2>1, <3>1, <1>lab, AdvanceType
    <3>2. CASE ~(job[r].own /\ Fits(r, d))
      BY <2>1, <3>2, <1>lab, <1>go DEF TypeOK
    <3> QED
      BY <3>1, <3>2
  <2> QED
    BY <2>2, <2>3, <2>4 DEF TypeOK, Routed
<1>6. ASSUME NEW r \in Request, TxRead(r) PROVE TypeInv'
  <2>1. PICK d \in Night :
           IF Fits(r, d)
             THEN /\ tx' = IF job[r].hint > 0 THEN [tx EXCEPT ![r] = @ \cup {d}] ELSE tx
                  /\ Goto(r, "txwrite")
             ELSE /\ tx' = [tx EXCEPT ![r] = {}]
                  /\ Goto(r, "abort")
    BY <1>6 DEF TxRead
  <2>2. tx' \in [Request -> SUBSET Night]
    <3>1. tx \in [Request -> SUBSET Night]
      BY DEF TypeOK
    <3> QED
      BY <2>1, <3>1
  <2>3. Goto(r, "txwrite") \/ Goto(r, "abort")
    BY <2>1
  <2> QED
    BY <1>6, <2>2, <2>3, <1>go, <1>lab DEF TxRead, TypeOK, Routed, rows
<1>7. ASSUME NEW r \in Request, TxWrite(r) PROVE TypeInv'
  <2>1. PICK d \in Night : /\ tx' = [tx EXCEPT ![r] = @ \cup {d}]
                           /\ Advance(r, d, "txread", "commit")
    BY <1>7 DEF TxWrite
  <2>2. tx' \in [Request -> SUBSET Night]
    <3>1. tx \in [Request -> SUBSET Night]
      BY DEF TypeOK
    <3> QED
      BY <2>1, <3>1
  <2>3. /\ todo' \in [Request -> (SUBSET Night) \ {{}}]
        /\ pc' \in [Request -> Label]
        /\ \A q \in Request : pc'[q] # "acquire" \/ pc'[q] = pc[q]
    BY <2>1, <1>lab, AdvanceType
  <2> QED
    BY <1>7, <2>2, <2>3 DEF TxWrite, TypeOK, Routed, rows
<1>8. ASSUME NEW r \in Request, Commit(r) PROVE TypeInv'
  <2>1. /\ job[r].qty \in Nat /\ job[r].hint \in Nat /\ job[r].ref \in Ref
        /\ total \in [Night -> Int] /\ reserved \in [Night -> Int]
        /\ active \in [Ref -> [Night -> Nat]]
    BY JobType DEF TypeOK
  <2>2. total' \in [Night -> Int] /\ reserved' \in [Night -> Int]
    <3> DEFINE new(d) == IF d \in Nights(r) THEN Upserted(r, d) ELSE total[d]
    <3>1. total' = [d \in Night |-> new(d)]
      BY <1>8 DEF Commit
    <3>2. \A d \in Night : new(d) \in Int
      BY <2>1 DEF Upserted
    <3>3. total' \in [Night -> Int]
      <4> HIDE DEF new
      <4> QED
        BY <3>1, <3>2
    <3>4. reserved' \in [Night -> Int]
      BY <1>8, <2>1 DEF Commit
    <3> QED
      BY <3>3, <3>4
  <2>3. active' \in [Ref -> [Night -> Nat]]
    <3> DEFINE units == [d \in Night |-> IF d \in Nights(r) THEN active[job[r].ref][d] + job[r].qty
                                       ELSE active[job[r].ref][d]]
    <3>1. units \in [Night -> Nat]
      BY <2>1
    <3>2. active' = [active EXCEPT ![job[r].ref] = units]
      BY <1>8 DEF Commit
    <3> QED
      BY <2>1, <3>1, <3>2
  <2>4. tx' \in [Request -> SUBSET Night]
    BY <1>8 DEF Commit, TypeOK
  <2>5. pc' \in [Request -> Label] /\ \A q \in Request : pc'[q] # "acquire" \/ pc'[q] = pc[q]
    BY <1>8, <1>go, <1>lab DEF Commit
  <2> QED
    BY <1>8, <2>2, <2>3, <2>4, <2>5 DEF Commit, TypeOK, Routed
<1>9. ASSUME NEW r \in Request, BlockFind(r) PROVE TypeInv'
  <2>1. PICK d \in Night : /\ FindOrCreate(r, d)
                           /\ Goto(r, IF Fits(r, d) THEN "increment" ELSE "abort")
    BY <1>9 DEF BlockFind
  <2>2. total' \in [Night -> Int]
    <3>1. total' = [total EXCEPT ![d] = Upserted(r, d)]
      BY <2>1 DEF FindOrCreate
    <3>2. total \in [Night -> Int]
      BY DEF TypeOK
    <3>3. Upserted(r, d) \in Int
      BY <3>2, <1>job DEF Upserted
    <3> QED
      BY ONLY <3>1, <3>2, <3>3
  <2>3. Goto(r, "increment") \/ Goto(r, "abort")
    BY <2>1
  <2> QED
    BY <1>9, <2>2, <2>3, <1>go, <1>lab DEF BlockFind, TypeOK, Routed
<1>10. ASSUME NEW r \in Request, BlockIncrement(r) PROVE TypeInv'
  <2>1. PICK d \in Night : blocked' = [blocked EXCEPT ![d] = @ + job[r].qty]
    BY <1>10 DEF BlockIncrement
  <2>2. blocked \in [Night -> Int] /\ job[r].qty \in Int
    <3>1. blocked \in [Night -> Int]
      BY DEF TypeOK
    <3>2. job[r].qty \in Int
      BY ONLY <1>job, r \in Request
    <3> QED
      BY ONLY <3>1, <3>2
  <2>3. blocked' \in [Night -> Int]
    BY <2>1, <2>2
  <2> QED
    BY <1>10, <2>3, <1>go, <1>lab DEF BlockIncrement, TypeOK, Routed
<1>11. ASSUME NEW r \in Request, BlockRecord(r) PROVE TypeInv'
  <2>1. PICK d \in Night : /\ blocks' = [blocks EXCEPT ![d] = Append(@, job[r].qty)]
                           /\ Advance(r, d, "find", "unlock")
    BY <1>11 DEF BlockRecord
  <2>2. Append(blocks[d], job[r].qty) \in Seq(Nat) /\ blocks \in [Night -> Seq(Nat)]
    BY <1>job, AppendProperties DEF TypeOK
  <2>3. blocks' \in [Night -> Seq(Nat)]
    BY <2>1, <2>2
  <2>4. /\ todo' \in [Request -> (SUBSET Night) \ {{}}]
        /\ pc' \in [Request -> Label]
        /\ \A q \in Request : pc'[q] # "acquire" \/ pc'[q] = pc[q]
    BY <2>1, <1>lab, AdvanceType
  <2> QED
    BY <1>11, <2>3, <2>4 DEF BlockRecord, TypeOK, Routed
<1>12. ASSUME NEW r \in Request, UnblockRead(r) PROVE TypeInv'
  <2>1. Goto(r, "abort") \/ Goto(r, "decrement")
    BY <1>12 DEF UnblockRead
  <2> QED
    BY <1>12, <2>1, <1>go, <1>lab DEF UnblockRead, TypeOK, Routed, rows
<1>13. ASSUME NEW r \in Request, UnblockDecrement(r) PROVE TypeInv'
  <2>1. PICK d \in Night : blocked' = [blocked EXCEPT ![d] = @ - job[r].qty]
    BY <1>13 DEF UnblockDecrement
  <2>2. blocked \in [Night -> Int] /\ job[r].qty \in Int
    <3>1. blocked \in [Night -> Int]
      BY DEF TypeOK
    <3>2. job[r].qty \in Int
      BY ONLY <1>job, r \in Request
    <3> QED
      BY ONLY <3>1, <3>2
  <2>3. blocked' \in [Night -> Int]
    BY <2>1, <2>2
  <2> QED
    BY <1>13, <2>3, <1>go, <1>lab DEF UnblockDecrement, TypeOK, Routed
<1>find. ASSUME NEW r \in Request, UnblockFind(r) PROVE TypeInv'
  <2>1. PICK d \in Night :
           oldest' = [oldest EXCEPT ![r] =
             ended[d] + (IF job[r].qty < Len(blocks[d]) THEN job[r].qty ELSE Len(blocks[d]))]
    BY <1>find DEF UnblockFind
  <2>2. ended[d] \in Nat /\ Len(blocks[d]) \in Nat /\ job[r].qty \in Nat
    <3>1. ended \in [Night -> Nat] /\ blocks \in [Night -> Seq(Nat)]
      BY DEF TypeOK
    <3>2. job[r].qty \in Nat
      BY ONLY <1>job, r \in Request
    <3>3. ended[d] \in Nat /\ blocks[d] \in Seq(Nat)
      BY ONLY <3>1, d \in Night
    <3> QED
      BY ONLY <3>2, <3>3, LenProperties
  <2>3. oldest' \in [Request -> Nat]
    <3>1. oldest \in [Request -> Nat]
      BY DEF TypeOK
    <3> QED
      BY <2>1, <2>2, <3>1
  <2> QED
    BY <1>find, <2>3, <1>go, <1>lab DEF UnblockFind, TypeOK, Routed, rows
<1>14. ASSUME NEW r \in Request, UnblockDeactivate(r) PROVE TypeInv'
  <2> DEFINE more(d) == IF oldest[r] > ended[d] THEN oldest[r] - ended[d] ELSE 0
  <2>1. PICK d \in Night :
           /\ blocks' = [blocks EXCEPT ![d] = SubSeq(@, more(d) + 1, Len(@))]
           /\ ended' = [ended EXCEPT ![d] = @ + more(d)]
           /\ Advance(r, d, "read", "unlock")
    BY <1>14 DEF UnblockDeactivate
  <2>5. more(d) \in Nat
    <3>1. oldest[r] \in Nat /\ ended[d] \in Nat
      BY DEF TypeOK
    <3> QED
      BY <3>1
  <2> HIDE DEF more
  <2>6. ended' \in [Night -> Nat]
    <3>1. ended \in [Night -> Nat]
      BY DEF TypeOK
    <3> QED
      BY <2>1, <2>5, <3>1
  <2>2. SubSeq(blocks[d], more(d) + 1, Len(blocks[d])) \in Seq(Nat)
    <3>1. blocks[d] \in Seq(Nat)
      BY DEF TypeOK
    <3>2. Len(blocks[d]) \in Nat /\ more(d) + 1 \in Nat \ {0}
      BY <3>1, <2>5
    <3>3. \A i \in more(d) + 1 .. Len(blocks[d]) : blocks[d][i] \in Nat
      BY <3>1, <3>2
    <3> QED
      BY <3>2, <3>3, SubSeqProperties
  <2>3. blocks' \in [Night -> Seq(Nat)]
    <3>1. blocks \in [Night -> Seq(Nat)]
      BY DEF TypeOK
    <3> QED
      BY <2>1, <2>2, <3>1
  <2>4. /\ todo' \in [Request -> (SUBSET Night) \ {{}}]
        /\ pc' \in [Request -> Label]
        /\ \A q \in Request : pc'[q] # "acquire" \/ pc'[q] = pc[q]
    BY <2>1, <1>lab, AdvanceType
  <2> QED
    BY <1>14, <2>3, <2>4, <2>6 DEF UnblockDeactivate, TypeOK, Routed
<1>15. ASSUME NEW r \in Request, ReleaseCount(r) PROVE TypeInv'
  <2>1. Goto(r, "select") \/ Goto(r, "failed")
    BY <1>15 DEF ReleaseCount
  <2> QED
    BY <1>15, <2>1, <1>go, <1>lab DEF ReleaseCount, TypeOK, Routed, rows
<1>16. ASSUME NEW r \in Request, ReleaseSelect(r) PROVE TypeInv'
  <2> DEFINE seen == [d \in Night |-> IF job[r].own THEN active[job[r].ref][d] ELSE 0]
  <2>1. seen \in [Night -> Nat]
    <3>1. job[r].ref \in Ref
      BY <1>job
    <3>2. active[job[r].ref] \in [Night -> Nat]
      BY <3>1 DEF TypeOK
    <3>3. \A d \in Night : active[job[r].ref][d] \in Nat
      BY <3>2
    <3> QED
      BY <3>3
  <2>2. snap' = [snap EXCEPT ![r] = seen]
    BY <1>16 DEF ReleaseSelect
  <2>3. snap' \in [Request -> [Night -> Nat]]
    BY <2>1, <2>2 DEF TypeOK
  <2>4. Goto(r, "update") \/ Goto(r, "done")
    BY <1>16 DEF ReleaseSelect
  <2>5. row' \in [Request -> Night]
    <3>1. row \in [Request -> Night]
      BY DEF TypeOK
    <3>2. row' = row \/ \E d \in Night : row' = [row EXCEPT ![r] = d]
      BY <1>16 DEF ReleaseSelect
    <3> QED
      BY ONLY <3>1, <3>2
  <2>6. pc' \in [Request -> Label] /\ \A q \in Request : pc'[q] # "acquire" \/ pc'[q] = pc[q]
    BY <2>4, <1>go, <1>lab DEF TypeOK
  <2> QED
    BY <1>16, <2>3, <2>5, <2>6 DEF ReleaseSelect, TypeOK, Routed, rows
<1>upd. ASSUME NEW r \in Request, ReleaseUpdate(r) PROVE TypeInv'
  <2>1. tx' \in [Request -> SUBSET Night]
    <3>1. tx \in [Request -> SUBSET Night] /\ row[r] \in Night
      BY DEF TypeOK
    <3> QED
      BY <1>upd, <3>1 DEF ReleaseUpdate
  <2>2. row' \in [Request -> Night]
    <3>1. row \in [Request -> Night]
      BY DEF TypeOK
    <3>2. row' = row \/ \E d \in Night : row' = [row EXCEPT ![r] = d]
      BY <1>upd DEF ReleaseUpdate
    <3> QED
      BY ONLY <3>1, <3>2
  <2>3. Goto(r, "release") \/ UNCHANGED pc
    BY <1>upd DEF ReleaseUpdate
  <2>4. pc' \in [Request -> Label] /\ \A q \in Request : pc'[q] # "acquire" \/ pc'[q] = pc[q]
    BY <2>3, <1>go, <1>lab DEF TypeOK
  <2> QED
    BY <1>upd, <2>1, <2>2, <2>4 DEF ReleaseUpdate, TypeOK, Routed, rows
<1>17. ASSUME NEW r \in Request, ReleaseCommit(r) PROVE TypeInv'
  <2>1. reserved \in [Night -> Int] /\ snap[r] \in [Night -> Nat]
    BY DEF TypeOK
  <2>2. reserved' \in [Night -> Int]
    BY <1>17, <2>1 DEF ReleaseCommit
  <2>3. active' \in [Ref -> [Night -> Nat]]
    BY <1>17, <1>job DEF ReleaseCommit, TypeOK
  <2>4. released' \in [Ref -> [Night -> Nat]]
    <3> DEFINE units == [d \in Night |-> released[job[r].ref][d] + active[job[r].ref][d]]
    <3>1. /\ released \in [Ref -> [Night -> Nat]] /\ active \in [Ref -> [Night -> Nat]]
          /\ job[r].ref \in Ref
      BY <1>job DEF TypeOK
    <3>2. units \in [Night -> Nat]
      BY <3>1
    <3>3. released' = [released EXCEPT ![job[r].ref] = units]
      BY <1>17 DEF ReleaseCommit
    <3> QED
      BY <3>1, <3>2, <3>3
  <2>5. tx' \in [Request -> SUBSET Night]
    BY <1>17 DEF ReleaseCommit, TypeOK
  <2>6. UNCHANGED <<total, blocked, blocks, ended, lock, job, held, todo, local>> /\ Goto(r, "done")
    BY <1>17 DEF ReleaseCommit
  <2>7. pc' \in [Request -> Label] /\ \A q \in Request : pc'[q] # "acquire" \/ pc'[q] = pc[q]
    BY <2>6, <1>go, <1>lab
  <2> QED
    BY <2>2, <2>3, <2>4, <2>5, <2>6, <2>7 DEF TypeOK, Routed
<1>18. ASSUME NEW r \in Request, DatabaseError(r) PROVE TypeInv'
  <2>1. Goto(r, "abort") \/ Goto(r, "failed")
    BY <1>18 DEF DatabaseError
  <2>2. tx' \in [Request -> SUBSET Night]
    BY <1>18 DEF DatabaseError, TypeOK
  <2> QED
    BY <1>18, <2>1, <2>2, <1>go, <1>lab DEF DatabaseError, TypeOK, Routed, rows
<1>19. ASSUME NEW r \in Request, Crash(r) PROVE TypeInv'
  <2>1. tx' \in [Request -> SUBSET Night]
    BY <1>19 DEF Crash, TypeOK
  <2> QED
    BY <1>19, <2>1, <1>go, <1>lab DEF Crash, TypeOK, Routed, rows
<1>20. ASSUME NEW d \in Night, Expire(d) PROVE TypeInv'
  BY <1>20 DEF Expire, TypeOK, Routed, rows
<1>21. CASE UNCHANGED vars
  BY <1>21 DEF vars, rows, TypeOK, Routed
<1>22. CASE Finished
  BY <1>22, <1>21 DEF Finished
<1> QED
  BY <1>1, <1>2, <1>3, <1>4, <1>5, <1>6, <1>7, <1>8, <1>9, <1>10, <1>11, <1>12, <1>13, <1>14,
     <1>15, <1>16, <1>17, <1>find, <1>upd, <1>18, <1>19, <1>20, <1>21, <1>22 DEF Next, Step

(* Counters, rows, keys and handlers keep their types in every behaviour, *)
(* and no loop of a handler runs out of nights before it has left.         *)
THEOREM TypeCorrect == Spec => []TypeOK
<1>1. Spec => []TypeInv
  BY InitType, NextType, PTL DEF Spec
<1>2. TypeInv => TypeOK
  BY DEF TypeInv
<1> QED
  BY <1>1, <1>2, PTL

-----------------------------------------------------------------------------
(* Locks. *)

(* A live handler owns every key in its `acquired`, ... *)
Owned == \A r \in Request : pc[r] \notin Terminal => \A d \in held[r] : lock[d] = r

(* ... what its loop has left to do lies in its range, ... *)
InRange == \A r \in Request : todo[r] \subseteq Nights(r)

(* ... what the acquiring loop has passed is held, ... *)
Passed == \A r \in Request : pc[r] = "acquire" => Nights(r) \ todo[r] \subseteq held[r]

(* ... and in the body everything is. *)
Covered == \A r \in Request : pc[r] \in InDatabase => Nights(r) \subseteq held[r]

LockInv == Owned /\ InRange /\ Passed /\ Covered

(* A step that moves one handler along, leaving locks and loops alone. *)
LEMMA LockMove ==
    ASSUME TypeOK, LockInv, NEW r \in Request, UNCHANGED <<lock, held, job>>,
           todo'[r] \subseteq Nights(r),
           \A q \in Request \ {r} : pc'[q] = pc[q] /\ todo'[q] = todo[q],
           pc[r] \notin Terminal, pc'[r] # "acquire",
           pc'[r] \in InDatabase => pc[r] \in InDatabase
    PROVE  LockInv'
BY DEF LockInv, Owned, InRange, Passed, Covered, Nights

(* The loop stays within the request and leaves the others alone. *)
LEMMA AdvanceRange ==
    ASSUME TypeOK, LockInv, NEW r \in Request, NEW d \in Night,
           NEW again \in Label, NEW after \in Label, Advance(r, d, again, after)
    PROVE  /\ todo'[r] \subseteq Nights(r)
           /\ \A q \in Request \ {r} : pc'[q] = pc[q] /\ todo'[q] = todo[q]
           /\ pc'[r] \in {again, after}
<1>1. todo[r] \subseteq Nights(r)
  BY DEF LockInv, InRange
<1>2. todo \in [Request -> (SUBSET Night) \ {{}}] /\ pc \in [Request -> Label]
  BY DEF TypeOK
<1>3. \/ todo' = [todo EXCEPT ![r] = Nights(r)] /\ pc' = [pc EXCEPT ![r] = after]
      \/ todo' = [todo EXCEPT ![r] = @ \ {d}] /\ pc' = [pc EXCEPT ![r] = again]
  BY DEF Advance, Goto
<1>4. todo'[r] \subseteq Nights(r)
  BY ONLY <1>1, <1>2, <1>3, r \in Request
<1>5. pc'[r] \in {again, after}
  BY ONLY <1>2, <1>3, r \in Request
<1>6. \A q \in Request \ {r} : pc'[q] = pc[q] /\ todo'[q] = todo[q]
  BY ONLY <1>2, <1>3
<1> QED
  BY <1>4, <1>5, <1>6

(* Nobody holds a lock at the start. *)
LEMMA InitLock == Init => LockInv
BY DEF Init, LockInv, Owned, InRange, Passed, Covered, Nights, InDatabase

(* Every step keeps the invariants about locks. *)
LEMMA NextLock == ASSUME HoldersTimely, TypeInv, LockInv, [Next]_vars PROVE LockInv'
<1> USE DEF TypeInv, local
<1>lab. {"acquire", "unlock", "abort", "validate", "txread", "txwrite", "commit", "find",
         "increment", "record", "read", "decrement", "oldest", "deactivate", "count", "select",
         "update", "release", "done", "failed", "crashed"} \subseteq Label
  BY DEF Label, InDatabase, Unlocked, Terminal
<1>db. {"validate", "txread", "txwrite", "commit", "find", "increment", "record", "read",
        "decrement", "oldest", "deactivate"} = InDatabase
  BY DEF InDatabase
<1>off. /\ Terminal = {"done", "failed", "crashed"}
        /\ Unlocked = {"count", "select", "update", "release"}
  BY DEF Terminal, Unlocked
<1>none. None \notin Request
  BY InventoryAssumption
<1>still. ASSUME NEW r \in Request, NEW l \in Label, Goto(r, l), UNCHANGED todo
          PROVE  /\ pc'[r] = l
                 /\ todo'[r] \subseteq Nights(r)
                 /\ \A q \in Request \ {r} : pc'[q] = pc[q] /\ todo'[q] = todo[q]
  BY <1>still DEF Goto, TypeOK, LockInv, InRange
<1>1. ASSUME NEW r \in Request, Acquire(r) PROVE LockInv'
  <2>1. PICK d \in Night :
           /\ NextNight(r, d)
           /\ lock[d] = None
           /\ lock' = [lock EXCEPT ![d] = r]
           /\ held' = [held EXCEPT ![r] = @ \cup {d}]
           /\ Advance(r, d, "acquire", Body[job[r].op])
    BY <1>1 DEF Acquire
  <2>2. pc[r] = "acquire" /\ job' = job
    BY <1>1 DEF Acquire
  <2>3. Body[job[r].op] \in InDatabase
    <3>1. job[r].op \in {"reserve", "block", "unblock"}
      BY <2>2, JobType DEF Routed
    <3> QED
      BY <3>1, <1>db DEF Body
  <2>4. /\ todo'[r] \subseteq Nights(r)
        /\ \A q \in Request \ {r} : pc'[q] = pc[q] /\ todo'[q] = todo[q]
        /\ pc'[r] \in {"acquire", Body[job[r].op]}
    BY <2>1, <2>3, <1>lab, AdvanceRange DEF Label
  <2>5. /\ held'[r] = held[r] \cup {d}
        /\ \A q \in Request \ {r} : held'[q] = held[q]
        /\ lock'[d] = r
        /\ \A e \in Night \ {d} : lock'[e] = lock[e]
    BY <2>1 DEF TypeOK
  <2>6. Nights(r) \ todo[r] \subseteq held[r]
    BY <2>2 DEF LockInv, Passed
  <2>7. Owned'
    <3> SUFFICES ASSUME NEW q \in Request, pc'[q] \notin Terminal, NEW e \in held'[q]
                 PROVE  lock'[e] = q
      BY DEF Owned
    <3>1. e \in Night
      BY <2>5 DEF TypeOK
    <3>2. CASE q = r
      BY <3>1, <3>2, <2>2, <2>5, <1>off DEF LockInv, Owned
    <3>3. CASE q # r
      <4>1. pc[q] \notin Terminal /\ e \in held[q]
        BY <3>3, <2>4, <2>5
      <4>2. lock[e] = q
        BY <4>1 DEF LockInv, Owned
      <4> QED
        BY <4>2, <3>1, <2>1, <2>5, <1>none
    <3> QED
      BY <3>2, <3>3
  <2>8. InRange'
    BY <2>2, <2>4 DEF LockInv, InRange, Nights
  <2>9. Nights(r)' = Nights(r) /\ \A q \in Request : Nights(q)' = Nights(q)
    BY <2>2 DEF Nights
  <2>10. \A q \in Request \ {r} : (pc'[q] = "acquire" => Nights(q) \ todo'[q] \subseteq held'[q])
                               /\ (pc'[q] \in InDatabase => Nights(q) \subseteq held'[q])
    BY <2>4, <2>5 DEF LockInv, Passed, Covered
  <2>11. CASE todo[r] = {d}
    <3>1. pc'[r] = Body[job[r].op]
      BY <2>1, <2>11 DEF Advance, Goto, TypeOK
    <3>2. Nights(r) \subseteq held'[r]
      BY <2>5, <2>6, <2>11
    <3>3. pc'[r] # "acquire"
      BY <3>1, <2>3, <1>db
    <3> QED
      BY <3>2, <3>3, <2>7, <2>8, <2>9, <2>10 DEF LockInv, Passed, Covered
  <2>12. CASE todo[r] # {d}
    <3>1. pc'[r] = "acquire" /\ todo'[r] = todo[r] \ {d}
      BY <2>1, <2>12 DEF Advance, Goto, TypeOK
    <3>2. Nights(r) \ todo'[r] \subseteq held'[r]
      BY <3>1, <2>5, <2>6
    <3>3. pc'[r] \notin InDatabase
      BY <3>1, <1>db
    <3> QED
      BY <3>2, <3>3, <2>7, <2>8, <2>9, <2>10 DEF LockInv, Passed, Covered
  <2> QED
    BY <2>11, <2>12
<1>2. ASSUME NEW r \in Request, AcquireRefused(r) PROVE LockInv'
  <2>1. Goto(r, "failed") \/ Goto(r, "abort")
    BY <1>2 DEF AcquireRefused, Unwind
  <2>2. pc[r] \notin Terminal /\ UNCHANGED <<lock, held, job, todo>>
    BY <1>2, <1>off DEF AcquireRefused
  <2> QED
    BY <2>1, <2>2, <1>lab, <1>db, <1>still, LockMove
<1>3. ASSUME NEW r \in Request, AcquireReplyLost(r) PROVE LockInv'
  <2>1. PICK d \in Night : lock[d] = None /\ lock' = [lock EXCEPT ![d] = r]
    BY <1>3 DEF AcquireReplyLost
  <2>2. Goto(r, "failed") \/ Goto(r, "abort")
    BY <1>3 DEF AcquireReplyLost, Unwind
  <2>3. pc[r] = "acquire" /\ UNCHANGED <<held, job, todo>>
    BY <1>3 DEF AcquireReplyLost
  <2>4. /\ pc'[r] \in {"failed", "abort"}
        /\ \A q \in Request \ {r} : pc'[q] = pc[q]
    BY <2>2, <2>3, <1>lab, <1>still
  <2>5. Owned'
    <3> SUFFICES ASSUME NEW q \in Request, pc'[q] \notin Terminal, NEW e \in held[q]
                 PROVE  lock'[e] = q
      BY <2>3 DEF Owned
    <3>1. lock[e] = q /\ e \in Night
      BY <2>3, <2>4, <1>off DEF LockInv, Owned, TypeOK
    <3> QED
      BY <3>1, <2>1, <1>none DEF TypeOK
  <2> QED
    BY <2>3, <2>4, <2>5, <1>db DEF LockInv, InRange, Passed, Covered, Nights
<1>4. ASSUME NEW r \in Request, Unlock(r) PROVE LockInv'
  <2>1. PICK d \in held[r] :
           /\ lock' \in {lock, [lock EXCEPT ![d] = Deleted(r, d)]}
           /\ held' = [held EXCEPT ![r] = @ \ {d}]
           /\ Goto(r, IF held[r] # {d} THEN pc[r]
                       ELSE IF pc[r] = "unlock" THEN "done" ELSE "failed")
    BY <1>4 DEF Unlock
  <2>2. pc[r] \in {"unlock", "abort"} /\ UNCHANGED <<job, todo>>
    BY <1>4 DEF Unlock
  <2>3. /\ held'[r] = held[r] \ {d}
        /\ \A q \in Request \ {r} : held'[q] = held[q] /\ pc'[q] = pc[q]
        /\ pc'[r] \in {"unlock", "abort", "done", "failed"}
    BY <2>1, <2>2 DEF TypeOK, Goto
  <2>4. lock[d] = r /\ d \in Night
    BY <2>1, <2>2, <1>off DEF LockInv, Owned, TypeOK
  <2>5. \A e \in Night \ {d} : lock'[e] = lock[e]
    BY <2>1, <2>4 DEF TypeOK
  <2>6. Owned'
    <3> SUFFICES ASSUME NEW q \in Request, pc'[q] \notin Terminal, NEW e \in held'[q]
                 PROVE  lock'[e] = q
      BY DEF Owned
    <3>1. pc[q] \notin Terminal /\ e \in held[q] /\ (q = r => e # d)
      BY <2>2, <2>3, <1>off
    <3>2. lock[e] = q /\ e \in Night
      BY <3>1 DEF LockInv, Owned, TypeOK
    <3>3. e # d
      BY <3>1, <3>2, <2>4
    <3> QED
      BY <3>2, <3>3, <2>5
  <2> QED
    BY <2>2, <2>3, <2>6, <1>db DEF LockInv, InRange, Passed, Covered, Nights
<1>5. ASSUME NEW r \in Request, Validate(r) PROVE LockInv'
  <2>1. PICK d \in Night :
           \/ Advance(r, d, "validate", "txread")
           \/ Goto(r, "abort") /\ UNCHANGED todo
    BY <1>5 DEF Validate
  <2>2. pc[r] = "validate" /\ UNCHANGED <<lock, held, job>>
    BY <1>5 DEF Validate
  <2>3. /\ todo'[r] \subseteq Nights(r)
        /\ \A q \in Request \ {r} : pc'[q] = pc[q] /\ todo'[q] = todo[q]
        /\ pc'[r] \in {"validate", "txread", "abort"}
    BY <2>1, <1>lab, <1>still, AdvanceRange
  <2> QED
    BY <2>2, <2>3, <1>db, <1>off, LockMove
<1>6. ASSUME NEW r \in Request, TxRead(r) PROVE LockInv'
  <2>1. Goto(r, "txwrite") \/ Goto(r, "abort")
    BY <1>6 DEF TxRead
  <2>2. pc[r] = "txread" /\ UNCHANGED <<lock, held, job, todo>>
    BY <1>6 DEF TxRead
  <2> QED
    BY <2>1, <2>2, <1>lab, <1>db, <1>off, <1>still, LockMove
<1>7. ASSUME NEW r \in Request, TxWrite(r) PROVE LockInv'
  <2>1. PICK d \in Night : Advance(r, d, "txread", "commit")
    BY <1>7 DEF TxWrite
  <2>2. pc[r] = "txwrite" /\ UNCHANGED <<lock, held, job>>
    BY <1>7 DEF TxWrite
  <2>3. /\ todo'[r] \subseteq Nights(r)
        /\ \A q \in Request \ {r} : pc'[q] = pc[q] /\ todo'[q] = todo[q]
        /\ pc'[r] \in {"txread", "commit"}
    BY <2>1, <1>lab, AdvanceRange
  <2> QED
    BY <2>2, <2>3, <1>db, <1>off, LockMove
<1>8. ASSUME NEW r \in Request, Commit(r) PROVE LockInv'
  <2>1. Goto(r, "unlock") /\ pc[r] = "commit" /\ UNCHANGED <<lock, held, job, todo>>
    BY <1>8 DEF Commit
  <2> QED
    BY <2>1, <1>lab, <1>db, <1>off, <1>still, LockMove
<1>9. ASSUME NEW r \in Request, BlockFind(r) PROVE LockInv'
  <2>1. Goto(r, "increment") \/ Goto(r, "abort")
    BY <1>9 DEF BlockFind
  <2>2. pc[r] = "find" /\ UNCHANGED <<lock, held, job, todo>>
    BY <1>9 DEF BlockFind
  <2> QED
    BY <2>1, <2>2, <1>lab, <1>db, <1>off, <1>still, LockMove
<1>10. ASSUME NEW r \in Request, BlockIncrement(r) PROVE LockInv'
  <2>1. Goto(r, "record") /\ pc[r] = "increment" /\ UNCHANGED <<lock, held, job, todo>>
    BY <1>10 DEF BlockIncrement
  <2> QED
    BY <2>1, <1>lab, <1>db, <1>off, <1>still, LockMove
<1>11. ASSUME NEW r \in Request, BlockRecord(r) PROVE LockInv'
  <2>1. PICK d \in Night : Advance(r, d, "find", "unlock")
    BY <1>11 DEF BlockRecord
  <2>2. pc[r] = "record" /\ UNCHANGED <<lock, held, job>>
    BY <1>11 DEF BlockRecord
  <2>3. /\ todo'[r] \subseteq Nights(r)
        /\ \A q \in Request \ {r} : pc'[q] = pc[q] /\ todo'[q] = todo[q]
        /\ pc'[r] \in {"find", "unlock"}
    BY <2>1, <1>lab, AdvanceRange
  <2> QED
    BY <2>2, <2>3, <1>db, <1>off, LockMove
<1>12. ASSUME NEW r \in Request, UnblockRead(r) PROVE LockInv'
  <2>1. Goto(r, "decrement") \/ Goto(r, "abort")
    BY <1>12 DEF UnblockRead
  <2>2. pc[r] = "read" /\ UNCHANGED <<lock, held, job, todo>>
    BY <1>12 DEF UnblockRead
  <2> QED
    BY <2>1, <2>2, <1>lab, <1>db, <1>off, <1>still, LockMove
<1>13. ASSUME NEW r \in Request, UnblockDecrement(r) PROVE LockInv'
  <2>1. Goto(r, "oldest") /\ pc[r] = "decrement" /\ UNCHANGED <<lock, held, job, todo>>
    BY <1>13 DEF UnblockDecrement
  <2> QED
    BY <2>1, <1>lab, <1>db, <1>off, <1>still, LockMove
<1>find. ASSUME NEW r \in Request, UnblockFind(r) PROVE LockInv'
  <2>1. Goto(r, "deactivate") /\ pc[r] = "oldest" /\ UNCHANGED <<lock, held, job, todo>>
    BY <1>find DEF UnblockFind
  <2> QED
    BY <2>1, <1>lab, <1>db, <1>off, <1>still, LockMove
<1>14. ASSUME NEW r \in Request, UnblockDeactivate(r) PROVE LockInv'
  <2>1. PICK d \in Night : Advance(r, d, "read", "unlock")
    BY <1>14 DEF UnblockDeactivate
  <2>2. pc[r] = "deactivate" /\ UNCHANGED <<lock, held, job>>
    BY <1>14 DEF UnblockDeactivate
  <2>3. /\ todo'[r] \subseteq Nights(r)
        /\ \A q \in Request \ {r} : pc'[q] = pc[q] /\ todo'[q] = todo[q]
        /\ pc'[r] \in {"read", "unlock"}
    BY <2>1, <1>lab, AdvanceRange
  <2> QED
    BY <2>2, <2>3, <1>db, <1>off, LockMove
<1>15. ASSUME NEW r \in Request, ReleaseCount(r) \/ ReleaseSelect(r) \/ ReleaseCommit(r)
       PROVE  LockInv'
  <2>1. Goto(r, "select") \/ Goto(r, "failed") \/ Goto(r, "update") \/ Goto(r, "done")
    BY <1>15 DEF ReleaseCount, ReleaseSelect, ReleaseCommit
  <2>2. pc[r] \in Unlocked /\ UNCHANGED <<lock, held, job, todo>>
    BY <1>15, <1>off DEF ReleaseCount, ReleaseSelect, ReleaseCommit
  <2> QED
    BY <2>1, <2>2, <1>lab, <1>db, <1>off, <1>still, LockMove
<1>upd. ASSUME NEW r \in Request, ReleaseUpdate(r) PROVE LockInv'
  <2>1. pc[r] = "update" /\ UNCHANGED <<lock, held, job, todo>>
    BY <1>upd DEF ReleaseUpdate
  <2>2. Goto(r, "release") \/ Goto(r, "update")
    <3>1. Goto(r, "release") \/ UNCHANGED pc
      BY <1>upd DEF ReleaseUpdate
    <3>2. UNCHANGED pc => Goto(r, "update")
      BY <2>1 DEF Goto, TypeOK
    <3> QED
      BY <3>1, <3>2
  <2> QED
    BY <2>1, <2>2, <1>lab, <1>db, <1>off, <1>still, LockMove
<1>16. ASSUME NEW r \in Request, DatabaseError(r) \/ Crash(r) PROVE LockInv'
  <2>1. Goto(r, "abort") \/ Goto(r, "failed") \/ Goto(r, "crashed")
    BY <1>16 DEF DatabaseError, Crash
  <2>2. pc[r] \notin Terminal /\ UNCHANGED <<lock, held, job, todo>>
    BY <1>16, <1>off, <1>db DEF DatabaseError, Crash
  <2> QED
    BY <2>1, <2>2, <1>lab, <1>db, <1>off, <1>still, LockMove
<1>17. ASSUME NEW d \in Night, Expire(d) PROVE LockInv'
  <2>1. /\ lock[d] \in Request
        /\ d \notin held[lock[d]] \/ pc[lock[d]] \in Terminal
        /\ lock' = [lock EXCEPT ![d] = None]
        /\ UNCHANGED <<pc, held, todo, job>>
    BY <1>17 DEF Expire, TypeOK
  <2>2. Owned'
    BY <2>1 DEF LockInv, Owned, TypeOK
  <2> QED
    BY <2>1, <2>2 DEF LockInv, InRange, Passed, Covered, Nights
<1>18. CASE UNCHANGED vars
  BY <1>18 DEF vars, LockInv, Owned, InRange, Passed, Covered, Nights
<1>19. CASE Finished
  BY <1>19, <1>18 DEF Finished
<1> QED
  BY <1>1, <1>2, <1>3, <1>4, <1>5, <1>6, <1>7, <1>8, <1>9, <1>10, <1>11, <1>12, <1>13, <1>14,
     <1>15, <1>16, <1>17, <1>18, <1>19, <1>find, <1>upd DEF Next, Step

(* Owners of distinct keys are at work on distinct nights. *)
LEMMA LockExclusion == TypeOK /\ LockInv => ExclusiveNights
<1> SUFFICES ASSUME TypeOK, LockInv, NEW r \in Request, NEW q \in Request, r # q,
                    pc[r] \in InDatabase, pc[q] \in InDatabase,
                    NEW d \in Nights(r) \cap Nights(q)
             PROVE  FALSE
  BY DEF ExclusiveNights
<1>1. d \in held[r] /\ d \in held[q]
  BY DEF LockInv, Covered
<1>2. pc[r] \notin Terminal /\ pc[q] \notin Terminal
  BY DEF InDatabase, Terminal
<1> QED
  BY <1>1, <1>2 DEF LockInv, Owned

(* While no critical section outlives its lock's TTL, the handlers of two  *)
(* requests are never both at work on one night, whatever is refused,      *)
(* lost, expired or crashed on the way.                                    *)
THEOREM Exclusion == ASSUME HoldersTimely PROVE Spec => []ExclusiveNights
<1>1. Init => TypeInv /\ LockInv
  BY InitType, InitLock
<1>2. TypeInv /\ LockInv /\ [Next]_vars => (TypeInv /\ LockInv)'
  BY HoldersTimely, NextType, NextLock
<1>3. TypeInv /\ LockInv => ExclusiveNights
  BY LockExclusion DEF TypeInv
<1> QED
  BY <1>1, <1>2, <1>3, PTL DEF Spec

-----------------------------------------------------------------------------
(* What fits. *)

Room(d) == total[d] - reserved[d] - blocked[d]

(* No row has more rooms than any hint for it states, so that upserts only *)
(* add rooms; ...                                                          *)
Raised ==
    \A r \in Request : \A d \in Nights(r) : job[r].hint > 0 => total[d] <= job[r].hint

(* ... a reservation's validation has written its hint on every night it   *)
(* has passed; ...                                                         *)
Written ==
    \A r \in Request : \A d \in Nights(r) :
        /\ job[r].hint > 0
        /\ pc[r] \in {"txread", "txwrite", "commit"} \/ (pc[r] = "validate" /\ d \notin todo[r])
        => total[d] = job[r].hint

(* ... every night a transaction has passed, and the one a handler has     *)
(* just checked, still has the room that was found, ...                    *)
RoomKept ==
    \A r \in Request : \A d \in Nights(r) :
        \/ pc[r] \in {"txread", "txwrite"} /\ d \notin todo[r]
        \/ pc[r] \in {"txwrite", "increment"} /\ NextNight(r, d)
        \/ pc[r] = "commit"
        => Room(d) >= job[r].qty

(* ... and so has the blocked count an unblock has checked. *)
BlockKept ==
    \A r \in Request : \A d \in Nights(r) :
        pc[r] = "decrement" /\ NextNight(r, d) => blocked[d] >= job[r].qty

FitInv == Raised /\ Written /\ RoomKept /\ BlockKept /\ NoOverbooking

(* Total after an upsert by r: as it was, or raised to r's hint. *)
UpsertedBy(r) ==
    /\ total' \in [Night -> Int]
    /\ \A d \in Night :
          \/ total'[d] = total[d]
          \/ d \in Nights(r) /\ job[r].hint > 0 /\ total'[d] = job[r].hint

(* A request has at most one next night. *)
LEMMA OneNext ==
    ASSUME NEW r \in Request, NEW d \in Night, NEW e \in Night,
           NextNight(r, d), NextNight(r, e)
    PROVE  d = e
<1>1. d \in Nat /\ e \in Nat /\ d <= e /\ e <= d
  BY InventoryAssumption DEF NextNight
<1> QED
  BY <1>1

(* Agreeing hints are one number. *)
LEMMA HintsEqual ==
    ASSUME HintsAgree, TypeOK, NEW r \in Request, NEW q \in Request,
           NEW d \in Nights(r) \cap Nights(q), job[r].hint > 0, job[q].hint > 0
    PROVE  job[r].hint = job[q].hint
<1>1. job \in Workload
  BY DEF TypeOK
<1> QED
  BY <1>1 DEF HintsAgree, Nights

(* An upsert leaves the invariants about hints in place. *)
LEMMA HintsKept ==
    ASSUME HintsAgree, TypeOK, Raised, NEW r \in Request, UpsertedBy(r)
    PROVE  /\ \A d \in Night : total'[d] >= total[d]
           /\ \A q \in Request : \A d \in Nights(q) :
                 job[q].hint > 0 => total'[d] <= job[q].hint
           /\ \A q \in Request : \A d \in Nights(q) :
                 job[q].hint > 0 /\ total[d] = job[q].hint => total'[d] = job[q].hint
<1>1. ASSUME NEW d \in Night PROVE total'[d] >= total[d]
  <2>1. total[d] \in Int
    BY DEF TypeOK
  <2> QED
    BY <2>1 DEF UpsertedBy, Raised
<1>2. ASSUME NEW q \in Request, NEW d \in Nights(q), job[q].hint > 0
      PROVE  /\ total'[d] <= job[q].hint
             /\ total[d] = job[q].hint => total'[d] = job[q].hint
  <2>1. d \in Night /\ job[q].hint \in Nat
    BY JobType
  <2>2. CASE total'[d] = total[d]
    BY <1>2, <2>2 DEF Raised
  <2>3. CASE d \in Nights(r) /\ job[r].hint > 0 /\ total'[d] = job[r].hint
    <3>1. job[r].hint = job[q].hint
      BY <1>2, <2>3, HintsEqual
    <3> QED
      BY <3>1, <2>1, <2>3
  <2> QED
    BY <2>1, <2>2, <2>3 DEF UpsertedBy
<1> QED
  BY <1>1, <1>2

(* What the handler r may rely on, at its next step. *)
Mine(r) ==
    \A d \in Nights(r) :
        /\ /\ job[r].hint > 0
           /\ pc[r] \in {"txread", "txwrite", "commit"} \/ (pc[r] = "validate" /\ d \notin todo[r])
           => total[d] = job[r].hint
        /\ \/ pc[r] \in {"txread", "txwrite"} /\ d \notin todo[r]
           \/ pc[r] \in {"txwrite", "increment"} /\ NextNight(r, d)
           \/ pc[r] = "commit"
           => Room(d) >= job[r].qty
        /\ pc[r] = "decrement" /\ NextNight(r, d) => blocked[d] >= job[r].qty

(* A step of r disturbs nothing the others rely on: outside the nights it  *)
(* has locked it only adds rooms or gives rooms back.                      *)
LEMMA FitStep ==
    ASSUME HintsAgree, TypeOK, ExclusiveNights, FitInv, NEW r \in Request,
           job' = job, UpsertedBy(r),
           \A q \in Request \ {r} : pc'[q] = pc[q] /\ todo'[q] = todo[q],
           reserved' \in [Night -> Int], blocked' \in [Night -> Int],
           \A d \in Night : pc[r] \notin InDatabase \/ d \notin Nights(r)
                            => reserved'[d] <= reserved[d] /\ blocked'[d] = blocked[d],
           NoOverbooking', Mine(r)'
    PROVE  FitInv'
<1>1. /\ \A d \in Night : total'[d] >= total[d]
      /\ \A q \in Request : \A d \in Nights(q) :
            job[q].hint > 0 => total'[d] <= job[q].hint
      /\ \A q \in Request : \A d \in Nights(q) :
            job[q].hint > 0 /\ total[d] = job[q].hint => total'[d] = job[q].hint
  BY HintsKept DEF FitInv
<1>2. ASSUME NEW q \in Request \ {r} PROVE Mine(q)'
  <2> SUFFICES ASSUME NEW d \in Nights(q)
               PROVE  /\ /\ job[q].hint > 0
                         /\ \/ pc[q] \in {"txread", "txwrite", "commit"}
                            \/ pc[q] = "validate" /\ d \notin todo[q]
                         => total'[d] = job[q].hint
                      /\ \/ pc[q] \in {"txread", "txwrite"} /\ d \notin todo[q]
                         \/ pc[q] \in {"txwrite", "increment"} /\ NextNight(q, d)
                         \/ pc[q] = "commit"
                         => Room(d)' >= job[q].qty
                      /\ pc[q] = "decrement" /\ NextNight(q, d) => blocked'[d] >= job[q].qty
    BY <1>2 DEF Mine, Nights, NextNight
  <2>1. d \in Night /\ job[q].qty \in Int
    BY JobType
  <2>2. CASE pc[q] \notin InDatabase
    BY <2>2 DEF InDatabase
  <2>3. CASE pc[q] \in InDatabase
    <3>1. pc[r] \notin InDatabase \/ d \notin Nights(r)
      BY <1>2, <2>3 DEF ExclusiveNights
    <3>2. reserved'[d] <= reserved[d] /\ blocked'[d] = blocked[d] /\ total'[d] >= total[d]
      BY <1>1, <2>1, <3>1
    <3>3. total[d] \in Int /\ reserved[d] \in Int /\ blocked[d] \in Int
      BY <2>1 DEF TypeOK
    <3>4. total'[d] \in Int /\ reserved'[d] \in Int
      BY <2>1 DEF UpsertedBy
    <3>5. Room(d) \in Int /\ Room(d)' \in Int /\ Room(d)' >= Room(d)
      BY <3>2, <3>3, <3>4 DEF Room
    <3>6. /\ /\ job[q].hint > 0
             /\ \/ pc[q] \in {"txread", "txwrite", "commit"}
                \/ pc[q] = "validate" /\ d \notin todo[q]
             => total'[d] = job[q].hint
      BY <1>1 DEF FitInv, Written
    <3>7. \/ pc[q] \in {"txread", "txwrite"} /\ d \notin todo[q]
          \/ pc[q] \in {"txwrite", "increment"} /\ NextNight(q, d)
          \/ pc[q] = "commit"
          => Room(d) >= job[q].qty
      BY DEF FitInv, RoomKept
    <3>8. pc[q] = "decrement" /\ NextNight(q, d) => blocked[d] >= job[q].qty
      BY DEF FitInv, BlockKept
    <3> QED
      BY <2>1, <3>2, <3>5, <3>6, <3>7, <3>8
  <2> QED
    BY <2>2, <2>3
<1>3. \A q \in Request : Mine(q)'
  BY <1>2
<1>4. Raised'
  BY <1>1 DEF Raised, Nights
<1> QED
  BY <1>3, <1>4 DEF FitInv, Mine, Written, RoomKept, BlockKept

(* A step that writes no counter. *)
LEMMA FitQuiet ==
    ASSUME HintsAgree, TypeOK, ExclusiveNights, FitInv, NEW r \in Request,
           UNCHANGED <<total, reserved, blocked, job>>,
           \A q \in Request \ {r} : pc'[q] = pc[q] /\ todo'[q] = todo[q],
           Mine(r)'
    PROVE  FitInv'
<1>1. UpsertedBy(r)
  BY DEF UpsertedBy, TypeOK
<1>2. reserved' \in [Night -> Int] /\ blocked' \in [Night -> Int]
  BY DEF TypeOK
<1>3. \A d \in Night : reserved'[d] <= reserved[d] /\ blocked'[d] = blocked[d]
  BY DEF TypeOK
<1>4. NoOverbooking'
  BY DEF FitInv, NoOverbooking
<1> QED
  BY <1>1, <1>2, <1>3, <1>4, FitStep

(* A step that writes no counter and leaves no check to rely on. *)
LEMMA FitIdle ==
    ASSUME HintsAgree, TypeOK, ExclusiveNights, FitInv, NEW r \in Request,
           UNCHANGED <<total, reserved, blocked, job>>,
           \A q \in Request \ {r} : pc'[q] = pc[q] /\ todo'[q] = todo[q],
           pc'[r] \notin {"validate", "txread", "txwrite", "commit", "increment", "decrement"}
    PROVE  FitInv'
<1>1. Mine(r)'
  BY DEF Mine
<1> QED
  BY <1>1, FitQuiet

(* The counters fit at the start. *)
LEMMA InitFit == HintsAgree /\ Init => FitInv
<1> SUFFICES ASSUME HintsAgree, Init PROVE FitInv
  OBVIOUS
<1>1. \A d \in Night : total[d] \in Nat /\ reserved[d] = 0 /\ blocked[d] = 0
  BY InventoryAssumption DEF Init
<1>2. NoOverbooking
  BY <1>1 DEF NoOverbooking
<1>3. Raised
  BY DEF Init, HintsAgree, Raised, Nights
<1> QED
  BY <1>2, <1>3 DEF Init, FitInv, Written, RoomKept, BlockKept

(* Every step keeps the counters within the total. *)
LEMMA NextFit ==
    ASSUME HoldersTimely, HintsAgree, TypeInv, LockInv, FitInv, [Next]_vars
    PROVE  FitInv'
<1> USE DEF TypeInv, local
<1>lab. {"acquire", "unlock", "abort", "validate", "txread", "txwrite", "commit", "find",
         "increment", "record", "read", "decrement", "oldest", "deactivate", "count", "select",
         "update", "release", "done", "failed", "crashed"} \subseteq Label
  BY DEF Label, InDatabase, Unlocked, Terminal
<1>excl. ExclusiveNights
  BY LockExclusion
<1>int. /\ total \in [Night -> Int] /\ reserved \in [Night -> Int] /\ blocked \in [Night -> Int]
        /\ \A d \in Night : Room(d) \in Int
  BY DEF TypeOK, Room
<1>job. \A r \in Request : /\ job[r].qty \in Nat \ {0} /\ job[r].hint \in Nat
                           /\ Nights(r) \subseteq Night
  BY JobType
<1>next. \A r \in Request, d \in Night : NextNight(r, d) => d \in Nights(r)
  BY DEF NextNight, LockInv, InRange
<1>go. ASSUME NEW r \in Request, NEW l \in Label, Goto(r, l), UNCHANGED todo
       PROVE  /\ pc'[r] = l
              /\ \A q \in Request \ {r} : pc'[q] = pc[q] /\ todo'[q] = todo[q]
  BY <1>go DEF Goto, TypeOK
<1>same. ASSUME NEW r \in Request, pc[r] \in {"txread", "txwrite", "commit"}, NEW d \in Nights(r)
         PROVE  Upserted(r, d) = total[d]
  BY <1>same, <1>job DEF FitInv, Written, Upserted
<1>still. \A r \in Request : total' = total => UpsertedBy(r)
  BY <1>int DEF UpsertedBy
<1>1. ASSUME NEW r \in Request, Acquire(r) PROVE FitInv'
  <2>1. PICK d \in Night : Advance(r, d, "acquire", Body[job[r].op])
    BY <1>1 DEF Acquire
  <2>2. pc[r] = "acquire" /\ UNCHANGED <<total, reserved, blocked, job>>
    BY <1>1 DEF Acquire, rows
  <2>3. Body[job[r].op] \in {"validate", "find", "read"}
    <3>1. job[r].op \in {"reserve", "block", "unblock"}
      BY <2>2, JobType DEF Routed
    <3> QED
      BY <3>1 DEF Body
  <2>4. /\ \A q \in Request \ {r} : pc'[q] = pc[q] /\ todo'[q] = todo[q]
        /\ pc'[r] \in {"acquire", "validate", "find", "read"}
    BY <2>1, <2>3, <1>lab, AdvanceRange
  <2>5. pc'[r] = "validate" => todo'[r] = Nights(r)
    <3>1. CASE todo[r] = {d}
      BY <3>1, <2>1 DEF Advance, TypeOK
    <3>2. CASE todo[r] # {d}
      BY <3>2, <2>1 DEF Advance, Goto, TypeOK
    <3> QED
      BY <3>1, <3>2
  <2>6. Mine(r)'
    <3>1. Nights(r)' = Nights(r)
      BY <2>2 DEF Nights
    <3> QED
      BY <2>4, <2>5, <3>1 DEF Mine
  <2> QED
    BY <2>2, <2>4, <2>6, <1>excl, FitQuiet
<1>2. ASSUME NEW r \in Request, AcquireRefused(r) \/ AcquireReplyLost(r) PROVE FitInv'
  <2>1. /\ Goto(r, "failed") \/ Goto(r, "abort")
        /\ UNCHANGED <<total, reserved, blocked, job, todo>>
    BY <1>2 DEF AcquireRefused, AcquireReplyLost, Unwind, rows
  <2>2. /\ pc'[r] \in {"failed", "abort"}
        /\ \A q \in Request \ {r} : pc'[q] = pc[q] /\ todo'[q] = todo[q]
    BY <2>1, <1>lab, <1>go
  <2> QED
    BY <2>1, <2>2, <1>excl, FitIdle
<1>3. ASSUME NEW r \in Request, Unlock(r) PROVE FitInv'
  <2>1. /\ Goto(r, "unlock") \/ Goto(r, "abort") \/ Goto(r, "done") \/ Goto(r, "failed")
        /\ UNCHANGED <<total, reserved, blocked, job, todo>>
    BY <1>3 DEF Unlock, rows
  <2>2. /\ pc'[r] \in {"unlock", "abort", "done", "failed"}
        /\ \A q \in Request \ {r} : pc'[q] = pc[q] /\ todo'[q] = todo[q]
    BY <2>1, <1>lab, <1>go
  <2> QED
    BY <2>1, <2>2, <1>excl, FitIdle
<1>find. ASSUME NEW r \in Request, NEW d \in Night, NextNight(r, d), FindOrCreate(r, d)
         PROVE  /\ UpsertedBy(r)
                /\ total'[d] = Upserted(r, d)
                /\ job[r].hint > 0 => total'[d] = job[r].hint
                /\ \A e \in Night \ {d} : total'[e] = total[e]
                /\ \A e \in Night : total'[e] >= total[e]
  <2>1. Upserted(r, d) \in Int
    BY <1>job, <1>int DEF Upserted
  <2>2. total' = [total EXCEPT ![d] = Upserted(r, d)]
    BY <1>find DEF FindOrCreate
  <2>3. /\ total' \in [Night -> Int] /\ total'[d] = Upserted(r, d)
        /\ \A e \in Night \ {d} : total'[e] = total[e]
    BY <2>1, <2>2, <1>int
  <2>4. Upserted(r, d) = total[d] \/ (job[r].hint > 0 /\ Upserted(r, d) = job[r].hint)
    BY DEF Upserted
  <2>5. UpsertedBy(r)
    BY <2>3, <2>4, <1>find, <1>next DEF UpsertedBy
  <2>6. job[r].hint > 0 => Upserted(r, d) = job[r].hint
    BY DEF Upserted
  <2>7. \A e \in Night : total'[e] >= total[e]
    BY <2>5, HintsKept DEF FitInv
  <2> QED
    BY <2>3, <2>5, <2>6, <2>7
<1>4. ASSUME NEW r \in Request, Validate(r) PROVE FitInv'
  <2>1. PICK d \in Night :
           /\ NextNight(r, d)
           /\ FindOrCreate(r, d)
           /\ \/ Advance(r, d, "validate", "txread")
              \/ Goto(r, "abort") /\ UNCHANGED todo
    BY <1>4 DEF Validate
  <2>2. pc[r] = "validate" /\ UNCHANGED <<reserved, blocked, job>>
    BY <1>4 DEF Validate
  <2>3. /\ UpsertedBy(r)
        /\ job[r].hint > 0 => total'[d] = job[r].hint
        /\ \A e \in Night \ {d} : total'[e] = total[e]
        /\ \A e \in Night : total'[e] >= total[e]
    BY <2>1, <1>find
  <2>4. /\ reserved' \in [Night -> Int] /\ blocked' \in [Night -> Int]
        /\ \A e \in Night : reserved'[e] <= reserved[e] /\ blocked'[e] = blocked[e]
    BY <2>2, <1>int
  <2>5. NoOverbooking'
    <3> SUFFICES ASSUME NEW e \in Night
                 PROVE  blocked[e] >= 0 /\ reserved[e] + blocked[e] <= total'[e]
      BY <2>2 DEF NoOverbooking
    <3>1. total'[e] >= total[e] /\ total'[e] \in Int
      BY <2>3 DEF UpsertedBy
    <3> QED
      BY <3>1, <1>int DEF FitInv, NoOverbooking
  <2>6. \A e \in Nights(r) : job[r].hint > 0 /\ (e \notin todo[r] \/ e = d) => total'[e] = job[r].hint
    BY <2>2, <2>3, <1>job DEF FitInv, Written
  <2>7. Nights(r)' = Nights(r)
    BY <2>2 DEF Nights
  <2>8. CASE Goto(r, "abort") /\ UNCHANGED todo
    <3>1. /\ pc'[r] = "abort"
          /\ \A q \in Request \ {r} : pc'[q] = pc[q] /\ todo'[q] = todo[q]
      BY <2>8, <1>lab, <1>go
    <3>2. Mine(r)'
      BY <3>1 DEF Mine
    <3> QED
      BY <2>2, <2>3, <2>4, <2>5, <3>1, <3>2, <1>excl, FitStep
  <2>9. CASE Advance(r, d, "validate", "txread") /\ todo[r] # {d}
    <3>1. /\ pc'[r] = "validate" /\ todo'[r] = todo[r] \ {d}
          /\ \A q \in Request \ {r} : pc'[q] = pc[q] /\ todo'[q] = todo[q]
      BY <2>9 DEF Advance, Goto, TypeOK
    <3>2. Mine(r)'
      BY <2>2, <2>6, <2>7, <3>1 DEF Mine
    <3> QED
      BY <2>2, <2>3, <2>4, <2>5, <3>1, <3>2, <1>excl, FitStep
  <2>10. CASE Advance(r, d, "validate", "txread") /\ todo[r] = {d}
    <3>1. /\ pc'[r] = "txread" /\ todo'[r] = Nights(r)
          /\ \A q \in Request \ {r} : pc'[q] = pc[q] /\ todo'[q] = todo[q]
      BY <2>10 DEF Advance, Goto, TypeOK
    <3>2. \A e \in Nights(r) : job[r].hint > 0 => total'[e] = job[r].hint
      BY <2>6, <2>10
    <3>3. Mine(r)'
      BY <2>2, <2>7, <3>1, <3>2 DEF Mine
    <3> QED
      BY <2>2, <2>3, <2>4, <2>5, <3>1, <3>3, <1>excl, FitStep
  <2> QED
    BY <2>1, <2>8, <2>9, <2>10
<1>5. ASSUME NEW r \in Request, TxRead(r) PROVE FitInv'
  <2>1. PICK d \in Night :
           /\ NextNight(r, d)
           /\ Goto(r, IF Fits(r, d) THEN "txwrite" ELSE "abort")
    BY <1>5 DEF TxRead
  <2>2. pc[r] = "txread" /\ UNCHANGED <<total, reserved, blocked, job, todo>>
    BY <1>5 DEF TxRead, rows
  <2>3. CASE ~Fits(r, d)
    <3>1. /\ pc'[r] = "abort"
          /\ \A q \in Request \ {r} : pc'[q] = pc[q] /\ todo'[q] = todo[q]
      BY <2>1, <2>2, <2>3, <1>lab, <1>go
    <3> QED
      BY <3>1, <2>2, <1>excl, FitIdle
  <2>4. CASE Fits(r, d)
    <3>1. /\ pc'[r] = "txwrite"
          /\ \A q \in Request \ {r} : pc'[q] = pc[q] /\ todo'[q] = todo[q]
      BY <2>1, <2>2, <2>4, <1>lab, <1>go
    <3>2. \A e \in Nights(r) : job[r].hint > 0 => total[e] = job[r].hint
      BY <2>2 DEF FitInv, Written
    <3>3. Room(d) >= job[r].qty
      BY <2>1, <2>2, <2>4, <1>same, <1>next DEF Fits, Room
    <3>4. ASSUME NEW e \in Nights(r), e \notin todo[r] \/ NextNight(r, e)
          PROVE  Room(e) >= job[r].qty
      <4>1. CASE e \notin todo[r]
        BY <4>1, <2>2 DEF FitInv, RoomKept
      <4>2. CASE NextNight(r, e)
        BY <4>2, <2>1, <3>3, <1>job, OneNext
      <4> QED
        BY <3>4, <4>1, <4>2
    <3>5. Mine(r)'
      <4> SUFFICES ASSUME NEW e \in Nights(r)
                   PROVE  /\ job[r].hint > 0 => total[e] = job[r].hint
                          /\ e \notin todo[r] \/ NextNight(r, e) => Room(e) >= job[r].qty
        BY <2>2, <3>1 DEF Mine, Nights, NextNight, Room
      <4> QED
        BY <3>2, <3>4
    <3> QED
      BY <2>2, <3>1, <3>5, <1>excl, FitQuiet
  <2> QED
    BY <2>3, <2>4
<1>6. ASSUME NEW r \in Request, TxWrite(r) PROVE FitInv'
  <2>1. PICK d \in Night : NextNight(r, d) /\ Advance(r, d, "txread", "commit")
    BY <1>6 DEF TxWrite
  <2>2. pc[r] = "txwrite" /\ UNCHANGED <<total, reserved, blocked, job>>
    BY <1>6 DEF TxWrite, rows
  <2>3. /\ pc'[r] = (IF todo[r] = {d} THEN "commit" ELSE "txread")
        /\ todo'[r] = (IF todo[r] = {d} THEN Nights(r) ELSE todo[r] \ {d})
        /\ \A q \in Request \ {r} : pc'[q] = pc[q] /\ todo'[q] = todo[q]
    BY <2>1 DEF Advance, Goto, TypeOK
  <2>4. \A e \in Nights(r) : job[r].hint > 0 => total[e] = job[r].hint
    BY <2>2 DEF FitInv, Written
  <2>5. \A e \in Nights(r) : e \notin todo[r] \/ e = d => Room(e) >= job[r].qty
    BY <2>1, <2>2 DEF FitInv, RoomKept
  <2>6. \A e \in Nights(r) : (pc'[r] = "commit" \/ e \notin todo'[r]) => Room(e) >= job[r].qty
    BY <2>3, <2>5
  <2>7. Mine(r)'
    <3> SUFFICES ASSUME NEW e \in Nights(r)
                 PROVE  /\ job[r].hint > 0 => total[e] = job[r].hint
                        /\ pc'[r] = "commit" \/ e \notin todo'[r] => Room(e) >= job[r].qty
      BY <2>2, <2>3 DEF Mine, Nights, Room
    <3> QED
      BY <2>4, <2>6
  <2> QED
    BY <2>2, <2>3, <2>7, <1>excl, FitQuiet
<1>7. ASSUME NEW r \in Request, Commit(r) PROVE FitInv'
  <2>1. /\ pc[r] = "commit" /\ UNCHANGED <<blocked, job, todo>>
        /\ Goto(r, "unlock")
        /\ total' = [d \in Night |-> IF d \in Nights(r) THEN Upserted(r, d) ELSE total[d]]
        /\ reserved' = [d \in Night |->
                           IF d \in Nights(r) THEN reserved[d] + job[r].qty ELSE reserved[d]]
    BY <1>7 DEF Commit
  <2>2. total' = total
    <3>1. total' = [d \in Night |-> total[d]]
      BY <2>1, <1>same
    <3> QED
      BY <3>1, <1>int
  <2>3. /\ pc'[r] = "unlock"
        /\ \A q \in Request \ {r} : pc'[q] = pc[q] /\ todo'[q] = todo[q]
    BY <2>1, <1>lab, <1>go
  <2>4. reserved' \in [Night -> Int] /\ blocked' \in [Night -> Int]
    BY <2>1, <1>int, <1>job
  <2>5. pc[r] \in InDatabase
    BY <2>1 DEF InDatabase
  <2>6. \A d \in Night : pc[r] \notin InDatabase \/ d \notin Nights(r)
                        => reserved'[d] <= reserved[d] /\ blocked'[d] = blocked[d]
    BY <2>1, <2>5, <1>int
  <2>7. Mine(r)'
    BY <2>3 DEF Mine
  <2>8. \A d \in Nights(r) : Room(d) >= job[r].qty
    BY <2>1 DEF FitInv, RoomKept
  <2>9. NoOverbooking'
    BY <2>1, <2>2, <2>8, <1>int, <1>job DEF FitInv, NoOverbooking, Room
  <2> QED
    BY <2>1, <2>2, <2>3, <2>4, <2>6, <2>7, <2>9, <1>still, <1>excl, FitStep
<1>8. ASSUME NEW r \in Request, BlockFind(r) PROVE FitInv'
  <2>1. PICK d \in Night :
           /\ NextNight(r, d)
           /\ FindOrCreate(r, d)
           /\ Goto(r, IF Fits(r, d) THEN "increment" ELSE "abort")
    BY <1>8 DEF BlockFind
  <2>2. UNCHANGED <<reserved, blocked, job, todo>>
    BY <1>8 DEF BlockFind
  <2>3. /\ UpsertedBy(r)
        /\ total'[d] = Upserted(r, d)
        /\ \A e \in Night : total'[e] >= total[e]
    BY <2>1, <1>find
  <2>4. /\ reserved' \in [Night -> Int] /\ blocked' \in [Night -> Int]
        /\ \A e \in Night : reserved'[e] <= reserved[e] /\ blocked'[e] = blocked[e]
    BY <2>2, <1>int
  <2>5. NoOverbooking'
    <3> SUFFICES ASSUME NEW e \in Night
                 PROVE  blocked[e] >= 0 /\ reserved[e] + blocked[e] <= total'[e]
      BY <2>2 DEF NoOverbooking
    <3>1. total'[e] >= total[e] /\ total'[e] \in Int
      BY <2>3 DEF UpsertedBy
    <3> QED
      BY <3>1, <1>int DEF FitInv, NoOverbooking
  <2>6. /\ pc'[r] = (IF Fits(r, d) THEN "increment" ELSE "abort")
        /\ \A q \in Request \ {r} : pc'[q] = pc[q] /\ todo'[q] = todo[q]
    <3>1. CASE Fits(r, d)
      BY <3>1, <2>1, <2>2, <1>lab, <1>go
    <3>2. CASE ~Fits(r, d)
      BY <3>2, <2>1, <2>2, <1>lab, <1>go
    <3> QED
      BY <3>1, <3>2
  <2>7. Mine(r)'
    <3>1. CASE ~Fits(r, d)
      BY <3>1, <2>6 DEF Mine
    <3>2. CASE Fits(r, d)
      <4>1. Room(d)' >= job[r].qty
        BY <3>2, <2>2, <2>3 DEF Fits, Room
      <4> SUFFICES ASSUME NEW e \in Nights(r), NextNight(r, e) PROVE Room(e)' >= job[r].qty
        BY <3>2, <2>2, <2>6 DEF Mine, Nights, NextNight
      <4>2. e = d
        BY <2>1, <1>job, OneNext
      <4> QED
        BY <4>1, <4>2
    <3> QED
      BY <3>1, <3>2
  <2> QED
    BY <2>2, <2>3, <2>4, <2>5, <2>6, <2>7, <1>excl, FitStep
<1>9. ASSUME NEW r \in Request, BlockIncrement(r) PROVE FitInv'
  <2>1. PICK d \in Night : NextNight(r, d) /\ blocked' = [blocked EXCEPT ![d] = @ + job[r].qty]
    BY <1>9 DEF BlockIncrement
  <2>2. /\ pc[r] = "increment" /\ Goto(r, "record")
        /\ UNCHANGED <<total, reserved, job, todo>>
    BY <1>9 DEF BlockIncrement
  <2>3. /\ pc'[r] = "record"
        /\ \A q \in Request \ {r} : pc'[q] = pc[q] /\ todo'[q] = todo[q]
    BY <2>2, <1>lab, <1>go
  <2>4. reserved' \in [Night -> Int] /\ blocked' \in [Night -> Int]
    BY <2>1, <2>2, <1>int, <1>job
  <2>5. pc[r] \in InDatabase /\ d \in Nights(r)
    BY <2>1, <2>2, <1>next DEF InDatabase
  <2>6. \A e \in Night : pc[r] \notin InDatabase \/ e \notin Nights(r)
                        => reserved'[e] <= reserved[e] /\ blocked'[e] = blocked[e]
    BY <2>1, <2>2, <2>5, <1>int
  <2>7. Mine(r)'
    BY <2>3 DEF Mine
  <2>8. Room(d) >= job[r].qty
    BY <2>1, <2>2, <2>5 DEF FitInv, RoomKept
  <2>9. NoOverbooking'
    BY <2>1, <2>2, <2>8, <1>int, <1>job DEF FitInv, NoOverbooking, Room
  <2> QED
    BY <2>2, <2>3, <2>4, <2>6, <2>7, <2>9, <1>still, <1>excl, FitStep
<1>10. ASSUME NEW r \in Request, BlockRecord(r) \/ UnblockDeactivate(r) PROVE FitInv'
  <2>1. PICK d \in Night : Advance(r, d, "find", "unlock") \/ Advance(r, d, "read", "unlock")
    BY <1>10 DEF BlockRecord, UnblockDeactivate
  <2>2. UNCHANGED <<total, reserved, blocked, job>>
    BY <1>10 DEF BlockRecord, UnblockDeactivate
  <2>3. /\ \A q \in Request \ {r} : pc'[q] = pc[q] /\ todo'[q] = todo[q]
        /\ pc'[r] \in {"find", "read", "unlock"}
    BY <2>1, <1>lab, AdvanceRange
  <2> QED
    BY <2>2, <2>3, <1>excl, FitIdle
<1>11. ASSUME NEW r \in Request, UnblockRead(r) PROVE FitInv'
  <2>1. PICK d \in Night :
           /\ NextNight(r, d)
           /\ Goto(r, IF blocked[d] < job[r].qty THEN "abort" ELSE "decrement")
    BY <1>11 DEF UnblockRead
  <2>2. UNCHANGED <<total, reserved, blocked, job, todo>>
    BY <1>11 DEF UnblockRead, rows
  <2>3. CASE blocked[d] < job[r].qty
    <3>1. /\ pc'[r] = "abort"
          /\ \A q \in Request \ {r} : pc'[q] = pc[q] /\ todo'[q] = todo[q]
      BY <2>1, <2>2, <2>3, <1>lab, <1>go
    <3> QED
      BY <3>1, <2>2, <1>excl, FitIdle
  <2>4. CASE ~(blocked[d] < job[r].qty)
    <3>1. /\ pc'[r] = "decrement"
          /\ \A q \in Request \ {r} : pc'[q] = pc[q] /\ todo'[q] = todo[q]
      BY <2>1, <2>2, <2>4, <1>lab, <1>go
    <3>2. blocked[d] >= job[r].qty
      BY <2>4, <1>int, <1>job
    <3>3. Mine(r)'
      <4> SUFFICES ASSUME NEW e \in Nights(r), NextNight(r, e) PROVE blocked[e] >= job[r].qty
        BY <2>2, <3>1 DEF Mine, Nights, NextNight
      <4>1. e = d
        BY <2>1, <1>job, OneNext
      <4> QED
        BY <3>2, <4>1
    <3> QED
      BY <2>2, <3>1, <3>3, <1>excl, FitQuiet
  <2> QED
    BY <2>3, <2>4
<1>12. ASSUME NEW r \in Request, UnblockDecrement(r) PROVE FitInv'
  <2>1. PICK d \in Night : NextNight(r, d) /\ blocked' = [blocked EXCEPT ![d] = @ - job[r].qty]
    BY <1>12 DEF UnblockDecrement
  <2>2. /\ pc[r] = "decrement" /\ Goto(r, "oldest")
        /\ UNCHANGED <<total, reserved, job, todo>>
    BY <1>12 DEF UnblockDecrement
  <2>3. /\ pc'[r] = "oldest"
        /\ \A q \in Request \ {r} : pc'[q] = pc[q] /\ todo'[q] = todo[q]
    BY <2>2, <1>lab, <1>go
  <2>4. reserved' \in [Night -> Int] /\ blocked' \in [Night -> Int]
    BY <2>1, <2>2, <1>int, <1>job
  <2>5. pc[r] \in InDatabase /\ d \in Nights(r)
    BY <2>1, <2>2, <1>next DEF InDatabase
  <2>6. \A e \in Night : pc[r] \notin InDatabase \/ e \notin Nights(r)
                        => reserved'[e] <= reserved[e] /\ blocked'[e] = blocked[e]
    BY <2>1, <2>2, <2>5, <1>int
  <2>7. Mine(r)'
    BY <2>3 DEF Mine
  <2>8. blocked[d] >= job[r].qty
    BY <2>1, <2>2, <2>5 DEF FitInv, BlockKept
  <2>9. NoOverbooking'
    BY <2>1, <2>2, <2>8, <1>int, <1>job DEF FitInv, NoOverbooking
  <2> QED
    BY <2>2, <2>3, <2>4, <2>6, <2>7, <2>9, <1>still, <1>excl, FitStep
<1>oldest. ASSUME NEW r \in Request, UnblockFind(r) PROVE FitInv'
  <2>1. Goto(r, "deactivate") /\ UNCHANGED <<total, reserved, blocked, job, todo>>
    BY <1>oldest DEF UnblockFind, rows
  <2>2. /\ pc'[r] = "deactivate"
        /\ \A q \in Request \ {r} : pc'[q] = pc[q] /\ todo'[q] = todo[q]
    BY <2>1, <1>lab, <1>go
  <2> QED
    BY <2>1, <2>2, <1>excl, FitIdle
<1>13. ASSUME NEW r \in Request, ReleaseCount(r) \/ ReleaseSelect(r) PROVE FitInv'
  <2>1. /\ Goto(r, "select") \/ Goto(r, "failed") \/ Goto(r, "update") \/ Goto(r, "done")
        /\ UNCHANGED <<total, reserved, blocked, job, todo>>
    BY <1>13 DEF ReleaseCount, ReleaseSelect, rows
  <2>2. /\ pc'[r] \in {"select", "failed", "update", "done"}
        /\ \A q \in Request \ {r} : pc'[q] = pc[q] /\ todo'[q] = todo[q]
    BY <2>1, <1>lab, <1>go
  <2> QED
    BY <2>1, <2>2, <1>excl, FitIdle
<1>upd. ASSUME NEW r \in Request, ReleaseUpdate(r) PROVE FitInv'
  <2>1. pc[r] = "update" /\ UNCHANGED <<total, reserved, blocked, job, todo>>
    BY <1>upd DEF ReleaseUpdate, rows
  <2>2. Goto(r, "release") \/ UNCHANGED pc
    BY <1>upd DEF ReleaseUpdate
  <2>3. /\ pc'[r] \in {"update", "release"}
        /\ \A q \in Request \ {r} : pc'[q] = pc[q] /\ todo'[q] = todo[q]
    BY <2>1, <2>2, <1>lab, <1>go
  <2> QED
    BY <2>1, <2>3, <1>excl, FitIdle
<1>14. ASSUME NEW r \in Request, ReleaseCommit(r) PROVE FitInv'
  <2>1. /\ reserved' = [d \in Night |-> reserved[d] - snap[r][d]]
        /\ Goto(r, "done")
        /\ UNCHANGED <<total, blocked, job, todo>>
    BY <1>14 DEF ReleaseCommit
  <2>2. snap[r] \in [Night -> Nat]
    BY DEF TypeOK
  <2>3. /\ pc'[r] = "done"
        /\ \A q \in Request \ {r} : pc'[q] = pc[q] /\ todo'[q] = todo[q]
    BY <2>1, <1>lab, <1>go
  <2>4. reserved' \in [Night -> Int] /\ blocked' \in [Night -> Int]
    BY <2>1, <2>2, <1>int
  <2>5. \A d \in Night : reserved'[d] <= reserved[d] /\ blocked'[d] = blocked[d]
    BY <2>1, <2>2, <1>int
  <2>6. Mine(r)'
    BY <2>3 DEF Mine
  <2>7. NoOverbooking'
    BY <2>1, <2>2, <1>int DEF FitInv, NoOverbooking
  <2> QED
    BY <2>1, <2>3, <2>4, <2>5, <2>6, <2>7, <1>still, <1>excl, FitStep
<1>15. ASSUME NEW r \in Request, DatabaseError(r) \/ Crash(r) PROVE FitInv'
  <2>1. /\ Goto(r, "abort") \/ Goto(r, "failed") \/ Goto(r, "crashed")
        /\ UNCHANGED <<total, reserved, blocked, job, todo>>
    BY <1>15 DEF DatabaseError, Crash, rows
  <2>2. /\ pc'[r] \in {"abort", "failed", "crashed"}
        /\ \A q \in Request \ {r} : pc'[q] = pc[q] /\ todo'[q] = todo[q]
    BY <2>1, <1>lab, <1>go
  <2> QED
    BY <2>1, <2>2, <1>excl, FitIdle
<1>16. ASSUME UNCHANGED <<rows, job, pc, todo>> PROVE FitInv'
  BY <1>16 DEF rows, FitInv, Raised, Written, RoomKept, BlockKept, NoOverbooking, Room, Nights,
               NextNight
<1>17. ASSUME NEW d \in Night, Expire(d) PROVE FitInv'
  BY <1>17, <1>16 DEF Expire
<1>18. CASE UNCHANGED vars \/ Finished
  BY <1>18, <1>16 DEF vars, Finished
<1> QED
  BY <1>1, <1>2, <1>3, <1>4, <1>5, <1>6, <1>7, <1>8, <1>9, <1>10, <1>11, <1>12, <1>13, <1>14,
     <1>15, <1>17, <1>18, <1>oldest, <1>upd DEF Next, Step

(* While critical sections are timely and hints agree on the room count,   *)
(* no night is promised beyond its rooms, whichever handlers interleave with  *)
(* a check and its increment, and no blocked count goes below zero.        *)
THEOREM Overbooking == ASSUME HoldersTimely, HintsAgree PROVE Spec => []NoOverbooking
<1>1. Init => TypeInv /\ LockInv /\ FitInv
  BY HintsAgree, InitType, InitLock, InitFit
<1>2. TypeInv /\ LockInv /\ FitInv /\ [Next]_vars => (TypeInv /\ LockInv /\ FitInv)'
  BY HoldersTimely, HintsAgree, NextType, NextLock, NextFit
<1>3. FitInv => NoOverbooking
  BY DEF FitInv
<1> QED
  BY <1>1, <1>2, <1>3, PTL DEF Spec
=============================================================================
