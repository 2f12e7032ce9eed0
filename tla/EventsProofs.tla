---------------------------- MODULE EventsProofs ----------------------------
(***************************************************************************)
(* Theorems of shared-events: of the outbox with its relays, and of the    *)
(* event bus with its consumer group.  The two share no state.             *)
(***************************************************************************)
EXTENDS Outbox, EventBus, FiniteSetTheorems, TLAPS

(***************************************************************************)
(* The outbox.  For any number of requests and relays it is well typed,    *)
(* loses nothing as long as no more failures happen than a record has      *)
(* retries, and each of its steps is a step of the promise AtLeastOnce or  *)
(* changes nothing of it.  The argument counts failures: a retry that      *)
(* somebody wrote, or will write, was paid for by a failure.               *)
(***************************************************************************)
Starting == {p \in Producer : at[p] = "start"}

(* The table: numbered without gaps, PENDING as long as a retry is left.   *)
TableOK ==
    /\ created \in 0 .. Cardinality(Producer)
    /\ status \in [Record -> OUTBOX_STATUS]
    /\ retryCount \in [Record -> 0 .. MAX_RETRIES]
    /\ due \subseteq 1 .. created
    /\ created + Cardinality(Starting) <= Cardinality(Producer)
    /\ \A i \in Record : i > created => status[i] = "PENDING"
    /\ \A i \in Record : status[i] = "PENDING" => retryCount[i] < MAX_RETRIES
    /\ \A i \in Record : retryCount[i] <= faults

(* What the workers read is of records there are, with retries left.       *)
BatchOK ==
    /\ at \in [Worker -> Stop]
    /\ batch \in [Worker -> SUBSET Snapshot]
    /\ \A w \in Worker : \A s \in batch[w] :
          s.id <= created /\ s.retry < MAX_RETRIES /\ s.retry <= faults

BrokerOK ==
    /\ sent \subseteq 1 .. created /\ dead \subseteq 1 .. created
    /\ faults \in 0 .. MaxFaults

(* A failure brought the worker to its catch block, and a retry for each   *)
(* further one brought the record to its end.                              *)
Paid ==
    \A w \in Worker :
        /\ at[w] = "catch" => \A s \in batch[w] : s.retry < faults
        /\ at[w] = "bury" => faults >= MAX_RETRIES

MarkSent == \A w \in Worker : \A s \in batch[w] : at[w] = "mark" /\ First(w, s) => s.id \in sent

OutboxInv == TableOK /\ BatchOK /\ BrokerOK /\ Paid /\ MarkSent

LEMMA RecordType ==
    /\ Cardinality(Producer) \in Nat /\ IsFiniteSet(Producer)
    /\ Record = 1 .. Cardinality(Producer)
    /\ MAX_RETRIES \in Nat /\ MAX_RETRIES >= 2 /\ MaxFaults \in Nat
BY OutboxAssumption, FS_CardinalityType DEF Record

LEMMA OutboxInitInv == OutboxInit => OutboxInv
<1> SUFFICES ASSUME OutboxInit PROVE OutboxInv
    OBVIOUS
<1>1. Cardinality(Starting) <= Cardinality(Producer) /\ Cardinality(Starting) \in Nat
    BY RecordType, FS_Subset, FS_CardinalityType DEF Starting
<1>2. TableOK
    BY <1>1, RecordType DEF OutboxInit, TableOK, OUTBOX_STATUS
<1>3. BatchOK
    BY DEF OutboxInit, BatchOK, Stop
<1>4. BrokerOK /\ Paid /\ MarkSent
    BY RecordType DEF OutboxInit, BrokerOK, Paid, MarkSent, Worker
<1>5. QED
    BY <1>2, <1>3, <1>4 DEF OutboxInv

-----------------------------------------------------------------------------
(* What the helpers of the actions keep. *)

LEMMA FaultType ==
    ASSUME BrokerOK, Fault \/ UNCHANGED faults
    PROVE  /\ faults' \in 0 .. MaxFaults /\ faults <= faults' /\ faults \in Nat /\ faults' \in Nat
           /\ Fault => faults' = faults + 1
BY RecordType DEF BrokerOK, Fault

(* Nobody starts again. *)
LEMMA StartingShrinks ==
    ASSUME TableOK, UNCHANGED created,
           \A p \in Producer : at'[p] = "start" => at[p] = "start"
    PROVE  created' + Cardinality(Starting') <= Cardinality(Producer)
<1>1. Starting' \in SUBSET Starting /\ Starting \in SUBSET Producer
    BY DEF Starting
<1>2. /\ Cardinality(Starting') <= Cardinality(Starting)
      /\ Cardinality(Starting') \in Nat /\ Cardinality(Starting) \in Nat
    BY <1>1, RecordType, FS_Subset, FS_CardinalityType
<1>3. QED
    BY <1>2, RecordType DEF TableOK

LEMMA UnchangedTable ==
    ASSUME TableOK, UNCHANGED table, faults <= faults', faults \in Nat, faults' \in Nat,
           \A p \in Producer : at'[p] = "start" => at[p] = "start"
    PROVE  TableOK'
<1>1. created' + Cardinality(Starting') <= Cardinality(Producer)
    BY StartingShrinks DEF table
<1>2. UNCHANGED <<created, status, retryCount, due>>
    BY DEF table
<1>3. \A i \in Record : retryCount'[i] <= faults'
  <2>1. SUFFICES ASSUME NEW i \in Record PROVE retryCount[i] <= faults'
      BY <1>2
  <2>2. retryCount[i] \in Nat /\ retryCount[i] <= faults
      BY RecordType DEF TableOK
  <2>3. QED
      BY <2>2
<1>4. /\ created' \in 0 .. Cardinality(Producer)
      /\ status' \in [Record -> OUTBOX_STATUS]
      /\ retryCount' \in [Record -> 0 .. MAX_RETRIES]
      /\ due' \subseteq 1 .. created'
    BY <1>2 DEF TableOK
<1>5. /\ \A i \in Record : i > created' => status'[i] = "PENDING"
      /\ \A i \in Record : status'[i] = "PENDING" => retryCount'[i] < MAX_RETRIES
    BY <1>2 DEF TableOK
<1>6. QED
    BY <1>1, <1>3, <1>4, <1>5 DEF TableOK

LEMMA UpdateTable ==
    ASSUME TableOK, NEW i \in Record, i <= created, NEW to \in OUTBOX_STATUS, NEW count \in Nat,
           count <= MAX_RETRIES, to = "PENDING" => count < MAX_RETRIES,
           count <= faults', faults <= faults', faults \in Nat, faults' \in Nat,
           Update(i, to, count) \/ UNCHANGED table,
           \A p \in Producer : at'[p] = "start" => at[p] = "start"
    PROVE  TableOK'
<1>1. UNCHANGED created
    BY DEF Update, table
<1>2. created' + Cardinality(Starting') <= Cardinality(Producer)
    BY <1>1, StartingShrinks
<1>3. CASE Update(i, to, count)
  <2>1. /\ status' \in [Record -> OUTBOX_STATUS] /\ retryCount' \in [Record -> 0 .. MAX_RETRIES]
        /\ due' \subseteq 1 .. created'
    <3>1. status' \in [Record -> OUTBOX_STATUS] /\ due' \subseteq 1 .. created'
        BY <1>1, <1>3 DEF TableOK, Update
    <3>2. count \in 0 .. MAX_RETRIES
        BY RecordType
    <3>3. retryCount' \in [Record -> 0 .. MAX_RETRIES]
        BY <1>3, <3>2 DEF TableOK, Update
    <3>4. QED
        BY <3>1, <3>3
  <2>2. \A j \in Record : j > created' => status'[j] = "PENDING"
      BY <1>1, <1>3, RecordType DEF TableOK, Update
  <2>3. \A j \in Record : status'[j] = "PENDING" => retryCount'[j] < MAX_RETRIES
      BY <1>3, RecordType DEF TableOK, Update
  <2>4. \A j \in Record : retryCount'[j] <= faults'
      BY <1>3, RecordType DEF TableOK, Update
  <2>5. QED
      BY <1>1, <1>2, <2>1, <2>2, <2>3, <2>4 DEF TableOK
<1>4. CASE UNCHANGED table
    BY <1>4, UnchangedTable
<1>5. QED
    BY <1>3, <1>4

(* A worker that goes somewhere takes nothing more with it. *)
LEMMA BatchShrinks ==
    ASSUME BatchOK, NEW w \in Worker, NEW stop \in Stop, Arrive(w, stop),
           NEW B \in SUBSET batch[w], batch' = [batch EXCEPT ![w] = B],
           created <= created', faults <= faults', created \in Nat, created' \in Nat,
           faults \in Nat, faults' \in Nat
    PROVE  /\ BatchOK'
           /\ \A v \in Worker \ {w} : at'[v] = at[v] /\ batch'[v] = batch[v]
           /\ at'[w] = stop /\ batch'[w] = B
<1>1. at' \in [Worker -> Stop] /\ batch' \in [Worker -> SUBSET Snapshot]
    BY DEF BatchOK, Arrive
<1>2. /\ \A v \in Worker \ {w} : at'[v] = at[v] /\ batch'[v] = batch[v]
      /\ at'[w] = stop /\ batch'[w] = B
    BY DEF BatchOK, Arrive
<1>3. ASSUME NEW v \in Worker, NEW s \in batch'[v]
      PROVE  s.id <= created' /\ s.retry < MAX_RETRIES /\ s.retry <= faults'
  <2>1. s \in batch[v] /\ s \in Snapshot
      BY <1>1, <1>2
  <2>2. s.id \in Nat /\ s.retry \in Nat
      BY <2>1, RecordType DEF Snapshot
  <2>3. QED
      BY <2>1, <2>2 DEF BatchOK
<1>4. QED
    BY <1>1, <1>2, <1>3 DEF BatchOK

(* Advance goes on with the rest. *)
LEMMA AdvanceGoes ==
    ASSUME BatchOK, NEW w \in Worker, NEW s, Advance(w, s)
    PROVE  \E B \in SUBSET batch[w] : \E stop \in {"publish", "poll", "done"} :
              Arrive(w, stop) /\ batch' = [batch EXCEPT ![w] = B]
<1>1. batch[w] \ {s} \in SUBSET batch[w]
    OBVIOUS
<1>2. batch' = [batch EXCEPT ![w] = batch[w] \ {s}]
    BY DEF Advance
<1>3. \E stop \in {"publish", "poll", "done"} : Arrive(w, stop)
    BY DEF Advance, Rest
<1>4. QED
    BY <1>1, <1>2, <1>3

(* The workers that did not move keep what they had been promised. *)
LEMMA OthersKeep ==
    ASSUME Paid, MarkSent, BatchOK, NEW w \in Worker, sent \subseteq sent', faults <= faults',
           faults \in Nat, faults' \in Nat,
           \A v \in Worker \ {w} : at'[v] = at[v] /\ batch'[v] = batch[v]
    PROVE  \A v \in Worker \ {w} :
              /\ at'[v] = "catch" => \A s \in batch'[v] : s.retry < faults'
              /\ at'[v] = "bury" => faults' >= MAX_RETRIES
              /\ \A s \in batch'[v] : at'[v] = "mark" /\ First(v, s)' => s.id \in sent'
<1> TAKE v \in Worker \ {w}
<1>1. at'[v] = "catch" => \A s \in batch'[v] : s.retry < faults'
  <2> SUFFICES ASSUME at'[v] = "catch", NEW s \in batch'[v] PROVE s.retry < faults'
      OBVIOUS
  <2>1. s \in Snapshot /\ s.retry < faults
      BY DEF BatchOK, Paid
  <2>2. QED
      BY <2>1 DEF Snapshot
<1>2. at'[v] = "bury" => faults' >= MAX_RETRIES
    BY RecordType DEF Paid
<1>3. \A s \in batch'[v] : at'[v] = "mark" /\ First(v, s)' => s.id \in sent'
    BY DEF MarkSent, First
<1>4. QED
    BY <1>1, <1>2, <1>3

-----------------------------------------------------------------------------
(* Steps. *)

LEMMA OutboxTypes ==
    ASSUME OutboxInv
    PROVE  created \in Nat /\ faults \in Nat /\ faults <= MaxFaults /\ created \in 0 .. Cardinality(Producer)
           /\ \A w \in Worker : \A s \in batch[w] :
                 /\ s \in Snapshot /\ s.id \in Record /\ s.id \in 1 .. created
                 /\ s.id \in Nat /\ s.retry \in Nat /\ s.id <= created
                 /\ s.retry < MAX_RETRIES /\ s.retry <= faults
<1>1. created \in Nat /\ faults \in Nat /\ faults <= MaxFaults /\ created \in 0 .. Cardinality(Producer)
    BY RecordType DEF OutboxInv, TableOK, BrokerOK
<1>2. ASSUME NEW w \in Worker, NEW s \in batch[w]
      PROVE  /\ s \in Snapshot /\ s.id \in Record /\ s.id \in 1 .. created
             /\ s.id \in Nat /\ s.retry \in Nat /\ s.id <= created
             /\ s.retry < MAX_RETRIES /\ s.retry <= faults
  <2>1. s \in Snapshot /\ s.id <= created /\ s.retry < MAX_RETRIES /\ s.retry <= faults
      BY DEF OutboxInv, BatchOK
  <2>2. s.id \in 1 .. Cardinality(Producer) /\ s.retry \in Nat
      BY <2>1, RecordType DEF Snapshot
  <2>3. QED
      BY <1>1, <2>1, <2>2, RecordType
<1>3. QED
    BY <1>1, <1>2

(* Whoever is first shares the record with any other that is.              *)
LEMMA FirstId ==
    ASSUME OutboxInv, NEW w \in Worker, NEW s, First(w, s), NEW t, First(w, t)
    PROVE  s.id = t.id
<1>1. s \in batch[w] /\ t \in batch[w] /\ s.id <= t.id /\ t.id <= s.id
    BY DEF First
<1>2. s.id \in Nat /\ t.id \in Nat
    BY <1>1, OutboxTypes
<1>3. QED
    BY <1>1, <1>2

LEMMA CreateInv == ASSUME OutboxInv, NEW w \in Worker, Create(w) PROVE OutboxInv'
<1>0. /\ w \in Producer /\ at[w] = "start" /\ created' = created + 1
      /\ due' = due \cup {created + 1} /\ UNCHANGED <<status, retryCount, sent, dead, faults>>
    BY DEF Create, broker
<1>1. created' + Cardinality(Starting') <= Cardinality(Producer)
      /\ created' \in 1 .. Cardinality(Producer)
  <2>1. Starting' = Starting \ {w} /\ w \in Starting
      BY <1>0 DEF Create, Arrive, Starting, OutboxInv, BatchOK, Worker
  <2>2. IsFiniteSet(Starting)
      BY RecordType, FS_Subset DEF Starting
  <2>3. Cardinality(Starting') = Cardinality(Starting) - 1 /\ Cardinality(Starting) \in Nat
        /\ Cardinality(Starting') \in Nat
      BY <2>1, <2>2, FS_RemoveElement, FS_CardinalityType
  <2>4. QED
      BY <1>0, <2>3, RecordType DEF OutboxInv, TableOK
<1>2. TableOK'
  <2>1. due' \subseteq 1 .. created'
      BY <1>0, RecordType DEF OutboxInv, TableOK
  <2>2. \A i \in Record : i > created' => status'[i] = "PENDING"
      BY <1>0, RecordType DEF OutboxInv, TableOK
  <2>3. QED
      BY <1>0, <1>1, <2>1, <2>2, RecordType DEF OutboxInv, TableOK
<1>3. created + 1 \in Record /\ [id |-> created + 1, retry |-> 0] \in Snapshot
    BY <1>0, <1>1, RecordType DEF Snapshot
<1>4. /\ \A v \in Worker : \A s \in batch'[v] :
            s.id <= created' /\ s.retry < MAX_RETRIES /\ s.retry <= faults'
      /\ batch' \in [Worker -> SUBSET Snapshot] /\ at' \in [Worker -> Stop]
      /\ at'[w] \in {"done", "publish"}
      /\ \A v \in Worker \ {w} : at'[v] = at[v] /\ batch'[v] = batch[v]
  <2>1. \A v \in Worker : \A s \in batch[v] :
            s.id <= created' /\ s.retry < MAX_RETRIES /\ s.retry <= faults'
      BY <1>0, OutboxTypes
  <2>2. CASE w \in InTx
      BY <1>0, <2>1, <2>2 DEF Create, Arrive, Stop, OutboxInv, BatchOK
  <2>3. CASE w \notin InTx
    <3>1. Arrive(w, "publish") /\ batch' = [batch EXCEPT ![w] = {[id |-> created + 1, retry |-> 0]}]
        BY <1>0, <2>3 DEF Create
    <3>2. /\ at' \in [Worker -> Stop] /\ batch' \in [Worker -> SUBSET Snapshot] /\ at'[w] = "publish"
          /\ \A v \in Worker \ {w} : at'[v] = at[v] /\ batch'[v] = batch[v]
          /\ batch'[w] = {[id |-> created + 1, retry |-> 0]}
        BY <1>3, <3>1 DEF Arrive, Stop, OutboxInv, BatchOK
    <3>3. \A s \in batch'[w] : s.id <= created' /\ s.retry < MAX_RETRIES /\ s.retry <= faults'
      <4>1. created \in Nat /\ faults \in Nat
          BY OutboxTypes
      <4>2. QED
          BY <1>0, <3>2, <4>1, RecordType
    <3>4. QED
        BY <2>1, <3>2, <3>3
  <2>4. QED
      BY <2>2, <2>3
<1>5. BatchOK'
    BY <1>4 DEF BatchOK
<1>6. BrokerOK'
    BY <1>0, OutboxTypes DEF OutboxInv, BrokerOK
<1>7. Paid' /\ MarkSent'
    BY <1>0, <1>4, OthersKeep, OutboxTypes DEF OutboxInv, Paid, MarkSent
<1>8. QED
    BY <1>2, <1>5, <1>6, <1>7 DEF OutboxInv

(* A step of one worker that is not its first. *)
LEMMA WorkerStep ==
    ASSUME OutboxInv, NEW w \in Worker, NEW stop \in Stop \ {"start"}, Arrive(w, stop),
           NEW B \in SUBSET batch[w], batch' = [batch EXCEPT ![w] = B],
           TableOK', BrokerOK', UNCHANGED created, sent \subseteq sent', faults <= faults',
           stop = "catch" => \A t \in B : t.retry < faults',
           stop = "bury" => faults' >= MAX_RETRIES,
           stop = "mark" => \A t \in B : (\A u \in B : t.id <= u.id) => t.id \in sent'
    PROVE  OutboxInv'
<1>1. faults \in Nat /\ faults' \in Nat /\ created \in Nat /\ created' \in Nat /\ created <= created'
    BY OutboxTypes, RecordType DEF BrokerOK
<1>2. /\ BatchOK' /\ at'[w] = stop /\ batch'[w] = B
      /\ \A v \in Worker \ {w} : at'[v] = at[v] /\ batch'[v] = batch[v]
    BY <1>1, BatchShrinks DEF OutboxInv
<1>3. \A v \in Worker \ {w} :
          /\ at'[v] = "catch" => \A s \in batch'[v] : s.retry < faults'
          /\ at'[v] = "bury" => faults' >= MAX_RETRIES
          /\ \A s \in batch'[v] : at'[v] = "mark" /\ First(v, s)' => s.id \in sent'
    BY <1>1, <1>2, OthersKeep DEF OutboxInv
<1>4. Paid'
    BY <1>2, <1>3 DEF Paid
<1>5. MarkSent'
    BY <1>2, <1>3 DEF MarkSent, First
<1>6. QED
    BY <1>2, <1>4, <1>5 DEF OutboxInv

LEMMA NobodyStarts ==
    ASSUME BatchOK, NEW w \in Worker, NEW stop \in Stop \ {"start"}, Arrive(w, stop)
    PROVE  \A p \in Producer : at'[p] = "start" => at[p] = "start"
BY DEF BatchOK, Arrive, Worker

(* The worker keeps its batch. *)
LEMMA SameBatch ==
    ASSUME BatchOK, NEW w \in Worker, UNCHANGED batch
    PROVE  batch' = [batch EXCEPT ![w] = batch[w]]
BY DEF BatchOK

LEMMA FindPendingInv == ASSUME OutboxInv, NEW w \in Worker, FindPending(w) PROVE OutboxInv'
<1>0. /\ Arrive(w, "publish") /\ UNCHANGED <<created, status, retryCount, due, sent, dead, faults>>
      /\ batch' = [batch EXCEPT ![w] = {[id |-> i, retry |-> retryCount[i]] : i \in Oldest}]
    BY DEF FindPending, table, broker
<1>1. TableOK'
    BY <1>0, UnchangedTable, NobodyStarts, OutboxTypes DEF OutboxInv, table, Stop
<1>2. \A i \in Oldest : i \in Record /\ i <= created /\ retryCount[i] < MAX_RETRIES
                        /\ retryCount[i] <= faults /\ retryCount[i] \in Nat
    BY RecordType, OutboxTypes DEF Oldest, Due, OutboxInv, TableOK
<1>3. /\ at' \in [Worker -> Stop] /\ at'[w] = "publish" /\ batch' \in [Worker -> SUBSET Snapshot]
      /\ \A v \in Worker \ {w} : at'[v] = at[v] /\ batch'[v] = batch[v]
      /\ batch'[w] = {[id |-> i, retry |-> retryCount[i]] : i \in Oldest}
    BY <1>0, <1>2 DEF Arrive, Stop, Snapshot, OutboxInv, BatchOK
<1>4. BatchOK'
    BY <1>0, <1>2, <1>3 DEF BatchOK, OutboxInv
<1>5. Paid' /\ MarkSent'
    BY <1>0, <1>3, OthersKeep, OutboxTypes DEF OutboxInv, Paid, MarkSent
<1>6. QED
    BY <1>0, <1>1, <1>4, <1>5 DEF OutboxInv, BrokerOK

LEMMA PublishInv ==
    ASSUME OutboxInv, NEW w \in Worker, NEW s \in batch[w], Publish(w, s) \/ PublishThrows(w, s)
    PROVE  OutboxInv'
<1>0. /\ First(w, s) /\ UNCHANGED <<created, status, retryCount, due, dead, batch>>
      /\ sent \subseteq sent' /\ sent' \subseteq sent \cup {s.id}
      /\ Fault \/ UNCHANGED faults
    BY DEF Publish, PublishThrows, table
<1>1. faults' \in 0 .. MaxFaults /\ faults <= faults' /\ faults \in Nat /\ faults' \in Nat
    BY <1>0, FaultType DEF OutboxInv
<1>2. BrokerOK'
    BY <1>0, <1>1, OutboxTypes DEF OutboxInv, BrokerOK
<1>3. batch' = [batch EXCEPT ![w] = batch[w]]
    BY <1>0, SameBatch DEF OutboxInv
<1>30. batch[w] \in SUBSET batch[w] /\ UNCHANGED created /\ sent \subseteq sent' /\ faults <= faults'
    BY <1>0, <1>1
<1>4. CASE Publish(w, s)
  <2>1. Arrive(w, "mark") /\ s.id \in sent' /\ "mark" \in Stop \ {"start"}
      BY <1>4 DEF Publish, Stop
  <2>2. TableOK'
      BY <1>0, <1>1, <2>1, UnchangedTable, NobodyStarts DEF OutboxInv, table
  <2>3. \A t \in batch[w] : (\A u \in batch[w] : t.id <= u.id) => t.id \in sent'
      BY <1>0, <2>1, FirstId DEF First
  <2>4. QED
      BY <1>30, <1>2, <1>3, <2>1, <2>2, <2>3, WorkerStep
<1>5. CASE PublishThrows(w, s)
  <2>1. Arrive(w, "catch") /\ Fault /\ "catch" \in Stop \ {"start"}
      BY <1>5 DEF PublishThrows, Stop
  <2>2. TableOK'
      BY <1>0, <1>1, <2>1, UnchangedTable, NobodyStarts DEF OutboxInv, table
  <2>3. \A t \in batch[w] : t.retry < faults'
      BY <1>1, <2>1, OutboxTypes DEF Fault
  <2>4. QED
      BY <1>30, <1>2, <1>3, <2>1, <2>2, <2>3, WorkerStep
<1>6. QED
    BY <1>4, <1>5

LEMMA MarkPublishedInv ==
    ASSUME OutboxInv, NEW w \in Worker, NEW s \in batch[w], MarkPublished(w, s) \/ MarkThrows(w, s)
    PROVE  OutboxInv'
<1>0. /\ UNCHANGED <<sent, dead>> /\ (Fault \/ UNCHANGED faults)
      /\ Update(s.id, "PUBLISHED", retryCount[s.id]) \/ UNCHANGED table
    BY DEF MarkPublished, MarkThrows, UpdateThrows, broker
<1>1. faults' \in 0 .. MaxFaults /\ faults <= faults' /\ faults \in Nat /\ faults' \in Nat
    BY <1>0, FaultType DEF OutboxInv
<1>2. UNCHANGED created
    BY <1>0 DEF Update, table
<1>3. BrokerOK'
    BY <1>0, <1>1, <1>2 DEF OutboxInv, BrokerOK
<1>4. retryCount[s.id] \in Nat /\ retryCount[s.id] <= MAX_RETRIES /\ retryCount[s.id] <= faults'
    BY <1>1, OutboxTypes, RecordType DEF OutboxInv, TableOK
<1>5. ASSUME \A p \in Producer : at'[p] = "start" => at[p] = "start" PROVE TableOK'
    BY <1>0, <1>1, <1>4, <1>5, OutboxTypes, UpdateTable DEF OutboxInv, OUTBOX_STATUS
<1>6. CASE MarkPublished(w, s)
  <2>1. PICK B \in SUBSET batch[w], stop \in {"publish", "poll", "done"} :
            Arrive(w, stop) /\ batch' = [batch EXCEPT ![w] = B]
      BY <1>6, AdvanceGoes DEF MarkPublished, OutboxInv
  <2>2. stop \in Stop \ {"start"}
      BY DEF Stop
  <2>3. TableOK'
      BY <1>5, <2>1, <2>2, NobodyStarts DEF OutboxInv
  <2>4. QED
      BY <1>0, <1>1, <1>2, <1>3, <2>1, <2>2, <2>3, WorkerStep
<1>7. CASE MarkThrows(w, s)
  <2>1. Arrive(w, "catch") /\ Fault /\ UNCHANGED batch /\ "catch" \in Stop \ {"start"}
      BY <1>7 DEF MarkThrows, UpdateThrows, Stop
  <2>2. TableOK'
      BY <1>5, <2>1, NobodyStarts DEF OutboxInv
  <2>3. \A t \in batch[w] : t.retry < faults'
      BY <1>1, <2>1, OutboxTypes DEF Fault
  <2>4. batch' = [batch EXCEPT ![w] = batch[w]]
      BY <2>1, SameBatch DEF OutboxInv
  <2>5. QED
      BY <1>0, <1>1, <1>2, <1>3, <2>1, <2>2, <2>3, <2>4, WorkerStep
<1>8. QED
    BY <1>6, <1>7

(* In the catch block a retry is scheduled or, the last one used, the record given up. *)
LEMMA CatchInv ==
    ASSUME OutboxInv, NEW w \in Worker, NEW s \in batch[w], MarkRetry(w, s) \/ MarkFailed(w, s)
    PROVE  OutboxInv'
<1>0. /\ UNCHANGED <<sent, dead>> /\ (Fault \/ UNCHANGED faults)
      /\ at[w] = "catch"
    BY DEF MarkRetry, MarkFailed, UpdateThrows, broker
<1>1. faults' \in 0 .. MaxFaults /\ faults <= faults' /\ faults \in Nat /\ faults' \in Nat
    BY <1>0, FaultType DEF OutboxInv
<1>2. s.retry + 1 <= faults' /\ s.retry + 1 \in Nat /\ s.retry + 1 <= MAX_RETRIES
  <2>1. s.retry < faults
      BY <1>0 DEF OutboxInv, Paid
  <2>2. s.retry \in Nat /\ s.retry < MAX_RETRIES
      BY OutboxTypes
  <2>3. QED
      BY <1>1, <2>1, <2>2, RecordType
<1>3. CASE MarkRetry(w, s)
  <2>1. PICK B \in SUBSET batch[w], stop \in {"publish", "poll", "done"} :
            Arrive(w, stop) /\ batch' = [batch EXCEPT ![w] = B]
      BY <1>3, AdvanceGoes DEF MarkRetry, OutboxInv
  <2>2. stop \in Stop \ {"start"} /\ stop \notin {"catch", "bury", "mark"} /\ sent \subseteq sent'
      BY <1>0 DEF Stop
  <2>3. \A p \in Producer : at'[p] = "start" => at[p] = "start"
      BY <2>1, <2>2, NobodyStarts DEF OutboxInv
  <2>4. Update(s.id, "PENDING", s.retry + 1) \/ UNCHANGED table
      BY <1>3 DEF MarkRetry, UpdateThrows
  <2>5. s.retry + 1 < MAX_RETRIES
      BY <1>3 DEF MarkRetry
  <2>6. TableOK'
      BY <1>1, <1>2, <2>3, <2>4, <2>5, OutboxTypes, UpdateTable DEF OutboxInv, OUTBOX_STATUS
  <2>7. UNCHANGED created
      BY <2>4 DEF Update, table
  <2>8. BrokerOK'
      BY <1>0, <1>1, <2>7 DEF OutboxInv, BrokerOK
  <2>9. QED
      BY <1>1, <2>1, <2>2, <2>6, <2>7, <2>8, WorkerStep
<1>4. CASE MarkFailed(w, s)
  <2>1. Arrive(w, "bury") /\ UNCHANGED batch /\ "bury" \in Stop \ {"start"}
      BY <1>4 DEF MarkFailed, Stop
  <2>2. batch' = [batch EXCEPT ![w] = batch[w]] /\ batch[w] \in SUBSET batch[w]
      BY <2>1, SameBatch DEF OutboxInv
  <2>3. \A p \in Producer : at'[p] = "start" => at[p] = "start"
      BY <2>1, NobodyStarts DEF OutboxInv
  <2>4. Update(s.id, "FAILED", s.retry + 1) \/ UNCHANGED table
      BY <1>4 DEF MarkFailed, UpdateThrows
  <2>5. s.retry + 1 >= MAX_RETRIES
      BY <1>4 DEF MarkFailed
  <2>6. TableOK'
      BY <1>1, <1>2, <2>3, <2>4, OutboxTypes, UpdateTable DEF OutboxInv, OUTBOX_STATUS
  <2>7. UNCHANGED created
      BY <2>4 DEF Update, table
  <2>8. BrokerOK'
      BY <1>0, <1>1, <2>7 DEF OutboxInv, BrokerOK
  <2>9. faults' >= MAX_RETRIES
      BY <1>1, <1>2, <2>5, RecordType
  <2>10. sent \subseteq sent' /\ faults <= faults'
      BY <1>0, <1>1
  <2>11. "bury" # "catch" /\ "bury" # "mark"
      OBVIOUS
  <2>12. QED
      BY <2>1, <2>2, <2>6, <2>7, <2>8, <2>9, <2>10, <2>11, WorkerStep
<1>5. QED
    BY <1>3, <1>4

LEMMA PublishToDLQInv ==
    ASSUME OutboxInv, NEW w \in Worker, NEW s \in batch[w], PublishToDLQ(w, s)
    PROVE  OutboxInv'
<1>0. /\ UNCHANGED <<table, sent>> /\ (Fault \/ UNCHANGED faults)
      /\ dead' \subseteq dead \cup {s.id}
    BY DEF PublishToDLQ
<1>1. faults' \in 0 .. MaxFaults /\ faults <= faults' /\ faults \in Nat /\ faults' \in Nat
    BY <1>0, FaultType DEF OutboxInv
<1>2. PICK B \in SUBSET batch[w], stop \in {"publish", "poll", "done"} :
          Arrive(w, stop) /\ batch' = [batch EXCEPT ![w] = B]
    BY AdvanceGoes DEF PublishToDLQ, OutboxInv
<1>3. stop \in Stop \ {"start"} /\ UNCHANGED created
    BY <1>0 DEF Stop, table
<1>4. TableOK'
    BY <1>0, <1>1, <1>2, <1>3, UnchangedTable, NobodyStarts DEF OutboxInv
<1>5. BrokerOK'
    BY <1>0, <1>1, <1>3, OutboxTypes DEF OutboxInv, BrokerOK
<1>6. QED
    BY <1>0, <1>1, <1>2, <1>3, <1>4, <1>5, WorkerStep

(* What happens without a record at hand: an insert that fails, a death. *)
LEMMA BrokenOffInv ==
    ASSUME OutboxInv, NEW w \in Worker, CreateThrows(w) \/ WorkerDies(w)
    PROVE  OutboxInv'
<1>0. UNCHANGED <<table, sent, dead>> /\ Fault
    BY DEF CreateThrows, WorkerDies, broker
<1>1. faults' \in 0 .. MaxFaults /\ faults <= faults' /\ faults \in Nat /\ faults' \in Nat
    BY <1>0, FaultType DEF OutboxInv
<1>2. PICK B \in SUBSET batch[w], stop \in {"poll", "done"} :
          Arrive(w, stop) /\ batch' = [batch EXCEPT ![w] = B]
  <2>1. CASE CreateThrows(w)
      BY <2>1, SameBatch DEF CreateThrows, OutboxInv
  <2>2. CASE WorkerDies(w)
    <3>1. {} \in SUBSET batch[w] /\ Rest(w) \in {"poll", "done"}
        BY DEF Rest
    <3>2. QED
        BY <2>2, <3>1 DEF WorkerDies
  <2>3. QED
      BY <2>1, <2>2
<1>3. stop \in Stop \ {"start"} /\ UNCHANGED created
    BY <1>0 DEF Stop, table
<1>4. TableOK'
    BY <1>0, <1>1, <1>2, <1>3, UnchangedTable, NobodyStarts DEF OutboxInv
<1>5. BrokerOK'
    BY <1>0, <1>1, <1>3 DEF OutboxInv, BrokerOK
<1>6. QED
    BY <1>0, <1>1, <1>2, <1>3, <1>4, <1>5, WorkerStep

LEMMA BackedOffInv == ASSUME OutboxInv, NEW i \in Record, BackedOff(i) PROVE OutboxInv'
<1>1. i \in 1 .. created
    BY RecordType, OutboxTypes DEF BackedOff
<1>2. TableOK'
    BY <1>1 DEF BackedOff, OutboxInv, TableOK, Starting
<1>3. BatchOK' /\ BrokerOK' /\ Paid' /\ MarkSent'
    BY DEF BackedOff, broker, OutboxInv, BatchOK, BrokerOK, Paid, MarkSent, First
<1>4. QED
    BY <1>2, <1>3 DEF OutboxInv

LEMMA OutboxNextInv == OutboxInv /\ [OutboxNext]_outboxVars => OutboxInv'
<1> SUFFICES ASSUME OutboxInv, [OutboxNext]_outboxVars PROVE OutboxInv'
    OBVIOUS
<1>1. ASSUME NEW w \in Worker, OutboxStep(w) PROVE OutboxInv'
    BY <1>1, CreateInv, FindPendingInv, PublishInv, MarkPublishedInv, CatchInv, PublishToDLQInv
    DEF OutboxStep, Deal
<1>2. ASSUME NEW w \in Worker, CreateThrows(w) \/ WorkerDies(w) PROVE OutboxInv'
    BY <1>2, BrokenOffInv
<1>3. ASSUME NEW i \in Record, BackedOff(i) PROVE OutboxInv'
    BY <1>3, BackedOffInv
<1>4. CASE UNCHANGED outboxVars
    BY <1>4 DEF outboxVars, table, broker, OutboxInv, TableOK, Starting, BatchOK, BrokerOK,
                Paid, MarkSent, First
<1>5. QED
    BY <1>1, <1>2, <1>3, <1>4 DEF OutboxNext

LEMMA OutboxAlwaysInv == OutboxSpec => []OutboxInv
BY OutboxInitInv, OutboxNextInv, PTL DEF OutboxSpec

LEMMA OutboxInvTypes == OutboxInv => OutboxTypeOK
BY DEF OutboxInv, TableOK, BatchOK, BrokerOK, OutboxTypeOK

-----------------------------------------------------------------------------
(* Nothing is lost while the failures do not exceed the retries: then no   *)
(* failure is left for the worker that buries a record.                    *)

(* The two ways a step may break what NothingLost says of a record: it     *)
(* writes the status, or its worker stops burying.                         *)
LEMMA StepLosesNothing ==
    ASSUME OutboxInv, NothingLost, NEW w \in Worker, NEW stop, Arrive(w, stop),
           NEW B, batch' = [batch EXCEPT ![w] = B], sent \subseteq sent', dead \subseteq dead',
           created' \in Nat, created <= created',
           \A i \in 1 .. created' : i > created => status'[i] = "PENDING",
           \A i : Burying(w, i) => i \in sent' \cup dead',
           \A i \in 1 .. created' : status'[i] # status[i] =>
              /\ status'[i] = "PUBLISHED" => i \in sent'
              /\ status'[i] = "FAILED" => \E v \in Worker : Burying(v, i)'
    PROVE  NothingLost'
<1> SUFFICES ASSUME NEW i \in 1 .. created'
             PROVE  /\ status'[i] = "PUBLISHED" => i \in sent'
                    /\ status'[i] = "FAILED" => i \in sent' \cup dead' \/ \E v \in Worker : Burying(v, i)'
    BY DEF NothingLost
<1>1. \A v \in Worker \ {w} : at'[v] = at[v] /\ batch'[v] = batch[v]
    BY DEF OutboxInv, BatchOK, Arrive
<1>2. \A v \in Worker : Burying(v, i) => Burying(v, i)' \/ i \in sent' \cup dead'
    BY <1>1 DEF Burying, First
<1>3. CASE i > created \/ status'[i] # status[i]
    BY <1>3
<1>4. CASE ~(i > created) /\ status'[i] = status[i]
  <2>1. i \in 1 .. created
      BY <1>4, OutboxTypes
  <2>2. QED
      BY <1>2, <1>4, <2>1 DEF NothingLost
<1>5. QED
    BY <1>3, <1>4

(* An update by id writes one status. *)
LEMMA UpdateWrites ==
    ASSUME OutboxInv, NEW i \in Record, NEW to, NEW count, Update(i, to, count) \/ UNCHANGED table
    PROVE  /\ UNCHANGED created /\ created \in Nat /\ created <= created'
           /\ \A j : j \in 1 .. created' => ~(j > created)
           /\ \A j \in 1 .. created' : status'[j] # status[j] => j = i /\ status'[j] = to
<1>1. UNCHANGED created /\ created \in Nat /\ created \in 0 .. Cardinality(Producer)
    BY OutboxTypes DEF Update, table
<1>2. 1 .. created' \subseteq Record
    BY <1>1, RecordType
<1>3. ASSUME NEW j \in 1 .. created', status'[j] # status[j] PROVE j = i /\ status'[j] = to
    BY <1>2, <1>3 DEF Update, table, OutboxInv, TableOK
<1>4. QED
    BY <1>1, <1>3

LEMMA NextLosesNothing ==
    ASSUME MaxFaults <= MAX_RETRIES, OutboxInv, NothingLost, [OutboxNext]_outboxVars
    PROVE  NothingLost'
<1>0. created \in Nat /\ faults \in Nat /\ faults <= MaxFaults
    BY OutboxTypes
<1>1. ASSUME NEW w \in Worker, Create(w) PROVE NothingLost'
  <2>1. UNCHANGED <<status, sent, dead>> /\ created' = created + 1 /\ at[w] = "start"
      BY <1>1 DEF Create, broker
  <2>2. PICK stop, B : Arrive(w, stop) /\ batch' = [batch EXCEPT ![w] = B]
      BY <1>1, SameBatch DEF Create, OutboxInv
  <2>3. created' \in 1 .. Cardinality(Producer)
    <3>1. OutboxInv'
        BY <1>1, CreateInv
    <3>2. QED
        BY <1>0, <2>1, <3>1, RecordType DEF OutboxInv, TableOK
  <2>4. \A i \in 1 .. created' : i > created => status'[i] = "PENDING"
      BY <2>1, <2>3, RecordType DEF OutboxInv, TableOK
  <2>5. \A i : ~Burying(w, i)
      BY <2>1 DEF Burying
  <2>6. created' \in Nat /\ created <= created' /\ sent \subseteq sent' /\ dead \subseteq dead'
      BY <1>0, <2>1
  <2>7. \A i \in 1 .. created' : status'[i] = status[i]
      BY <2>1
  <2>8. QED
      BY <2>2, <2>4, <2>5, <2>6, <2>7, StepLosesNothing
<1>2. ASSUME NEW w \in Worker, FindPending(w) \/ CreateThrows(w) \/ WorkerDies(w) PROVE NothingLost'
  <2>1. UNCHANGED <<created, status, sent, dead>> /\ at[w] # "bury"
    <3>1. UNCHANGED <<created, status, sent, dead>>
        BY <1>2 DEF FindPending, CreateThrows, WorkerDies, table, broker
    <3>2. ~Fault \/ at[w] # "bury"
        BY <1>0, RecordType DEF Fault, OutboxInv, Paid
    <3>3. QED
        BY <1>2, <3>1, <3>2 DEF FindPending, CreateThrows, WorkerDies
  <2>2. PICK stop, B : Arrive(w, stop) /\ batch' = [batch EXCEPT ![w] = B]
      BY <1>2, SameBatch DEF FindPending, CreateThrows, WorkerDies, OutboxInv
  <2>3. \A i : ~Burying(w, i)
      BY <2>1 DEF Burying
  <2>4. created' \in Nat /\ created <= created' /\ sent \subseteq sent' /\ dead \subseteq dead'
        /\ \A i \in 1 .. created' : ~(i > created) /\ status'[i] = status[i]
      BY <1>0, <2>1
  <2>5. QED
      BY <2>2, <2>3, <2>4, StepLosesNothing
<1>3. ASSUME NEW w \in Worker, NEW s \in batch[w], Publish(w, s) \/ PublishThrows(w, s) PROVE NothingLost'
  <2>1. UNCHANGED <<created, status, dead, batch>> /\ sent \subseteq sent' /\ at[w] = "publish"
      BY <1>3 DEF Publish, PublishThrows, table
  <2>2. PICK stop, B : Arrive(w, stop) /\ batch' = [batch EXCEPT ![w] = B]
      BY <1>3, <2>1, SameBatch DEF Publish, PublishThrows, OutboxInv
  <2>3. \A i : ~Burying(w, i)
      BY <2>1 DEF Burying
  <2>4. created' \in Nat /\ created <= created' /\ dead \subseteq dead'
        /\ \A i \in 1 .. created' : ~(i > created) /\ status'[i] = status[i]
      BY <1>0, <2>1
  <2>5. QED
      BY <2>1, <2>2, <2>3, <2>4, StepLosesNothing
<1>4. ASSUME NEW w \in Worker, NEW s \in batch[w], MarkPublished(w, s) \/ MarkThrows(w, s) PROVE NothingLost'
  <2>1. /\ UNCHANGED <<sent, dead>> /\ at[w] = "mark" /\ First(w, s)
        /\ Update(s.id, "PUBLISHED", retryCount[s.id]) \/ UNCHANGED table
      BY <1>4 DEF MarkPublished, MarkThrows, UpdateThrows, broker
  <2>2. PICK stop, B : Arrive(w, stop) /\ batch' = [batch EXCEPT ![w] = B]
      BY <1>4, SameBatch DEF MarkPublished, MarkThrows, Advance, OutboxInv
  <2>3. \A i : ~Burying(w, i)
      BY <2>1 DEF Burying
  <2>4. s.id \in Record /\ s.id \in sent'
      BY <2>1, OutboxTypes DEF OutboxInv, MarkSent
  <2>5. /\ created' \in Nat /\ created <= created' /\ sent \subseteq sent' /\ dead \subseteq dead'
        /\ \A i \in 1 .. created' : ~(i > created)
        /\ \A i \in 1 .. created' : status'[i] # status[i] => i = s.id /\ status'[i] = "PUBLISHED"
      BY <2>1, <2>4, UpdateWrites
  <2>6. QED
      BY <2>2, <2>3, <2>4, <2>5, StepLosesNothing
<1>5. ASSUME NEW w \in Worker, NEW s \in batch[w], MarkRetry(w, s) PROVE NothingLost'
  <2>1. /\ UNCHANGED <<sent, dead>> /\ at[w] = "catch"
        /\ Update(s.id, "PENDING", s.retry + 1) \/ UNCHANGED table
      BY <1>5 DEF MarkRetry, UpdateThrows, broker
  <2>2. PICK stop, B : Arrive(w, stop) /\ batch' = [batch EXCEPT ![w] = B]
      BY <1>5 DEF MarkRetry, Advance
  <2>3. \A i : ~Burying(w, i)
      BY <2>1 DEF Burying
  <2>4. s.id \in Record
      BY OutboxTypes
  <2>5. /\ created' \in Nat /\ created <= created' /\ sent \subseteq sent' /\ dead \subseteq dead'
        /\ \A i \in 1 .. created' : ~(i > created)
        /\ \A i \in 1 .. created' : status'[i] # status[i] => i = s.id /\ status'[i] = "PENDING"
      BY <2>1, <2>4, UpdateWrites
  <2>6. QED
      BY <2>2, <2>3, <2>5, StepLosesNothing
<1>6. ASSUME NEW w \in Worker, NEW s \in batch[w], MarkFailed(w, s) PROVE NothingLost'
  <2>1. /\ UNCHANGED <<sent, dead, batch>> /\ at[w] = "catch" /\ First(w, s) /\ Arrive(w, "bury")
        /\ Update(s.id, "FAILED", s.retry + 1) \/ UNCHANGED table
      BY <1>6 DEF MarkFailed, UpdateThrows, broker
  <2>2. batch' = [batch EXCEPT ![w] = batch[w]]
      BY <2>1, SameBatch DEF OutboxInv
  <2>3. \A i : ~Burying(w, i)
      BY <2>1 DEF Burying
  <2>4. s.id \in Record /\ Burying(w, s.id)'
      BY <2>1, OutboxTypes DEF Burying, First, Arrive, OutboxInv, BatchOK
  <2>5. /\ created' \in Nat /\ created <= created' /\ sent \subseteq sent' /\ dead \subseteq dead'
        /\ \A i \in 1 .. created' : ~(i > created)
        /\ \A i \in 1 .. created' : status'[i] # status[i] => i = s.id /\ status'[i] = "FAILED"
      BY <2>1, <2>4, UpdateWrites
  <2>6. \A i \in 1 .. created' : status'[i] # status[i] => \E v \in Worker : Burying(v, i)'
      BY <2>4, <2>5
  <2>7. QED
      BY <2>1, <2>2, <2>3, <2>5, <2>6, StepLosesNothing
<1>7. ASSUME NEW w \in Worker, NEW s \in batch[w], PublishToDLQ(w, s) PROVE NothingLost'
  <2>1. UNCHANGED <<created, status, sent>> /\ at[w] = "bury" /\ First(w, s)
      BY <1>7 DEF PublishToDLQ, table
  <2>2. dead' = dead \cup {s.id}
    <3>1. ~Fault
        BY <1>0, <2>1, RecordType DEF Fault, OutboxInv, Paid
    <3>2. QED
        BY <1>7, <3>1 DEF PublishToDLQ
  <2>3. PICK stop, B : Arrive(w, stop) /\ batch' = [batch EXCEPT ![w] = B]
      BY <1>7 DEF PublishToDLQ, Advance
  <2>4. \A i : Burying(w, i) => i \in sent' \cup dead'
      BY <2>1, <2>2, FirstId DEF Burying
  <2>5. created' \in Nat /\ created <= created' /\ sent \subseteq sent' /\ dead \subseteq dead'
        /\ \A i \in 1 .. created' : ~(i > created) /\ status'[i] = status[i]
      BY <1>0, <2>1, <2>2
  <2>6. QED
      BY <2>3, <2>4, <2>5, StepLosesNothing
<1>8. ASSUME NEW i \in Record, BackedOff(i) PROVE NothingLost'
    BY <1>8 DEF BackedOff, broker, NothingLost, Burying, First
<1>9. CASE UNCHANGED outboxVars
    BY <1>9 DEF outboxVars, table, broker, NothingLost, Burying, First
<1>10. QED
    BY <1>1, <1>2, <1>3, <1>4, <1>5, <1>6, <1>7, <1>8, <1>9 DEF OutboxNext, OutboxStep, Deal

LEMMA InitLosesNothing == OutboxInit => NothingLost
BY DEF OutboxInit, NothingLost

(* The outbox is well typed: records are numbered without gaps and no      *)
(* count of retries passes MAX_RETRIES, whoever wrote it last (outbox.ts). *)
THEOREM OutboxWellTyped == OutboxSpec => []OutboxTypeOK
BY OutboxAlwaysInv, OutboxInvTypes, PTL

(* As long as no more things fail than a record has retries, a record that *)
(* is PUBLISHED is on its topic and a FAILED one there, among the dead     *)
(* letters or on the way to them, for any number of requests and relays    *)
(* (processPendingBatch, publishWithOutbox).                               *)
THEOREM OutboxLosesNothing ==
    ASSUME MaxFaults <= MAX_RETRIES PROVE OutboxSpec => []NothingLost
<1>1. OutboxInv /\ NothingLost /\ OutboxInv' /\ [OutboxNext]_outboxVars => NothingLost'
    BY NextLosesNothing
<1>2. QED
    BY <1>1, OutboxAlwaysInv, InitLosesNothing, PTL DEF OutboxSpec

-----------------------------------------------------------------------------
(* The promise. *)

LEMMA OutboxInitPromise == OutboxInit => Promise!Init
<1> SUFFICES ASSUME OutboxInit PROVE Promise!Init
    OBVIOUS
<1>1. 1 .. created = {}
    BY DEF OutboxInit
<1>2. QED
    BY <1>1 DEF OutboxInit, Promise!Init

(* Only Create accepts, only publish and publishToDLQ deliver, and what    *)
(* they deliver was accepted before.                                       *)
LEMMA OutboxNextPromise ==
    ASSUME OutboxInv, [OutboxNext]_outboxVars PROVE [Promise!Next]_(Promise!promise)
<1> USE DEF Promise!promise
<1>1. ASSUME NEW w \in Worker, Create(w) PROVE Promise!Next
  <2>1. created' = created + 1 /\ UNCHANGED <<sent, dead>> /\ created \in Nat
      BY <1>1, OutboxTypes DEF Create, broker
  <2>2. created + 1 \in Record
    <3>1. OutboxInv'
        BY <1>1, CreateInv
    <3>2. QED
        BY <2>1, <3>1, RecordType DEF OutboxInv, TableOK
  <2>3. 1 .. created' = (1 .. created) \cup {created + 1}
      BY <2>1
  <2>4. Promise!Accept(created + 1)
      BY <2>1, <2>3 DEF Promise!Accept
  <2>5. QED
      BY <2>2, <2>4 DEF Promise!Next
<1>2. ASSUME NEW w \in Worker, NEW s \in batch[w], Deal(w, s)
      PROVE Promise!Next \/ UNCHANGED Promise!promise
  <2>0. s.id \in Record /\ s.id \in 1 .. created
      BY OutboxTypes
  <2>1. CASE Publish(w, s) \/ PublishThrows(w, s)
    <3>1. UNCHANGED <<created, dead>> /\ (sent' = sent \/ sent' = sent \cup {s.id})
        BY <2>1 DEF Publish, PublishThrows, table
    <3>2. sent' = sent \/ Promise!Deliver(s.id)
        BY <2>0, <3>1 DEF Promise!Deliver
    <3>3. QED
        BY <2>0, <3>1, <3>2 DEF Promise!Next
  <2>2. CASE PublishToDLQ(w, s)
    <3>1. UNCHANGED <<created, sent>> /\ (dead' = dead \/ dead' = dead \cup {s.id})
        BY <2>2 DEF PublishToDLQ, table
    <3>2. dead' = dead \/ Promise!Bury(s.id)
        BY <2>0, <3>1 DEF Promise!Bury
    <3>3. QED
        BY <2>0, <3>1, <3>2 DEF Promise!Next
  <2>3. CASE MarkPublished(w, s) \/ MarkThrows(w, s) \/ MarkRetry(w, s) \/ MarkFailed(w, s)
      BY <2>3 DEF MarkPublished, MarkThrows, MarkRetry, MarkFailed, UpdateThrows, Update, table, broker
  <2>4. QED
      BY <1>2, <2>1, <2>2, <2>3 DEF Deal
<1>3. ASSUME NEW w \in Worker, FindPending(w) \/ CreateThrows(w) \/ WorkerDies(w)
      PROVE UNCHANGED Promise!promise
    BY <1>3 DEF FindPending, CreateThrows, WorkerDies, table, broker
<1>4. ASSUME NEW i \in Record, BackedOff(i) PROVE UNCHANGED Promise!promise
    BY <1>4 DEF BackedOff, broker
<1>5. CASE UNCHANGED outboxVars
    BY <1>5 DEF outboxVars, table, broker
<1>6. QED
    BY <1>1, <1>2, <1>3, <1>4, <1>5 DEF OutboxNext, OutboxStep

(* The safety of the promise, for any number of requests, relays and       *)
(* failures: only events whose record was committed are ever delivered or  *)
(* buried, and none is taken back (publishWithOutboxTx, withTransaction).  *)
THEOREM OutboxKeepsPromise == OutboxSpec => Promise!Init /\ [][Promise!Next]_(Promise!promise)
<1>1. OutboxInv /\ [OutboxNext]_outboxVars => [Promise!Next]_(Promise!promise)
    BY OutboxNextPromise
<1>2. QED
    BY <1>1, OutboxInitPromise, OutboxAlwaysInv, PTL DEF OutboxSpec

(***************************************************************************)
(* The event bus.  For any number of consumers, entries and failures a     *)
(* consumer group gives an entry to one consumer, whose handler succeeds   *)
(* once at most.  The invariant follows an entry: nobody has touched it    *)
(* before the first consumer that fetched it comes to it, and nobody but   *)
(* that one ever does.                                                     *)
(***************************************************************************)
Untouched(e) == handled[e] = 0 /\ tried[e] = 0 /\ e \notin processed \cup deadLetters

(* What is true of the entry a consumer is at. *)
InHand(c, e) ==
    /\ poll[c] = "check" => Untouched(e)
    /\ poll[c] = "handle" =>
          handled[e] = 0 /\ tried[e] = attempt[c] /\ attempt[c] < maxRetries /\ e \notin deadLetters
    /\ poll[c] \in {"ack", "record"} => handled[e] = 1 /\ e \notin deadLetters
    /\ poll[c] \in {"push", "give up"} => handled[e] = 0 /\ tried[e] = maxRetries

BusInv ==
    /\ EventBusTypeOK
    /\ \A e \in Entry : e > delivered => Untouched(e)
    /\ \A c \in Consumer : \A e \in fetched[c] :
          /\ e <= delivered
          /\ IF FirstFetched(c, e) THEN InHand(c, e) ELSE Untouched(e)
    /\ \A c \in Consumer : poll[c] = "read" => fetched[c] = {}
    /\ HandledOnce

LEMMA BusInitInv == EventBusInit => BusInv
<1> SUFFICES ASSUME EventBusInit PROVE BusInv
    OBVIOUS
<1> USE EventBusAssumption DEF EventBusInit
<1>1. EventBusTypeOK
    BY DEF EventBusTypeOK, PollStop, Entry
<1>2. HandledOnce
    BY DEF HandledOnce, Entry
<1>3. QED
    BY <1>1, <1>2 DEF BusInv, Untouched

-----------------------------------------------------------------------------
(* A step at the entry e that consumer c is at leaves every other entry    *)
(* as it is; c stays at e, or is done with it, or with the whole poll.     *)
LEMMA EntryStep ==
    ASSUME BusInv, EventBusTypeOK', NEW c \in Consumer, NEW e \in Entry, FirstFetched(c, e),
           UNCHANGED delivered,
           \A d \in Consumer \ {c} :
              poll'[d] = poll[d] /\ fetched'[d] = fetched[d] /\ attempt'[d] = attempt[d],
           \A f \in Entry \ {e} :
              /\ handled'[f] = handled[f] /\ tried'[f] = tried[f]
              /\ f \in processed' <=> f \in processed
              /\ f \in deadLetters' <=> f \in deadLetters,
           handled'[e] <= 1 /\ tried'[e] <= maxRetries,
           e \in deadLetters' => handled'[e] = 0 /\ tried'[e] = maxRetries,
           \/ fetched'[c] = fetched[c] /\ poll'[c] # "read" /\ InHand(c, e)'
           \/ fetched'[c] = fetched[c] \ {e} /\ poll'[c] = (IF fetched'[c] = {} THEN "read" ELSE "check")
    PROVE  BusInv'
<1>0. \A d \in Consumer \ {c} : poll'[d] = poll[d] /\ fetched'[d] = fetched[d]
    OBVIOUS
<1>1. /\ \A f \in Entry : f \in Int
      /\ \A d \in Consumer : fetched[d] \subseteq Entry /\ fetched'[d] \subseteq fetched[d]
      /\ \A d \in Consumer \ {c} : fetched[d] \cap fetched[c] = {}
      /\ e \in fetched[c]
      /\ delivered \in Int /\ e <= delivered
  <2>1. \A f \in Entry : f \in Int
      BY EventBusAssumption DEF Entry
  <2>2. \A d \in Consumer : fetched[d] \subseteq Entry
      BY DEF BusInv, EventBusTypeOK
  <2>3. \A d \in Consumer \ {c} : fetched[d] \cap fetched[c] = {}
      BY DEF BusInv, HandledOnce
  <2>4. e \in fetched[c] /\ delivered \in Int /\ e <= delivered
      BY EventBusAssumption DEF BusInv, EventBusTypeOK, FirstFetched
  <2>5. QED
      BY <1>0, <2>1, <2>2, <2>3, <2>4
<1>2. \A f \in Entry \ {e} : Untouched(f) => Untouched(f)'
    BY DEF Untouched
<1>3. \A f \in Entry : f > delivered' => Untouched(f)'
    BY <1>1, <1>2 DEF BusInv
<1>4. ASSUME NEW d \in Consumer \ {c}, NEW f \in fetched'[d]
      PROVE  f <= delivered' /\ IF FirstFetched(d, f)' THEN InHand(d, f)' ELSE Untouched(f)'
  <2>1. f \in fetched[d] /\ f \in Entry \ {e} /\ fetched'[d] = fetched[d] /\ poll'[d] = poll[d]
      BY <1>0, <1>1, <1>4
  <2>2. FirstFetched(d, f)' <=> FirstFetched(d, f)
      BY <2>1 DEF FirstFetched
  <2>3. InHand(d, f) => InHand(d, f)'
      BY <1>2, <2>1 DEF InHand
  <2>4. QED
      BY <1>2, <2>1, <2>2, <2>3 DEF BusInv
<1>5. ASSUME NEW f \in fetched'[c]
      PROVE  f <= delivered' /\ IF FirstFetched(c, f)' THEN InHand(c, f)' ELSE Untouched(f)'
  <2>1. f \in fetched[c] /\ f \in Entry
      BY <1>0, <1>1
  <2>2. f # e => ~FirstFetched(c, f)
      BY <1>1, <2>1 DEF FirstFetched
  <2>3. f # e => Untouched(f)'
      BY <1>2, <2>1, <2>2 DEF BusInv
  <2>4. CASE fetched'[c] = fetched[c] /\ poll'[c] # "read" /\ InHand(c, e)'
    <3>1. f = e => FirstFetched(c, f)'
        BY <1>0, <2>4 DEF FirstFetched
    <3>2. FirstFetched(c, f)' => f = e
        BY <1>0, <2>2, <2>4 DEF FirstFetched
    <3>3. QED
        BY <2>1, <2>3, <2>4, <3>1, <3>2 DEF BusInv
  <2>5. CASE fetched'[c] = fetched[c] \ {e} /\ poll'[c] = (IF fetched'[c] = {} THEN "read" ELSE "check")
    <3>1. f # e /\ poll'[c] = "check"
        BY <1>5, <2>1, <2>5
    <3>2. InHand(c, f)'
        BY <2>3, <3>1 DEF InHand
    <3>3. QED
        BY <2>1, <2>3, <3>1, <3>2 DEF BusInv
  <2>6. QED
      BY <2>4, <2>5
<1>6. \A d \in Consumer : poll'[d] = "read" => fetched'[d] = {}
    BY <1>0 DEF BusInv
<1>7. HandledOnce'
  <2>1. \A d, g \in Consumer : d # g => fetched'[d] \cap fetched'[g] = {}
      BY <1>1 DEF BusInv, HandledOnce
  <2>2. \A f \in Entry \ {e} : /\ handled'[f] <= 1 /\ tried'[f] <= maxRetries
                               /\ f \in deadLetters' => handled'[f] = 0 /\ tried'[f] = maxRetries
      BY DEF BusInv, HandledOnce
  <2>3. QED
      BY <2>1, <2>2 DEF HandledOnce
<1>8. QED
    BY <1>3, <1>4, <1>5, <1>6, <1>7 DEF BusInv

LEMMA BusTypes ==
    ASSUME BusInv
    PROVE  /\ published \in 0 .. LastEntry /\ groupStart \in -1 .. published /\ delivered \in 0 .. published
           /\ LastEntry \in Nat /\ COUNT \in Nat \ {0} /\ maxRetries \in Nat \ {0} /\ MaxBusFaults \in Nat
           /\ busFaults \in 0 .. MaxBusFaults
           /\ Entry \subseteq Nat
BY EventBusAssumption DEF BusInv, EventBusTypeOK, Entry

LEMMA BusFaultType ==
    ASSUME BusInv, BusFault \/ UNCHANGED busFaults
    PROVE  busFaults' \in 0 .. MaxBusFaults
BY BusTypes DEF BusFault

LEMMA OneMoreAttempt ==
    ASSUME NEW m \in Nat, NEW n \in 0 .. m, n < m
    PROVE  n + 1 \in 0 .. m /\ n + 1 \in Nat /\ n + 1 <= m /\ (~(n + 1 < m) => n + 1 = m)
OBVIOUS

(* What Go and NextEntry do. *)
LEMMA GoTypes ==
    ASSUME BusInv, NEW c \in Consumer, NEW stop \in PollStop, Go(c, stop)
    PROVE  /\ poll' \in [Consumer -> PollStop] /\ poll'[c] = stop
           /\ \A d \in Consumer \ {c} : poll'[d] = poll[d]
BY DEF Go, BusInv, EventBusTypeOK

LEMMA NextEntryGoes ==
    ASSUME BusInv, NEW c \in Consumer, NEW e \in Entry, FirstFetched(c, e), NextEntry(c, e)
    PROVE  /\ fetched' \in [Consumer -> SUBSET Entry] /\ poll' \in [Consumer -> PollStop]
           /\ fetched'[c] = fetched[c] \ {e} /\ poll'[c] = (IF fetched'[c] = {} THEN "read" ELSE "check")
           /\ \A d \in Consumer \ {c} : poll'[d] = poll[d] /\ fetched'[d] = fetched[d]
<1>1. /\ fetched' \in [Consumer -> SUBSET Entry] /\ fetched'[c] = fetched[c] \ {e}
      /\ \A d \in Consumer \ {c} : fetched'[d] = fetched[d]
    BY DEF NextEntry, BusInv, EventBusTypeOK
<1>2. (IF fetched[c] = {e} THEN "read" ELSE "check") \in PollStop
    BY DEF PollStop
<1>3. /\ poll' \in [Consumer -> PollStop] /\ poll'[c] = IF fetched[c] = {e} THEN "read" ELSE "check"
      /\ \A d \in Consumer \ {c} : poll'[d] = poll[d]
    BY <1>2, GoTypes DEF NextEntry
<1>4. fetched[c] \ {e} = {} <=> fetched[c] = {e}
    BY DEF FirstFetched
<1>5. QED
    BY <1>1, <1>3, <1>4

(* The consumer is done with the entry: acknowledged, recorded, given up.  *)
LEMMA DoneWithEntry ==
    ASSUME BusInv, NEW c \in Consumer, NEW e \in Entry, FirstFetched(c, e), NextEntry(c, e),
           UNCHANGED <<published, groupStart, delivered, effects, attempt, busFaults>>,
           pending' \in [Consumer -> SUBSET Entry], processed' \in {processed, processed \cup {e}}
    PROVE  BusInv'
<1>1. /\ fetched' \in [Consumer -> SUBSET Entry] /\ poll' \in [Consumer -> PollStop]
      /\ fetched'[c] = fetched[c] \ {e} /\ poll'[c] = (IF fetched'[c] = {} THEN "read" ELSE "check")
      /\ \A d \in Consumer \ {c} : poll'[d] = poll[d] /\ fetched'[d] = fetched[d]
    BY NextEntryGoes
<1>2. EventBusTypeOK'
    BY <1>1 DEF BusInv, EventBusTypeOK, effects
<1>3. /\ handled[e] <= 1 /\ tried[e] <= maxRetries
      /\ e \in deadLetters => handled[e] = 0 /\ tried[e] = maxRetries
    BY DEF BusInv, HandledOnce
<1>4. QED
    BY <1>1, <1>2, <1>3, EntryStep DEF effects

LEMMA FirstIsInHand ==
    ASSUME BusInv, NEW c \in Consumer, NEW e \in Entry, FirstFetched(c, e)
    PROVE  /\ InHand(c, e) /\ handled[e] \in Nat /\ tried[e] \in Nat
           /\ handled[e] <= 1 /\ tried[e] <= maxRetries /\ attempt[c] \in 0 .. maxRetries
           /\ e \in deadLetters => handled[e] = 0 /\ tried[e] = maxRetries
BY DEF BusInv, EventBusTypeOK, HandledOnce, FirstFetched

LEMMA OnEntryInv ==
    ASSUME BusInv, NEW c \in Consumer, NEW e \in Entry, OnEntry(c, e)
    PROVE  BusInv'
<1>0. FirstFetched(c, e)
    BY DEF OnEntry, Check, HandlerReturns, HandlerThrows, Ack, RecordProcessed, PushDeadLetter, GiveUp
<1>1. maxRetries \in Nat /\ maxRetries > 0 /\ busFaults \in Nat /\ busFaults <= MaxBusFaults /\ MaxBusFaults \in Nat
    BY BusTypes
<1>2. InHand(c, e) /\ handled[e] \in Nat /\ tried[e] \in Nat
    BY <1>0, FirstIsInHand
<1>3. /\ handled[e] <= 1 /\ tried[e] <= maxRetries /\ attempt[c] \in 0 .. maxRetries
      /\ e \in deadLetters => handled[e] = 0 /\ tried[e] = maxRetries
    BY <1>0, FirstIsInHand
<1>4. ASSUME Acked(c, e) PROVE pending' \in [Consumer -> SUBSET Entry]
    BY <1>4 DEF Acked, BusInv, EventBusTypeOK
<1>5. CASE Check(c, e)
  <2>1. Untouched(e)
      BY <1>2, <1>5 DEF Check, InHand
  <2>2. /\ Go(c, "handle") /\ attempt' = [attempt EXCEPT ![c] = 0]
        /\ UNCHANGED <<published, groupStart, delivered, processed, effects, busFaults, pending, fetched>>
      BY <1>5, <2>1 DEF Check, Untouched
  <2>3. /\ poll' \in [Consumer -> PollStop] /\ poll'[c] = "handle"
        /\ \A d \in Consumer \ {c} : poll'[d] = poll[d]
      BY <2>2, GoTypes DEF PollStop
  <2>4. /\ attempt' \in [Consumer -> 0 .. maxRetries] /\ attempt'[c] = 0
        /\ \A d \in Consumer \ {c} : attempt'[d] = attempt[d]
      BY <1>1, <2>2 DEF BusInv, EventBusTypeOK
  <2>5. EventBusTypeOK'
      BY <2>2, <2>3, <2>4 DEF BusInv, EventBusTypeOK, effects
  <2>6. InHand(c, e)'
      BY <1>1, <2>1, <2>2, <2>3, <2>4 DEF InHand, Untouched, effects
  <2>7. QED
      BY <1>0, <1>3, <2>2, <2>3, <2>4, <2>5, <2>6, EntryStep DEF effects
<1>6. CASE HandlerReturns(c, e)
  <2>1. handled[e] = 0 /\ tried[e] + 1 <= maxRetries /\ e \notin deadLetters /\ tried[e] + 1 \in Nat
      BY <1>1, <1>2, <1>3, <1>6 DEF HandlerReturns, InHand
  <2>2. /\ Go(c, "ack")
        /\ UNCHANGED <<published, groupStart, delivered, pending, processed, deadLetters, fetched, attempt, busFaults>>
        /\ handled' = [handled EXCEPT ![e] = 1] /\ tried' = [tried EXCEPT ![e] = tried[e] + 1]
      BY <1>6, <2>1 DEF HandlerReturns, stream
  <2>3. /\ poll' \in [Consumer -> PollStop] /\ poll'[c] = "ack"
        /\ \A d \in Consumer \ {c} : poll'[d] = poll[d]
      BY <2>2, GoTypes DEF PollStop
  <2>4. /\ handled' \in [Entry -> Nat] /\ handled'[e] = 1
        /\ tried' \in [Entry -> Nat] /\ tried'[e] = tried[e] + 1
        /\ \A f \in Entry \ {e} : handled'[f] = handled[f] /\ tried'[f] = tried[f]
      BY <2>1, <2>2 DEF BusInv, EventBusTypeOK
  <2>5. EventBusTypeOK'
      BY <2>2, <2>3, <2>4 DEF BusInv, EventBusTypeOK
  <2>6. InHand(c, e)'
      BY <2>1, <2>2, <2>3, <2>4 DEF InHand
  <2>7. QED
      BY <1>0, <2>1, <2>2, <2>3, <2>4, <2>5, <2>6, EntryStep
<1>7. CASE HandlerThrows(c, e)
  <2>1. handled[e] = 0 /\ tried[e] = attempt[c] /\ attempt[c] < maxRetries /\ e \notin deadLetters
      BY <1>2, <1>7 DEF HandlerThrows, InHand
  <2>2. /\ UNCHANGED <<published, groupStart, delivered, pending, processed, deadLetters, handled, fetched, busFaults>>
        /\ attempt' = [attempt EXCEPT ![c] = attempt[c] + 1] /\ tried' = [tried EXCEPT ![e] = tried[e] + 1]
      BY <1>7 DEF HandlerThrows, stream
  <2>3. PICK stop \in {"handle", "push", "give up"} :
            Go(c, stop) /\ (stop = "handle" <=> attempt[c] + 1 < maxRetries)
      BY <1>7 DEF HandlerThrows, Exhausted
  <2>4. /\ poll' \in [Consumer -> PollStop] /\ poll'[c] = stop
        /\ \A d \in Consumer \ {c} : poll'[d] = poll[d]
      BY <2>3, GoTypes DEF PollStop
  <2>5. attempt[c] + 1 \in 0 .. maxRetries /\ tried[e] + 1 \in Nat /\ tried[e] + 1 <= maxRetries
    <3>1. attempt[c] \in 0 .. maxRetries /\ maxRetries \in Nat /\ attempt[c] < maxRetries /\ tried[e] = attempt[c]
        BY <1>1, <1>3, <2>1
    <3>2. QED
        BY <3>1, OneMoreAttempt
  <2>6. /\ tried' \in [Entry -> Nat] /\ tried'[e] = tried[e] + 1
        /\ \A f \in Entry \ {e} : tried'[f] = tried[f]
        /\ attempt' \in [Consumer -> 0 .. maxRetries] /\ attempt'[c] = attempt[c] + 1
        /\ \A d \in Consumer \ {c} : attempt'[d] = attempt[d]
      BY <2>2, <2>5 DEF BusInv, EventBusTypeOK
  <2>7. EventBusTypeOK'
      BY <2>2, <2>4, <2>6 DEF BusInv, EventBusTypeOK
  <2>8. poll'[c] # "handle" => tried'[e] = maxRetries
    <3>1. attempt[c] \in 0 .. maxRetries /\ maxRetries \in Nat /\ attempt[c] < maxRetries /\ tried[e] = attempt[c]
        BY <1>1, <1>3, <2>1
    <3>2. ~(attempt[c] + 1 < maxRetries) => attempt[c] + 1 = maxRetries
        BY <3>1, OneMoreAttempt
    <3>3. QED
        BY <2>1, <2>3, <2>4, <2>6, <3>2
  <2>9. InHand(c, e)'
      BY <2>1, <2>2, <2>3, <2>4, <2>6, <2>8 DEF InHand
  <2>10. QED
      BY <1>0, <1>3, <2>1, <2>2, <2>4, <2>5, <2>6, <2>7, <2>9, EntryStep
<1>8. CASE Ack(c, e)
  <2>1. handled[e] = 1 /\ e \notin deadLetters
      BY <1>2, <1>8 DEF Ack, InHand
  <2>2. /\ Go(c, "record") /\ pending' \in [Consumer -> SUBSET Entry]
        /\ UNCHANGED <<published, groupStart, delivered, processed, effects, fetched, attempt, busFaults>>
      BY <1>4, <1>8 DEF Ack
  <2>3. /\ poll' \in [Consumer -> PollStop] /\ poll'[c] = "record"
        /\ \A d \in Consumer \ {c} : poll'[d] = poll[d]
      BY <2>2, GoTypes DEF PollStop
  <2>4. EventBusTypeOK'
      BY <2>2, <2>3 DEF BusInv, EventBusTypeOK, effects
  <2>5. InHand(c, e)'
      BY <2>1, <2>2, <2>3 DEF InHand, effects
  <2>6. QED
      BY <1>0, <1>3, <2>2, <2>3, <2>4, <2>5, EntryStep DEF effects
<1>9. CASE RecordProcessed(c, e)
  <2>1. pending' \in [Consumer -> SUBSET Entry]
      BY <1>9 DEF RecordProcessed, stream, BusInv, EventBusTypeOK
  <2>2. QED
      BY <1>0, <1>9, <2>1, DoneWithEntry DEF RecordProcessed, stream
<1>10. CASE PushDeadLetter(c, e)
  <2>1. handled[e] = 0 /\ tried[e] = maxRetries
      BY <1>2, <1>10 DEF PushDeadLetter, InHand
  <2>2. /\ Go(c, "give up") /\ deadLetters' \in {deadLetters, deadLetters \cup {e}}
        /\ UNCHANGED <<published, groupStart, delivered, pending, processed, handled, tried, fetched, attempt>>
      BY <1>10 DEF PushDeadLetter, stream
  <2>3. busFaults' \in 0 .. MaxBusFaults
    <3>1. BusFault \/ UNCHANGED busFaults
        BY <1>10 DEF PushDeadLetter
    <3>2. QED
        BY <3>1, BusFaultType
  <2>4. /\ poll' \in [Consumer -> PollStop] /\ poll'[c] = "give up"
        /\ \A d \in Consumer \ {c} : poll'[d] = poll[d]
      BY <2>2, GoTypes DEF PollStop
  <2>5. EventBusTypeOK'
      BY <2>2, <2>3, <2>4 DEF BusInv, EventBusTypeOK
  <2>6. InHand(c, e)'
      BY <2>1, <2>2, <2>4 DEF InHand
  <2>7. QED
      BY <1>0, <1>3, <2>1, <2>2, <2>4, <2>5, <2>6, EntryStep
<1>11. CASE GiveUp(c, e)
    BY <1>0, <1>4, <1>11, DoneWithEntry DEF GiveUp
<1>12. QED
    BY <1>5, <1>6, <1>7, <1>8, <1>9, <1>10, <1>11 DEF OnEntry

-----------------------------------------------------------------------------
(* The poll is over without its entries being dealt with. *)
LEMMA PollOverInv ==
    ASSUME BusInv, NEW c \in Consumer,
           (\E e \in Entry : PollThrows(c, e)) \/ ConsumerDies(c)
    PROVE  BusInv'
<1>1. /\ UNCHANGED <<published, groupStart, delivered, effects, attempt>>
      /\ fetched' = [fetched EXCEPT ![c] = {}] /\ Go(c, "read") /\ BusFault
      /\ pending' \in [Consumer -> SUBSET Entry]
      /\ \/ processed' = processed
         \/ \E e \in Entry : e \in fetched[c] /\ processed' = processed \cup {e}
  <2>1. ASSUME NEW e \in Entry, Acked(c, e) PROVE pending' \in [Consumer -> SUBSET Entry]
      BY <2>1 DEF Acked, BusInv, EventBusTypeOK
  <2>2. pending \in [Consumer -> SUBSET Entry]
      BY DEF BusInv, EventBusTypeOK
  <2>3. QED
      BY <2>1, <2>2 DEF PollThrows, ConsumerDies, stream, FirstFetched
<1>2. /\ \A d \in Consumer \ {c} : poll'[d] = poll[d] /\ fetched'[d] = fetched[d] /\ attempt'[d] = attempt[d]
      /\ poll'[c] = "read" /\ fetched'[c] = {}
      /\ fetched' \in [Consumer -> SUBSET Entry] /\ poll' \in [Consumer -> PollStop]
    BY <1>1 DEF Go, BusInv, EventBusTypeOK, PollStop
<1>3. busFaults' \in 0 .. MaxBusFaults /\ processed' \subseteq Entry
    BY <1>1, BusTypes DEF BusFault, BusInv, EventBusTypeOK
<1>4. EventBusTypeOK'
    BY <1>1, <1>2, <1>3 DEF BusInv, EventBusTypeOK, effects
<1>5. \A f \in Entry : f \notin fetched[c] /\ Untouched(f) => Untouched(f)'
    BY <1>1 DEF Untouched, effects
<1>6. \A d \in Consumer \ {c} : fetched[d] \cap fetched[c] = {} /\ fetched[d] \subseteq Entry
    BY DEF BusInv, HandledOnce, EventBusTypeOK
<1>7. ASSUME NEW f \in Entry, f > delivered' PROVE Untouched(f)'
  <2>1. f \notin fetched[c]
      BY <1>1, <1>7, BusTypes DEF BusInv
  <2>2. QED
      BY <1>1, <1>5, <1>7, <2>1 DEF BusInv
<1>8. ASSUME NEW d \in Consumer \ {c}, NEW f \in fetched'[d]
      PROVE  f <= delivered' /\ IF FirstFetched(d, f)' THEN InHand(d, f)' ELSE Untouched(f)'
  <2>1. f \in fetched[d] /\ f \in Entry /\ f \notin fetched[c] /\ fetched'[d] = fetched[d] /\ poll'[d] = poll[d]
      BY <1>2, <1>6, <1>8
  <2>2. FirstFetched(d, f)' <=> FirstFetched(d, f)
      BY <2>1 DEF FirstFetched
  <2>3. InHand(d, f) => InHand(d, f)'
      BY <1>1, <1>2, <1>5, <2>1 DEF InHand, effects
  <2>4. QED
      BY <1>1, <1>5, <2>1, <2>2, <2>3 DEF BusInv
<1>9. HandledOnce'
    BY <1>1, <1>2 DEF BusInv, HandledOnce, effects
<1>10. QED
    BY <1>2, <1>4, <1>7, <1>8, <1>9 DEF BusInv

(* XREADGROUP gives the entries that follow the last one it gave. *)
LEMMA FreshIsNext ==
    ASSUME BusInv
    PROVE  \E last \in delivered .. published :
              /\ Fresh = (delivered + 1) .. last /\ last <= delivered + COUNT
              /\ IsFiniteSet(Fresh) /\ Cardinality(Fresh) = last - delivered
              /\ Fresh \subseteq Entry
<1> DEFINE last == IF published <= delivered + COUNT THEN published ELSE delivered + COUNT
<1>1. /\ published \in Nat /\ delivered \in Nat /\ delivered <= published /\ published <= LastEntry
      /\ COUNT \in Nat /\ LastEntry \in Nat
    BY BusTypes
<1>2. last \in delivered .. published /\ last <= delivered + COUNT
    BY <1>1
<1>3. Fresh = (delivered + 1) .. last /\ Fresh \subseteq Entry
    BY <1>1 DEF Fresh, Entry
<1> HIDE DEF last
<1>4. delivered + 1 \in Int /\ last \in Int /\ delivered <= last
    BY <1>1, <1>2
<1>5. IsFiniteSet(Fresh) /\ Cardinality(Fresh) = IF delivered + 1 > last THEN 0 ELSE last - (delivered + 1) + 1
    BY <1>3, <1>4, FS_Interval
<1>6. Cardinality(Fresh) = last - delivered
    BY <1>1, <1>4, <1>5
<1>7. QED
    BY <1>2, <1>3, <1>5, <1>6

LEMMA ReadInv ==
    ASSUME BusInv, NEW c \in Consumer, Read(c) \/ ReadThrows(c)
    PROVE  BusInv'
<1>1. PICK last \in delivered .. published :
          /\ Fresh = (delivered + 1) .. last /\ last <= delivered + COUNT
          /\ IsFiniteSet(Fresh) /\ Cardinality(Fresh) = last - delivered
          /\ Fresh \subseteq Entry
    BY FreshIsNext
<1>2. /\ delivered \in Nat /\ last \in Nat /\ delivered <= last /\ last <= published /\ published \in Nat
      /\ delivered' = last
  <2>1. delivered \in Nat /\ published \in Nat
      BY BusTypes
  <2>2. last \in Nat /\ delivered <= last /\ last <= published
      BY <2>1
  <2>3. delivered' = delivered + Cardinality(Fresh)
      BY DEF Read, ReadThrows
  <2>4. QED
      BY <1>1, <2>1, <2>2, <2>3
<1>3. /\ UNCHANGED <<published, groupStart, processed, effects, attempt>>
      /\ pending' = [pending EXCEPT ![c] = @ \cup Fresh]
      /\ poll[c] = "read" /\ groupStart >= 0
    BY DEF Read, ReadThrows
<1>4. busFaults' \in 0 .. MaxBusFaults
  <2>1. BusFault \/ UNCHANGED busFaults
      BY DEF Read, ReadThrows
  <2>2. QED
      BY <2>1, BusFaultType
<1>5. fetched[c] = {} /\ fetched \in [Consumer -> SUBSET Entry] /\ poll \in [Consumer -> PollStop]
    BY <1>3 DEF BusInv, EventBusTypeOK
<1>6. /\ fetched' \in [Consumer -> SUBSET Entry] /\ poll' \in [Consumer -> PollStop]
      /\ \A d \in Consumer \ {c} : fetched'[d] = fetched[d] /\ poll'[d] = poll[d]
      /\ fetched'[c] = {} \/ (fetched'[c] = Fresh /\ Fresh # {} /\ poll'[c] = "check")
    BY <1>1, <1>5 DEF Read, ReadThrows, Go, PollStop
<1>7. EventBusTypeOK'
  <2>1. pending' \in [Consumer -> SUBSET Entry]
      BY <1>1, <1>3 DEF BusInv, EventBusTypeOK
  <2>2. delivered' \in 0 .. published' /\ groupStart' \in -1 .. published'
      BY <1>2, <1>3 DEF BusInv, EventBusTypeOK
  <2>3. QED
      BY <1>3, <1>4, <1>6, <2>1, <2>2 DEF BusInv, EventBusTypeOK, effects
<1>8. \A f \in Entry : f \in Nat /\ (Untouched(f) => Untouched(f)')
    BY <1>3, BusTypes DEF Untouched, effects
<1>9. \A f \in Entry : f > delivered' => Untouched(f)'
    BY <1>2, <1>8 DEF BusInv
<1>10. \A f \in Fresh : f \in Entry /\ f > delivered /\ f <= delivered' /\ Untouched(f)'
    BY <1>1, <1>2, <1>8 DEF BusInv
<1>11. ASSUME NEW d \in Consumer, NEW f \in fetched'[d]
       PROVE  f <= delivered' /\ IF FirstFetched(d, f)' THEN InHand(d, f)' ELSE Untouched(f)'
  <2>1. CASE d = c
      BY <1>6, <1>10, <1>11, <2>1 DEF InHand
  <2>2. CASE d # c
    <3>1. f \in fetched[d] /\ fetched'[d] = fetched[d] /\ poll'[d] = poll[d] /\ f \in Entry
        BY <1>5, <1>6, <1>11, <2>2
    <3>2. FirstFetched(d, f)' <=> FirstFetched(d, f)
        BY <3>1 DEF FirstFetched
    <3>3. InHand(d, f) => InHand(d, f)'
        BY <1>3, <3>1 DEF InHand, Untouched, effects
    <3>4. f <= delivered'
        BY <1>2, <1>8, <3>1 DEF BusInv
    <3>5. QED
        BY <1>8, <3>1, <3>2, <3>3, <3>4 DEF BusInv
  <2>3. QED
      BY <2>1, <2>2
<1>12. \A d \in Consumer : poll'[d] = "read" => fetched'[d] = {}
    BY <1>6 DEF BusInv
<1>13. HandledOnce'
  <2>1. \A d \in Consumer : fetched[d] \cap Fresh = {}
    <3>1. \A d \in Consumer : \A f \in fetched[d] : f \in Nat /\ f <= delivered
        BY <1>5, <1>8 DEF BusInv
    <3>2. QED
        BY <1>2, <1>8, <1>10, <3>1
  <2>2. \A d, g \in Consumer : d # g => fetched'[d] \cap fetched'[g] = {}
      BY <1>6, <2>1 DEF BusInv, HandledOnce
  <2>3. QED
      BY <1>3, <2>2 DEF BusInv, HandledOnce, effects
<1>14. QED
    BY <1>7, <1>9, <1>11, <1>12, <1>13 DEF BusInv

LEMMA StreamInv == ASSUME BusInv, PublishEntry \/ Subscribe PROVE BusInv'
<1>1. /\ UNCHANGED <<pending, processed, effects, poll, fetched, attempt, busFaults>>
      /\ published' \in 0 .. LastEntry /\ groupStart' \in -1 .. published' /\ delivered' \in 0 .. published'
      /\ delivered \in Nat /\ delivered' \in Nat /\ delivered <= delivered'
    BY BusTypes DEF PublishEntry, Subscribe
<1>2. EventBusTypeOK'
    BY <1>1 DEF BusInv, EventBusTypeOK, effects
<1>3. \A f \in Entry : f \in Nat
    BY BusTypes
<1>4. \A f \in Entry : f > delivered' => Untouched(f)'
    BY <1>1, <1>3 DEF BusInv, Untouched, effects
<1>5. ASSUME NEW d \in Consumer, NEW f \in fetched'[d]
      PROVE  f <= delivered' /\ IF FirstFetched(d, f)' THEN InHand(d, f)' ELSE Untouched(f)'
  <2>1. f \in Entry /\ f <= delivered /\ f \in fetched[d]
      BY <1>1, <1>5 DEF BusInv, EventBusTypeOK
  <2>2. f <= delivered'
      BY <1>1, <1>3, <2>1
  <2>3. IF FirstFetched(d, f) THEN InHand(d, f) ELSE Untouched(f)
      BY <2>1 DEF BusInv
  <2>4. QED
      BY <1>1, <2>2, <2>3 DEF FirstFetched, InHand, Untouched, effects
<1>6. HandledOnce' /\ \A d \in Consumer : poll'[d] = "read" => fetched'[d] = {}
    BY <1>1 DEF BusInv, HandledOnce, effects
<1>7. QED
    BY <1>2, <1>4, <1>5, <1>6 DEF BusInv

LEMMA BusNextInv == BusInv /\ [EventBusNext]_busVars => BusInv'
<1> SUFFICES ASSUME BusInv, [EventBusNext]_busVars PROVE BusInv'
    OBVIOUS
<1>1. ASSUME NEW c \in Consumer, NEW e \in Entry, OnEntry(c, e) PROVE BusInv'
    BY <1>1, OnEntryInv
<1>2. ASSUME NEW c \in Consumer, Read(c) \/ ReadThrows(c) PROVE BusInv'
    BY <1>2, ReadInv
<1>3. ASSUME NEW c \in Consumer, (\E e \in Entry : PollThrows(c, e)) \/ ConsumerDies(c) PROVE BusInv'
    BY <1>3, PollOverInv
<1>4. CASE PublishEntry \/ Subscribe
    BY <1>4, StreamInv
<1>5. CASE UNCHANGED busVars
  <2>1. /\ published' = published /\ groupStart' = groupStart /\ delivered' = delivered
        /\ pending' = pending /\ processed' = processed /\ deadLetters' = deadLetters
        /\ handled' = handled /\ tried' = tried /\ poll' = poll /\ fetched' = fetched
        /\ attempt' = attempt /\ busFaults' = busFaults
      BY <1>5 DEF busVars, stream, effects
  <2>2. EventBusTypeOK'
      BY <2>1 DEF BusInv, EventBusTypeOK
  <2>3. \A e : Untouched(e)' <=> Untouched(e)
      BY <2>1 DEF Untouched
  <2>4. \A c, e : FirstFetched(c, e)' <=> FirstFetched(c, e)
      BY <2>1 DEF FirstFetched
  <2>5. ASSUME NEW c \in Consumer, NEW e PROVE InHand(c, e)' <=> InHand(c, e)
    <3>1. /\ poll'[c] = poll[c] /\ attempt'[c] = attempt[c]
          /\ handled'[e] = handled[e] /\ tried'[e] = tried[e]
          /\ e \in deadLetters' <=> e \in deadLetters
        BY <2>1
    <3>2. QED
        BY <2>3, <3>1 DEF InHand
  <2>6. ASSUME NEW c \in Consumer, NEW e \in fetched'[c]
        PROVE  e <= delivered' /\ IF FirstFetched(c, e)' THEN InHand(c, e)' ELSE Untouched(e)'
    <3>1. /\ e <= delivered
          /\ IF FirstFetched(c, e) THEN InHand(c, e) ELSE Untouched(e)
        BY <2>1, <2>6 DEF BusInv
    <3>2. QED
        BY <2>1, <2>3, <2>4, <2>5, <3>1
  <2>7. ASSUME NEW e \in Entry, e > delivered' PROVE Untouched(e)'
      BY <2>1, <2>3, <2>7 DEF BusInv
  <2>8. ASSUME NEW c \in Consumer, poll'[c] = "read" PROVE fetched'[c] = {}
      BY <2>1, <2>8 DEF BusInv
  <2>9. HandledOnce'
    <3>1. /\ handled' = handled /\ tried' = tried /\ pending' = pending /\ fetched' = fetched
          /\ deadLetters' = deadLetters /\ HandledOnce
        BY <2>1 DEF BusInv
    <3>2. QED
        BY <3>1 DEF HandledOnce
  <2>10. QED
      BY <2>2, <2>6, <2>7, <2>8, <2>9 DEF BusInv
<1>6. QED
    BY <1>1, <1>2, <1>3, <1>4, <1>5 DEF EventBusNext, EventBusStep

(* A consumer group is well typed, and each of its entries is handled by   *)
(* one consumer, successfully at most once, and given up only after        *)
(* maxRetries calls that threw (RedisStreamEventBus.pollOnce).             *)
THEOREM EntriesAreHandledOnce == EventBusSpec => [](EventBusTypeOK /\ HandledOnce)
<1>1. BusInv => EventBusTypeOK /\ HandledOnce
    BY DEF BusInv
<1>2. QED
    BY <1>1, BusInitInv, BusNextInv, PTL DEF EventBusSpec

-----------------------------------------------------------------------------
(* How much is lost: the entries abandoned, and those being given up       *)
(* without a place on the dead-letter list, are paid for by failures, each *)
(* with the entries of one poll.                                           *)

GivingUp == {e \in Entry : \E c \in Consumer :
                FirstFetched(c, e) /\ poll[c] = "give up" /\ e \notin deadLetters}
Doomed == Abandoned \cup GivingUp

LossInv ==
    /\ \A c \in Consumer : Cardinality(fetched[c]) <= COUNT
    /\ Cardinality(Doomed) <= busFaults * COUNT

LEMMA FiniteEntries ==
    \A S \in SUBSET Entry : IsFiniteSet(S) /\ Cardinality(S) \in Nat
<1>1. IsFiniteSet(Entry)
    BY EventBusAssumption, FS_Interval DEF Entry
<1>2. QED
    BY <1>1, FS_Subset, FS_CardinalityType

LEMMA DoomedType == Doomed \in SUBSET Entry /\ Doomed' \in SUBSET Entry
BY DEF Doomed, Abandoned, Given, Accepted, GivingUp

(* One more failure pays for one more poll. *)
LEMMA OneMorePoll ==
    ASSUME NEW n \in Nat, NEW k \in Nat PROVE (n + 1) * k = n * k + k /\ n * k \in Nat
OBVIOUS

LEMMA LossStep ==
    ASSUME BusInv, BusInv', LossInv, NEW X \in SUBSET Entry,
           \A f \in Entry : f \in Doomed' => f \in Doomed \cup X,
           \/ X = {} /\ UNCHANGED busFaults
           \/ Cardinality(X) <= COUNT /\ BusFault
    PROVE  Cardinality(Doomed') <= busFaults' * COUNT
<1>1. Doomed' \in SUBSET (Doomed \cup X) /\ Doomed \cup X \in SUBSET Entry
    BY DoomedType
<1>2. /\ IsFiniteSet(Doomed) /\ IsFiniteSet(X) /\ IsFiniteSet(Doomed \cup X)
      /\ Cardinality(Doomed) \in Nat /\ Cardinality(X) \in Nat /\ Cardinality(Doomed \cup X) \in Nat
      /\ Cardinality(Doomed') \in Nat
    BY <1>1, DoomedType, FiniteEntries
<1>3. Cardinality(Doomed') <= Cardinality(Doomed \cup X)
    BY <1>1, <1>2, FS_Subset
<1>4. Cardinality(Doomed \cup X) <= Cardinality(Doomed) + Cardinality(X)
  <2>1. Cardinality(Doomed \cap X) \in Nat
      BY DoomedType, FiniteEntries
  <2>2. Cardinality(Doomed \cup X) = Cardinality(Doomed) + Cardinality(X) - Cardinality(Doomed \cap X)
      BY <1>2, FS_Union
  <2>3. QED
      BY <1>2, <2>1, <2>2
<1>5. busFaults \in Nat /\ COUNT \in Nat
    BY BusTypes
<1>6. CASE X = {} /\ UNCHANGED busFaults
  <2>1. Doomed \cup X = Doomed
      BY <1>6
  <2>2. QED
      BY <1>2, <1>3, <1>5, <1>6, <2>1, OneMorePoll DEF LossInv
<1>7. CASE Cardinality(X) <= COUNT /\ BusFault
  <2>1. busFaults' = busFaults + 1
      BY <1>7 DEF BusFault
  <2>2. busFaults' * COUNT = busFaults * COUNT + COUNT /\ busFaults * COUNT \in Nat
      BY <1>5, <2>1, OneMorePoll
  <2>3. Cardinality(Doomed) <= busFaults * COUNT
      BY DEF LossInv
  <2>4. QED
      BY <1>2, <1>3, <1>4, <1>5, <1>7, <2>2, <2>3
<1>8. QED
    BY <1>6, <1>7

(* A batch only shrinks, or is read afresh. *)
LEMMA BatchBound ==
    ASSUME BusInv, BusInv', LossInv,
           \A c \in Consumer : fetched'[c] \subseteq fetched[c] \/ fetched'[c] = Fresh
    PROVE  \A c \in Consumer : Cardinality(fetched'[c]) <= COUNT
<1> TAKE c \in Consumer
<1>1. PICK last \in delivered .. published :
          last <= delivered + COUNT /\ Cardinality(Fresh) = last - delivered
    BY FreshIsNext
<1>2. delivered \in Nat /\ published \in Nat /\ COUNT \in Nat
    BY BusTypes
<1>3. Cardinality(Fresh) <= COUNT
    BY <1>1, <1>2
<1>4. fetched[c] \in SUBSET Entry /\ fetched'[c] \in SUBSET Entry
    BY DEF BusInv, EventBusTypeOK
<1>5. /\ IsFiniteSet(fetched[c]) /\ Cardinality(fetched[c]) \in Nat /\ Cardinality(fetched'[c]) \in Nat
      /\ Cardinality(fetched[c]) <= COUNT
    BY <1>4, FiniteEntries DEF LossInv
<1>6. fetched'[c] \subseteq fetched[c] => Cardinality(fetched'[c]) <= Cardinality(fetched[c])
    BY <1>5, FS_Subset
<1>7. QED
    BY <1>2, <1>3, <1>5, <1>6

LEMMA SameNumber == ASSUME NEW a \in Nat, NEW b \in Nat, a <= b, b <= a PROVE a = b
OBVIOUS

(* A step at one entry dooms at most that entry. *)
LEMMA EntryLoss ==
    ASSUME BusInv, BusInv', NEW c \in Consumer, NEW e \in Entry, FirstFetched(c, e),
           UNCHANGED <<published, groupStart, delivered>>,
           \A d \in Consumer \ {c} : poll'[d] = poll[d] /\ fetched'[d] = fetched[d],
           deadLetters \subseteq deadLetters',
           \A f \in Entry : handled[f] > 0 => handled'[f] > 0,
           NEW X \in SUBSET Entry,
           \/ fetched'[c] = fetched[c] /\ (poll'[c] = "give up" => e \in deadLetters' \cup X)
           \/ /\ fetched'[c] = fetched[c] \ {e} /\ poll'[c] # "give up"
              /\ e \in GivingUp \/ handled[e] > 0 \/ e \in deadLetters
    PROVE  \A f \in Entry : f \in Doomed' => f \in Doomed \cup X
<1> SUFFICES ASSUME NEW f \in Entry, f \in Doomed' PROVE f \in Doomed \cup X
    OBVIOUS
<1>1. CASE f \in GivingUp'
  <2>1. PICK d \in Consumer : FirstFetched(d, f)' /\ poll'[d] = "give up" /\ f \notin deadLetters'
      BY <1>1 DEF GivingUp
  <2>2. CASE d # c
      BY <2>1, <2>2 DEF FirstFetched, GivingUp, Doomed
  <2>3. CASE d = c
    <3>1. fetched'[c] = fetched[c] /\ e \in deadLetters' \cup X
        BY <2>1, <2>3
    <3>2. f = e
      <4>1. f <= e /\ e <= f
          BY <2>1, <2>3, <3>1 DEF FirstFetched
      <4>2. f \in Nat /\ e \in Nat
          BY BusTypes
      <4>3. QED
          BY <4>1, <4>2, SameNumber
    <3>3. QED
        BY <2>1, <3>1, <3>2
  <2>4. QED
      BY <2>2, <2>3
<1>2. CASE f \in Abandoned'
  <2>1. f \in Given' /\ ~(handled'[f] > 0) /\ f \notin deadLetters' /\ ~InWork(f)'
      BY <1>2 DEF Abandoned, Successful
  <2>2. f \in Given /\ ~(handled[f] > 0) /\ f \notin deadLetters
      BY <2>1 DEF Given, Accepted
  <2>3. CASE f = e
    <3>1. e \notin fetched'[c]
        BY <2>1, <2>3 DEF InWork
    <3>2. e \in GivingUp
        BY <2>2, <2>3, <3>1 DEF FirstFetched
    <3>3. QED
        BY <2>3, <3>2 DEF Doomed
  <2>4. CASE f # e
    <3>1. ~InWork(f)
        BY <2>1, <2>4 DEF InWork
    <3>2. QED
        BY <2>2, <3>1 DEF Abandoned, Successful, Doomed
  <2>5. QED
      BY <2>3, <2>4
<1>3. QED
    BY <1>1, <1>2 DEF Doomed

LEMMA OnEntryLoss ==
    ASSUME dlqEnabled, BusInv, BusInv', LossInv, NEW c \in Consumer, NEW e \in Entry, OnEntry(c, e)
    PROVE  LossInv'
<1>0. FirstFetched(c, e)
    BY DEF OnEntry, Check, HandlerReturns, HandlerThrows, Ack, RecordProcessed, PushDeadLetter, GiveUp
<1>1. InHand(c, e) /\ handled[e] \in Nat
    BY <1>0, FirstIsInHand
<1>2. UNCHANGED <<published, groupStart, delivered>>
    BY DEF OnEntry, Check, HandlerReturns, HandlerThrows, Ack, RecordProcessed, PushDeadLetter, GiveUp, stream
<1>3. e \in fetched[c]
    BY <1>0 DEF FirstFetched
<1>4. ASSUME UNCHANGED fetched, NEW stop \in PollStop, Go(c, stop)
      PROVE  /\ fetched'[c] = fetched[c] /\ poll'[c] = stop
             /\ \A d \in Consumer \ {c} : poll'[d] = poll[d] /\ fetched'[d] = fetched[d]
             /\ \A d \in Consumer : fetched'[d] \subseteq fetched[d]
    BY <1>4, GoTypes
<1>5. ASSUME NextEntry(c, e)
      PROVE  /\ fetched'[c] = fetched[c] \ {e} /\ poll'[c] # "give up"
             /\ \A d \in Consumer \ {c} : poll'[d] = poll[d] /\ fetched'[d] = fetched[d]
             /\ \A d \in Consumer : fetched'[d] \subseteq fetched[d]
  <2>1. /\ fetched'[c] = fetched[c] \ {e} /\ poll'[c] = (IF fetched'[c] = {} THEN "read" ELSE "check")
        /\ \A d \in Consumer \ {c} : poll'[d] = poll[d] /\ fetched'[d] = fetched[d]
      BY <1>0, <1>5, NextEntryGoes
  <2>2. QED
      BY <2>1
<1>6. \A d \in Consumer \ {c} : poll'[d] = poll[d] /\ fetched'[d] = fetched[d]
    BY <1>4, <1>5 DEF OnEntry, Check, HandlerReturns, HandlerThrows, Ack, RecordProcessed,
                      PushDeadLetter, GiveUp, PollStop, Exhausted
<1>7. \A d \in Consumer : fetched'[d] \subseteq fetched[d]
    BY <1>4, <1>5 DEF OnEntry, Check, HandlerReturns, HandlerThrows, Ack, RecordProcessed,
                      PushDeadLetter, GiveUp, PollStop, Exhausted
<1>8. deadLetters \subseteq deadLetters' /\ \A f \in Entry : handled[f] > 0 => handled'[f] > 0
  <2>1. ASSUME HandlerReturns(c, e) PROVE \A f \in Entry : handled[f] > 0 => handled'[f] > 0
    <3>1. handled' = [handled EXCEPT ![e] = handled[e] + 1] /\ handled \in [Entry -> Nat]
        BY <2>1 DEF HandlerReturns, BusInv, EventBusTypeOK
    <3>2. QED
        BY <1>1, <3>1
  <2>2. QED
      BY <2>1 DEF OnEntry, Check, HandlerReturns, HandlerThrows, Ack, RecordProcessed, PushDeadLetter, GiveUp, effects
<1>9. \/ /\ UNCHANGED busFaults
         /\ \/ fetched'[c] = fetched[c] /\ (poll'[c] = "give up" => e \in deadLetters')
            \/ /\ fetched'[c] = fetched[c] \ {e} /\ poll'[c] # "give up"
               /\ e \in GivingUp \/ handled[e] > 0 \/ e \in deadLetters
      \/ BusFault /\ fetched'[c] = fetched[c]
  <2>1. CASE Check(c, e)
    <3>1. e \notin processed
        BY <1>1, <2>1 DEF Check, InHand, Untouched
    <3>2. UNCHANGED fetched /\ Go(c, "handle") /\ UNCHANGED busFaults
        BY <2>1, <3>1 DEF Check
    <3>3. QED
        BY <1>4, <3>2 DEF PollStop
  <2>2. CASE HandlerReturns(c, e)
    <3>1. UNCHANGED fetched /\ Go(c, "ack") /\ UNCHANGED busFaults
        BY <2>2 DEF HandlerReturns
    <3>2. QED
        BY <1>4, <3>1 DEF PollStop
  <2>3. CASE HandlerThrows(c, e)
    <3>1. UNCHANGED fetched /\ (Go(c, "handle") \/ Go(c, "push")) /\ UNCHANGED busFaults
        BY <2>3 DEF HandlerThrows, Exhausted
    <3>2. QED
        BY <1>4, <3>1 DEF PollStop
  <2>4. CASE Ack(c, e)
    <3>1. UNCHANGED fetched /\ Go(c, "record") /\ UNCHANGED busFaults
        BY <2>4 DEF Ack
    <3>2. QED
        BY <1>4, <3>1 DEF PollStop
  <2>5. CASE RecordProcessed(c, e)
    <3>1. NextEntry(c, e) /\ UNCHANGED busFaults /\ handled[e] > 0
        BY <1>1, <2>5 DEF RecordProcessed, InHand
    <3>2. QED
        BY <1>5, <3>1
  <2>6. CASE PushDeadLetter(c, e)
    <3>1. /\ UNCHANGED fetched /\ Go(c, "give up")
          /\ (e \in deadLetters' /\ UNCHANGED busFaults) \/ BusFault
        BY <2>6 DEF PushDeadLetter
    <3>2. fetched'[c] = fetched[c]
        BY <3>1
    <3>3. QED
        BY <3>1, <3>2
  <2>7. CASE GiveUp(c, e)
    <3>1. NextEntry(c, e) /\ UNCHANGED busFaults /\ (e \in GivingUp \/ e \in deadLetters)
        BY <1>0, <2>7 DEF GiveUp, GivingUp
    <3>2. QED
        BY <1>5, <3>1
  <2>8. QED
      BY <2>1, <2>2, <2>3, <2>4, <2>5, <2>6, <2>7 DEF OnEntry
<1>10. Cardinality(Doomed') <= busFaults' * COUNT
  <2>1. CASE BusFault /\ fetched'[c] = fetched[c]
    <3>0. {e} \in SUBSET Entry /\ (fetched'[c] = fetched[c] /\ (poll'[c] = "give up" => e \in deadLetters' \cup {e}))
        BY <2>1
    <3>1. \A f \in Entry : f \in Doomed' => f \in Doomed \cup {e}
        BY <3>0, <1>0, <1>2, <1>6, <1>8, <2>1, EntryLoss
    <3>2. Cardinality({e}) = 1
        BY FS_Singleton
    <3>3. COUNT \in Nat /\ COUNT > 0
        BY BusTypes
    <3>4. Cardinality({e}) <= COUNT
        BY <3>2, <3>3
    <3>5. QED
        BY <3>0, <2>1, <3>1, <3>4, LossStep
  <2>2. CASE /\ UNCHANGED busFaults
             /\ \/ fetched'[c] = fetched[c] /\ (poll'[c] = "give up" => e \in deadLetters')
                \/ /\ fetched'[c] = fetched[c] \ {e} /\ poll'[c] # "give up"
                   /\ e \in GivingUp \/ handled[e] > 0 \/ e \in deadLetters
    <3>0. {} \in SUBSET Entry
        OBVIOUS
    <3>1. \A f \in Entry : f \in Doomed' => f \in Doomed \cup {}
        BY <3>0, <1>0, <1>2, <1>6, <1>8, <2>2, EntryLoss
    <3>2. {} = {} /\ UNCHANGED busFaults
        BY <2>2
    <3>3. QED
        BY <3>0, <3>1, <3>2, LossStep
  <2>3. QED
      BY <1>9, <2>1, <2>2
<1>11. QED
    BY <1>7, <1>10, BatchBound DEF LossInv

(* A poll that breaks off dooms what it still held. *)
LEMMA PollOverLoss ==
    ASSUME BusInv, BusInv', LossInv, NEW c \in Consumer,
           (\E e \in Entry : PollThrows(c, e)) \/ ConsumerDies(c)
    PROVE  LossInv'
<1>1. /\ UNCHANGED <<published, groupStart, delivered, effects>> /\ BusFault
      /\ fetched' = [fetched EXCEPT ![c] = {}] /\ Go(c, "read")
    BY DEF PollThrows, ConsumerDies, stream
<1>2. /\ \A d \in Consumer \ {c} : poll'[d] = poll[d] /\ fetched'[d] = fetched[d]
      /\ poll'[c] = "read" /\ fetched'[c] = {}
    BY <1>1 DEF Go, BusInv, EventBusTypeOK
<1>3. fetched[c] \in SUBSET Entry /\ Cardinality(fetched[c]) <= COUNT
    BY DEF BusInv, EventBusTypeOK, LossInv
<1>4. ASSUME NEW f \in Entry, f \in Doomed' PROVE f \in Doomed \cup fetched[c]
  <2>1. CASE f \in GivingUp'
      BY <1>1, <1>2, <2>1 DEF GivingUp, FirstFetched, Doomed, effects
  <2>2. CASE f \in Abandoned'
    <3>1. f \in Given /\ f \notin Successful \cup deadLetters /\ ~InWork(f)'
        BY <1>1, <2>2 DEF Abandoned, Given, Accepted, Successful, effects
    <3>2. InWork(f) => f \in fetched[c]
        BY <1>2, <3>1 DEF InWork
    <3>3. QED
        BY <3>1, <3>2 DEF Abandoned, Doomed
  <2>3. QED
      BY <1>4, <2>1, <2>2 DEF Doomed
<1>5. Cardinality(Doomed') <= busFaults' * COUNT
    BY <1>1, <1>3, <1>4, LossStep
<1>6. \A d \in Consumer : fetched'[d] \subseteq fetched[d]
    BY <1>2
<1>7. QED
    BY <1>5, <1>6, BatchBound DEF LossInv

LEMMA ReadLoss ==
    ASSUME BusInv, BusInv', LossInv, NEW c \in Consumer, Read(c) \/ ReadThrows(c)
    PROVE  LossInv'
<1>1. PICK last \in delivered .. published :
          /\ Fresh = (delivered + 1) .. last /\ last <= delivered + COUNT
          /\ IsFiniteSet(Fresh) /\ Cardinality(Fresh) = last - delivered
          /\ Fresh \subseteq Entry
    BY FreshIsNext
<1>2. delivered \in Nat /\ published \in Nat /\ COUNT \in Nat /\ Entry \subseteq Nat
    BY BusTypes
<1>3. Cardinality(Fresh) <= COUNT
    BY <1>1, <1>2
<1>4. delivered' = last
  <2>1. delivered' = delivered + Cardinality(Fresh)
      BY DEF Read, ReadThrows
  <2>2. QED
      BY <1>1, <1>2, <2>1
<1>5. /\ UNCHANGED <<published, groupStart, effects>> /\ poll[c] = "read"
      /\ \A d \in Consumer \ {c} : poll'[d] = poll[d] /\ fetched'[d] = fetched[d]
      /\ fetched[c] = {}
    BY DEF Read, ReadThrows, Go, BusInv, EventBusTypeOK
<1>6. \/ poll'[c] = "check" /\ fetched'[c] = Fresh /\ UNCHANGED busFaults
      \/ poll'[c] = "read" /\ fetched'[c] = {} /\ BusFault
  <2>1. CASE Read(c)
      BY <2>1 DEF Read, Go, BusInv, EventBusTypeOK
  <2>2. CASE ReadThrows(c)
      BY <1>5, <2>2 DEF ReadThrows
  <2>3. QED
      BY <2>1, <2>2
<1>7. ASSUME NEW f \in Entry, f \in Doomed' PROVE f \in Doomed \cup (Fresh \ fetched'[c])
  <2>1. CASE f \in GivingUp'
      BY <1>5, <1>6, <2>1 DEF GivingUp, FirstFetched, Doomed, effects
  <2>2. CASE f \in Abandoned'
    <3>1. f \in Given' /\ f \notin Successful \cup deadLetters /\ ~InWork(f)'
        BY <1>5, <2>2 DEF Abandoned, Successful, effects
    <3>2. f \in Given \/ f \in Fresh
        BY <1>1, <1>2, <1>4, <1>5, <3>1 DEF Given, Accepted
    <3>3. ~InWork(f) /\ f \notin fetched'[c]
        BY <1>5, <3>1 DEF InWork
    <3>4. QED
        BY <3>1, <3>2, <3>3 DEF Abandoned, Doomed
  <2>3. QED
      BY <1>7, <2>1, <2>2 DEF Doomed
<1>8. Cardinality(Doomed') <= busFaults' * COUNT
  <2>1. CASE fetched'[c] = Fresh /\ UNCHANGED busFaults
    <3>1. {} \in SUBSET Entry /\ \A f \in Entry : f \in Doomed' => f \in Doomed \cup {}
        BY <1>7, <2>1
    <3>2. {} = {} /\ UNCHANGED busFaults
        BY <2>1
    <3>3. QED
        BY <3>1, <3>2, LossStep
  <2>2. CASE BusFault
    <3>1. Fresh \in SUBSET Entry /\ \A f \in Entry : f \in Doomed' => f \in Doomed \cup Fresh
        BY <1>1, <1>7
    <3>2. QED
        BY <1>3, <2>2, <3>1, LossStep
  <2>3. QED
      BY <1>6, <2>1, <2>2
<1>9. \A d \in Consumer : fetched'[d] \subseteq fetched[d] \/ fetched'[d] = Fresh
    BY <1>5, <1>6
<1>10. QED
    BY <1>8, <1>9, BatchBound DEF LossInv

LEMMA StreamLoss ==
    ASSUME BusInv, BusInv', LossInv, PublishEntry \/ Subscribe
    PROVE  LossInv'
<1>1. UNCHANGED <<effects, poll, fetched, busFaults>>
    BY DEF PublishEntry, Subscribe
<1>2. published \in Nat /\ delivered \in 0 .. published /\ Entry \subseteq Nat
    BY BusTypes
<1>3. ASSUME NEW f \in Entry, f \in Given' PROVE f \in Given
  <2>1. CASE PublishEntry
    <3>1. UNCHANGED <<groupStart, delivered>> /\ f <= delivered /\ groupStart >= 0 /\ groupStart < f
        BY <1>3, <2>1 DEF PublishEntry, Given, Accepted
    <3>2. f <= published
        BY <1>2, <3>1
    <3>3. QED
        BY <3>1, <3>2 DEF Given, Accepted
  <2>2. CASE Subscribe
    <3>1. published < f /\ f <= published
        BY <1>3, <2>2 DEF Subscribe, Given, Accepted
    <3>2. QED
        BY <1>2, <3>1
  <2>3. QED
      BY <2>1, <2>2
<1>4. \A f \in Entry : f \in Doomed' => f \in Doomed \cup {}
  <2>1. \A f \in Entry : f \in GivingUp' => f \in GivingUp
      BY <1>1 DEF GivingUp, FirstFetched, effects
  <2>2. \A f \in Entry : f \in Abandoned' => f \in Abandoned
      BY <1>1, <1>3 DEF Abandoned, Successful, InWork, effects
  <2>3. QED
      BY <2>1, <2>2, DoomedType DEF Doomed
<1>5. {} \in SUBSET Entry /\ {} = {} /\ UNCHANGED busFaults
    BY <1>1
<1>6. Cardinality(Doomed') <= busFaults' * COUNT
    BY <1>4, <1>5, LossStep
<1>7. QED
    BY <1>1, <1>6 DEF LossInv

LEMMA LossInitInv == EventBusInit => LossInv
<1> SUFFICES ASSUME EventBusInit PROVE LossInv
    OBVIOUS
<1>1. Doomed = {} /\ \A c \in Consumer : fetched[c] = {}
    BY DEF EventBusInit, Doomed, Abandoned, Given, Accepted, GivingUp
<1>2. Cardinality({}) = 0 /\ COUNT \in Nat /\ busFaults = 0
    BY FS_EmptySet, EventBusAssumption DEF EventBusInit
<1>3. 0 <= 0 * COUNT
    BY <1>2
<1>4. QED
    BY <1>1, <1>2, <1>3 DEF LossInv

LEMMA LossNextInv ==
    ASSUME dlqEnabled, BusInv, BusInv', LossInv, [EventBusNext]_busVars
    PROVE  LossInv'
<1>1. ASSUME NEW c \in Consumer, NEW e \in Entry, OnEntry(c, e) PROVE LossInv'
    BY <1>1, OnEntryLoss
<1>2. ASSUME NEW c \in Consumer, Read(c) \/ ReadThrows(c) PROVE LossInv'
    BY <1>2, ReadLoss
<1>3. ASSUME NEW c \in Consumer, (\E e \in Entry : PollThrows(c, e)) \/ ConsumerDies(c) PROVE LossInv'
    BY <1>3, PollOverLoss
<1>4. CASE PublishEntry \/ Subscribe
    BY <1>4, StreamLoss
<1>5. CASE UNCHANGED busVars
    BY <1>5 DEF busVars, stream, effects, LossInv, Doomed, Abandoned, Given, Accepted, Successful,
                InWork, GivingUp, FirstFetched
<1>6. QED
    BY <1>1, <1>2, <1>3, <1>4, <1>5 DEF EventBusNext, EventBusStep

LEMMA LossInvBounds == BusInv /\ LossInv => LossBounded
<1> SUFFICES ASSUME BusInv, LossInv PROVE LossBounded
    OBVIOUS
<1>1. Abandoned \in SUBSET Doomed /\ Doomed \in SUBSET Entry
    BY DoomedType DEF Doomed
<1>2. IsFiniteSet(Doomed) /\ Cardinality(Doomed) \in Nat
    BY <1>1, FiniteEntries
<1>3. Cardinality(Abandoned) <= Cardinality(Doomed) /\ Cardinality(Abandoned) \in Nat
    BY <1>1, <1>2, FS_Subset, FS_CardinalityType
<1>4. busFaults * COUNT \in Nat
    BY BusTypes, OneMorePoll
<1>5. QED
    BY <1>2, <1>3, <1>4 DEF LossInv, LossBounded

(* With the dead-letter list, every failure costs the group at most the    *)
(* entries of one poll, for any number of consumers (RedisStreamEventBus,  *)
(* the catch of subscribe's loop).                                         *)
THEOREM LossesAreBounded == EventBusSpec => []LossBounded
<1>1. CASE dlqEnabled
  <2>1. BusInv /\ BusInv' /\ LossInv /\ [EventBusNext]_busVars => LossInv'
      BY <1>1, LossNextInv
  <2>2. QED
      BY <2>1, BusInitInv, BusNextInv, LossInitInv, LossInvBounds, PTL DEF EventBusSpec
<1>2. CASE ~dlqEnabled
  <2>1. EventBusInit => LossBounded
      BY <1>2 DEF LossBounded
  <2>2. LossBounded /\ [EventBusNext]_busVars => LossBounded'
      BY <1>2 DEF LossBounded
  <2>3. QED
      BY <2>1, <2>2, PTL DEF EventBusSpec
<1>3. QED
    BY <1>1, <1>2
=============================================================================
