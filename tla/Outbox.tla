------------------------------- MODULE Outbox -------------------------------
(***************************************************************************)
(* packages/shared-events: the outbox.  A request writes its event as a    *)
(* record, inside its transaction (publishWithOutboxTx) or on its own and  *)
(* publishes it at once (publishWithOutbox).  Relays, one timer in every   *)
(* process, select the PENDING records that are due and publish them one   *)
(* by one: nothing claims a record, a tick does not wait for the one       *)
(* before, and all updates are by id alone, so that any number of workers  *)
(* may hold the same record, each with the count of retries it read.       *)
(*                                                                         *)
(* Records are numbered in the order of their creation.  publishToDLQ's    *)
(* copy to the legacy topic, whose errors are swallowed, is left out.      *)
(***************************************************************************)
EXTENDS Integers, FiniteSets

CONSTANTS
    Producer,      \* the requests that publish
    InTx,          \* those of them that use publishWithOutboxTx
    Relay,         \* the ticks of all relays that may run at one time
    BatchSize,     \* processPendingBatch: batchSize
    MAX_RETRIES,   \* dlq.ts
    MaxFaults      \* bound: failures of the broker, the database and processes

ASSUME OutboxAssumption ==
    /\ IsFiniteSet(Producer) /\ InTx \subseteq Producer
    /\ Producer \cap Relay = {}
    /\ BatchSize \in Nat \ {0}
    /\ MAX_RETRIES \in Nat /\ MAX_RETRIES >= 2
    /\ MaxFaults \in Nat

Record == 1 .. Cardinality(Producer)
Worker == Producer \cup Relay

VARIABLES
    created,     \* the records there are: 1 .. created
    status,      \* [Record -> OUTBOX_STATUS]
    retryCount,  \* [Record -> Nat]
    due,         \* the records whose nextRetryAt has come
    sent,        \* the records the broker has on their topic, once or more often
    dead,        \* and on the dead-letter topic
    at,          \* where each worker is
    batch,       \* what it read and has not dealt with: records and their retryCount
    faults       \* failures so far

table == <<created, status, retryCount, due>>
broker == <<sent, dead>>
outboxVars == <<table, broker, at, batch, faults>>

OUTBOX_STATUS == {"PENDING", "PUBLISHED", "FAILED"}
Snapshot == [id: Record, retry: Nat]
Stop == {"start", "poll", "publish", "mark", "catch", "bury", "done"}

Rest(w) == IF w \in Relay THEN "poll" ELSE "done"

OutboxInit ==
    /\ created = 0
    /\ status = [i \in Record |-> "PENDING"]
    /\ retryCount = [i \in Record |-> 0]
    /\ due = {}
    /\ sent = {} /\ dead = {}
    /\ at = [w \in Worker |-> IF w \in Relay THEN "poll" ELSE "start"]
    /\ batch = [w \in Worker |-> {}]
    /\ faults = 0

-----------------------------------------------------------------------------
Arrive(w, stop) == at' = [at EXCEPT ![w] = stop]

(* The batch is worked through in the order of createdAt. *)
First(w, s) == s \in batch[w] /\ \A t \in batch[w] : s.id <= t.id

Advance(w, s) ==
    /\ batch' = [batch EXCEPT ![w] = @ \ {s}]
    /\ Arrive(w, IF batch[w] = {s} THEN Rest(w) ELSE "publish")

Fault == faults < MaxFaults /\ faults' = faults + 1

(* An update by id that succeeds, or one that throws, after it took effect or before. *)
Update(i, to, count) ==
    /\ status' = [status EXCEPT ![i] = to]
    /\ retryCount' = [retryCount EXCEPT ![i] = count]
    /\ due' = due \ {i}
    /\ UNCHANGED created
UpdateThrows(i, to, count) == Fault /\ (Update(i, to, count) \/ UNCHANGED table)

(* publishWithOutbox, publishWithOutboxTx: create. *)
Create(w) ==
    /\ w \in Producer /\ at[w] = "start"
    /\ created' = created + 1
    /\ due' = due \cup {created'}
    /\ IF w \in InTx
       THEN Arrive(w, "done") /\ UNCHANGED batch
       ELSE /\ Arrive(w, "publish")
            /\ batch' = [batch EXCEPT ![w] = {[id |-> created', retry |-> 0]}]
    /\ UNCHANGED <<status, retryCount, broker, faults>>

(* MUTANT: the event is published inside the transaction that is rolled back. *)
CreateThrowsLate(w) ==
    /\ w \in Producer /\ at[w] = "start"
    /\ Fault
    /\ sent' = sent \cup {created + 1}
    /\ Arrive(w, "done")
    /\ UNCHANGED <<table, dead, batch>>

(* The insert fails, or the transaction around it is rolled back. *)
CreateThrows(w) ==
    /\ w \in Producer /\ at[w] = "start"
    /\ Fault
    /\ Arrive(w, "done")
    /\ UNCHANGED <<table, broker, batch>>

(* MUTANT: what has been retried once is not selected for its last retry. *)
DueButLast == {i \in due : status[i] = "PENDING" /\ retryCount[i] + 1 < MAX_RETRIES}

Due == {i \in due : status[i] = "PENDING"}
Oldest == {i \in Due : Cardinality({j \in Due : j < i}) < BatchSize}

(* processPendingBatch: findPending. *)
FindPending(w) ==
    /\ w \in Relay /\ at[w] = "poll"
    /\ Oldest # {}
    /\ batch' = [batch EXCEPT ![w] = {[id |-> i, retry |-> retryCount[i]] : i \in Oldest}]
    /\ Arrive(w, "publish")
    /\ UNCHANGED <<table, broker, faults>>

Publish(w, s) ==
    /\ at[w] = "publish" /\ First(w, s)
    /\ sent' = sent \cup {s.id}
    /\ Arrive(w, "mark")
    /\ UNCHANGED <<table, dead, batch, faults>>

(* publish throws; the broker may have stored the message all the same. *)
PublishThrows(w, s) ==
    /\ at[w] = "publish" /\ First(w, s)
    /\ Fault
    /\ sent' \in {sent, sent \cup {s.id}}
    /\ Arrive(w, "catch")
    /\ UNCHANGED <<table, dead, batch>>

MarkPublished(w, s) ==
    /\ at[w] = "mark" /\ First(w, s)
    /\ Update(s.id, "PUBLISHED", retryCount[s.id])
    /\ Advance(w, s)
    /\ UNCHANGED <<broker, faults>>

MarkThrows(w, s) ==
    /\ at[w] = "mark" /\ First(w, s)
    /\ UpdateThrows(s.id, "PUBLISHED", retryCount[s.id])
    /\ Arrive(w, "catch")
    /\ UNCHANGED <<broker, batch>>

(* The catch block; publishWithOutbox, which saw no retry, always schedules the first. *)
MarkRetry(w, s) ==
    /\ at[w] = "catch" /\ First(w, s) /\ s.retry + 1 < MAX_RETRIES
    /\ \/ Update(s.id, "PENDING", s.retry + 1) /\ UNCHANGED faults
       \/ UpdateThrows(s.id, "PENDING", s.retry + 1)
    /\ Advance(w, s)
    /\ UNCHANGED broker

(* MUTANT: a record is given up one retry too early. *)
MarkFailedEarly(w, s) ==
    /\ at[w] = "catch" /\ First(w, s) /\ s.retry + 2 >= MAX_RETRIES
    /\ \/ Update(s.id, "FAILED", s.retry + 1) /\ UNCHANGED faults
       \/ UpdateThrows(s.id, "FAILED", s.retry + 1)
    /\ Arrive(w, "bury")
    /\ UNCHANGED <<broker, batch>>

MarkFailed(w, s) ==
    /\ at[w] = "catch" /\ First(w, s) /\ s.retry + 1 >= MAX_RETRIES
    /\ \/ Update(s.id, "FAILED", s.retry + 1) /\ UNCHANGED faults
       \/ UpdateThrows(s.id, "FAILED", s.retry + 1)
    /\ Arrive(w, "bury")
    /\ UNCHANGED <<broker, batch>>

(* publishToDLQ; when it throws the relay goes on. *)
PublishToDLQ(w, s) ==
    /\ at[w] = "bury" /\ First(w, s)
    /\ \/ dead' = dead \cup {s.id} /\ UNCHANGED faults
       \/ Fault /\ dead' \in {dead, dead \cup {s.id}}
    /\ Advance(w, s)
    /\ UNCHANGED <<table, sent>>

(* The back-off of a record is over. *)
BackedOff(i) ==
    /\ i <= created /\ status[i] = "PENDING" /\ i \notin due
    /\ due' = due \cup {i}
    /\ UNCHANGED <<created, status, retryCount, broker, at, batch, faults>>

(* The process dies; a relay is started again with it. *)
WorkerDies(w) ==
    /\ at[w] \notin {"start", "poll", "done"}
    /\ Fault
    /\ batch' = [batch EXCEPT ![w] = {}]
    /\ Arrive(w, Rest(w))
    /\ UNCHANGED <<table, broker>>

Deal(w, s) ==
    \/ Publish(w, s) \/ PublishThrows(w, s)
    \/ MarkPublished(w, s) \/ MarkThrows(w, s)
    \/ MarkRetry(w, s) \/ MarkFailed(w, s)
    \/ PublishToDLQ(w, s)

OutboxStep(w) == Create(w) \/ FindPending(w) \/ \E s \in batch[w] : Deal(w, s)

OutboxNext ==
    \/ \E w \in Worker : OutboxStep(w) \/ CreateThrows(w) \/ WorkerDies(w)
    \/ \E i \in Record : BackedOff(i)

(* Every timer fires and every call returns or throws. *)
OutboxFairness ==
    /\ \A w \in Worker : WF_outboxVars(OutboxStep(w))
    /\ \A i \in Record : WF_outboxVars(BackedOff(i))

OutboxSpec == OutboxInit /\ [][OutboxNext]_outboxVars /\ OutboxFairness

-----------------------------------------------------------------------------
(* Properties. *)

OutboxTypeOK ==
    /\ created \in 0 .. Cardinality(Producer)
    /\ status \in [Record -> OUTBOX_STATUS]
    /\ retryCount \in [Record -> 0 .. MAX_RETRIES]
    /\ due \subseteq 1 .. created
    /\ sent \subseteq 1 .. created /\ dead \subseteq 1 .. created
    /\ at \in [Worker -> Stop]
    /\ batch \in [Worker -> SUBSET Snapshot]
    /\ faults \in 0 .. MaxFaults

Burying(w, i) == at[w] = "bury" /\ \E s \in batch[w] : First(w, s) /\ s.id = i

(* What the table says of a record is true of the broker, whichever of the *)
(* workers wrote last: PUBLISHED records are on their topic, FAILED ones   *)
(* there or among the dead letters, or on the way to them.  The second     *)
(* part costs more failures than a record has retries (ADR-0004, the       *)
(* at-least-once guarantee; outbox.ts:337-368).                            *)
NothingLost ==
    \A i \in 1 .. created :
        /\ status[i] = "PUBLISHED" => i \in sent
        /\ status[i] = "FAILED" => i \in sent \cup dead \/ \E w \in Worker : Burying(w, i)

(* Workers that hold a record with an old count of retries make PUBLISHED  *)
(* and FAILED records PENDING again, but not for ever: in the end no       *)
(* record is PENDING (outbox.ts:312-368).                                  *)
OutboxSettles == <>[](\A i \in 1 .. created : status[i] # "PENDING")

Promise == INSTANCE AtLeastOnce
    WITH Event <- Record, accepted <- 1 .. created, delivered <- sent, buried <- dead

(* Every record that was written is delivered or becomes a dead letter     *)
(* (outbox.ts:206-208), and nothing else ever is: no phantom of a          *)
(* transaction that rolled back (ADR-0004).                                *)
OutboxImplementsPromise == Promise!Spec
=============================================================================
