# StayFlexi: verification of the transactional core and of what surrounds it

StayFlexi is a multi-tenant hotel platform: twelve TypeScript services behind a
gateway, PostgreSQL through Prisma, Redis for locks, caches and idempotency,
and events over Kafka. This directory holds TLA+ models of the parts in which
concurrent requests, retries and failures can lose rooms, money, messages or
access, the TLC configurations that check them on small instances, and TLAPS
proofs of their most important properties for every value of the constants:

* three **cores**: inventory, bookings and payments;
* eight **edges**: what a request passes before it changes anything
  (idempotency keys, the read cache, promotions, the counter of failed logins,
  refresh tokens, the members of an organization) and what carries its events afterwards (the outbox, the event
  bus on Redis streams);
* three **workers**, services that retry in the background: notifications,
  workflows and the synchronisation with travel agencies.

What the models are about is concurrency. Services run several replicas; every
`await` of a handler gives the other requests, of this replica and of the
others, a chance to run; nothing but Redis commands and single SQL statements
is atomic. So a request, a tick of a timer or a poll is a process, and **every
await of its handler is an action of its own**.

## 1. The system

### Components, their state and how they interact

| Component | State | Operations that change it | Interacts with | Here |
|---|---|---|---|---|
| inventory-service | per room type and night `totalInventory`, `reservedInventory`, `blockedInventory`; reservation rows; block records; one Redis lock per night | reserve, release, block, unblock | called over HTTP; publishes `inventory.*` | `InventoryService` |
| booking-service | bookings and their room rows; writes the same inventory table; one Redis lock per room | create, cancel, check-in, check-out | database shared with inventory-service; publishes `booking.*` | `BookingService` |
| – idempotency middleware | one Redis entry per key: a mark of 60 s, then the response for 24 h | every POST | wraps the handlers above | `IdempotencyStore` |
| – read cache and notes | one Redis entry per booking, 300 s | `GetBooking` fills it, every change deletes it | reads and changes of bookings | `BookingCache` |
| payment-service | payments, refunds, ledger entries, lock per operation and payment, idempotency store | initiate, confirm, cancel, refund, gateway webhooks | gateway calls back; publishes `payment.*` | `PaymentService` |
| – folios, invoices, night audit | folio rows, audits | create, add entry, close, run | reads bookings and payments | not modelled |
| shared-events | outbox rows, topics, dead-letter topics | write with or without publishing, relay tick, retry | imported by services; nobody constructs `OutboxService` | `Outbox` |
| event bus on Redis streams | stream, group position, pending entries, processed set, dead-letter list | publish, subscribe, poll, acknowledge | constructed by no service | `EventBus` |
| ota-service | sync jobs, stored reservations, dedup marks, lock per hotel and provider | sync reservations / inventory / rates, retry worker | travel agencies | `OtaService` (reservations) |
| workflow-service | executions and their retry counts, idempotency results | trigger, run, retry, retry worker | consumes events | `WorkflowService` |
| notification-service | notifications, their delivery status and retry count | send, retry, retry worker | providers, consumes events | `NotificationService` |
| auth-service | users, counter of failures, refresh tokens | login, rotate, logout; register, invite, roles | all services check its tokens | `LoginUser`, `RefreshTokens` |
| pricing-engine-service | promotions, redemptions, rates | redeem; single-row writes | consumes bookings | `RedeemPromotion` |
| organization-service | owner and memberships of organizations; guests | create, add, remove, transfer; single-row writes | auth-service adds members who accept an invitation | `Ownership` |
| hotel-service | hotels, rooms, housekeeping tasks | status changes | publishes `hotel.events` | planned |
| service discovery | instances as keys with a TTL | register, heartbeat, deregister | gateway, clients | planned |
| analytics, revenue, gateway, shared packages, configuration, secrets, deployment files, platform-validation, Next.js application | – | – | – | not modelled, §7 |

The operation list of each service was taken from its routes, not from its
files: `updateTotalRooms`, `DeleteInventory`, `DeletePayment`, `UpdatePayment`
and `BookingCreationSaga` exist in the source but no route or consumer reaches
them.

### Which behaviours are hard, and what makes each component correct

* **inventory.** A check of availability and the increment it allows are apart;
  ranges of nights are locked key by key; locks expire; a block is two writes
  per night and no transaction; a release takes no Redis lock, and its row locks
  in no order. Correct means:
  `reserved + blocked <= total` on every night, all nights of a reservation or
  none, counters that agree with the rows they summarise, no request stuck, row
  locks in an order wherever the code chooses one.
* **bookings.** The overlap query and the insert are apart; increments of the
  inventory run after the answer and nobody waits for them; check-in, check-out
  and cancellation overwrite a status they read earlier. Correct means: no room
  sold twice for one night, counters that end equal to the bookings, every lock
  given back. That statuses follow the lifecycle is promised by the documents and
  does not hold (§5).
* **payments.** A refund is checked against a sum, inserted, and then turned
  into a status by separate statements; each operation locks a name of its own;
  retries come with the same key while the first attempt runs, after it failed,
  or after its replica died; webhooks are repeated. Correct means: refunds
  within the amount, statuses and ledger that tell the truth about the refund
  rows, one effect per key.
* **idempotency keys.** A mark may lapse while its handler runs, and a response
  is stored by a call nobody waits for. Correct means: the handler runs once,
  and again only where an entry lapsed.
* **read cache.** A read may store what it loaded before a change deleted the
  entry; a change that fails half-way deletes nothing. Correct means: the stale
  entry does not stay.
* **outbox.** Nothing claims a record, ticks overlap, every update is by id with
  a count read earlier, a process may die between the broker and the table.
  Correct means: what the table calls published was, what was written is
  delivered or a dead letter, nothing that was rolled back appears, and no
  record is retried for ever.
* **event bus.** A consumer handles what it read entry by entry; whatever throws
  ends its poll, and the next poll reads only new entries. Correct means:
  handled once, given up only after the retries, and losses no greater than the
  failures explain.
* **logins, tokens, promotions.** A count or a row is checked, then changed by
  another statement. Correct means: those who overlap pass the check at most
  once each, and each failure costs at most one more.
* **members of an organization.** Who asks, who is a member and how many there
  are is read before the membership or the owner is written, by id; an accepted
  invitation writes memberships from another service. Correct means: an owner
  who is a member stays one and hands over to one, unless another request
  changed the answer in between, and the limit of members is passed only by
  additions that overlap.
* **notifications, workflows, synchronisation.** A background worker selects
  rows that failed, counts a retry and starts again, beside other ticks, manual
  retries and first attempts. Correct means: retries bounded, none forgotten,
  nothing stranded or hidden except by a failure.

`PROJECT.json` lists forty hazards at their lines, with the properties that
guard against them or the reason there is none yet.

## 2. Modules

| Module | Role |
|---|---|
| `InventoryService` | handlers of inventory-service, locks, transactions, failures |
| `RoomLedger` | abstract specification: what the service promises of the counters |
| `MCInventory` | small instances |
| `InventoryProofs`, `InventoryLedgerProofs`, `InventoryCounterProofs` | theorems: counters and locks, reservations and the refinement, sums of rows |
| `BookingService` | handlers of booking-service |
| `RoomRegister` | abstract specification: what it promises of the bookings |
| `MCBooking`, `BookingProofs` | small instances, theorems |
| `PaymentService` | handlers of payment-service and its idempotency store |
| `MCPayment`, `PaymentProofs` | small instances, theorems |
| `Outbox` | producers, relays, broker and dead letters of shared-events |
| `AtLeastOnce` | abstract specification: what a publisher of events promises |
| `EventBus` | one stream and one consumer group of the Redis bus |
| `IdempotencyStore`, `BookingCache` | middleware and read cache of booking-service |
| `RedeemPromotion` | redemption of a promotion with a limited number of uses |
| `LoginUser`, `RefreshTokens` | login with its counter of failures; refresh tokens |
| `Ownership` | owner and members of an organization |
| `MCEdges` | small instances of these eight |
| `EventsProofs` | theorems about `Outbox` and `EventBus` |
| `FrontProofs` | theorems about the others, except `BookingCache` |
| `NotificationService`, `WorkflowService`, `OtaService` | the three workers |
| `MCWorkers` | small instances of them |
| `WorkerProofs` | theorems about the three workers |

The components share no module: each reads and writes the tables the others do
not, except that booking-service writes the inventory table on its own account.
`BookingService` therefore has its own copy of the counters, with the updates
its repository makes.

Definitions named after a mutation (`FitsIgnoringBlocked`, `AcquireNoNX`, ...)
stand before the definition they alter, carry a comment that starts with
`MUTANT`, and are not used by the specification: each says how a plausible bug
would look, and replacing the real definition by it makes TLC find the property
it is paired with violated.

### How the state corresponds to the code

`InventoryService`. `total`, `reserved`, `blocked`, `active` and `blocks` are the
columns and rows of one room type, `released` the units of its rows that have
ended, `ended` how many block records have; a night is its position in the calendar and
the string order of the lock keys is the order of the nights. `lock[d]` is the
request whose token is under the key of night `d`; `held`, `todo`, `tx`, `snap`
are local variables of the handler: `acquired`, the rest of the current loop,
the rows its open transaction has locked, and what a release read; `row` is the
row a release updates next, `oldest` the records an unblock has found. `pc` is
the await it stands at.

| Code | Actions |
|---|---|
| `DistributedLockService.withMultipleLocks` | `Acquire`, `AcquireRefused`, `AcquireReplyLost`, `Unlock`, `Expire` |
| `ReserveInventory` | `Validate`, then `TxRead`, `TxWrite` per night, `Commit` |
| `BlockInventory` | `BlockFind`, `BlockIncrement`, `BlockRecord` per night |
| `UnblockInventory` | `UnblockRead`, `UnblockDecrement`, `UnblockFind`, `UnblockDeactivate` per night |
| `ReleaseInventory` | `ReleaseCount`, `ReleaseSelect`, `ReleaseUpdate` per row, in any order, `ReleaseCommit` |
| exceptions, death of a replica | `DatabaseError`, `Crash` |

`BookingService`. `status` and `roomStatus` are columns; `rows`, `total`,
`reserved` the inventory table, `total` being what is left after blocks; `slots`
are the room nights whose check, increment or decrement is still to come.

| Code | Actions |
|---|---|
| room locks of `CreateBooking`, one attempt each | `Acquire`, `LockConflict`, `LockError`, `Unlock`, `Expire` |
| `executeWithLocks` | `CheckOverlap`, `CheckAvailability`, `Save` |
| increments after the answer | `ReserveNight`, `ReserveError` |
| `CancelBooking`, `CheckIn`, `CheckOut` | `Read`, `WriteStatus`, `WriteRooms`, `WriteAudit`, `ReleaseNight` |
| exceptions, death of a replica | `DatabaseError`, `Crash` |

`PaymentService`. `refunded` is the sum of a payment's refund rows, `credits` and
`debits` its ledger entries, `idem` the idempotency store, `known` the local
`alreadyRefunded`, `made` the requests that have inserted their row.

| Code | Actions |
|---|---|
| idempotency middleware, webhook key | `Check`, `Claim`, `ClaimError`, `Store`, `ExpireKey` |
| `withLock` | `Acquire`, `LockTaken`, `LockError`, `Unlock`, `Expire` |
| use cases and webhook handler | `Read`, `Total`, `CreatePayment`, `CreateRefund`, `UpdateStatus`, `AddAuditEntry`, `Record`, `Invalidate` |
| exceptions, death of a replica | `StepError`, `Crash` |

`Outbox`. `status`, `retryCount` are columns, `due` says for which records
`nextRetryAt` has come, `sent` and `dead` are what the broker has; `batch` is
what a worker read, with the counts it saw.

| Code | Actions |
|---|---|
| `publishWithOutbox`, `publishWithOutboxTx` | `Create`, `CreateThrows`; the first goes on as a worker with one record |
| `processPendingBatch` | `FindPending`, then per record `Publish`, `MarkPublished` |
| its catch block, `dlq.ts` | `PublishThrows`, `MarkThrows`, `MarkRetry`, `MarkFailed`, `PublishToDLQ` |
| back-off, death of a process | `BackedOff`, `WorkerDies` |

`EventBus`. `delivered` is the group's position, `pending` its pending entries
list by consumer, `fetched` the rest of a poll, `attempt` the loop variable;
`handled` and `tried` count calls of the handler.

| Code | Actions |
|---|---|
| `publish`, `subscribe` | `PublishEntry`, `Subscribe` |
| `pollOnce` | `Read`, `ReadThrows`, `Check`, `HandlerReturns`, `HandlerThrows`, `Ack`, `RecordProcessed` |
| retries exhausted | `PushDeadLetter`, `GiveUp` |
| a throw out of the poll, death | `PollThrows`, `ConsumerDies` |

The small machines follow their handlers call by call: `IdempotencyStore`
(`GetKey`, `MarkProcessing`, `Handle`, `StoreResponse`), `BookingCache`
(`GetMiss`, `Load`, `SetEntry`; `Change`, `Invalidate`), `RedeemPromotion`
(`FindPromotion`, `Redeem`, `IncrementUsedCount`), `LoginUser` (`CheckBlocked`,
`Verify`, `RecordFailure`, `ClearFailures`, `UpdateLastLogin`), `RefreshTokens`
(`MatchToken`, `Revoke`, `IssuePair`), `Ownership` (`FounderJoins`; `Begin`,
`CountMembers`, `CheckMember`, then `AddMember`, `RemoveMember` or `SetOwner`;
`AcceptInvite`), each with an action for expiry and one for
calls that throw, before or after their effect, and processes that die.

| Worker | Code | Actions |
|---|---|---|
| `NotificationService` | `SendNotification` | `CreateNotice`, then the delivery |
| | `findFailedForRetry`, `RetryNotification` | `SelectFailed`, `CallRetry`, `IncrementRetry` |
| | delivery | `Enqueue`, `SendNotice`, `Settle`, `UpdateThrowsInTry`, `UpdateThrowsInCatch` |
| `WorkflowService` | `WorkflowEngine.trigger` | `LookUpKey`, `CreateExecution`, `Remember` |
| | `runExecution` | `Lock`, `Start`, `StepSucceeds`, `StepFails`, `Finish`, `RunThrows` |
| | `WorkflowRetryWorker`, `RetryWorkflow` | `SelectRetries`, `Increment`, `Retrigger` |
| `OtaService` | `SyncReservations.execute` | `FindJob`, `CreateJob`, `RememberJob` |
| | `executeReservationSync` | `AcquireOta`, `StartSync`, `Pull`, per reservation `FindStored`, `MarkReservation`, `InsertReservation`, `AppendReceived`, then `FinishSync`, `UnlockOta`, `FailSync` |
| | `SyncProcessor` | `SelectJobs`, `RetryJob` |

### Assumptions the properties need

They are constants or named operators, so that each property is stated with the
ones it needs, and runs exist on both sides of most.

* `HoldersTimely`: a critical section (and, for payments, a request with a key)
  ends before its TTL (30 s, 15–20 s and 60 s). The code has no fencing, so
  mutual exclusion cannot be had without it; `inventory_expiry` runs without it.
  What a handler that stalls beyond its TTL may overbook is therefore not
  bounded by any property. Keys that dead replicas or lost replies left
  behind expire in every run. The edges and workers never assume it: their
  entries and locks lapse at any time, and the properties count the lapses.
* `HintsAgree`: callers that pass `totalRoomsHint` for a night name the same
  number, and no existing row is above it. A lower hint would shrink the hotel
  under its reservations, which no lock prevents.
* `OneRequestPerRef`: a booking reference is reserved once and released once.
  Only `ReservationsAllOrNothing` and `ImplementsLedger` need it; nothing in the
  code enforces it, and `ReservedFollowsRows` says what the counter is when
  references are used by any number of requests.
* `RowsThere`: the bookings there are at the start have inventory rows for all
  their room nights, as they have if the service created them. A cancellation
  finds nothing to decrement otherwise, and a later creation inserts the row with
  its own rooms only. The run that needs it, `booking_reliable`, starts with one
  booking, of a night with a row (`RowOfTonight` in `MCBooking`).
* `OneAtATime`: callers change one booking one at a time. The code does not see
  to it; `booking_stale` shows what happens otherwise.
* `MayFail`: Redis, database and replicas may fail.
* `MaxFaults <= MAX_RETRIES`: no record of the outbox meets more failures than
  it has retries. Beyond it a record can be given up and its dead letter fail
  as well, and then it is lost (§5).

* `LastReservation >= 1`, in `OtaService`: the channel has a reservation to pull.
  With none there is nothing a synchronisation could miss.

The failures of edges and workers are counted against a bound (`MaxFaults`,
`MaxBusFaults`, ...), so that a property can say what a failure may cost. The
theorems hold for every value of those bounds.

`BookingAssumption`, `InventoryAssumption`, `PaymentAssumption` and their like in
every module state what the types of the constants are, and what the code
guarantees about workloads (the request schemas: ranges are ascending,
quantities positive; ids of new rows are fresh).

## 3. Runs

| Run | States | Question |
|---|---|---|
| `inventory_timely` | 544,849 | Do the locks exclude, is no night overbooked, is a reservation all or nothing, do block records stay within the counter unless an unblock was cut short, is the ledger implemented? |
| `inventory_expiry` | 104,690 | When locks expire under live holders and several requests use one reference: is `reserved` the rows ever written less what the releases had read, does every ring of row locks have a release in it, does no `finally` delete a foreign key, is every request answered? |
| `booking_timely` | 2,271,730 | With every failure: is no room sold twice, is the register implemented? |
| `booking_reliable` | 422,400 | Without failures: do counters end equal to bookings, do colliding creations leave a winner, is every room key given back by its holder? |
| `payment_timely` | 1,159,759 | Are refunds within the amount, statuses and ledger true, keys used once, is every request answered although locks may stay taken? |
| `edges` | 1,486,692 | Do outbox and bus lose nothing but to counted failures and settle; is a check passed at most by those who overlap it; does nothing stale stay in the cache; does only an overtaken request cost an organization the membership of its owner? |
| `workers` | 1,383,315 | Are sends, retries and losses within the overlaps and failures there were; does what can be retried come around, and a workflow complete? |
| `booking_stale` | violation | A cancelled booking is checked in. |
| `booking_oversold` | violation | One booking of two rooms of a type passes when one is left. |
| `payment_retry` | violation | One key refunds twice when the first attempt failed after its insert. |
| `payment_cancel` | violation | A confirmation that ended is overwritten by a cancellation. |
| `notification_starved` | violation | A failed notification with retries left is never selected, behind one without. |

### One run for several machines

`MCEdges` and `MCWorkers` put machines that share no variable side by side. The
variable `focus` is chosen at the start and says which of them the behaviour is
about; the others rest in their initial state. An interleaving of independent
machines has the properties its parts have, so nothing is lost, and the states
add up instead of multiplying. `focus` is a conjunct of every step and of every
fairness condition, so a machine that is not in focus owes nothing; its
properties hold trivially there, and are decided where it is in focus.

### Bounds, and why they are enough

* **Requests: three** in the safety runs. The hazards are races between a check
  and a write, which take two requests, and one more to profit from the outcome
  (a third that takes what an expired lock set free, a retry, a webhook). The
  runs with liveness properties have three without symmetry, which would be
  unsound there.
* **Two nights and two rooms**: an order between keys, ranges that overlap in
  one night only, a first night done and a second one that fails. One of the
  rows does not exist at the start of `inventory_timely` and the booking runs,
  so that the upserts create it. Two units a night and quantities 1 to 3: what
  fits alone and not together, and what never fits.
* **Workloads**: each run of a core starts from every assignment of its jobs to
  its requests, which covers all mixes of operations; the violation runs use the
  few jobs that their story needs.
* **Bookings**: one present and two to come, so that creations collide with the
  past and with each other and a request can cancel what another is creating; a
  stay is of one room or both, of one night or both, so that a creation meets
  another one at its first key, at its second, or only in the overlap query.
* **Row locks** (`inventory_expiry`): a reservation of two nights, a release of
  its reference, which takes the same two rows in either order, and a third
  request of every kind: enough for a ring of two or three.
* **Payments**: one present, pending or collected, of 3 units, with refunds of
  1, 2 and 4; three initiations under one key; one id of the gateway. Requests
  differ in nothing but their jobs, so each choice of three jobs is taken in one
  order (`Ascending`); initiations are not mixed with requests on another payment,
  with which they share neither rows nor keys; `voided` and `cancelled` do what
  `failed` does.
* **Outbox**: a producer that publishes at once and one inside its transaction,
  two ticks at work at one time, batches of one record, three retries and three
  failures (`MaxFaults`): exactly enough to exhaust the retries of one record
  while another tick holds it with an old count.
* **Event bus**: three entries, polls of two, two consumers, two tries, one
  failure (`MaxBusFaults`): a poll that fails on its first entry and leaves the
  second, while the other consumer reads on.
* **Idempotency**: four attempts, two lapses (`MaxLapses`) and two errors.
  **Cache**: two reads, three changes, two errors (`MaxCacheFaults`).
  **Promotion**: three redeemers at work, a limit that changes between one use
  and two, two lost increments (`MaxLost`). **Logins**: three at work, two attempts allowed, two resets
  (`MaxResets`), two errors. **Tokens**: two refreshes and a logout, two
  sessions (`MaxSessions`), four tokens (`MaxTokens`) of which the newest two are
  accepted, one expiry (`MaxExpiries`), one error: a fork of the second session
  crowds the first one out. Each lets everyone overlap everyone once, and once more after a
  failure.
* **Ownership**: four users, so that an old owner, a new one, one who is added
  and one who is invited are different; two requests that come again, three
  writes (`MaxMemberWrites`): what one reads is changed by two writes of the
  other, say an addition and a transfer, before it writes. A limit of one member,
  one invitation (`MaxInvitations`).
* **Notifications**: two, a tick and a manual retry, two retries each; the
  selection takes one row (`limit`), so that its order and its limit decide who
  is retried. `notification_starved` has one retry each and no faults.
  **Workflows**: two triggers with one key, a tick and
  a request that retry, two failing steps, seven executions (`MaxExecutions`),
  which is more than these can create. **Synchronisation**: two requests with
  one range of dates and one with another, two reservations, a retry tick with
  one retry. One failure each.

Requests of the cores are finitely many and each ends, so no counter there needs
a cap. This is why bookings and payments say `CHECK_DEADLOCK FALSE` (when all
requests are answered the system stops), while `InventoryService` has a
`Finished` step instead, and TLC checks that nothing else stops. The edges and
workers also stop, when all is published, handled and retried and the bounds
are used up; what must not stop before is what their liveness properties say.

### Fairness

Weak fairness of the ordinary steps of each request (`Step(r)`, `Handle(r)`), of
the outbox's workers, of reads and changes of the cache, of senders, triggers,
executions and retriers: Node.js runs every continuation that is ready, timers
fire, Redis and PostgreSQL answer or the client library throws. Weak fairness of
`Expire` in inventory and of `EntryExpires`: Redis removes keys after their TTL;
and of `BackedOff`: the time of the next retry comes. No fairness is assumed of any
failure, of the arrival of requests, nor that a change of a booking is made. In
inventory and payment runs a lock that is taken is met by a bounded number of
attempts and then an error, so nobody waits for ever on a key; the number is
abstracted to "some". In bookings a lock is tried once. The waits that remain are
for row locks in inventory. Requests that visit their nights in order never form
a ring (`OnlyReleasesDeadlock`), but a release can close one, and then PostgreSQL
aborts one of its transactions after `deadlock_timeout`, always on by default:
`Fairness` owes this one failure and no other. (Prisma would also end an
interactive transaction after its 5 s; the model does not count on it.)
`booking_reliable` assumes nothing of `Expire`: its property is about the handlers
giving keys back themselves. `payment_timely` owes no expiry either: requests are
answered although locks of dead holders stay for ever. The event bus,
logins, tokens, promotions, idempotency keys, synchronisations and memberships
have safety properties only and assume no fairness.

## 4. Theorems

All are proved for every value of the constants that satisfies the module's
assumption; those with hypotheses state them.

| Theorem | Property | Hypotheses |
|---|---|---|
| `InventoryProofs!TypeCorrect` | `TypeOK` | – |
| `InventoryProofs!Exclusion` | `ExclusiveNights` | `HoldersTimely` |
| `InventoryProofs!Overbooking` | `NoOverbooking` | `HoldersTimely`, `HintsAgree` |
| `InventoryLedgerProofs!AllOrNothing` | `ReservationsAllOrNothing` | `OneRequestPerRef` |
| `InventoryLedgerProofs!Refinement` | `ImplementsLedger` | all three |
| `InventoryLedgerProofs!TokenChecked` | `NoForeignUnlock` | – |
| `InventoryCounterProofs!ReservedCounts` | `ReservedFollowsRows` | finitely many references and requests |
| `InventoryCounterProofs!RowsInOrder` | `OnlyReleasesDeadlock` | – |
| `InventoryCounterProofs!RecordsCovered` | `BlockRecordsCovered` | `HoldersTimely` |
| `BookingProofs!TypeCorrect` | `TypeOK` | – |
| `BookingProofs!NoDouble` | `NoDoubleBooking` | `HoldersTimely`, `OneAtATime` |
| `BookingProofs!Registered` | `ImplementsRegister` | both |
| `BookingProofs!WinnerRemains` | `ConflictHasWinner` | `~MayFail` |
| `BookingProofs!CountersFollow` | `InventoryFollows` | `OneAtATime`, `RowsThere`, `~MayFail` |
| `PaymentProofs!TypeCorrect` | `TypeOK` | – |
| `PaymentProofs!RefundStatusIsTrue` | `RefundStatusTrue` | – |
| `PaymentProofs!RefundsAreCovered` | `RefundsCovered` | `HoldersTimely` |
| `PaymentProofs!LedgerIsBacked` | `LedgerBacked` | `HoldersTimely` |
| `PaymentProofs!OncePerIdempotencyKey` | `OncePerKey` | `HoldersTimely` |
| `EventsProofs!OutboxWellTyped` | `OutboxTypeOK` | – |
| `EventsProofs!OutboxLosesNothing` | `NothingLost` | `MaxFaults <= MAX_RETRIES` |
| `EventsProofs!OutboxKeepsPromise` | the safety part of `OutboxImplementsPromise` | – |
| `EventsProofs!EntriesAreHandledOnce` | `HandledOnce` | – |
| `EventsProofs!LossesAreBounded` | `LossBounded` | – |
| `FrontProofs!RedemptionsAreBounded` | `RedemptionsBounded` | – |
| `FrontProofs!HandlerRunsAreBounded` | `HandlerRunsBounded` | – |
| `FrontProofs!MembershipIsKept` | `MembershipKept` | – |
| `FrontProofs!AttemptsAreBounded` | `AttemptsBounded` | – |
| `FrontProofs!RotationIsBounded` | `RotationBounded` | – |
| `WorkerProofs!RetriedAtMostOnceEach` | `RetriedOnceEach` | – |
| `WorkerProofs!ImportsAreCovered` | `ImportsCovered` | – |
| `WorkerProofs!SendsAreBounded` | `SendsBounded` | – |

The type invariants of the cores are proved and no longer checked by a run of
their own.

### The inductive invariants

None of the properties is inductive by itself: each speaks of the tables, while
what keeps it true is what the handlers know in the middle of their work.

* **Inventory.** `TypeInv` adds to `TypeOK` that a release never stands at a
  locked step. `LockInv`: a live handler owns the keys in `acquired` (`Owned`),
  its loop stays in its range, the acquiring loop holds what it passed, and in
  the body every night is held (`Covered`), whence `ExclusiveNights`. `FitInv`
  carries the check to the increment: a night that was found to have room still
  has it (`RoomKept`), because those who could take it are excluded and releases
  only give rooms back; `Written` and `Raised` say that the upserts in between
  do not shrink the row; `BlockKept` is the same for unblocking. `RefInv` is
  about the reservation rows: none before the commit, all after it, and a
  release's snapshot is what is there.
* **The ledger.** The refinement mapping is the identity on the columns: the
  linearization points are `Commit`, `BlockIncrement`, `UnblockDecrement` and
  `ReleaseCommit`. `RoomKept` at the commit is the abstract guard of `Reserve`,
  `BlockKept` that of `Unblock`, and `Snapped` makes the decrement of a release
  equal to the rows it ends.
* **Sums of rows.** `CountInv` keeps the counter of a night equal to the units of
  all rows ever written (`EverReserved`: ACTIVE or released) less what finished
  releases had read (`TakenBy`). A commit adds to both sides; a release that
  commits takes off its snapshot and turns rows from ACTIVE to released, which
  leaves their sum alone. What a release has read was written
  (`SnapWritten`), so after its commit no unit it took off is ACTIVE
  (`RowsEnded`). Nothing here depends on how many requests share a reference,
  nor on any lock.
* **Row locks.** `RowInv`: no two open transactions have written one row
  (`RowsApart`), and a reservation has written no row beyond the nights it has
  still to visit (`RowsBehind`). In a ring without a release, take the member that
  awaits the earliest night: the one it waits for has written that night and
  awaits a later one, or the same, so some other member would await an earlier one.
* **Block records.** `RecordInv` says of the block records what a
  handler knows between counter and record: a block has counted ahead of its
  record, an unblock has checked what it takes off and what the records it
  leaves will claim, before and after it has read which ones it ends
  (`NightCovered`); as no record stands for less than one unit,
  dropping as many records as units leaves the sum covered. The facts about sums
  (that one exists, does not depend on the order, changes by what one term
  changes) are proved in the module itself, by induction over finite sets and
  over lengths; a lemma takes the *set* of the cases that hold where an induction
  theorem would take a predicate.
* **Bookings.** `StatusInv`: the id of a creation at work is unused, at most one
  change of a booking is past its read, what it read still holds (`Decided`),
  and room rows end only after their booking (`RoomsFollow`), which makes the
  overlap query, which filters on both, see every booking that holds rooms.
  `LockInv` is ownership of room keys, `FitInv` says that rooms checked are still
  clear (`Passed`) and no two bookings clash. `Registered` has its linearization
  points at `Save` and `WriteStatus`.
* **Colliding creations.** `WinInv`: keys are taken in the order of the rooms
  (`Ascending`), whoever gave up only gives back (`GivenUp`), and if anybody gave
  up, there is a creation that did not and holds a key beyond all those which the
  ones that gave up still hold, or is past its locks (`Winner`). When one gives
  up, either the owner of the key it met is such a creation, or the one that was
  ahead before still is; at rest the witness has taken all its locks and was never refused by
  one.
* **Counters that follow.** `Follows`: the counter of a row is the number of
  room nights `Counted` for it in *every* state: those of bookings that are kept,
  without the increments that creations still owe (`Owed`), with those that
  cancellations have yet to give back (`Returned`). `OwnerInv` keeps changes of
  a booking away until its creation owes nothing, and makes what is given back
  belong to a cancelled booking; `SlotsInv` says what a request has left to do.
* **Payments.** `Owned` gives exclusion per operation and payment (`Alone`).
  `SumOld` (a refund's `alreadyRefunded` is never above the truth) makes
  `REFUNDED` true even without any lock; `Room` (a refund that passed its check
  still fits) bounds the refunds; `Due` orders ledger after refund row;
  `Credited` says that an open payment has no credit; `Marked`, `Leaving` and
  `Kept` describe the life of an idempotency key.
* **Outbox.** `OutboxInv`: the table and the batches speak of records there are
  (`TableOK`, `BatchOK`, `BrokerOK`); a worker that is about to mark has published
  (`MarkSent`); and every retry was paid for by a failure (`Paid`: a worker in its
  catch block read a count below the failures so far, one that buries a record
  has seen `MAX_RETRIES` of them). So with no more failures than retries
  none is left for the dead letter itself to fail. `sent` and `dead` only grow by
  records there are, which is the safety half of the refinement.
* **Event bus.** `BusInv`: an entry beyond the group's position is untouched
  (`Untouched`), the first entry of a poll has had as many tries as its loop
  variable says (`InHand`), and no other poll holds it. `LossInv` compares what
  is lost or about to be (`Doomed`) with the failures: each of them costs the
  entries of one poll, at most `COUNT`.
* **Promotion.** `RedeemInv`: the counted uses and the requests past their check
  stay below `granted`, the largest `maxUses` so far, plus the number of
  requests, since the last to pass saw the count below a `maxUses`, and none is
  above `granted`.
* **Idempotency.** `IdempotencyInv`: the requests whose handler ran or runs are at
  most the lapses and, while an entry is there or was, one.
* **Logins.** `LoginInv`: in one window the counter and those between check and
  count are at most `maxAttempts - 1` plus the number of requests; the wrong
  passwords are those of past windows, of this one, of those about to count and
  of those whose count failed.
* **Tokens.** `TokenInv`: a token that is not revoked was replaced, or is about
  to be, only as often as a revocation failed; one that is, only by those who
  matched it before; and a revoked token without a successor, or one about to
  come, is paid for by a failure (`CutOff`). The other way a session ends unasked
  is that `findActiveTokens` does not return its valid token: the lemma
  `CrowdedOut` counts these, as those beyond the newest `limit`.
* **Ownership.** `ChecksHold`: what a request found out about the owner and the
  user it is about still holds when it writes, unless it was overtaken, that is
  unless another one removed a member or set the owner while it was at work.
  `PlacesKept`: the members, the additions past their count and the place kept
  for the founder are at most the limit, the requests and the invitations.
* **Workflows.** `WorkflowKnows`: an execution that is FAILED or RETRYING has
  ended its run and never runs again, what a retrier holds has failed, and one
  trigger at most is between the insert and the start of the execution with the
  key. `CountsKept`: the retries counted and the retriers that may still count
  one (`Holding`) are together no more than the retriers there are, and the
  followers and the retriers about to insert one (`Retriggering`) no more than
  the retries counted. `StrandedPaid` goes over the actions: only a throw or a
  death leaves an execution behind, and it leaves one, because a trigger holds
  one execution and a retrier is at work on one, its oldest.
* **Notifications.** `SenderInv`: the count of a notification, together with the
  ticks and calls that hold it and have not raised it yet (`ToCount`), stays
  below `maxRetries` plus the number of all who retry (`CountsBounded`), since
  each found the count below `maxRetries` when it took the notification up, once
  (`SendersKnow`: a batch holds a notification once); and its sends, with
  those on the way (`ToSend`), are at most its retries and the first delivery
  (`SendsCounted`), which no failure or death can undo, as the count is raised
  before.
* **Synchronisation.** `SyncKnows`: a sync that leaves its loop has nothing
  left, and one past an insert has the row. `HiddenFailed`: a reservation that is in no
  table and being inserted by nobody, but carries a mark or was passed by a sync
  that ended with SUCCESS, was counted as failed by some sync, or a sync died at
  it; and what has failed so stays (`FailedStays`). A lapse makes none of these,
  since a mark is only removed by it.

### Model-checked only

Liveness is out of the prover's reach: `Answered`, `KeysGivenBack`, `OutboxSettles`,
the liveness half of `OutboxImplementsPromise`, `StaleEntriesGo`,
`RetriesComeAround`, `WorkflowCompletes`. Every safety property that a passing
run checks is the statement of a theorem.

What an operator of the libraries computes by recursion is not proved unless it
is named here: the sums of `SumFunction` are. The selection of a retry tick is
therefore written as the set of the positions it takes and a row that goes
through them in ascending order, not as a filter of the sequence.

## 5. Where code and documents disagree

Shown by a run:

1. `booking_stale`: statuses are written by id alone (`CheckIn.ts:22`), so
   `CANCELLED` can become `CHECKED_IN`, against the lifecycle of
   `README.md:101-102`.
2. `booking_oversold`: availability is asked for one unit per room
   (`CreateBooking.ts:74`), against "overbooking rate: 0"
   (`SERVICE-OWNERSHIP.md:118`).
3. `payment_retry`: the store removes the key when the handler fails
   (`middleware/idempotency.ts:58`), though its refund row may be there, against
   the idempotency promised in the repository's README.
4. `payment_cancel`: confirm and cancel lock different names and check a status
   read earlier (`CancelPayment.ts:25`).
5. `notification_starved`: `findFailedForRetry` takes `limit` FAILED rows and drops
   those out of retries afterwards (`PrismaNotificationRepository.ts:107-116`);
   these are never updated again, stay in front and keep all others from being
   retried, although the worker is documented to re-process every FAILED one with
   retries left (`agents/notification-workflow-agent/GEMINI.md:12,50`).
   `RetriesComeAround`, which holds, excuses exactly this case: `limit` rows
   without retries *ahead* of the one that waits.

Observed while modelling; the properties are stated so that they allow for it,
as the assumption or bound they name:

* The re-check in `reserveDateRange` reads rows it has not locked when no hint is
  sent, so it is no "defense in depth" once a lock has expired
  (`PrismaInventoryRepository.ts:128`, comment at 118). `NoOverbooking` assumes
  `HoldersTimely`.
* A release decrements by what it read outside its transaction
  (`PrismaInventoryReservationRepository.ts:48`); two concurrent releases of one
  reference both do, and the counter falls below the ACTIVE rows.
  `ReservedFollowsRows` says by how much. A release also updates its rows in the
  order of a query without `orderBy` (line 56), so it and a reservation may
  deadlock until PostgreSQL aborts one; `OnlyReleasesDeadlock` says that nothing
  else can.
* `ARCHITECTURE.md:134` speaks of at-least-once delivery by consumer groups, but
  `pollOnce` reads only new entries: what a consumer that died, or a poll that
  threw, had been given is not read again. `LossBounded` says how much that is.
  Because each entry goes to one consumer once, and the processed set belongs to
  one group, the check of that set never finds anything.
* A record of the outbox whose retries are exhausted is marked FAILED before its
  dead letter is published, and an error of that is swallowed (`outbox.ts:344-356`):
  it is then neither delivered nor a dead letter. `MarkRetry` of a slow worker
  can also turn a PUBLISHED record PENDING again; it is delivered twice.
* A scheduled notification is delivered by nobody, and the deduplication mark
  only changes a log line.
* A synchronisation job that is RETRYING is executed by nobody, and a completed
  job keeps its key, so that the same range of dates is refused by the unique
  index instead of being synchronised again (`SyncReservations.ts:60-66`).
* A retried workflow is a new execution whose own count starts at zero, so the
  limit of three never ends a chain of retries.
* `AddMember` calls `create` for a former member too, whose row is still there
  and unique (`AddMember.ts:51-64`), so the conflict check that asks for an
  active membership lets through what the database refuses: a removed member
  comes back by invitation only.
* `AcceptInvite` and the founder are not held to the limit of members, and
  `setOwner` leaves the `isOwner` of both memberships as it was. If the founder's
  membership cannot be stored, the organization keeps an owner who is no member,
  as its creation is two writes (`CreateOrganization.ts:45-62`); `MembershipKept`
  speaks of an owner who is one.

## 6. Abstractions

* One room type (inventory), one hotel (bookings); tenant checks appear only
  where they change control (`own` of a release).
* A `COMMIT` either happens or throws; a commit whose acknowledgment is lost is
  not told apart from a crash after it.
* A release updates one row per night of its reference: rows of one reference and
  night are summed up. The row locks of its closing `updateMany` are left out:
  only releases of the same reference take them, and two of those meet at the
  row of a night first.
* The loops over the rooms of a booking are taken in any order where the code's
  order is that of the query result.
* Events of the cores are fire-and-forget: publishing never changes an outcome.
  Audit texts, the refund due under a cancellation policy, notes and currencies
  are left out; `PENDING` and `NO_SHOW` are never set by these handlers but are
  handled.
* All payments have one amount, in cents. Stored answers do not expire: retries
  come within their 24 h. `unstored` is a ghost outcome, for an answer that
  was sent and could not be stored. Webhooks of other types only add an audit
  entry.
* A booking's `roomTypeId` is taken to be the type of its room, and
  `blockedInventory` is part of the booking module's `total`.
* One key, account and address, user, promotion, cached booking, hotel and
  provider: nothing relates two of them in the code modelled. The content of the
  cached booking is the number of changes made to it.
* Outbox: the broker either has a message or not; topics, keys and partitions
  are left out, as is the copy of a dead letter on the legacy topic. Every
  failure of broker, table or process counts the same.
* Event bus: entries are well formed (one that cannot be decoded fails every try
  and its dead letter too, and is acknowledged); one group; the length limit of the stream is not
  reached.
* Workflows have one step; each execution is run only by the process that
  created it, so its lock is always free and only the error of taking it
  matters. Notifications have one channel.
* Tokens are compared by identity, not by hash; access tokens and the session
  cache are left out.
* Ownership: one organization. A request names its sender's and its subject's
  rows; nothing else of a membership is kept. Requests that are refused, throw or
  die all end without a write. Registration and the states of accounts that let
  an invitation be accepted are left out: any user may accept one.
* Where a bound on failures is part of a property, one failing call is one
  failure; a process that dies is one failure for each of its activities.

## 7. Not modelled, and why

Analytics and revenue management compute statistics with floating-point
heuristics that nothing depends on. The gateway routes and checks permissions
without state. Shared packages other than events hold no changing state.
Configuration, secrets and metrics are wrappers of one call each. Kubernetes,
Helm and monitoring files are data. `platform-validation` is a test harness. The
Next.js application under `src/` of the repository, by far its largest part, is
the console (React pages) together with the earlier monolith, whose operations
the services have taken over.

Of the components that are modelled in part: `SyncInventory` and `SyncRates` push
what they read and keep nothing but a job row; the import of single
reservations, the connections and the provider adapters are left out.
Workflow definitions, the scheduler and the event consumers only call what is
modelled. Registration, invitations, roles and sessions of auth-service, and
rate plans, seasons, rules and restrictions of pricing are single-row writes;
the price arithmetic is floating point.

Night audit, folios and invoices are single-row updates next to the payment
core. Guests and the descriptive columns of an organization are single-row
writes as well. Hotel and service discovery are in the plan.
`PROJECT.json` gives the reason for each component.

## 8. Plan

What has been done of it: outbox, event bus, idempotency middleware and read
cache, the three workers, promotions, logins and refresh tokens, ownership, and
proofs of the safety properties of all of them (§4). What
is left:

1. Service discovery: a heartbeat that overlaps a deregistration brings the
   instance back for one TTL (`registry.ts:77`).
2. hotel-service: tables of transitions of rooms and housekeeping tasks, each
   applied to a status read earlier.
3. Folios and the night audit; the pushes of ota-service.
4. Composition of booking and inventory writes on one table, with a
   `RoomLedger` for both.
