------------------------------ MODULE EventBus ------------------------------
(***************************************************************************)
(* infrastructure/event-bus, RedisStreamEventBus: one stream and one of    *)
(* its consumer groups.  XREADGROUP with ">" gives every new entry to one  *)
(* consumer of the group, which handles the entries it read one by one,    *)
(* each up to maxRetries times, and then acknowledges it or pushes it on   *)
(* the dead-letter list.  Whatever throws in pollOnce ends the poll: the   *)
(* loop in subscribe goes on with the next one.                            *)
(*                                                                         *)
(* A stream entry is its position, the group the position it has reached.  *)
(* Unsubscribing, which lets the poll at work end, is a consumer that does *)
(* not poll again.                                                         *)
(***************************************************************************)
EXTENDS Integers, FiniteSets

CONSTANTS
    Consumer,        \* consumers of the group, one per replica
    LastEntry,       \* bound: entries ever published
    COUNT,           \* XREADGROUP ... COUNT
    maxRetries,      \* options.maxRetries
    dlqEnabled,      \* options.dlqEnabled
    MaxBusFaults     \* bound: errors of Redis and crashes

ASSUME EventBusAssumption ==
    /\ IsFiniteSet(Consumer)
    /\ LastEntry \in Nat /\ COUNT \in Nat \ {0} /\ maxRetries \in Nat \ {0}
    /\ dlqEnabled \in BOOLEAN
    /\ MaxBusFaults \in Nat

Entry == 1 .. LastEntry

VARIABLES
    published,   \* entries of the stream: 1 .. published
    groupStart,     \* the position at which the group was created, or -1
    delivered,   \* the last position given to the group
    pending,     \* [Consumer -> SUBSET Entry]  delivered and not acknowledged
    processed,   \* the set of processed ids
    deadLetters, \* entries on the dead-letter list
    handled,     \* [Entry -> Nat]  how often the handler returned
    tried,       \* [Entry -> Nat]  how often it was called
    poll,        \* where each consumer's pollOnce is
    fetched,     \* [Consumer -> SUBSET Entry]  what the poll read and has not dealt with
    attempt,     \* [Consumer -> Nat]  the loop variable
    busFaults    \* errors and crashes so far

stream == <<published, groupStart, delivered, pending>>
effects == <<deadLetters, handled, tried>>
busVars == <<stream, processed, effects, poll, fetched, attempt, busFaults>>

PollStop == {"read", "check", "handle", "ack", "record", "push", "give up"}

EventBusInit ==
    /\ published = 0 /\ groupStart = -1 /\ delivered = 0
    /\ pending = [c \in Consumer |-> {}]
    /\ processed = {} /\ deadLetters = {}
    /\ handled = [e \in Entry |-> 0] /\ tried = [e \in Entry |-> 0]
    /\ poll = [c \in Consumer |-> "read"]
    /\ fetched = [c \in Consumer |-> {}]
    /\ attempt = [c \in Consumer |-> 0]
    /\ busFaults = 0

-----------------------------------------------------------------------------
Go(c, stop) == poll' = [poll EXCEPT ![c] = stop]
FirstFetched(c, e) == e \in fetched[c] /\ \A f \in fetched[c] : e <= f
BusFault == busFaults < MaxBusFaults /\ busFaults' = busFaults + 1

(* The loop over the entries goes on, or the poll is over. *)
NextEntry(c, e) ==
    /\ fetched' = [fetched EXCEPT ![c] = @ \ {e}]
    /\ Go(c, IF fetched[c] = {e} THEN "read" ELSE "check")

Acked(c, e) == pending' = [pending EXCEPT ![c] = @ \ {e}]

PublishEntry ==
    /\ published < LastEntry
    /\ published' = published + 1
    /\ UNCHANGED <<groupStart, delivered, pending, processed, effects, poll, fetched, attempt, busFaults>>

(* subscribe: XGROUP CREATE ... $; a group that is there stays as it is. *)
Subscribe ==
    /\ groupStart = -1
    /\ groupStart' = published /\ delivered' = published
    /\ UNCHANGED <<published, pending, processed, effects, poll, fetched, attempt, busFaults>>

Fresh == {e \in Entry : delivered < e /\ e <= published /\ e <= delivered + COUNT}

(* MUTANT: a consumer starts with what it did not acknowledge. *)
ReadPending(c) ==
    /\ poll[c] = "read" /\ pending[c] # {}
    /\ fetched' = [fetched EXCEPT ![c] = pending[c]]
    /\ Go(c, "check")
    /\ UNCHANGED <<stream, processed, effects, attempt, busFaults>>
ReadAgain(c) ==
    \/ ReadPending(c)
    \/ /\ poll[c] = "read" /\ groupStart >= 0 /\ Fresh # {}
       /\ delivered' = delivered + Cardinality(Fresh)
       /\ pending' = [pending EXCEPT ![c] = @ \cup Fresh]
       /\ fetched' = [fetched EXCEPT ![c] = Fresh]
       /\ Go(c, "check")
       /\ UNCHANGED <<published, groupStart, processed, effects, attempt, busFaults>>

(* XREADGROUP ... > *)
Read(c) ==
    /\ poll[c] = "read" /\ groupStart >= 0 /\ Fresh # {}
    /\ delivered' = delivered + Cardinality(Fresh)
    /\ pending' = [pending EXCEPT ![c] = @ \cup Fresh]
    /\ fetched' = [fetched EXCEPT ![c] = Fresh]
    /\ Go(c, "check")
    /\ UNCHANGED <<published, groupStart, processed, effects, attempt, busFaults>>

(* Its reply is lost: Redis has delivered the entries. *)
ReadThrows(c) ==
    /\ poll[c] = "read" /\ groupStart >= 0 /\ Fresh # {}
    /\ BusFault
    /\ delivered' = delivered + Cardinality(Fresh)
    /\ pending' = [pending EXCEPT ![c] = @ \cup Fresh]
    /\ UNCHANGED <<published, groupStart, processed, effects, poll, fetched, attempt>>

(* SISMEMBER; an entry in the set is only acknowledged. *)
Check(c, e) ==
    /\ poll[c] = "check" /\ FirstFetched(c, e)
    /\ IF e \in processed
       THEN Acked(c, e) /\ NextEntry(c, e) /\ UNCHANGED attempt
       ELSE Go(c, "handle") /\ attempt' = [attempt EXCEPT ![c] = 0] /\ UNCHANGED <<pending, fetched>>
    /\ UNCHANGED <<published, groupStart, delivered, processed, effects, busFaults>>

HandlerReturns(c, e) ==
    /\ poll[c] = "handle" /\ FirstFetched(c, e)
    /\ handled' = [handled EXCEPT ![e] = @ + 1]
    /\ tried' = [tried EXCEPT ![e] = @ + 1]
    /\ Go(c, "ack")
    /\ UNCHANGED <<stream, processed, deadLetters, fetched, attempt, busFaults>>

(* MUTANT: the dead-letter list is left out. *)
ExhaustedUnlisted == "give up"

Exhausted == IF dlqEnabled THEN "push" ELSE "give up"

HandlerThrows(c, e) ==
    /\ poll[c] = "handle" /\ FirstFetched(c, e)
    /\ tried' = [tried EXCEPT ![e] = @ + 1]
    /\ attempt' = [attempt EXCEPT ![c] = @ + 1]
    /\ Go(c, IF attempt[c] + 1 < maxRetries THEN "handle" ELSE Exhausted)
    /\ UNCHANGED <<stream, processed, deadLetters, handled, fetched, busFaults>>

(* XACK after success. *)
Ack(c, e) ==
    /\ poll[c] = "ack" /\ FirstFetched(c, e)
    /\ Acked(c, e)
    /\ Go(c, "record")
    /\ UNCHANGED <<published, groupStart, delivered, processed, effects, fetched, attempt, busFaults>>

(* SADD and EXPIRE. *)
RecordProcessed(c, e) ==
    /\ poll[c] = "record" /\ FirstFetched(c, e)
    /\ processed' = processed \cup {e}
    /\ NextEntry(c, e)
    /\ UNCHANGED <<stream, effects, attempt, busFaults>>

(* RPUSH on the dead-letter list; its error is swallowed. *)
PushDeadLetter(c, e) ==
    /\ poll[c] = "push" /\ FirstFetched(c, e)
    /\ \/ deadLetters' = deadLetters \cup {e} /\ UNCHANGED busFaults
       \/ BusFault /\ deadLetters' \in {deadLetters, deadLetters \cup {e}}
    /\ Go(c, "give up")
    /\ UNCHANGED <<stream, processed, handled, tried, fetched, attempt>>

(* XACK of an entry that was not handled. *)
GiveUp(c, e) ==
    /\ poll[c] = "give up" /\ FirstFetched(c, e)
    /\ Acked(c, e)
    /\ NextEntry(c, e)
    /\ UNCHANGED <<published, groupStart, delivered, processed, effects, attempt, busFaults>>

(* SISMEMBER, XACK or SADD throws, after it took effect or before, and     *)
(* pollOnce with it; or the consumer dies.  The next poll reads on.        *)
PollThrows(c, e) ==
    /\ poll[c] \in {"check", "ack", "record", "give up"} /\ FirstFetched(c, e)
    /\ BusFault
    /\ \/ UNCHANGED <<pending, processed>>
       \/ poll[c] \in {"ack", "give up"} /\ Acked(c, e) /\ UNCHANGED processed
       \/ poll[c] = "record" /\ processed' = processed \cup {e} /\ UNCHANGED pending
    /\ fetched' = [fetched EXCEPT ![c] = {}]
    /\ Go(c, "read")
    /\ UNCHANGED <<published, groupStart, delivered, effects, attempt>>

ConsumerDies(c) ==
    /\ poll[c] # "read"
    /\ BusFault
    /\ fetched' = [fetched EXCEPT ![c] = {}]
    /\ Go(c, "read")
    /\ UNCHANGED <<stream, processed, effects, attempt>>

OnEntry(c, e) ==
    \/ Check(c, e)
    \/ HandlerReturns(c, e) \/ HandlerThrows(c, e)
    \/ Ack(c, e) \/ RecordProcessed(c, e)
    \/ PushDeadLetter(c, e) \/ GiveUp(c, e)

EventBusStep(c) == Read(c) \/ \E e \in Entry : OnEntry(c, e)

EventBusNext ==
    \/ PublishEntry \/ Subscribe
    \/ \E c \in Consumer : \/ EventBusStep(c) \/ ReadThrows(c) \/ ConsumerDies(c)
                           \/ \E e \in Entry : PollThrows(c, e)

EventBusSpec == EventBusInit /\ [][EventBusNext]_busVars

-----------------------------------------------------------------------------
(* Properties. *)

EventBusTypeOK ==
    /\ published \in 0 .. LastEntry
    /\ groupStart \in -1 .. published /\ delivered \in 0 .. published
    /\ pending \in [Consumer -> SUBSET Entry]
    /\ processed \subseteq Entry /\ deadLetters \subseteq Entry
    /\ handled \in [Entry -> Nat] /\ tried \in [Entry -> Nat]
    /\ poll \in [Consumer -> PollStop]
    /\ fetched \in [Consumer -> SUBSET Entry]
    /\ attempt \in [Consumer -> 0 .. maxRetries]
    /\ busFaults \in 0 .. MaxBusFaults

(* The entries of the group: those after its creation.                     *)
Accepted == {e \in Entry : groupStart >= 0 /\ groupStart < e /\ e <= published}
Given == {e \in Accepted : e <= delivered}
InWork(e) == \E c \in Consumer : e \in fetched[c]
Successful == {e \in Entry : handled[e] > 0}

(* Each event is processed at most once per group (EVENTS.md:425), by one  *)
(* consumer at a time, however consumers fail; it is given up only after   *)
(* maxRetries calls of the handler, and never after it succeeded           *)
(* (RedisStreamEventBus.ts:225-253).                                       *)
HandledOnce ==
    /\ \A c, d \in Consumer : c # d => fetched[c] \cap fetched[d] = {}
    /\ \A e \in Entry :
          /\ handled[e] <= 1 /\ tried[e] <= maxRetries
          /\ e \in deadLetters => handled[e] = 0 /\ tried[e] = maxRetries

(* The entries that were given to the group and will never be handled nor  *)
(* be dead letters. Each failure costs at most the entries of one poll: a  *)
(* throw abandons the rest of its batch (RedisStreamEventBus.ts:183-188).  *)
Abandoned == {e \in Given \ (Successful \cup deadLetters) : ~InWork(e)}
LossBounded == dlqEnabled => Cardinality(Abandoned) <= busFaults * COUNT
=============================================================================
