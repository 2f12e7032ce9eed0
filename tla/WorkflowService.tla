-------------------------- MODULE WorkflowService --------------------------
(***************************************************************************)
(* workflow-service: WorkflowEngine.trigger stores an execution, at most   *)
(* one for an idempotency key, and runs it after its answer.               *)
(* WorkflowRetryWorker and RetryWorkflow mark a FAILED execution RETRYING  *)
(* and trigger a new one, without a key and with a count of retries of its *)
(* own.                                                                    *)
(*                                                                         *)
(* The triggers modelled share one key.  Executions are numbered; each id  *)
(* is run by the one process that created it, so that the execution lock   *)
(* is always free and only the error of taking it is modelled.             *)
(***************************************************************************)
EXTENDS Integers, FiniteSets

CONSTANTS
    Trigger,            \* requests with the key
    RetryTick,          \* ticks of all retry workers that may run at one time
    RetryRequest,       \* calls of RetryWorkflow
    MaxExecutions,      \* bound
    MaxStepFailures,    \* bound: steps that fail
    MaxWorkflowFaults   \* bound: errors of the database or Redis, deaths of processes

ASSUME WorkflowAssumption ==
    /\ IsFiniteSet(Trigger) /\ IsFiniteSet(RetryTick) /\ IsFiniteSet(RetryRequest)
    /\ Trigger \cap (RetryTick \cup RetryRequest) = {} /\ RetryTick \cap RetryRequest = {}
    /\ MaxExecutions \in Nat /\ MaxStepFailures \in Nat /\ MaxWorkflowFaults \in Nat

Execution == 1 .. MaxExecutions
Retrier == RetryTick \cup RetryRequest

VARIABLES
    executions,        \* the executions there are: 1 .. executions
    executionStatus,   \* [Execution -> status]
    executionRetries,  \* [Execution -> Nat]  retryCount
    parent,            \* [Execution -> the execution it retries, 0 if none]
    keyed,             \* the execution that has the key, 0 if none
    cachedResult,      \* what Redis has for the key, 0 if nothing
    runAt,             \* [Execution -> where its runExecution is]
    engineAt,          \* where each trigger and each retrier is
    toRetry,           \* [Retrier -> SUBSET Execution]  what it selected and has not dealt with
    stepFailures, workflowFaults

executionTable == <<executions, executionStatus, executionRetries, parent, keyed>>
workflowVars ==
    <<executionTable, cachedResult, runAt, engineAt, toRetry, stepFailures, workflowFaults>>

RunStop == {"none", "lock", "start", "step", "complete", "fail", "done"}
EngineStop == {"cache", "find", "create", "remember", "select", "increment", "retrigger", "done"}

WorkflowInit ==
    /\ executions = 0 /\ keyed = 0 /\ cachedResult = 0
    /\ executionStatus = [e \in Execution |-> "PENDING"]
    /\ executionRetries = [e \in Execution |-> 0]
    /\ parent = [e \in Execution |-> 0]
    /\ runAt = [e \in Execution |-> "none"]
    /\ engineAt = [a \in Trigger \cup Retrier |-> IF a \in Trigger THEN "cache" ELSE "select"]
    /\ toRetry = [r \in Retrier |-> {}]
    /\ stepFailures = 0 /\ workflowFaults = 0

-----------------------------------------------------------------------------
EngineTo(a, stop) == engineAt' = [engineAt EXCEPT ![a] = stop]
RunTo(e, stop) == runAt' = [runAt EXCEPT ![e] = stop]
WorkflowFault == workflowFaults < MaxWorkflowFaults /\ workflowFaults' = workflowFaults + 1
NoWorkflowFault == UNCHANGED <<stepFailures, workflowFaults>>

(* create: a new row in PENDING. *)
Insert(from) ==
    /\ executions < MaxExecutions
    /\ executions' = executions + 1
    /\ parent' = [parent EXCEPT ![executions'] = from]
    /\ UNCHANGED <<executionStatus, executionRetries>>

(* trigger: getIdempotencyResult and findByIdempotencyKey; a row still PENDING is no hit. *)
LookUpKey(t) ==
    /\ t \in Trigger
    /\ \/ engineAt[t] = "cache" /\ EngineTo(t, IF cachedResult # 0 THEN "done" ELSE "find")
       \/ /\ engineAt[t] = "find"
          /\ EngineTo(t, IF keyed # 0 /\ executionStatus[keyed] # "PENDING" THEN "done" ELSE "create")
    /\ UNCHANGED <<executionTable, cachedResult, runAt, toRetry>> /\ NoWorkflowFault

(* trigger: create; the key is unique, a second row is refused. *)
CreateExecution(t) ==
    /\ t \in Trigger /\ engineAt[t] = "create"
    /\ IF keyed # 0
       THEN EngineTo(t, "done") /\ UNCHANGED executionTable
       ELSE Insert(0) /\ keyed' = executions' /\ EngineTo(t, "remember")
    /\ UNCHANGED <<cachedResult, runAt, toRetry>> /\ NoWorkflowFault

(* setIdempotencyResult, the answer, and setImmediate. *)
Remember(t) ==
    /\ t \in Trigger /\ engineAt[t] = "remember"
    /\ cachedResult' = keyed
    /\ RunTo(keyed, "lock")
    /\ EngineTo(t, "done")
    /\ UNCHANGED <<executionTable, toRetry>> /\ NoWorkflowFault

(* A trigger throws or dies, with or without the effect of the call it made. *)
TriggerThrows(t) ==
    /\ t \in Trigger /\ engineAt[t] # "done"
    /\ WorkflowFault
    /\ \/ UNCHANGED <<executionTable, cachedResult>>
       \/ /\ engineAt[t] = "create" /\ keyed = 0
          /\ Insert(0) /\ keyed' = executions' /\ UNCHANGED cachedResult
       \/ engineAt[t] = "remember" /\ cachedResult' = keyed /\ UNCHANGED executionTable
    /\ EngineTo(t, "done")
    /\ UNCHANGED <<runAt, toRetry, stepFailures>>

ResultExpires ==
    /\ cachedResult # 0
    /\ cachedResult' = 0
    /\ UNCHANGED <<executionTable, runAt, engineAt, toRetry>> /\ NoWorkflowFault

SetStatus(e, to) ==
    /\ executionStatus' = [executionStatus EXCEPT ![e] = to]
    /\ UNCHANGED <<executions, executionRetries, parent, keyed>>

Lock(e) ==
    /\ runAt[e] = "lock"
    /\ RunTo(e, "start")
    /\ UNCHANGED <<executionTable, cachedResult, engineAt, toRetry>> /\ NoWorkflowFault

Start(e) ==
    /\ runAt[e] = "start"
    /\ SetStatus(e, "RUNNING")
    /\ RunTo(e, "step")
    /\ UNCHANGED <<cachedResult, engineAt, toRetry>> /\ NoWorkflowFault

StepSucceeds(e) ==
    /\ runAt[e] = "step"
    /\ RunTo(e, "complete")
    /\ UNCHANGED <<executionTable, cachedResult, engineAt, toRetry>> /\ NoWorkflowFault

StepFails(e) ==
    /\ runAt[e] = "step"
    /\ stepFailures < MaxStepFailures /\ stepFailures' = stepFailures + 1
    /\ RunTo(e, "fail")
    /\ UNCHANGED <<executionTable, cachedResult, engineAt, toRetry, workflowFaults>>

Finish(e) ==
    /\ \/ runAt[e] = "complete" /\ SetStatus(e, "COMPLETED")
       \/ runAt[e] = "fail" /\ SetStatus(e, "FAILED")
    /\ RunTo(e, "done")
    /\ UNCHANGED <<cachedResult, engineAt, toRetry>> /\ NoWorkflowFault

(* The lock, or an update of the status, throws, after it took effect or before. *)
RunThrows(e) ==
    /\ WorkflowFault
    /\ \/ runAt[e] = "lock" /\ RunTo(e, "done") /\ UNCHANGED executionTable
       \/ /\ runAt[e] = "start" /\ RunTo(e, "fail")
          /\ SetStatus(e, "RUNNING") \/ UNCHANGED executionTable
       \/ /\ runAt[e] = "complete" /\ RunTo(e, "fail")
          /\ SetStatus(e, "COMPLETED") \/ UNCHANGED executionTable
       \/ /\ runAt[e] = "fail" /\ RunTo(e, "done")
          /\ SetStatus(e, "FAILED") \/ UNCHANGED executionTable
    /\ UNCHANGED <<cachedResult, engineAt, toRetry, stepFailures>>

RunDies(e) ==
    /\ runAt[e] \notin {"none", "done"}
    /\ WorkflowFault
    /\ RunTo(e, "done")
    /\ UNCHANGED <<executionTable, cachedResult, engineAt, toRetry, stepFailures>>

-----------------------------------------------------------------------------
(* MUTANT: only executions that were retried before are retried. *)
PendingRetriesAgain ==
    {e \in 1 .. executions : executionStatus[e] = "FAILED" /\ executionRetries[e] \in 1 .. 2}

PendingRetries == {e \in 1 .. executions : executionStatus[e] = "FAILED" /\ executionRetries[e] < 3}

(* findPendingRetries, or findById and canRetry. *)
SelectRetries(r) ==
    /\ r \in Retrier /\ engineAt[r] = "select"
    /\ PendingRetries # {}
    /\ IF r \in RetryTick
       THEN toRetry' = [toRetry EXCEPT ![r] = PendingRetries]
       ELSE \E e \in PendingRetries : toRetry' = [toRetry EXCEPT ![r] = {e}]
    /\ EngineTo(r, "increment")
    /\ UNCHANGED <<executionTable, cachedResult, runAt>> /\ NoWorkflowFault

(* A tick goes on with the next execution, a call is over. *)
NextRetry(r, e) ==
    /\ toRetry' = [toRetry EXCEPT ![r] = @ \ {e}]
    /\ EngineTo(r, IF toRetry[r] # {e} THEN "increment" ELSE IF r \in RetryTick THEN "select" ELSE "done")

Oldest(r, e) == e \in toRetry[r] /\ \A f \in toRetry[r] : e <= f

(* MUTANT: the execution stays FAILED. *)
MarkStillFailed(e) ==
    /\ executionRetries' = [executionRetries EXCEPT ![e] = @ + 1]
    /\ UNCHANGED <<executions, executionStatus, parent, keyed>>

MarkRetrying(e) ==
    /\ executionRetries' = [executionRetries EXCEPT ![e] = @ + 1]
    /\ executionStatus' = [executionStatus EXCEPT ![e] = "RETRYING"]
    /\ UNCHANGED <<executions, parent, keyed>>

Increment(r, e) ==
    /\ engineAt[r] = "increment" /\ Oldest(r, e)
    /\ MarkRetrying(e)
    /\ EngineTo(r, "retrigger")
    /\ UNCHANGED <<cachedResult, runAt, toRetry>> /\ NoWorkflowFault

(* trigger without a key: create, and setImmediate. *)
Retrigger(r, e) ==
    /\ engineAt[r] = "retrigger" /\ Oldest(r, e)
    /\ Insert(e) /\ UNCHANGED keyed
    /\ RunTo(executions', "lock")
    /\ NextRetry(r, e)
    /\ UNCHANGED cachedResult /\ NoWorkflowFault

RetryThrows(r, e) ==
    /\ engineAt[r] \in {"increment", "retrigger"} /\ Oldest(r, e)
    /\ WorkflowFault
    /\ \/ UNCHANGED executionTable
       \/ engineAt[r] = "increment" /\ MarkRetrying(e)
       \/ engineAt[r] = "retrigger" /\ Insert(e) /\ UNCHANGED keyed
    /\ NextRetry(r, e)
    /\ UNCHANGED <<cachedResult, runAt, stepFailures>>

RetrierDies(r) ==
    /\ engineAt[r] \in {"increment", "retrigger"}
    /\ WorkflowFault
    /\ toRetry' = [toRetry EXCEPT ![r] = {}]
    /\ EngineTo(r, IF r \in RetryTick THEN "select" ELSE "done")
    /\ UNCHANGED <<executionTable, cachedResult, runAt, stepFailures>>

TriggerStep(t) == LookUpKey(t) \/ CreateExecution(t) \/ Remember(t)
RunStep(e) == Lock(e) \/ Start(e) \/ StepSucceeds(e) \/ StepFails(e) \/ Finish(e)
RetryStep(r) ==
    \/ r \in RetryTick /\ SelectRetries(r)
    \/ \E e \in toRetry[r] : Increment(r, e) \/ Retrigger(r, e)

WorkflowNext ==
    \/ \E t \in Trigger : TriggerStep(t) \/ TriggerThrows(t)
    \/ ResultExpires
    \/ \E e \in Execution : RunStep(e) \/ RunThrows(e) \/ RunDies(e)
    \/ \E r \in Retrier : \/ RetryStep(r) \/ RetrierDies(r)
                          \/ r \in RetryRequest /\ SelectRetries(r)
                          \/ \E e \in toRetry[r] : RetryThrows(r, e)

(* Timers fire, calls return or throw. *)
WorkflowFairness ==
    /\ \A t \in Trigger : WF_workflowVars(TriggerStep(t))
    /\ \A e \in Execution : WF_workflowVars(RunStep(e))
    /\ \A r \in Retrier : WF_workflowVars(RetryStep(r))
WorkflowSpec == WorkflowInit /\ [][WorkflowNext]_workflowVars /\ WorkflowFairness

-----------------------------------------------------------------------------
(* Properties. *)

WorkflowTypeOK ==
    /\ executions \in 0 .. MaxExecutions
    /\ executionStatus \in
          [Execution -> {"PENDING", "RUNNING", "COMPLETED", "FAILED", "RETRYING"}]
    /\ executionRetries \in [Execution -> Nat]
    /\ parent \in [Execution -> 0 .. MaxExecutions]
    /\ keyed \in 0 .. executions /\ cachedResult \in {0, keyed}
    /\ runAt \in [Execution -> RunStop]
    /\ engineAt \in [Trigger \cup Retrier -> EngineStop]
    /\ toRetry \in [Retrier -> SUBSET (1 .. executions)]
    /\ stepFailures \in 0 .. MaxStepFailures /\ workflowFaults \in 0 .. MaxWorkflowFaults

Followers(e) == {f \in 1 .. executions : parent[f] = e}
BeingTriggered(e) ==
    \/ e = keyed /\ \E t \in Trigger : engineAt[t] = "remember"
    \/ \E r \in Retrier : engineAt[r] = "retrigger" /\ Oldest(r, e)

(* What no process will ever take up again: an execution whose run is over *)
(* before its status says so, or one marked RETRYING without a follower.   *)
Stranded ==
    {e \in 1 .. executions :
        /\ ~BeingTriggered(e)
        /\ \/ executionStatus[e] \in {"PENDING", "RUNNING"} /\ runAt[e] \in {"none", "done"}
           \/ executionStatus[e] = "RETRYING" /\ Followers(e) = {}}

(* Concurrent retriers may each take up one failed execution, but none     *)
(* does so twice; the chain of retries breaks only where a failure breaks  *)
(* it, once for each failure (WorkflowRetryWorker.ts:43-60,                *)
(* RetryWorkflow.ts:32-54).                                                *)
RetriedOnceEach ==
    /\ \A e \in Execution :
          /\ executionRetries[e] <= Cardinality(Retrier)
          /\ Cardinality(Followers(e)) <= executionRetries[e]
    /\ Cardinality(Stranded) <= workflowFaults

(* A workflow that was stored completes in the end, in its own execution   *)
(* or in one that retries it, if its step fails finitely often, although   *)
(* no execution is retried without the one before being given up; unless   *)
(* the chain was broken (WorkflowRetryWorker.ts:46-53).                    *)
WorkflowCompletes ==
    executions > 0 ~>
        (Stranded # {} \/ \E e \in 1 .. executions : executionStatus[e] = "COMPLETED")
=============================================================================
