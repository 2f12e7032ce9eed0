------------------------------ MODULE MCWorkers ------------------------------
(* Small instances of the services that retry in the background:           *)
(* notifications, workflows and synchronisations with a travel agency.     *)
(* They share no state: a behaviour is about one of them, the others rest  *)
(* where they start.                                                       *)
EXTENDS NotificationService, WorkflowService, OtaService

CONSTANTS s1, s2, s3, k1, k2

(* One range of dates that is synchronised once and one that is twice. *)
MCKeyOf == [s \in Sync |-> IF s = s1 THEN k1 ELSE k2]

VARIABLE focus
workersVars == <<noticeVars, workflowVars, otaVars, focus>>

WorkersInit ==
    /\ NotificationInit /\ WorkflowInit /\ OtaInit
    /\ focus \in {"notification", "workflow", "ota"}

WorkersNext ==
    \/ focus = "notification" /\ NotificationNext /\ UNCHANGED <<workflowVars, otaVars, focus>>
    \/ focus = "workflow" /\ WorkflowNext /\ UNCHANGED <<noticeVars, otaVars, focus>>
    \/ focus = "ota" /\ OtaNext /\ UNCHANGED <<noticeVars, workflowVars, focus>>

(* The fairness of NotificationSpec and WorkflowSpec. *)
WorkersFairness ==
    /\ \A s \in Sender : WF_noticeVars(focus = "notification" /\ SenderStep(s))
    /\ \A t \in Trigger : WF_workflowVars(focus = "workflow" /\ TriggerStep(t))
    /\ \A e \in Execution : WF_workflowVars(focus = "workflow" /\ RunStep(e))
    /\ \A r \in Retrier : WF_workflowVars(focus = "workflow" /\ RetryStep(r))

WorkersSpec == WorkersInit /\ [][WorkersNext]_workersVars /\ WorkersFairness
=============================================================================
