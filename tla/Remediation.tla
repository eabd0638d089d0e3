---------------------------- MODULE Remediation -----------------------------
(***************************************************************************)
(* From an alert to an execution plan: the automatic diagnosis pipeline    *)
(* (services/executor/auto_diagnosis.go), the bridge that turns a          *)
(* diagnosis into a plan (bridge.go), the execution tools an LLM agent     *)
(* calls (services/mcp/exec_tools.go), the request to diagnose and execute *)
(* (diagnoseAndExecute) and the approval of pending plans.  The executor   *)
(* appears by its promises only: the gate, one outcome, and a later        *)
(* verdict on all rows of a plan; module Executor has the details, and the *)
(* plans that a client posts itself.                                       *)
(*                                                                         *)
(* A task is one thread of control: an alert on its way through the        *)
(* pipeline, one call of a tool, one request or one approval.  Its name is *)
(* the ID of the plan it makes.                                            *)
(***************************************************************************)
EXTENDS Naturals, Sequences

CONSTANTS
  Tasks,        \* threads of control (bounds how many there are)
  Alerts,       \* fingerprints
  Suggestions,  \* what a diagnosis may suggest
  QueueLen,     \* capacity of alertQueue
  Pipeline,     \* whether the pipeline is enabled
  Tools,        \* the actions of the tools that are called
  OverlappingCalls,  \* whether two tool calls may run at a time
  Requests,     \* whether users send requests to diagnose and execute
  MayStop,      \* whether Stop may be called
  Faults,       \* whether reads and writes of the audit table may fail
  NoTask, NoAction

ActionTypes == {"restart_pod", "scale_deployment", "delete_pod", "create_hpa",
  "update_hpa", "update_configmap", "update_secret", "update_resource_limits",
  "update_deployment_image", "update_annotations", "update_labels",
  "rollout_restart", "rollout_undo"}

\* The names that LLM diagnoses used for actions.
OldNames == {"Restart", "Scale", "Delete", "CreateHPA", "UpdateHPA",
  "UpdateConfig", "UpdateSecret", "AdjustLimits", "Rollback",
  "UpdateAnnotation", "UpdateLabel"}

\* The execution tools that WithSelfHealing registers: some go through the
\* gate, the plans of the others are only ever recorded.
SafeTools == {"restart_pod", "rollout_restart", "scale_deployment"}
ProposalTools == {"update_deployment_image", "update_resource_limits",
                  "delete_pod", "rollout_undo"}

\* The first root cause and the first remediation of a diagnosis.
Suggestion ==
  [name: ActionTypes \cup OldNames \cup {"unknown"},
   risk: {"low", "medium", "high"}, fixable: BOOLEAN,
   root: {"Pod", "Deployment", "Node"}, confident: BOOLEAN]

ASSUME ConstantsAssumption ==
  /\ Suggestions \subseteq Suggestion
  /\ Tools \subseteq SafeTools \cup ProposalTools
  /\ QueueLen \in Nat
  /\ {Pipeline, OverlappingCalls, Requests, MayStop, Faults} \subseteq BOOLEAN
  /\ NoTask \notin Tasks
  /\ NoAction \notin ActionTypes

VARIABLES
  autoMode,   \* K8sExecutor.autoMode
  queue,      \* AutoDiagnosisPipeline.alertQueue, tasks by name
  closed,     \* Stop was called: stopped, the context and the channel
  worker,     \* the goroutine of Start: "on", "off"; "joined" after Stop
  crashed,    \* a send on the closed channel ended the process
  task,       \* the threads of control
  cached,     \* alerts with a stored diagnosis
  rows        \* the audit table

vars == <<autoMode, queue, closed, worker, crashed, task, cached, rows>>

-----------------------------------------------------------------------------
Phases == {"idle", "checked", "queued", "diagnose", "keep", "bridge", "lookup",
           "confidence", "propose", "gate", "apply", "end"}

\* by is the pending plan that the task approves; a plan without one was
\* never approved.
Task == [phase: Phases, kind: {"none", "alert", "tool", "request", "approval"},
         alert: Alerts \cup {"none"}, action: ActionTypes \cup {NoAction},
         confident: BOOLEAN, plan: Tasks \cup {NoTask}, approved: BOOLEAN]

NewTask == [phase |-> "idle", kind |-> "none", alert |-> "none",
            action |-> NoAction, confident |-> FALSE, plan |-> NoTask,
            approved |-> FALSE]

Messages == {"pending approval", "approval required", "below threshold",
             "executed", "failed", "verified", "not verified"}

AuditLog == [plan: Tasks, alert: Alerts \cup {"none"}, action: ActionTypes,
             message: Messages, approved: BOOLEAN]

-----------------------------------------------------------------------------
(* The bridge.                                                             *)

\* An unknown name stands for the mildest action on the resource at fault.
FallbackAction(s) ==
  CASE s.root = "Pod" -> "restart_pod"
    [] s.root = "Deployment" -> "scale_deployment"
    [] OTHER -> NoAction

\* The action a suggestion stands for.
MappedAction(s) ==
  CASE s.name \in ActionTypes -> s.name
    [] s.name = "Restart" -> "restart_pod"
    [] s.name = "Scale" -> "scale_deployment"
    [] s.name = "Delete" -> "delete_pod"
    [] s.name = "CreateHPA" -> "create_hpa"
    [] s.name = "UpdateHPA" -> "update_hpa"
    [] s.name = "UpdateConfig" -> "update_configmap"
    [] s.name = "UpdateSecret" -> "update_secret"
    [] s.name = "AdjustLimits" -> "update_resource_limits"
    [] s.name = "Rollback" -> "rollout_undo"
    [] s.name = "UpdateAnnotation" -> "update_annotations"
    [] s.name = "UpdateLabel" -> "update_labels"
    [] OTHER -> FallbackAction(s)

\* A diagnosis has neither image, nor resource values, nor a replica count,
\* and an action on a Deployment needs one as the root cause.
PlanAction(s) ==
  LET a == MappedAction(s) IN
  IF \/ a \in {"update_deployment_image", "update_resource_limits", "scale_deployment"}
     \/ a \in {"rollout_restart", "rollout_undo"} /\ s.root # "Deployment"
  THEN NoAction ELSE a

\* Bug: the risk that the diagnosis claims decides alone.
ShouldExecuteByRisk(s) == s.fixable /\ s.risk \in {"low", "medium"} /\ autoMode

ShouldExecute(s) ==
  /\ s.fixable
  /\ s.name \notin {"update_deployment_image", "delete_pod", "update_configmap",
       "update_secret", "update_resource_limits", "rollout_undo", "Rollback",
       "Delete", "UpdateConfig", "UpdateSecret", "AdjustLimits"}
  /\ s.risk \in {"low", "medium"}
  /\ autoMode

-----------------------------------------------------------------------------
(* The audit table.                                                        *)

\* Bug: a plan that the gate sent back is not recognised as pending.
IsPendingProposal(r) == ~r.approved /\ r.message = "pending approval"

(* findPendingPlan: rows of the same alert and action that wait.           *)
IsPending(r) ==
  ~r.approved /\ r.message \in {"pending approval", "approval required"}

PendingPlan(alert, action) ==
  {r.plan : r \in {x \in rows : x.alert = alert /\ x.action = action /\ IsPending(x)}}

\* An error of the table is ignored.
Record(t, message, approved) ==
  \/ rows' = rows \cup {[plan |-> task[t].plan, alert |-> task[t].alert,
                         action |-> task[t].action, message |-> message,
                         approved |-> approved]}
  \/ Faults /\ rows' = rows

Goto(t, phase) == task' = [task EXCEPT ![t].phase = phase]

Init ==
  /\ autoMode \in BOOLEAN
  /\ queue = <<>>
  /\ closed = FALSE
  /\ worker = IF Pipeline THEN "on" ELSE "off"
  /\ crashed = FALSE
  /\ task = [t \in Tasks |-> NewTask]
  /\ cached = {}
  /\ rows = {}

-----------------------------------------------------------------------------
(* The pipeline.                                                           *)

\* OnAlertProcessed reads stopped first; the alert that arrives may be one
\* that ShouldAutoDiagnose turns down.
Offer(t, alert) ==
  /\ Pipeline /\ ~closed
  /\ task[t].phase = "idle"
  /\ task' = [task EXCEPT ![t].phase = "checked", ![t].kind = "alert",
                          ![t].alert = alert, ![t].plan = t]
  /\ UNCHANGED <<autoMode, queue, closed, worker, crashed, cached, rows>>

\* Bug: a full queue takes the alert all the same.
EnqueueUnbounded(t) ==
  /\ task[t].phase = "checked"
  /\ IF closed
     THEN crashed' = TRUE /\ UNCHANGED <<queue, task>>
     ELSE queue' = Append(queue, t) /\ Goto(t, "queued") /\ UNCHANGED crashed
  /\ UNCHANGED <<autoMode, closed, worker, cached, rows>>

\* The send: a full queue drops the alert, a closed one panics.
Enqueue(t) ==
  /\ task[t].phase = "checked"
  /\ IF closed
     THEN crashed' = TRUE /\ UNCHANGED <<queue, task>>
     ELSE /\ UNCHANGED crashed
          /\ IF Len(queue) < QueueLen
             THEN queue' = Append(queue, t) /\ Goto(t, "queued")
             ELSE Goto(t, "end") /\ UNCHANGED queue
  /\ UNCHANGED <<autoMode, closed, worker, cached, rows>>

\* The worker starts a goroutine for every alert worth a diagnosis; after
\* Stop it may still drain the channel.
Take(t) ==
  /\ worker = "on"
  /\ queue # <<>> /\ Head(queue) = t
  /\ queue' = Tail(queue)
  /\ Goto(t, "diagnose") \/ Goto(t, "end")
  /\ UNCHANGED <<autoMode, closed, worker, crashed, cached, rows>>

\* Diagnosis, with the deeper one of the agent if confidence is low; it may
\* fail, and it may take any time.
Diagnose(t) ==
  /\ task[t].phase = "diagnose"
  /\ Goto(t, "keep") \/ Goto(t, "end")
  /\ UNCHANGED <<autoMode, queue, closed, worker, crashed, cached, rows>>

\* The result is stored for the front end and the tools; failures are logged.
Keep(t) ==
  /\ task[t].phase = "keep"
  /\ \/ ~closed /\ cached' = cached \cup {task[t].alert}
     \/ cached' = cached
  /\ Goto(t, "bridge")
  /\ UNCHANGED <<autoMode, queue, closed, worker, crashed, rows>>

\* A plan that may not be executed waits for approval; a request only shows
\* its diagnosis.
AfterBridge(t, s) ==
  IF ShouldExecute(s) THEN "gate"
  ELSE IF task[t].kind = "request" THEN "end" ELSE "propose"

\* CreatePlanFromDiagnosis with the mode of this moment.
Bridge(t) ==
  /\ task[t].phase = "bridge"
  /\ \E s \in Suggestions :
       IF PlanAction(s) = NoAction THEN Goto(t, "end")
       ELSE task' = [task EXCEPT ![t].action = PlanAction(s),
              ![t].confident = s.confident,
              ![t].phase = AfterBridge(t, s)]
  /\ UNCHANGED <<autoMode, queue, closed, worker, crashed, cached, rows>>

Stop ==
  /\ MayStop /\ Pipeline /\ ~closed
  /\ closed' = TRUE
  /\ UNCHANGED <<autoMode, queue, worker, crashed, task, cached, rows>>

\* The worker sees the end of its context or the closed channel.
WorkerEnds ==
  /\ closed /\ worker = "on"
  /\ worker' = "off"
  /\ UNCHANGED <<autoMode, queue, closed, crashed, task, cached, rows>>

\* Stop waits for the worker, and returns.
StopReturns ==
  /\ closed /\ worker = "off"
  /\ worker' = "joined"
  /\ UNCHANGED <<autoMode, queue, closed, crashed, task, cached, rows>>

-----------------------------------------------------------------------------
(* The tools.                                                              *)

ToolRunning == \E t \in Tasks : task[t].kind = "tool" /\ task[t].phase # "end"

Call(t, alert, action) ==
  /\ task[t].phase = "idle"
  /\ OverlappingCalls \/ ~ToolRunning
  /\ task' = [task EXCEPT ![t] = [NewTask EXCEPT !.phase = "lookup",
       !.kind = "tool", !.alert = alert, !.action = action, !.plan = t]]
  /\ UNCHANGED <<autoMode, queue, closed, worker, crashed, cached, rows>>

\* A call that finds a pending plan of its alert and action points to it; one
\* that cannot read the table goes on.
Lookup(t) ==
  /\ task[t].phase = "lookup"
  /\ \/ Faults /\ Goto(t, "confidence")
     \/ Goto(t, IF PendingPlan(task[t].alert, task[t].action) = {}
                THEN "confidence" ELSE "end")
  /\ UNCHANGED <<autoMode, queue, closed, worker, crashed, cached, rows>>

\* No diagnosis, no plan.
Confidence(t) ==
  /\ task[t].phase = "confidence"
  /\ IF task[t].alert \notin cached THEN Goto(t, "end")
     ELSE \E confident \in BOOLEAN :
            task' = [task EXCEPT ![t].confident = confident,
              ![t].phase = IF task[t].action \in ProposalTools THEN "propose" ELSE "gate"]
  /\ UNCHANGED <<autoMode, queue, closed, worker, crashed, cached, rows>>

Propose(t) ==
  /\ task[t].phase = "propose"
  /\ Record(t, "pending approval", FALSE)
  /\ Goto(t, "end")
  /\ UNCHANGED <<autoMode, queue, closed, worker, crashed, cached>>

\* diagnoseAndExecute; its diagnosis may fail, and it is not stored.
DiagnoseAndExecute(t, alert) ==
  /\ Requests
  /\ task[t].phase = "idle"
  /\ \E phase \in {"bridge", "end"} :
       task' = [task EXCEPT ![t] = [NewTask EXCEPT !.phase = phase,
                  !.kind = "request", !.alert = alert, !.plan = t]]
  /\ UNCHANGED <<autoMode, queue, closed, worker, crashed, cached, rows>>

\* A diagnosis asked for by a user.
UserDiagnosis(alert) ==
  /\ cached' = cached \cup {alert}
  /\ UNCHANGED <<autoMode, queue, closed, worker, crashed, task, rows>>

-----------------------------------------------------------------------------
(* The executor.                                                           *)

ToggleAutoMode ==
  /\ autoMode' = ~autoMode
  /\ UNCHANGED <<queue, closed, worker, crashed, task, cached, rows>>

\* approveAudit takes any row that is neither successful nor names an approver.
Approve(t, r) ==
  /\ task[t].phase = "idle"
  /\ r \in rows /\ ~r.approved
  /\ r.message \notin {"executed", "verified"}
  /\ task' = [task EXCEPT ![t] = [phase |-> "gate", kind |-> "approval",
       alert |-> r.alert, action |-> r.action, confident |-> FALSE,
       plan |-> r.plan, approved |-> TRUE]]
  /\ UNCHANGED <<autoMode, queue, closed, worker, crashed, cached, rows>>

Allowed(t) == task[t].approved \/ (autoMode /\ task[t].confident)

Gate(t) ==
  /\ task[t].phase = "gate"
  /\ IF Allowed(t) THEN Goto(t, "apply") /\ UNCHANGED rows
     ELSE /\ Goto(t, "end")
          /\ Record(t, IF autoMode THEN "below threshold" ELSE "approval required", FALSE)
  /\ UNCHANGED <<autoMode, queue, closed, worker, crashed, cached>>

\* The pipeline's context ends with Stop: its API calls fail from then on.
Apply(t) ==
  /\ task[t].phase = "apply"
  /\ \/ ~(closed /\ task[t].kind = "alert") /\ Record(t, "executed", task[t].approved)
     \/ Record(t, "failed", task[t].approved)
  /\ Goto(t, "end")
  /\ UNCHANGED <<autoMode, queue, closed, worker, crashed, cached>>

\* UpdateResult: the verdict of the verification replaces the text of all
\* rows of the plan.
Verdict(p) ==
  /\ \E r \in rows : r.plan = p /\ r.message = "executed"
  /\ \E verdict \in {"verified", "not verified"} :
       rows' = {IF r.plan = p THEN [r EXCEPT !.message = verdict] ELSE r : r \in rows}
  /\ UNCHANGED <<autoMode, queue, closed, worker, crashed, task, cached>>

-----------------------------------------------------------------------------
Step(t) ==
  \/ Enqueue(t) \/ Take(t) \/ Diagnose(t) \/ Keep(t) \/ Bridge(t)
  \/ Lookup(t) \/ Confidence(t) \/ Propose(t) \/ Gate(t) \/ Apply(t)

Next ==
  /\ ~crashed
  /\ \/ ToggleAutoMode \/ Stop \/ WorkerEnds \/ StopReturns
     \/ \E a \in Alerts : UserDiagnosis(a)
     \/ \E t \in Tasks : Step(t) \/ Verdict(t)
     \/ \E t \in Tasks, a \in Alerts : Offer(t, a) \/ DiagnoseAndExecute(t, a)
     \/ \E t \in Tasks, a \in Alerts, tool \in Tools : Call(t, a, tool)
     \/ \E t \in Tasks, r \in rows : Approve(t, r)

Spec == Init /\ [][Next]_vars

-----------------------------------------------------------------------------
(* Properties.                                                             *)

\* Every variable has its type; the queue holds the queued tasks, once each.
TypeOK ==
  /\ autoMode \in BOOLEAN /\ closed \in BOOLEAN /\ crashed \in BOOLEAN
  /\ worker \in {"on", "off", "joined"}
  /\ task \in [Tasks -> Task]
  /\ cached \subseteq Alerts
  /\ rows \subseteq AuditLog
  /\ queue \in Seq(Tasks) /\ Len(queue) <= QueueLen
  /\ \A t \in Tasks :
       task[t].phase = "queued" <=> \E i \in DOMAIN queue : queue[i] = t

\* The actions that bridge.go says are never executed automatically, and those
\* of the tools that only propose.
Dangerous == {"update_deployment_image", "delete_pod", "update_configmap",
              "update_secret", "update_resource_limits", "rollout_undo"}

\* A dangerous action is carried out only for a plan that was approved,
\* whatever name and risk a diagnosis gives it and whenever the mode changes:
\* the executor's gate knows neither the risk nor the kind of the action.
DangerNeedsApproval ==
  /\ \A t \in Tasks : task[t].phase = "apply" /\ task[t].action \in Dangerous
                        => task[t].approved
  /\ \A r \in rows : r.message = "executed" /\ r.action \in Dangerous => r.approved

\* At most one plan waits for approval per alert and action, though plans
\* reach the list by two ways (recorded by the tool, sent back by the gate),
\* and verdicts and approvals change what the list says of them.  For tools
\* that are called one at a time.
OnePendingPlan ==
  \A r1, r2 \in rows :
    /\ r1.message \in {"pending approval", "approval required"}
    /\ r2.message \in {"pending approval", "approval required"}
    /\ r1.alert = r2.alert /\ r1.action = r2.action
    => r1.plan = r2.plan

=============================================================================
