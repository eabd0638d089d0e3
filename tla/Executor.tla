------------------------------ MODULE Executor ------------------------------
(***************************************************************************)
(* The self-healing executor of services/executor: the gate of Execute,    *)
(* the approval of pending plans (controllers/executor_controller.go), the *)
(* Deployment changes, the background verification with its automatic      *)
(* rollback, and the PostgreSQL audit table.                               *)
(*                                                                         *)
(* An element of Execs is one call of Execute together with the            *)
(* verification goroutine it spawns.  Every call to the Kubernetes API and *)
(* every access to shared memory or to the audit table is a step of its    *)
(* own, so calls, verifications, the Deployment controller and other       *)
(* writers of the Deployment interleave freely.                            *)
(***************************************************************************)
EXTENDS Naturals, Sequences, FiniteSets

CONSTANTS
  Plans,          \* the execution plans that may be submitted or proposed
  Execs,          \* calls of Execute (bounds how many are made)
  Approvers,      \* user names that may approve
  Deployments,    \* "<namespace>/<name>" of the Deployments
  Images, Limits, \* container images and resource settings
  Serviceable,    \* the templates whose pods can become available
  Healthy0,       \* whether the Deployments are healthy at the start
  AutoMode0,      \* executor.autoMode of the configuration file
  StoreFaults,    \* whether writes to the audit table may fail
  LostReplies,    \* whether a Kubernetes write may take effect and yet fail
  MaxRestarts,    \* bound on restarts of the process
  MaxOutsideEdits, \* bound on edits of Deployments by others
  NoOne, NoPlan, NoId, NoTemplate

ActionTypes == {"restart_pod", "scale_deployment", "delete_pod", "create_hpa",
  "update_hpa", "update_configmap", "update_secret", "update_resource_limits",
  "update_deployment_image", "update_annotations", "update_labels",
  "rollout_restart", "rollout_undo"}

Template == [image: Images, limits: Limits]

\* How a plan reaches the executor: "gate" plans are handed to Execute by the
\* program itself, "proposal" plans are only recorded as pending, "manual"
\* plans are posted by a client.
Origins == {"gate", "proposal", "manual"}

\* The fields of ExecutionPlan that the executor's control depends on.
ExecutionPlan ==
  [id: STRING \cup {NoId}, action: ActionTypes, target: Deployments,
   image: Images, limits: Limits, replicas: Nat,
   confident: BOOLEAN,  \* Confidence >= AutoThreshold of the action
   origin: Origins]

ASSUME ConstantsAssumption ==
  /\ Plans \subseteq ExecutionPlan
  /\ NoPlan \notin Plans
  /\ NoOne \notin Approvers
  /\ NoTemplate \notin Template
  /\ Serviceable \subseteq Template
  /\ {Healthy0, AutoMode0, StoreFaults, LostReplies} \subseteq BOOLEAN
  /\ {MaxRestarts, MaxOutsideEdits} \subseteq Nat

VARIABLES
  autoMode,   \* K8sExecutor.autoMode
  audit,      \* rows of the audit table, in order of their primary key
  dep,        \* the Deployments, as the API server stores them
  past,       \* templates kept in the ReplicaSet history of each Deployment
  knownGood,  \* K8sExecutor.knownGood
  exec,       \* the calls of Execute and their verifications
  restarts, edits,  \* counters of the two bounds
  rolled      \* history: the templates whose rollout was ever complete

vars == <<autoMode, audit, dep, past, knownGood, exec, restarts, edits, rolled>>

-----------------------------------------------------------------------------
(* Classification of the actions (verify.go).                              *)

NeedsVerification(a) ==
  a \in {"restart_pod", "delete_pod", "rollout_restart",
         "update_deployment_image", "update_resource_limits",
         "scale_deployment", "rollout_undo"}

IsDeploymentLevel(a) ==
  a \in {"rollout_restart", "update_deployment_image",
         "update_resource_limits", "scale_deployment", "rollout_undo"}

CanAutoRollback(a) == a \in {"update_deployment_image", "update_resource_limits"}

(* Messages of audit rows.  Those in ExecutedMessages start with the text  *)
(* of the successful API call.                                             *)
PendingMessages == {"pending approval", "approval required", "below threshold"}
VerdictMessages == {"verified", "verification failed", "rolled back",
                    "rollback failed", "no rollback template"}
ExecutedMessages == {"executed"} \cup VerdictMessages
Messages == PendingMessages \cup {"failed"} \cup ExecutedMessages

AuditLog ==
  [plan: Plans, message: Messages, success: BOOLEAN,
   autoExecuted: BOOLEAN, approvedBy: Approvers \cup {NoOne}]

Phases == {"idle", "gate", "snapshot", "remember", "apply", "record",
           "verify", "confirm", "pick", "restore", "writeback", "done", "lost"}

ExecState ==
  [phase: Phases, plan: Plans \cup {NoPlan}, by: Approvers \cup {NoOne},
   auto: BOOLEAN,
   snap: Template \cup {NoTemplate},    \* oldTemplateJSON
   seen: Template \cup {NoTemplate},    \* healthy template about to be stored
   target: Template \cup {NoTemplate},  \* rollbackTarget
   result: Messages \cup {"none"}]

NewExec == [phase |-> "idle", plan |-> NoPlan, by |-> NoOne, auto |-> FALSE,
            snap |-> NoTemplate, seen |-> NoTemplate, target |-> NoTemplate,
            result |-> "none"]

\* A Deployment: its spec, whether the controller has observed the latest
\* generation, and whether the replica counts of its status are complete.
Deployment == [tmpl: Template, replicas: Nat,
               observed: BOOLEAN, complete: BOOLEAN]

-----------------------------------------------------------------------------
\* Bug: the generation is not compared.
RolloutOkStale(x) == x.complete

(* deploymentRolloutStatus: a status that predates the latest generation   *)
(* does not count.                                                         *)
RolloutOk(x) == x.observed /\ x.complete

\* An Update that changes the spec bumps the generation.
Written(x, t, n) ==
  IF x.tmpl = t /\ x.replicas = n THEN x
  ELSE [x EXCEPT !.tmpl = t, !.replicas = n, !.observed = FALSE]

WriteTemplate(d, t) ==
  /\ dep' = [dep EXCEPT ![d] = Written(@, t, @.replicas)]
  /\ past' = [past EXCEPT ![d] = @ \cup {t}]

\* The template after the plan's change to the current one.
Changed(t, p) ==
  IF p.action = "update_deployment_image" THEN [t EXCEPT !.image = p.image]
  ELSE [t EXCEPT !.limits = p.limits]

\* appendAuditLog ignores the error of Save.
Save(row) ==
  \/ audit' = Append(audit, row)
  \/ StoreFaults /\ UNCHANGED audit

Row(p, msg, ok, auto, by) ==
  [plan |-> p, message |-> msg, success |-> ok,
   autoExecuted |-> auto, approvedBy |-> by]

\* Bug: only the first row of the plan is updated.
UpdateFirst(rows, p, ok, msg) ==
  LET Of(i) == rows[i].plan.id = p.id IN
  [i \in DOMAIN rows |->
     IF Of(i) /\ \A j \in 1..(i - 1) : ~Of(j)
     THEN [rows[i] EXCEPT !.success = ok, !.message = msg]
     ELSE rows[i]]

\* PostgresAuditStore.UpdateResult: every row of the plan.
UpdateResult(rows, p, ok, msg) ==
  [i \in DOMAIN rows |->
     IF rows[i].plan.id = p.id
     THEN [rows[i] EXCEPT !.success = ok, !.message = msg]
     ELSE rows[i]]

\* backfillSuccessFlag: LIKE patterns over the result text.  The text of a
\* verdict starts with the text of the API call, so it matches the patterns
\* with a trailing %; the one of delete_pod has none.
BackfillMatches(row) ==
  \/ row.message = "executed"
  \/ row.message \in VerdictMessages /\ row.plan.action # "delete_pod"

Backfilled(rows) ==
  [i \in DOMAIN rows |->
     IF BackfillMatches(rows[i]) THEN [rows[i] EXCEPT !.success = TRUE]
     ELSE rows[i]]

-----------------------------------------------------------------------------
Init ==
  /\ autoMode = AutoMode0
  /\ audit = <<>>
  /\ \E t \in [Deployments -> Template] :
       /\ \A d \in Deployments : Healthy0 <=> t[d] \in Serviceable
       /\ dep = [d \in Deployments |-> [tmpl |-> t[d], replicas |-> 1,
                                        observed |-> TRUE, complete |-> Healthy0]]
       /\ past = [d \in Deployments |-> {t[d]}]
       /\ rolled = [d \in Deployments |->
                      IF Healthy0 THEN {t[d]} ELSE {}]
  /\ knownGood = [d \in Deployments |-> NoTemplate]
  /\ exec = [e \in Execs |-> NewExec]
  /\ restarts = 0
  /\ edits = 0

\* POST /toggle
ToggleAutoMode ==
  /\ autoMode' = ~autoMode
  /\ UNCHANGED <<audit, dep, past, knownGood, exec, restarts, edits, rolled>>

\* RecordAudit of a pending plan, whose ID is a fresh UUID: it is saved and never
\* executed.
Propose(p) ==
  /\ p.origin = "proposal"
  /\ \A i \in DOMAIN audit : audit[i].plan.id # p.id
  /\ \A e \in Execs : exec[e].plan # NoPlan => exec[e].plan.id # p.id
  /\ Save(Row(p, "pending approval", FALSE, FALSE, NoOne))
  /\ UNCHANGED <<autoMode, dep, past, knownGood, exec, restarts, edits, rolled>>

\* Execute is entered with a plan of the program (its ID is fresh, nobody
\* has approved it) or of a client of POST /execute (the body may name an
\* approver and repeat an ID).
Submit(e, p, by) ==
  /\ exec[e].phase = "idle"
  /\ \/ p.origin = "manual"
     \/ /\ p.origin = "gate"
        /\ by = NoOne
        /\ \A f \in Execs : exec[f].plan # p
  /\ exec' = [exec EXCEPT ![e] =
                [NewExec EXCEPT !.phase = "gate", !.plan = p, !.by = by]]
  /\ UNCHANGED <<autoMode, audit, dep, past, knownGood, restarts, edits, rolled>>

\* approveAudit: the row is read and tested, then a copy of its plan is
\* executed.  The row itself is not written.
Approve(e, i, by) ==
  /\ exec[e].phase = "idle"
  /\ ~audit[i].success
  /\ audit[i].approvedBy = NoOne
  /\ exec' = [exec EXCEPT ![e] =
                [NewExec EXCEPT !.phase = "gate", !.plan = audit[i].plan, !.by = by]]
  /\ UNCHANGED <<autoMode, audit, dep, past, knownGood, restarts, edits, rolled>>

\* Bug: the confidence threshold is not looked at.
AllowedByModeAlone(x) == x.by # NoOne \/ autoMode

\* The gate of Execute, with the only read of autoMode.
Allowed(x) == x.by # NoOne \/ (autoMode /\ x.plan.confident)

GatePass(e) ==
  /\ exec[e].phase = "gate"
  /\ Allowed(exec[e])
  /\ exec' = [exec EXCEPT
       ![e].auto = autoMode /\ exec[e].by = NoOne,
       ![e].phase = IF CanAutoRollback(exec[e].plan.action)
                    THEN "snapshot" ELSE "apply"]
  /\ UNCHANGED <<autoMode, audit, dep, past, knownGood, restarts, edits, rolled>>

GateDeny(e) ==
  LET msg == IF autoMode THEN "below threshold" ELSE "approval required"
  IN
  /\ exec[e].phase = "gate"
  /\ ~Allowed(exec[e])
  /\ Save(Row(exec[e].plan, msg, FALSE, autoMode, NoOne))
  /\ exec' = [exec EXCEPT ![e].phase = "done", ![e].result = msg]
  /\ UNCHANGED <<autoMode, dep, past, knownGood, restarts, edits, rolled>>

\* snapshotDeploymentTemplate: the Get, before the change or after a passed
\* verification.  A healthy template is stored in the next step.
Snapshot(e) ==
  LET d == exec[e].plan.target
      before == exec[e].phase = "snapshot"
      after == IF before THEN "apply" ELSE "writeback"
  IN
  /\ exec[e].phase \in {"snapshot", "confirm"}
  /\ \/ exec' = [exec EXCEPT     \* the Get fails
          ![e].phase = after, ![e].snap = IF before THEN NoTemplate ELSE @]
     \/ exec' = [exec EXCEPT
          ![e].phase = IF RolloutOk(dep[d]) THEN "remember" ELSE after,
          ![e].seen = IF RolloutOk(dep[d]) THEN dep[d].tmpl ELSE NoTemplate,
          ![e].snap = IF before THEN dep[d].tmpl ELSE @]
  /\ UNCHANGED <<autoMode, audit, dep, past, knownGood, restarts, edits, rolled>>

\* snapshotDeploymentTemplate: knownGood.Store.
Remember(e) ==
  /\ exec[e].phase = "remember"
  /\ knownGood' = [knownGood EXCEPT ![exec[e].plan.target] = exec[e].seen]
  /\ exec' = [exec EXCEPT
       ![e].phase = IF exec[e].result = "none" THEN "apply" ELSE "writeback"]
  /\ UNCHANGED <<autoMode, audit, dep, past, restarts, edits, rolled>>

\* The change the action makes to the cluster.  Get and Update carry the
\* resource version, so a successful change is one atomic step.
Change(p) ==
  LET d == p.target
  IN
  CASE CanAutoRollback(p.action) -> WriteTemplate(d, Changed(dep[d].tmpl, p))
    [] p.action = "scale_deployment" ->
         /\ dep' = [dep EXCEPT ![d] = Written(@, @.tmpl, p.replicas)]
         /\ UNCHANGED past
    [] p.action = "rollout_restart" ->
         /\ dep' = [dep EXCEPT ![d].observed = FALSE]
         /\ UNCHANGED past
    [] p.action = "rollout_undo" -> \E t \in past[d] : WriteTemplate(d, t)
    [] OTHER -> UNCHANGED <<dep, past>>

ApplyOk(e) ==
  /\ exec[e].phase = "apply"
  /\ Change(exec[e].plan)
  /\ exec' = [exec EXCEPT ![e].phase = "record", ![e].result = "executed"]
  /\ UNCHANGED <<autoMode, audit, knownGood, restarts, edits, rolled>>

\* Bug: a refused or unanswered change is tried again.
ApplyRetried(e) ==
  /\ exec[e].phase = "apply"
  /\ \/ UNCHANGED <<dep, past>>
     \/ LostReplies /\ Change(exec[e].plan)
  /\ UNCHANGED <<autoMode, audit, knownGood, exec, restarts, edits, rolled>>

\* A guard of the action or the API server refuses, or the reply is lost.
ApplyError(e) ==
  /\ exec[e].phase = "apply"
  /\ exec' = [exec EXCEPT ![e].phase = "record", ![e].result = "failed"]
  /\ \/ UNCHANGED <<dep, past>>
     \/ LostReplies /\ Change(exec[e].plan)
  /\ UNCHANGED <<autoMode, audit, knownGood, restarts, edits, rolled>>

\* The audit row is written, then the verification is started.
Record(e) ==
  LET x == exec[e]
      ok == x.result = "executed"
  IN
  /\ x.phase = "record"
  /\ Save(Row(x.plan, x.result, ok, x.auto, x.by))
  /\ exec' = [exec EXCEPT ![e].phase =
       IF ok /\ NeedsVerification(x.plan.action) THEN "verify" ELSE "done"]
  /\ UNCHANGED <<autoMode, dep, past, knownGood, restarts, edits, rolled>>

\* startVerification: a poll finds the target ready.  The readiness of a new
\* Pod is an outcome of the cluster.
VerifyOk(e) ==
  LET p == exec[e].plan
      level == IsDeploymentLevel(p.action)
  IN
  /\ exec[e].phase = "verify"
  /\ level => RolloutOk(dep[p.target])
  /\ exec' = [exec EXCEPT ![e].result = "verified",
                          ![e].phase = IF level THEN "confirm" ELSE "writeback"]
  /\ UNCHANGED <<autoMode, audit, dep, past, knownGood, restarts, edits, rolled>>

\* Bug: a verification that is never ready ends without a verdict.
VerifyForever(e) == FALSE /\ UNCHANGED vars

\* startVerification: the four minutes pass, or the process stops, without
\* a poll that found the target ready.
VerifyTimeout(e) ==
  /\ exec[e].phase = "verify"
  /\ exec' = IF CanAutoRollback(exec[e].plan.action)
             THEN [exec EXCEPT ![e].phase = "pick"]
             ELSE [exec EXCEPT ![e].phase = "writeback",
                               ![e].result = "verification failed"]
  /\ UNCHANGED <<autoMode, audit, dep, past, knownGood, restarts, edits, rolled>>

\* Bug: without a known good version, the current template is read again.
RollbackTargetReread(x) ==
  IF knownGood[x.plan.target] # NoTemplate
  THEN knownGood[x.plan.target] ELSE dep[x.plan.target].tmpl

\* pickRollbackTarget
RollbackTarget(x) ==
  IF knownGood[x.plan.target] # NoTemplate
  THEN knownGood[x.plan.target] ELSE x.snap

\* Bug: no test that there is a template to restore.
PickUnchecked(e) ==
  /\ exec[e].phase = "pick"
  /\ exec' = [exec EXCEPT ![e].phase = "restore",
                          ![e].target = RollbackTarget(exec[e])]
  /\ UNCHANGED <<autoMode, audit, dep, past, knownGood, restarts, edits, rolled>>

Pick(e) ==
  LET t == RollbackTarget(exec[e])
  IN
  /\ exec[e].phase = "pick"
  /\ exec' = IF t = NoTemplate
             THEN [exec EXCEPT ![e].phase = "writeback",
                               ![e].result = "no rollback template"]
             ELSE [exec EXCEPT ![e].phase = "restore", ![e].target = t]
  /\ UNCHANGED <<autoMode, audit, dep, past, knownGood, restarts, edits, rolled>>

\* restorePodTemplate writes over whatever template is there now.
RestoreOk(e) ==
  /\ exec[e].phase = "restore"
  /\ WriteTemplate(exec[e].plan.target, exec[e].target)
  /\ exec' = [exec EXCEPT ![e].phase = "writeback", ![e].result = "rolled back"]
  /\ UNCHANGED <<autoMode, audit, knownGood, restarts, edits, rolled>>

RestoreError(e) ==
  /\ exec[e].phase = "restore"
  /\ exec' = [exec EXCEPT ![e].phase = "writeback", ![e].result = "rollback failed"]
  /\ \/ UNCHANGED <<dep, past>>
     \/ LostReplies /\ WriteTemplate(exec[e].plan.target, exec[e].target)
  /\ UNCHANGED <<autoMode, audit, knownGood, restarts, edits, rolled>>

\* UpdateResult refuses an empty plan ID; its error is only logged.
Writeback(e) ==
  LET x == exec[e]
  IN
  /\ x.phase = "writeback"
  /\ \/ /\ x.plan.id # NoId
        /\ audit' = UpdateResult(audit, x.plan, x.result = "verified", x.result)
     \/ (x.plan.id = NoId \/ StoreFaults) /\ UNCHANGED audit
  /\ exec' = [exec EXCEPT ![e].phase = "done"]
  /\ UNCHANGED <<autoMode, dep, past, knownGood, restarts, edits, rolled>>

\* The process ends and starts again: goroutines and maps are gone, the
\* table is kept, and NewPostgresAuditStore runs the backfill over it.
Restart ==
  /\ restarts < MaxRestarts
  /\ restarts' = restarts + 1
  /\ exec' = [e \in Execs |->
       IF exec[e].phase \in {"idle", "done"} THEN exec[e]
       ELSE [exec[e] EXCEPT !.phase = "lost"]]
  /\ knownGood' = [d \in Deployments |-> NoTemplate]
  /\ autoMode' = AutoMode0
  /\ audit' = Backfilled(audit)
  /\ UNCHANGED <<dep, past, edits, rolled>>

-----------------------------------------------------------------------------
(* The cluster.                                                            *)

\* The Deployment controller sees the latest generation.
Observe(d) ==
  /\ ~dep[d].observed
  /\ dep' = [dep EXCEPT ![d].observed = TRUE, ![d].complete = FALSE]
  /\ UNCHANGED <<autoMode, audit, past, knownGood, exec, restarts, edits, rolled>>

\* The rollout completes: the Pods of the template are available, or none
\* is wanted and all are gone.
Complete(d) ==
  /\ dep[d].observed /\ ~dep[d].complete
  /\ dep[d].replicas = 0 \/ dep[d].tmpl \in Serviceable
  /\ dep' = [dep EXCEPT ![d].complete = TRUE]
  /\ rolled' = [rolled EXCEPT ![d] = @ \cup {dep[d].tmpl}]
  /\ UNCHANGED <<autoMode, audit, past, knownGood, exec, restarts, edits>>

\* Pods become unavailable.
Degrade(d) ==
  /\ dep[d].complete /\ dep[d].replicas > 0
  /\ dep' = [dep EXCEPT ![d].complete = FALSE]
  /\ UNCHANGED <<autoMode, audit, past, knownGood, exec, restarts, edits, rolled>>

\* Somebody else changes the template.
OutsideEdit(d, t) ==
  /\ edits < MaxOutsideEdits
  /\ edits' = edits + 1
  /\ WriteTemplate(d, t)
  /\ UNCHANGED <<autoMode, audit, knownGood, exec, restarts, rolled>>

-----------------------------------------------------------------------------
\* The steps of a call, once it is entered.
ExecStep(e) ==
  \/ GatePass(e) \/ GateDeny(e)
  \/ Snapshot(e) \/ Remember(e)
  \/ ApplyOk(e) \/ ApplyError(e)
  \/ Record(e)
  \/ VerifyOk(e) \/ VerifyTimeout(e)
  \/ Pick(e) \/ RestoreOk(e) \/ RestoreError(e)
  \/ Writeback(e)

Request ==
  \/ ToggleAutoMode
  \/ \E p \in Plans : Propose(p)
  \/ \E e \in Execs, p \in Plans, by \in Approvers \cup {NoOne} : Submit(e, p, by)
  \/ \E e \in Execs, i \in DOMAIN audit, by \in Approvers : Approve(e, i, by)

Cluster ==
  \E d \in Deployments :
    \/ Observe(d) \/ Complete(d) \/ Degrade(d)
    \/ \E t \in Template : OutsideEdit(d, t)

Next ==
  \/ Request
  \/ \E e \in Execs : ExecStep(e)
  \/ Restart
  \/ Cluster

Spec == Init /\ [][Next]_vars

(* The Go scheduler runs every goroutine that can run, and each of their   *)
(* waits is bounded (API timeouts, verifyTimeout).                         *)
Fairness == \A e \in Execs : WF_vars(ExecStep(e))

FairSpec == Spec /\ Fairness

-----------------------------------------------------------------------------
\* Every variable has its type.
TypeOK ==
  /\ autoMode \in BOOLEAN
  /\ audit \in Seq(AuditLog)
  /\ dep \in [Deployments -> Deployment]
  /\ past \in [Deployments -> SUBSET Template]
  /\ knownGood \in [Deployments -> Template \cup {NoTemplate}]
  /\ exec \in [Execs -> ExecState]
  /\ \A e \in Execs : exec[e].phase # "idle" => exec[e].plan \in Plans
  /\ restarts \in 0..MaxRestarts
  /\ edits \in 0..MaxOutsideEdits
  /\ rolled \in [Deployments -> SUBSET Template]

\* No change is made to the cluster on the program's own authority: each
\* call past the gate of Execute was approved by a person, or was sent by
\* the automatic gate with auto mode on and enough confidence.  Proposals
\* (dangerous actions of the MCP tools) are never sent by the gate.
Authorised ==
  \A e \in Execs :
    LET x == exec[e] IN
    (x.phase \notin {"idle", "gate"} /\ x.result \notin PendingMessages) =>
      \/ x.by # NoOne
      \/ x.phase = "lost"
      \/ x.auto /\ x.plan.confident /\ x.plan.origin # "proposal"

\* What pickRollbackTarget prefers is a template whose rollout the program
\* saw complete, even when goroutines store it late and out of order.
KnownGoodWasHealthy ==
  \A d \in Deployments : knownGood[d] # NoTemplate =>
    knownGood[d] \in rolled[d]

\* An automatic rollback restores the Deployment to a template that was
\* healthy, or else to the one the call itself replaced.
RollbackTargetTrusted ==
  \A e \in Execs : exec[e].target # NoTemplate =>
    \/ exec[e].target = exec[e].snap
    \/ exec[e].target \in rolled[exec[e].plan.target]

\* "verified" is never concluded for a Deployment whose current template
\* cannot become available: a status from before the change does not count.
VerifiedMeansServing ==
  [][\A e \in Execs :
       (exec[e].phase = "verify" /\ exec[e]'.result = "verified"
          /\ IsDeploymentLevel(exec[e].plan.action)) =>
       LET x == dep[exec[e].plan.target]
       IN x.tmpl \in Serviceable \/ x.replicas = 0]_vars

\* The only call of a plan leaves its verdict in every audit row of the plan,
\* and one of these rows names who decided.
VerdictOnRecord ==
  \A e \in Execs :
    LET x == exec[e]
        Rows == {i \in DOMAIN audit : audit[i].plan.id = x.plan.id}
    IN
    (/\ ~StoreFaults
     /\ x.phase = "done"
     /\ x.result \in VerdictMessages
     /\ x.plan.id # NoId
     /\ \A f \in Execs \ {e} : exec[f].plan = NoPlan \/ exec[f].plan.id # x.plan.id)
    => /\ \A i \in Rows : audit[i].message = x.result
       /\ \E i \in Rows : audit[i].approvedBy = x.by /\ audit[i].autoExecuted = x.auto

Unverified(p) ==
  \E i \in DOMAIN audit : audit[i].plan = p /\ audit[i].message = "executed"

\* No audit row stays at "executed": the verification of every change that
\* needs one ends, and its verdict replaces the text in each row of the plan,
\* also when several calls of the plan overlap.
EveryChangeGetsVerdict ==
  \A p \in Plans : (NeedsVerification(p.action) /\ p.id # NoId) =>
    (Unverified(p) ~> ~Unverified(p))

\* A change of image or resources that cannot work does not stay unnoticed:
\* its call ends with a rollback or with a row that asks for a person,
\* unless another writer has replaced the template meanwhile.
BadChangeSettles ==
  \A e \in Execs, p \in Plans :
    (exec[e].phase = "verify" /\ exec[e].plan = p /\ CanAutoRollback(p.action)
       /\ dep[p.target].tmpl \notin Serviceable /\ dep[p.target].replicas > 0)
    ~> \/ exec[e].phase = "lost"
       \/ exec[e].phase = "done" /\ exec[e].result \in VerdictMessages \ {"verified"}
       \/ dep[p.target].tmpl \in Serviceable
       \/ dep[p.target].replicas = 0

-----------------------------------------------------------------------------
(* What the documents and comments say and the code does not do.           *)

\* approveAudit refuses a plan that was approved or executed before, with a
\* message of its own; so a proposal is executed at most once.
ExecutedOnce ==
  \A e, f \in Execs :
    (e # f /\ exec[e].result \in ExecutedMessages
           /\ exec[f].result \in ExecutedMessages) =>
    (exec[e].plan # exec[f].plan \/ exec[e].plan.origin = "manual")

\* The backfill "never marks a failed record as successful".
FailureNotMarkedSuccess ==
  \A i \in DOMAIN audit :
    audit[i].message \in VerdictMessages \ {"verified"} => ~audit[i].success

=============================================================================
