--------------------------- MODULE ExecutorProofs ---------------------------
(***************************************************************************)
(* Theorems about Executor and ExecutorControl, for every value of their   *)
(* constants.                                                              *)
(***************************************************************************)
EXTENDS ExecutorControl, TLAPS

\* The result a call carries in each of its phases.
CallOK(x) ==
    /\ x.phase # "idle" => x.plan \in Plans
    /\ x.phase \in {"idle", "gate", "snapshot", "apply"} => x.result = "none"
    /\ x.phase = "remember" => x.result \in {"none", "verified"}
    /\ x.phase = "record" => x.result \in {"executed", "failed"}
    /\ x.phase \in {"verify", "pick", "restore"} => x.result = "executed"
    /\ x.phase = "confirm" => x.result = "verified"
    /\ x.phase = "restore" => x.target # NoTemplate
    /\ x.phase \in {"idle", "gate", "snapshot"} => x.target = NoTemplate
    /\ x.phase = "writeback" => x.result \in VerdictMessages

TypeInv == TypeOK /\ \A e \in Execs : CallOK(exec[e])

-----------------------------------------------------------------------------
(* What the operators of the model return.                                 *)

\* A row built from a plan, a text and a decision is a row of the table.
LEMMA RowType ==
  ASSUME NEW p \in Plans, NEW m \in Messages, NEW ok \in BOOLEAN,
         NEW auto \in BOOLEAN, NEW by \in Approvers \cup {NoOne}
  PROVE  Row(p, m, ok, auto, by) \in AuditLog
BY DEF Row, AuditLog

\* appendAuditLog keeps the table a sequence of rows, also when the write fails.
LEMMA SaveType ==
  ASSUME audit \in Seq(AuditLog), NEW row \in AuditLog, Save(row)
  PROVE  audit' \in Seq(AuditLog)
BY DEF Save

\* Writing a verdict to the rows of a plan keeps the table a sequence of rows.
LEMMA UpdateResultType ==
  ASSUME NEW rows \in Seq(AuditLog), NEW p, NEW ok \in BOOLEAN, NEW m \in Messages
  PROVE  UpdateResult(rows, p, ok, m) \in Seq(AuditLog)
<1> DEFINE new == UpdateResult(rows, p, ok, m)
<1>1. rows \in [1..Len(rows) -> AuditLog] /\ Len(rows) \in Nat
  OBVIOUS
<1>2. DOMAIN rows = 1..Len(rows)
  OBVIOUS
<1>3. \A i \in 1..Len(rows) :
         [rows[i] EXCEPT !.success = ok, !.message = m] \in AuditLog
  BY <1>1 DEF AuditLog
<1>4. new \in [1..Len(rows) -> AuditLog]
  BY <1>1, <1>2, <1>3 DEF UpdateResult
<1> HIDE DEF new
<1>5. new \in Seq(AuditLog)
  BY <1>1, <1>4
<1> QED
  BY <1>5 DEF new

\* So does the backfill that every start runs.
LEMMA BackfilledType ==
  ASSUME NEW rows \in Seq(AuditLog)
  PROVE  Backfilled(rows) \in Seq(AuditLog)
<1>1. rows \in [1..Len(rows) -> AuditLog] /\ Len(rows) \in Nat
  OBVIOUS
<1>2. DOMAIN rows = 1..Len(rows)
  OBVIOUS
<1>3. \A i \in 1..Len(rows) : [rows[i] EXCEPT !.success = TRUE] \in AuditLog
  BY <1>1 DEF AuditLog
<1>4. Backfilled(rows) \in [1..Len(rows) -> AuditLog]
  BY <1>1, <1>2, <1>3 DEF Backfilled
<1> DEFINE new == Backfilled(rows)
<1> HIDE DEF new
<1>5. new \in Seq(AuditLog)
  BY <1>1, <1>4 DEF new
<1> QED
  BY <1>5 DEF new

\* What the assumption on the constants says of one plan.
LEMMA PlanType ==
  ASSUME NEW p \in Plans
  PROVE  /\ p.target \in Deployments
         /\ p.image \in Images
         /\ p.limits \in Limits
         /\ p.replicas \in Nat
         /\ p \in ExecutionPlan
BY ConstantsAssumption DEF ExecutionPlan

\* A change of image or resources turns a template into a template.
LEMMA ChangedType ==
  ASSUME NEW t \in Template, NEW p \in Plans
  PROVE  Changed(t, p) \in Template
BY PlanType DEF Changed, Template

\* An Update leaves a Deployment.
LEMMA WrittenType ==
  ASSUME NEW x \in Deployment, NEW t \in Template, NEW n \in Nat
  PROVE  Written(x, t, n) \in Deployment
BY DEF Written, Deployment

\* Writing a template keeps the Deployments and their histories typed.
LEMMA WriteTemplateType ==
  ASSUME TypeOK, NEW d \in Deployments, NEW t \in Template, WriteTemplate(d, t)
  PROVE  /\ dep' \in [Deployments -> Deployment]
         /\ past' \in [Deployments -> SUBSET Template]
<1>1. dep[d] \in Deployment /\ dep[d].replicas \in Nat
  BY DEF TypeOK, Deployment
<1>2. Written(dep[d], t, dep[d].replicas) \in Deployment
  BY <1>1, WrittenType
<1> QED
  BY <1>2 DEF TypeOK, WriteTemplate

\* So does every action a plan can carry, whichever it is.
LEMMA ChangeType ==
  ASSUME TypeOK, NEW p \in Plans, Change(p)
  PROVE  /\ dep' \in [Deployments -> Deployment]
         /\ past' \in [Deployments -> SUBSET Template]
<1> DEFINE d == p.target
<1>1. d \in Deployments /\ dep[d] \in Deployment
  BY PlanType DEF TypeOK
<1>2. dep[d].tmpl \in Template /\ dep[d].replicas \in Nat
  BY <1>1 DEF Deployment
<1>3. CASE CanAutoRollback(p.action)
  <2>1. WriteTemplate(d, Changed(dep[d].tmpl, p))
    BY <1>3 DEF Change, CanAutoRollback
  <2> QED
    BY <2>1, <1>1, <1>2, ChangedType, WriteTemplateType
<1>4. CASE p.action = "scale_deployment"
  <2>1. dep' = [dep EXCEPT ![d] = Written(@, @.tmpl, p.replicas)] /\ UNCHANGED past
    BY <1>4 DEF Change, CanAutoRollback
  <2>2. Written(dep[d], dep[d].tmpl, p.replicas) \in Deployment
    BY <1>1, <1>2, PlanType, WrittenType
  <2> QED
    BY <2>1, <2>2 DEF TypeOK
<1>5. CASE p.action = "rollout_restart"
  <2>1. dep' = [dep EXCEPT ![d].observed = FALSE] /\ UNCHANGED past
    BY <1>5 DEF Change, CanAutoRollback
  <2> QED
    BY <2>1, <1>1 DEF TypeOK, Deployment
<1>6. CASE p.action = "rollout_undo"
  <2>1. PICK t \in past[d] : WriteTemplate(d, t)
    BY <1>6 DEF Change, CanAutoRollback
  <2>2. t \in Template
    BY <1>1 DEF TypeOK
  <2> QED
    BY <2>1, <2>2, <1>1, WriteTemplateType
<1>7. CASE ~CanAutoRollback(p.action)
           /\ p.action \notin {"scale_deployment", "rollout_restart", "rollout_undo"}
  BY <1>7 DEF Change, TypeOK
<1> QED
  BY <1>3, <1>4, <1>5, <1>6, <1>7

\* Replacing one call by one that belongs to its phase keeps all calls so.
LEMMA CallStep ==
  ASSUME TypeInv, NEW e \in Execs, NEW new \in ExecState, CallOK(new),
         exec' = [exec EXCEPT ![e] = new]
  PROVE  /\ exec' \in [Execs -> ExecState]
         /\ \A f \in Execs : exec'[f].phase # "idle" => exec'[f].plan \in Plans
         /\ \A f \in Execs : CallOK(exec'[f])
<1>1. exec \in [Execs -> ExecState] /\ \A f \in Execs : CallOK(exec[f])
  BY DEF TypeInv, TypeOK
<1>2. \A f \in Execs : exec'[f] = IF f = e THEN new ELSE exec[f]
  BY <1>1
<1>3. \A f \in Execs : CallOK(exec'[f])
  BY <1>1, <1>2
<1> QED
  BY <1>1, <1>2, <1>3 DEF CallOK

-----------------------------------------------------------------------------
(* Type correctness.                                                       *)

\* The initial states satisfy the type invariant.
LEMMA TypeInit == Init => TypeInv
<1> SUFFICES ASSUME Init PROVE TypeInv
  OBVIOUS
<1>1. PICK t \in [Deployments -> Template] :
        /\ dep = [d \in Deployments |-> [tmpl |-> t[d], replicas |-> 1,
                                         observed |-> TRUE, complete |-> Healthy0]]
        /\ past = [d \in Deployments |-> {t[d]}]
        /\ rolled = [d \in Deployments |->
                       IF Healthy0 THEN {t[d]} ELSE {}]
  BY DEF Init
<1>2. dep \in [Deployments -> Deployment]
  BY <1>1, ConstantsAssumption DEF Deployment
<1>3. past \in [Deployments -> SUBSET Template]
  BY <1>1
<1>4. rolled \in [Deployments -> SUBSET Template]
  BY <1>1
<1>5. NewExec \in ExecState /\ CallOK(NewExec) /\ NewExec.phase = "idle"
  BY DEF NewExec, ExecState, CallOK, Phases
<1>6. exec \in [Execs -> ExecState] /\ \A e \in Execs : exec[e] = NewExec
  BY <1>5 DEF Init
<1>7. /\ autoMode \in BOOLEAN /\ audit \in Seq(AuditLog)
      /\ knownGood \in [Deployments -> Template \cup {NoTemplate}]
      /\ restarts \in 0..MaxRestarts /\ edits \in 0..MaxOutsideEdits
  BY ConstantsAssumption DEF Init
<1> QED
  BY <1>2, <1>3, <1>4, <1>5, <1>6, <1>7 DEF TypeInv, TypeOK

\* What every step of a call starts from.
LEMMA CallFacts ==
  ASSUME TypeInv, NEW e \in Execs
  PROVE  /\ exec[e] \in ExecState
         /\ CallOK(exec[e])
         /\ exec[e].phase # "idle" =>
              /\ exec[e].plan \in Plans
              /\ exec[e].plan.target \in Deployments
BY PlanType DEF TypeInv, TypeOK

\* A call that enters the gate, from Submit or from an approval.
LEMMA EnterType ==
  ASSUME TypeInv, NEW e \in Execs, NEW p \in Plans, NEW by \in Approvers \cup {NoOne},
         exec' = [exec EXCEPT ![e] =
                    [NewExec EXCEPT !.phase = "gate", !.plan = p, !.by = by]],
         UNCHANGED <<autoMode, audit, dep, past, knownGood, restarts, edits, rolled>>
  PROVE  TypeInv'
<1> DEFINE new == [NewExec EXCEPT !.phase = "gate", !.plan = p, !.by = by]
<1>1. new \in ExecState /\ CallOK(new)
  BY DEF NewExec, ExecState, CallOK, Phases
<1>2. /\ exec' \in [Execs -> ExecState]
      /\ \A f \in Execs : exec'[f].phase # "idle" => exec'[f].plan \in Plans
      /\ \A f \in Execs : CallOK(exec'[f])
  <2> HIDE DEF new
  <2>1. exec' = [exec EXCEPT ![e] = new]
    BY DEF new
  <2> QED
    BY <1>1, <2>1, CallStep
<1> QED
  BY <1>2 DEF TypeInv, TypeOK, CallOK

\* What users and the program ask for keeps the type invariant.
LEMMA RequestType == TypeInv /\ Request => TypeInv'
<1> SUFFICES ASSUME TypeInv, Request PROVE TypeInv'
  OBVIOUS
<1>1. CASE ToggleAutoMode
  BY <1>1 DEF ToggleAutoMode, TypeInv, TypeOK, CallOK
<1>2. ASSUME NEW p \in Plans, Propose(p) PROVE TypeInv'
  <2>1. Row(p, "pending approval", FALSE, FALSE, NoOne) \in AuditLog
    BY RowType DEF Messages, PendingMessages
  <2>2. audit' \in Seq(AuditLog)
    BY <1>2, <2>1, SaveType DEF Propose, TypeInv, TypeOK
  <2> QED
    BY <1>2, <2>2 DEF Propose, TypeInv, TypeOK, CallOK
<1>3. ASSUME NEW e \in Execs, NEW p \in Plans, NEW by \in Approvers \cup {NoOne},
             Submit(e, p, by)
      PROVE  TypeInv'
  BY <1>3, EnterType DEF Submit
<1>4. ASSUME NEW e \in Execs, NEW i \in DOMAIN audit, NEW by \in Approvers,
             Approve(e, i, by)
      PROVE  TypeInv'
  <2> audit[i] \in AuditLog
    BY DEF TypeInv, TypeOK
  <2>1. audit[i].plan \in Plans
    BY DEF AuditLog
  <2> QED
    BY <1>4, <2>1, EnterType DEF Approve
<1> QED
  BY <1>1, <1>2, <1>3, <1>4 DEF Request

\* The Deployment controller and other writers keep it.
LEMMA ClusterType == TypeInv /\ Cluster => TypeInv'
<1> SUFFICES ASSUME TypeInv, NEW d \in Deployments,
                    \/ Observe(d) \/ Complete(d) \/ Degrade(d)
                    \/ \E t \in Template : OutsideEdit(d, t)
             PROVE  TypeInv'
  BY DEF Cluster
<1>1. dep[d] \in Deployment /\ dep[d].tmpl \in Template
  BY DEF TypeInv, TypeOK, Deployment
<1>2. CASE Observe(d)
  <2>1. [dep[d] EXCEPT !.observed = TRUE, !.complete = FALSE] \in Deployment
    BY <1>1 DEF Deployment
  <2>2. dep' \in [Deployments -> Deployment]
    BY <1>2, <2>1 DEF Observe, TypeInv, TypeOK
  <2> QED
    BY <1>2, <2>2 DEF Observe, TypeInv, TypeOK, CallOK
<1>3. CASE Complete(d)
  <2>1. [dep[d] EXCEPT !.complete = TRUE] \in Deployment
    BY <1>1 DEF Deployment
  <2>2. dep' \in [Deployments -> Deployment]
    BY <1>3, <2>1 DEF Complete, TypeInv, TypeOK
  <2>3. rolled' \in [Deployments -> SUBSET Template]
    BY <1>1, <1>3 DEF Complete, TypeInv, TypeOK
  <2> QED
    BY <1>3, <2>2, <2>3 DEF Complete, TypeInv, TypeOK, CallOK
<1>4. CASE Degrade(d)
  <2>1. [dep[d] EXCEPT !.complete = FALSE] \in Deployment
    BY <1>1 DEF Deployment
  <2>2. dep' \in [Deployments -> Deployment]
    BY <1>4, <2>1 DEF Degrade, TypeInv, TypeOK
  <2> QED
    BY <1>4, <2>2 DEF Degrade, TypeInv, TypeOK, CallOK
<1>5. ASSUME NEW t \in Template, OutsideEdit(d, t) PROVE TypeInv'
  <2>1. /\ dep' \in [Deployments -> Deployment]
        /\ past' \in [Deployments -> SUBSET Template]
    BY <1>5, WriteTemplateType DEF OutsideEdit, TypeInv
  <2>2. edits' \in 0..MaxOutsideEdits
    BY <1>5, ConstantsAssumption DEF OutsideEdit, TypeInv, TypeOK
  <2> QED
    BY <1>5, <2>1, <2>2 DEF OutsideEdit, TypeInv, TypeOK, CallOK
<1> QED
  BY <1>2, <1>3, <1>4, <1>5

\* A restart of the process keeps it.
LEMMA RestartType == TypeInv /\ Restart => TypeInv'
<1> SUFFICES ASSUME TypeInv, Restart PROVE TypeInv'
  OBVIOUS
<1>1. audit' \in Seq(AuditLog)
  BY BackfilledType DEF Restart, TypeInv, TypeOK
<1>2. restarts' \in 0..MaxRestarts
  BY ConstantsAssumption DEF Restart, TypeInv, TypeOK
<1>3. \A e \in Execs :
        /\ exec'[e] \in ExecState
        /\ exec'[e].phase # "idle" => exec'[e].plan \in Plans
        /\ CallOK(exec'[e])
  <2>1. TAKE e \in Execs
  <2>2. exec[e] \in ExecState /\ CallOK(exec[e])
    BY CallFacts
  <2>3. CASE exec[e].phase \in {"idle", "done"}
    BY <2>2, <2>3 DEF Restart, CallOK
  <2>4. CASE exec[e].phase \notin {"idle", "done"}
    <3>1. exec'[e] = [exec[e] EXCEPT !.phase = "lost"]
      BY <2>4 DEF Restart
    <3> QED
      BY <2>2, <2>4, <3>1 DEF CallOK, ExecState, Phases
  <2> QED
    BY <2>3, <2>4
<1>4. exec' \in [Execs -> ExecState]
  BY <1>3 DEF Restart
<1>5. knownGood' \in [Deployments -> Template \cup {NoTemplate}] /\ autoMode' \in BOOLEAN
  BY ConstantsAssumption DEF Restart
<1> QED
  BY <1>1, <1>2, <1>3, <1>4, <1>5 DEF Restart, TypeInv, TypeOK

\* Every step of a call and of its verification keeps it.
LEMMA ExecStepType == \A e \in Execs : TypeInv /\ ExecStep(e) => TypeInv'
<1> SUFFICES ASSUME TypeInv, NEW e \in Execs, ExecStep(e) PROVE TypeInv'
  OBVIOUS
<1> DEFINE x == exec[e]
           d == x.plan.target
           Keeps == /\ exec' \in [Execs -> ExecState]
                    /\ \A f \in Execs : exec'[f].phase # "idle" => exec'[f].plan \in Plans
                    /\ \A f \in Execs : CallOK(exec'[f])
<1>1. /\ x \in ExecState /\ CallOK(x)
      /\ x.phase # "idle" => x.plan \in Plans /\ d \in Deployments
  BY CallFacts
<1>2. x.phase # "idle" =>
        /\ dep[d] \in Deployment
        /\ dep[d].tmpl \in Template
        /\ knownGood[d] \in Template \cup {NoTemplate}
  BY <1>1 DEF TypeInv, TypeOK, Deployment
<1>3. ASSUME NEW new \in ExecState, CallOK(new), exec' = [exec EXCEPT ![e] = new]
      PROVE  Keeps
  BY <1>3, CallStep
<1> HIDE DEF x, d
<1> USE DEF ExecState, Phases
<1>4. CASE GatePass(e)
  <2> DEFINE auto == autoMode /\ x.by = NoOne
             new == [x EXCEPT !.auto = auto,
        !.phase = IF CanAutoRollback(x.plan.action) THEN "snapshot" ELSE "apply"]
  <2>1. new \in ExecState
    <3>1. auto \in BOOLEAN
      OBVIOUS
    <3> HIDE DEF auto
    <3> QED
      BY <1>1, <3>1
  <2>2. CallOK(new)
    BY <1>1, <1>4 DEF x, GatePass, CallOK
  <2>3. exec' = [exec EXCEPT ![e] = new]
    BY <1>4 DEF x, GatePass
  <2> QED
    BY <2>1, <2>2, <2>3, <1>3, <1>4 DEF GatePass, TypeInv, TypeOK
<1>5. CASE GateDeny(e)
  <2> DEFINE msg == IF autoMode THEN "below threshold" ELSE "approval required"
             new == [x EXCEPT !.phase = "done", !.result = msg]
  <2>1. new \in ExecState /\ CallOK(new) /\ exec' = [exec EXCEPT ![e] = new]
    BY <1>1, <1>5 DEF x, GateDeny, CallOK, Messages, PendingMessages
  <2>2. Row(x.plan, msg, FALSE, autoMode, NoOne) \in AuditLog
    BY <1>1, <1>5, RowType DEF x, GateDeny, TypeInv, TypeOK, Messages, PendingMessages
  <2>3. audit' \in Seq(AuditLog)
    BY <1>5, <2>2, SaveType DEF x, GateDeny, TypeInv, TypeOK
  <2> QED
    BY <2>1, <2>3, <1>3, <1>5 DEF GateDeny, TypeInv, TypeOK
<1>6. CASE Snapshot(e)
  <2> DEFINE before == x.phase = "snapshot"
             after == IF before THEN "apply" ELSE "writeback"
             failed == [x EXCEPT !.phase = after,
                                 !.snap = IF before THEN NoTemplate ELSE @]
             read == [x EXCEPT
               !.phase = IF RolloutOk(dep[d]) THEN "remember" ELSE after,
               !.seen = IF RolloutOk(dep[d]) THEN dep[d].tmpl ELSE NoTemplate,
               !.snap = IF before THEN dep[d].tmpl ELSE @]
  <2>1. failed \in ExecState /\ CallOK(failed)
    BY <1>1, <1>6 DEF x, Snapshot, CallOK, VerdictMessages
  <2>2. read \in ExecState /\ CallOK(read)
    BY <1>1, <1>2, <1>6 DEF x, Snapshot, CallOK, VerdictMessages
  <2>3. exec' = [exec EXCEPT ![e] = failed] \/ exec' = [exec EXCEPT ![e] = read]
    BY <1>6 DEF x, d, Snapshot
  <2> QED
    BY <2>1, <2>2, <2>3, <1>3, <1>6 DEF Snapshot, TypeInv, TypeOK
<1>7. CASE Remember(e)
  <2> DEFINE new == [x EXCEPT
        !.phase = IF x.result = "none" THEN "apply" ELSE "writeback"]
  <2>1. new \in ExecState /\ CallOK(new) /\ exec' = [exec EXCEPT ![e] = new]
    BY <1>1, <1>7 DEF x, Remember, CallOK, VerdictMessages
  <2>2. knownGood' \in [Deployments -> Template \cup {NoTemplate}]
    BY <1>1, <1>7 DEF x, Remember, TypeInv, TypeOK
  <2> QED
    BY <2>1, <2>2, <1>3, <1>7 DEF Remember, TypeInv, TypeOK
<1>8. CASE ApplyOk(e)
  <2> DEFINE new == [x EXCEPT !.phase = "record", !.result = "executed"]
  <2>1. new \in ExecState /\ CallOK(new) /\ exec' = [exec EXCEPT ![e] = new]
    BY <1>1, <1>8 DEF x, ApplyOk, CallOK, Messages, ExecutedMessages
  <2>2. /\ dep' \in [Deployments -> Deployment]
        /\ past' \in [Deployments -> SUBSET Template]
    BY <1>1, <1>8, ChangeType DEF x, ApplyOk, TypeInv
  <2> QED
    BY <2>1, <2>2, <1>3, <1>8 DEF ApplyOk, TypeInv, TypeOK
<1>9. CASE ApplyError(e)
  <2> DEFINE new == [x EXCEPT !.phase = "record", !.result = "failed"]
  <2>1. new \in ExecState /\ CallOK(new) /\ exec' = [exec EXCEPT ![e] = new]
    BY <1>1, <1>9 DEF x, ApplyError, CallOK, Messages
  <2>2. /\ dep' \in [Deployments -> Deployment]
        /\ past' \in [Deployments -> SUBSET Template]
    BY <1>1, <1>9, ChangeType DEF x, ApplyError, TypeInv, TypeOK
  <2> QED
    BY <2>1, <2>2, <1>3, <1>9 DEF ApplyError, TypeInv, TypeOK
<1>10. CASE Record(e)
  <2> DEFINE ok == x.result = "executed"
             new == [x EXCEPT !.phase =
                       IF ok /\ NeedsVerification(x.plan.action) THEN "verify" ELSE "done"]
  <2>1. new \in ExecState /\ CallOK(new) /\ exec' = [exec EXCEPT ![e] = new]
    BY <1>1, <1>10 DEF x, Record, CallOK
  <2>2. Row(x.plan, x.result, ok, x.auto, x.by) \in AuditLog
    BY <1>1, <1>10, RowType DEF x, Record, CallOK, Messages, ExecutedMessages
  <2>3. audit' \in Seq(AuditLog)
    BY <1>10, <2>2, SaveType DEF x, Record, TypeInv, TypeOK
  <2> QED
    BY <2>1, <2>3, <1>3, <1>10 DEF Record, TypeInv, TypeOK
<1>11. CASE VerifyOk(e)
  <2> DEFINE new == [x EXCEPT !.result = "verified", !.phase =
        IF IsDeploymentLevel(x.plan.action) THEN "confirm" ELSE "writeback"]
  <2>1. new \in ExecState /\ CallOK(new) /\ exec' = [exec EXCEPT ![e] = new]
    BY <1>1, <1>11 DEF x, VerifyOk, CallOK, Messages, ExecutedMessages, VerdictMessages
  <2> QED
    BY <2>1, <1>3, <1>11 DEF VerifyOk, TypeInv, TypeOK
<1>12. CASE VerifyTimeout(e)
  <2> DEFINE back == [x EXCEPT !.phase = "pick"]
             fail == [x EXCEPT !.phase = "writeback", !.result = "verification failed"]
  <2>1. back \in ExecState /\ CallOK(back) /\ fail \in ExecState /\ CallOK(fail)
    BY <1>1, <1>12 DEF x, VerifyTimeout, CallOK, Messages, ExecutedMessages, VerdictMessages
  <2>2. exec' = [exec EXCEPT ![e] = back] \/ exec' = [exec EXCEPT ![e] = fail]
    BY <1>12 DEF x, VerifyTimeout
  <2> QED
    BY <2>1, <2>2, <1>3, <1>12 DEF VerifyTimeout, TypeInv, TypeOK
<1>13. CASE Pick(e)
  <2> DEFINE t == RollbackTarget(x)
             none == [x EXCEPT !.phase = "writeback", !.result = "no rollback template"]
             back == [x EXCEPT !.phase = "restore", !.target = t]
  <2>1. t \in Template \cup {NoTemplate}
    BY <1>1, <1>2, <1>13 DEF x, d, Pick, RollbackTarget
  <2>2. none \in ExecState /\ CallOK(none)
    BY <1>1, <1>13 DEF x, Pick, CallOK, Messages, ExecutedMessages, VerdictMessages
  <2>3. t # NoTemplate => back \in ExecState /\ CallOK(back)
    <3> HIDE DEF t
    <3> QED
      BY <1>1, <2>1, <1>13 DEF x, Pick, CallOK
  <2>4. exec' = IF t = NoTemplate THEN [exec EXCEPT ![e] = none]
                                 ELSE [exec EXCEPT ![e] = back]
    BY <1>13 DEF x, Pick
  <2> QED
    BY <2>2, <2>3, <2>4, <1>3, <1>13 DEF Pick, TypeInv, TypeOK
<1>14. CASE RestoreOk(e)
  <2> DEFINE new == [x EXCEPT !.phase = "writeback", !.result = "rolled back"]
  <2>1. new \in ExecState /\ CallOK(new) /\ exec' = [exec EXCEPT ![e] = new]
    BY <1>1, <1>14 DEF x, RestoreOk, CallOK, Messages, ExecutedMessages, VerdictMessages
  <2>2. x.target \in Template
    BY <1>1, <1>14 DEF x, RestoreOk, CallOK
  <2>3. /\ dep' \in [Deployments -> Deployment]
        /\ past' \in [Deployments -> SUBSET Template]
    BY <1>1, <2>2, <1>14, WriteTemplateType DEF x, d, RestoreOk, TypeInv
  <2> QED
    BY <2>1, <2>3, <1>3, <1>14 DEF RestoreOk, TypeInv, TypeOK
<1>15. CASE RestoreError(e)
  <2> DEFINE new == [x EXCEPT !.phase = "writeback", !.result = "rollback failed"]
  <2>1. new \in ExecState /\ CallOK(new) /\ exec' = [exec EXCEPT ![e] = new]
    BY <1>1, <1>15 DEF x, RestoreError, CallOK, Messages, ExecutedMessages, VerdictMessages
  <2>2. x.target \in Template
    BY <1>1, <1>15 DEF x, RestoreError, CallOK
  <2>3. /\ dep' \in [Deployments -> Deployment]
        /\ past' \in [Deployments -> SUBSET Template]
    BY <1>1, <2>2, <1>15, WriteTemplateType DEF x, d, RestoreError, TypeInv, TypeOK
  <2> QED
    BY <2>1, <2>3, <1>3, <1>15 DEF RestoreError, TypeInv, TypeOK
<1>16. CASE Writeback(e)
  <2> DEFINE new == [x EXCEPT !.phase = "done"]
  <2>1. new \in ExecState /\ CallOK(new) /\ exec' = [exec EXCEPT ![e] = new]
    BY <1>1, <1>16 DEF x, Writeback, CallOK
  <2>2. x.result \in Messages
    BY <1>1, <1>16 DEF x, Writeback, CallOK, Messages, ExecutedMessages
  <2>3. audit' \in Seq(AuditLog)
    <3>1. UpdateResult(audit, x.plan, x.result = "verified", x.result) \in Seq(AuditLog)
      BY <2>2, UpdateResultType DEF TypeInv, TypeOK
    <3> QED
      BY <3>1, <1>16 DEF x, Writeback, TypeInv, TypeOK
  <2> QED
    BY <2>1, <2>3, <1>3, <1>16 DEF Writeback, TypeInv, TypeOK
<1> QED
  BY <1>4, <1>5, <1>6, <1>7, <1>8, <1>9, <1>10, <1>11, <1>12, <1>13, <1>14, <1>15, <1>16
     DEF ExecStep

\* So every step does.
LEMMA TypeStep == TypeInv /\ [Next]_vars => TypeInv'
<1> SUFFICES ASSUME TypeInv, [Next]_vars PROVE TypeInv'
  OBVIOUS
<1>1. CASE UNCHANGED vars
  BY <1>1 DEF vars, TypeInv, TypeOK, CallOK
<1> QED
  BY <1>1, RequestType, ExecStepType, RestartType, ClusterType DEF Next

\* Every variable keeps its type, and every call carries the result that
\* belongs to its phase: Execute, the verification and Writeback never use a
\* message, a template or a plan that was not set before.
THEOREM TypeCorrect == Spec => []TypeOK
<1>1. Spec => []TypeInv
  BY TypeInit, TypeStep, PTL DEF Spec
<1>2. TypeInv => TypeOK
  BY DEF TypeInv
<1> QED
  BY <1>1, <1>2, PTL

-----------------------------------------------------------------------------
(* Who may change the cluster.                                             *)

\* Authorised is not inductive: what is proposed must also not stand at the
\* gate without an approver.
CallAuthorised(x) ==
  /\ x.phase = "gate" => x.by # NoOne \/ x.plan.origin # "proposal"
  /\ (x.phase \notin {"idle", "gate"} /\ x.result \notin PendingMessages) =>
       \/ x.by # NoOne
       \/ x.phase = "lost"
       \/ x.auto /\ x.plan.confident /\ x.plan.origin # "proposal"

AuthorityInv == \A e \in Execs : CallAuthorised(exec[e])

\* After the gate a call only moves on: its plan, its approver and its mode
\* are not written again.
LEMMA CallMovesOn ==
  ASSUME TypeInv, NEW e \in Execs, ExecStep(e), ~GatePass(e), ~GateDeny(e)
  PROVE  /\ exec[e].phase \notin {"idle", "gate"}
         /\ exec[e].result \notin PendingMessages
         /\ exec'[e].plan = exec[e].plan
         /\ exec'[e].by = exec[e].by
         /\ exec'[e].auto = exec[e].auto
         /\ exec'[e].phase \notin {"idle", "gate", "lost"}
<1> DEFINE x == exec[e]
<1>1. x \in ExecState /\ CallOK(x) /\ exec \in [Execs -> ExecState]
  BY CallFacts DEF TypeInv, TypeOK
<1>2. x.phase \in {"snapshot", "remember", "apply", "record", "verify",
                   "confirm", "pick", "restore", "writeback"}
  BY DEF ExecStep, Snapshot, Remember, ApplyOk, ApplyError, Record, VerifyOk,
         VerifyTimeout, Pick, RestoreOk, RestoreError, Writeback
<1>3. x.result \notin PendingMessages
  BY <1>1, <1>2 DEF CallOK, PendingMessages, VerdictMessages
<1>4. CASE Snapshot(e) \/ Remember(e)
  BY <1>1, <1>2, <1>3, <1>4 DEF Snapshot, Remember, ExecState
<1>5. CASE ApplyOk(e) \/ ApplyError(e) \/ Record(e)
  BY <1>1, <1>2, <1>3, <1>5 DEF ApplyOk, ApplyError, Record, ExecState
<1>6. CASE VerifyOk(e)
  BY <1>1, <1>2, <1>3, <1>6 DEF VerifyOk, ExecState
<1>7. CASE VerifyTimeout(e)
  BY <1>1, <1>2, <1>3, <1>7 DEF VerifyTimeout, ExecState
<1>8. CASE Pick(e)
  BY <1>1, <1>2, <1>3, <1>8 DEF Pick, ExecState
<1>9. CASE RestoreOk(e)
  BY <1>1, <1>2, <1>3, <1>9 DEF RestoreOk, ExecState
<1>10. CASE RestoreError(e)
  BY <1>1, <1>2, <1>3, <1>10 DEF RestoreError, ExecState
<1>11. CASE Writeback(e)
  BY <1>1, <1>2, <1>3, <1>11 DEF Writeback, ExecState
<1> QED
  BY <1>4, <1>5, <1>6, <1>7, <1>8, <1>9, <1>10, <1>11 DEF ExecStep

\* A step of one call leaves the others alone.
LEMMA OthersUntouched ==
  ASSUME TypeInv, NEW e \in Execs, ExecStep(e), NEW f \in Execs, f # e
  PROVE  exec'[f] = exec[f]
<1>1. exec \in [Execs -> ExecState]
  BY DEF TypeInv, TypeOK
<1> QED
  BY <1>1 DEF ExecStep, GatePass, GateDeny, Snapshot, Remember, ApplyOk, ApplyError,
     Record, VerifyOk, VerifyTimeout, Pick, RestoreOk, RestoreError, Writeback

\* Every step keeps each call authorised.
LEMMA AuthorityStep == TypeInv /\ AuthorityInv /\ [Next]_vars => AuthorityInv'
<1> SUFFICES ASSUME TypeInv, AuthorityInv, [Next]_vars,
                    NEW f \in Execs
             PROVE  CallAuthorised(exec'[f])
  BY DEF AuthorityInv, CallAuthorised
<1>1. CallAuthorised(exec[f]) /\ exec \in [Execs -> ExecState] /\ exec[f] \in ExecState
  BY DEF AuthorityInv, TypeInv, TypeOK
<1>2. CASE exec'[f] = exec[f]
  BY <1>1, <1>2
<1>3. CASE Request
  <2>1. ASSUME NEW e \in Execs, NEW p \in Plans, NEW by \in Approvers \cup {NoOne},
               Submit(e, p, by)
        PROVE  CallAuthorised(exec'[f])
    BY <1>1, <2>1 DEF Submit, NewExec, CallAuthorised
  <2>2. ASSUME NEW e \in Execs, NEW i \in DOMAIN audit, NEW by \in Approvers,
               Approve(e, i, by)
        PROVE  CallAuthorised(exec'[f])
    BY <1>1, <2>2, ConstantsAssumption DEF Approve, NewExec, CallAuthorised
  <2> QED
    BY <1>3, <1>2, <2>1, <2>2 DEF Request, ToggleAutoMode, Propose
<1>4. CASE Restart
  BY <1>1, <1>4 DEF Restart, CallAuthorised, ExecState
<1>5. ASSUME ExecStep(f) PROVE CallAuthorised(exec'[f])
  <2>1. CASE GatePass(f)
    BY <1>1, <2>1 DEF GatePass, Allowed, CallAuthorised, ExecState
  <2>2. CASE GateDeny(f)
    BY <1>1, <2>2 DEF GateDeny, CallAuthorised, ExecState, PendingMessages
  <2>3. CASE ~GatePass(f) /\ ~GateDeny(f)
    <3>1. /\ exec[f].phase \notin {"idle", "gate"}
          /\ exec[f].result \notin PendingMessages
          /\ exec'[f].plan = exec[f].plan
          /\ exec'[f].by = exec[f].by
          /\ exec'[f].auto = exec[f].auto
          /\ exec'[f].phase \notin {"idle", "gate", "lost"}
      BY <1>5, <2>3, CallMovesOn
    <3>2. exec[f].phase # "lost"
      BY <1>5, <2>3 DEF ExecStep, Snapshot, Remember, ApplyOk, ApplyError, Record,
         VerifyOk, VerifyTimeout, Pick, RestoreOk, RestoreError, Writeback
    <3> QED
      BY <1>1, <3>1, <3>2 DEF CallAuthorised
  <2> QED
    BY <2>1, <2>2, <2>3
<1>6. CASE Cluster
  BY <1>2, <1>6 DEF Cluster, Observe, Complete, Degrade, OutsideEdit
<1>7. CASE UNCHANGED vars
  BY <1>2, <1>7 DEF vars
<1> QED
  BY <1>2, <1>3, <1>4, <1>5, <1>6, <1>7, OthersUntouched DEF Next

\* No change reaches the cluster on the program's own authority, whatever the
\* number of calls, plans and approvers, and however auto mode is toggled.
THEOREM AuthorisedAlways == Spec => []Authorised
<1>1. Init => AuthorityInv
  BY DEF Init, NewExec, AuthorityInv, CallAuthorised
<1>2. Spec => []TypeInv
  BY TypeInit, TypeStep, PTL DEF Spec
<1>3. AuthorityInv => Authorised
  BY DEF AuthorityInv, CallAuthorised, Authorised
<1> QED
  BY <1>1, <1>2, <1>3, AuthorityStep, PTL DEF Spec

-----------------------------------------------------------------------------
(* What "healthy" means: templates stored, restored and verified.          *)

WasHealthy(d, t) == t \in rolled[d]

\* A Deployment whose status passes the check of the executor really has
\* rolled out its current template.
StatusOK(d) ==
  RolloutOk(dep[d]) =>
    /\ WasHealthy(d, dep[d].tmpl)
    /\ dep[d].tmpl \in Serviceable \/ dep[d].replicas = 0

StatusInv == \A d \in Deployments : StatusOK(d)

\* A template on its way to knownGood was healthy, however late it arrives.
CallRemembersHealthy(x) ==
  x.phase = "remember" => WasHealthy(x.plan.target, x.seen)

CallRestoresTrusted(x) ==
  x.target # NoTemplate => x.target = x.snap \/ WasHealthy(x.plan.target, x.target)

HealthInv ==
  /\ StatusInv
  /\ KnownGoodWasHealthy
  /\ \A e \in Execs : CallRemembersHealthy(exec[e]) /\ CallRestoresTrusted(exec[e])

\* A write of the executor, or of somebody else, leaves a Deployment that is
\* the same or that the controller has not observed.
Unsettled(d) == dep'[d] = dep[d] \/ ~dep'[d].observed

\* After a write the status no longer counts, unless nothing has changed.
LEMMA WriteTemplateUnsettles ==
  ASSUME TypeInv, NEW c \in Deployments, NEW t \in Template, WriteTemplate(c, t),
         NEW d \in Deployments
  PROVE  Unsettled(d)
<1>1. dep \in [Deployments -> Deployment] /\ dep[c] \in Deployment
  BY DEF TypeInv, TypeOK
<1> QED
  BY <1>1 DEF WriteTemplate, Written, Deployment, Unsettled

\* The same of every action of a plan.
LEMMA ChangeUnsettles ==
  ASSUME TypeInv, NEW p \in Plans, Change(p), NEW d \in Deployments
  PROVE  Unsettled(d)
<1>1. /\ dep \in [Deployments -> Deployment]
      /\ p.target \in Deployments
      /\ dep[p.target] \in Deployment
      /\ past[p.target] \subseteq Template
  BY PlanType DEF TypeInv, TypeOK
<1>2. CASE CanAutoRollback(p.action)
  <2>1. Changed(dep[p.target].tmpl, p) \in Template
    BY <1>1, ChangedType DEF Deployment
  <2> QED
    BY <1>1, <1>2, <2>1, WriteTemplateUnsettles DEF Change, CanAutoRollback
<1>3. CASE p.action = "scale_deployment"
  BY <1>1, <1>3 DEF Change, CanAutoRollback, Written, Deployment, Unsettled
<1>4. CASE p.action = "rollout_restart"
  BY <1>1, <1>4 DEF Change, CanAutoRollback, Deployment, Unsettled
<1>5. CASE p.action = "rollout_undo"
  BY <1>1, <1>5, WriteTemplateUnsettles DEF Change, CanAutoRollback
<1>6. CASE ~CanAutoRollback(p.action)
           /\ p.action \notin {"scale_deployment", "rollout_restart", "rollout_undo"}
  BY <1>6 DEF Change, Unsettled
<1> QED
  BY <1>2, <1>3, <1>4, <1>5, <1>6

\* No step of a call can make a Deployment look healthier than it is.
LEMMA ExecStepUnsettles ==
  ASSUME TypeInv, NEW e \in Execs, ExecStep(e), NEW d \in Deployments
  PROVE  Unsettled(d) /\ rolled' = rolled
<1>1. /\ exec[e] \in ExecState /\ CallOK(exec[e])
      /\ exec[e].phase # "idle" =>
           exec[e].plan \in Plans /\ exec[e].plan.target \in Deployments
  BY CallFacts
<1>2. CASE UNCHANGED <<dep, rolled>>
  BY <1>2 DEF Unsettled
<1>3. CASE ApplyOk(e)
  BY <1>1, <1>3, ChangeUnsettles DEF ApplyOk
<1>4. CASE ApplyError(e)
  BY <1>1, <1>2, <1>4, ChangeUnsettles DEF ApplyError
<1>5. exec[e].phase = "restore" => exec[e].target \in Template
  BY <1>1 DEF CallOK, ExecState
<1>6. CASE RestoreOk(e)
  BY <1>1, <1>5, <1>6, WriteTemplateUnsettles DEF RestoreOk
<1>7. CASE RestoreError(e)
  BY <1>1, <1>2, <1>5, <1>7, WriteTemplateUnsettles DEF RestoreError
<1> QED
  BY <1>2, <1>3, <1>4, <1>6, <1>7 DEF ExecStep, GatePass, GateDeny, Snapshot, Remember,
     Record, VerifyOk, VerifyTimeout, Pick, Writeback

\* What was healthy once stays in the history of healthy rollouts.
LEMMA RolledGrows ==
  ASSUME TypeInv, [Next]_vars, NEW d \in Deployments
  PROVE  rolled[d] \subseteq rolled'[d]
<1>1. rolled \in [Deployments -> SUBSET Template]
  BY DEF TypeInv, TypeOK
<1>2. CASE UNCHANGED rolled
  BY <1>2
<1>3. CASE Cluster
  BY <1>1, <1>2, <1>3 DEF Cluster, Observe, Complete, Degrade, OutsideEdit
<1>4. CASE Request
  BY <1>2, <1>4 DEF Request, ToggleAutoMode, Propose, Submit, Approve
<1> QED
  BY <1>2, <1>3, <1>4, ExecStepUnsettles DEF Next, Restart, vars

\* A status that counts as complete belongs to a rollout in the history.
LEMMA StatusStep == TypeInv /\ StatusInv /\ [Next]_vars => StatusInv'
<1> SUFFICES ASSUME TypeInv, StatusInv, [Next]_vars, NEW d \in Deployments
             PROVE  StatusOK(d)'
  BY DEF StatusInv
<1>1. rolled[d] \subseteq rolled'[d]
  BY RolledGrows
<1>2. dep \in [Deployments -> Deployment] /\ dep[d] \in Deployment
  BY DEF TypeInv, TypeOK
<1>3. CASE Unsettled(d)
  BY <1>1, <1>3 DEF StatusInv, StatusOK, RolloutOk, Unsettled, WasHealthy
<1>4. ASSUME NEW c \in Deployments, Observe(c) \/ Degrade(c)
      PROVE  StatusOK(d)'
  <2>1. CASE c = d
    <3>1. ~dep'[d].complete
      BY <1>2, <1>4, <2>1 DEF Observe, Degrade, Deployment
    <3> QED
      BY <3>1 DEF RolloutOk, StatusOK
  <2>2. CASE c # d
    BY <1>2, <1>3, <1>4, <2>2 DEF Observe, Degrade, Unsettled
  <2> QED
    BY <2>1, <2>2
<1>6. ASSUME NEW c \in Deployments, Complete(c), c # d
      PROVE  Unsettled(d)
  BY <1>2, <1>6 DEF Complete, Unsettled
<1>7. CASE Complete(d)
  <2>1. dep'[d].tmpl = dep[d].tmpl /\ dep'[d].replicas = dep[d].replicas
    BY <1>2, <1>7 DEF Complete, Deployment
  <2>2. WasHealthy(d, dep[d].tmpl)'
    BY <1>7, <2>1 DEF Complete, WasHealthy, TypeInv, TypeOK
  <2> QED
    BY <1>7, <2>1, <2>2 DEF Complete, WasHealthy, StatusOK
<1>8. ASSUME NEW c \in Deployments, NEW t \in Template, OutsideEdit(c, t)
      PROVE  Unsettled(d)
  BY <1>8, WriteTemplateUnsettles DEF OutsideEdit
<1>9. CASE Request
  BY <1>3, <1>9 DEF Request, ToggleAutoMode, Propose, Submit, Approve, Unsettled
<1>10. CASE Restart \/ UNCHANGED vars
  BY <1>3, <1>10 DEF Restart, vars, Unsettled
<1>11. ASSUME NEW e \in Execs, ExecStep(e) PROVE Unsettled(d)
  BY <1>11, ExecStepUnsettles
<1>12. CASE Cluster
  BY <1>3, <1>4, <1>6, <1>7, <1>8, <1>12 DEF Cluster
<1> QED
  BY <1>3, <1>9, <1>10, <1>11, <1>12 DEF Next

\* Nothing is remembered at the start, and healthy Deployments are in the history.
LEMMA HealthInit == Init => HealthInv
<1> SUFFICES ASSUME Init PROVE HealthInv
  OBVIOUS
<1>1. PICK t \in [Deployments -> Template] :
        /\ \A d \in Deployments : Healthy0 <=> t[d] \in Serviceable
        /\ dep = [d \in Deployments |-> [tmpl |-> t[d], replicas |-> 1,
                                         observed |-> TRUE, complete |-> Healthy0]]
        /\ rolled = [d \in Deployments |->
                       IF Healthy0 THEN {t[d]} ELSE {}]
  BY DEF Init
<1>2. StatusInv
  BY <1>1 DEF StatusInv, StatusOK, RolloutOk, WasHealthy
<1>3. \A e \in Execs : CallRemembersHealthy(exec[e]) /\ CallRestoresTrusted(exec[e])
  BY DEF Init, NewExec, CallRemembersHealthy, CallRestoresTrusted
<1>4. KnownGoodWasHealthy
  BY DEF Init, KnownGoodWasHealthy
<1> QED
  BY <1>2, <1>3, <1>4 DEF HealthInv

\* What was healthy stays so in the history.
LEMMA WasHealthyStays ==
  ASSUME TypeInv, [Next]_vars, NEW d \in Deployments, NEW t, WasHealthy(d, t)
  PROVE  WasHealthy(d, t)'
BY RolledGrows DEF WasHealthy

\* The step of a call keeps its own remembered and restored templates healthy.
LEMMA CallHealthStep ==
  ASSUME TypeInv, HealthInv, [Next]_vars, NEW e \in Execs, ExecStep(e)
  PROVE  (CallRemembersHealthy(exec[e]) /\ CallRestoresTrusted(exec[e]))'
<1> DEFINE x == exec[e]
<1>1. /\ x \in ExecState /\ CallOK(x) /\ exec \in [Execs -> ExecState]
      /\ CallRemembersHealthy(x) /\ CallRestoresTrusted(x)
  BY CallFacts DEF HealthInv, TypeInv, TypeOK
<1>2. x.phase # "idle"
  BY DEF ExecStep, GatePass, GateDeny, Snapshot, Remember, ApplyOk, ApplyError,
         Record, VerifyOk, VerifyTimeout, Pick, RestoreOk, RestoreError, Writeback
<1> PICK d \in Deployments : d = x.plan.target
  BY <1>2, CallFacts
<1>3. \A t : WasHealthy(d, t) => WasHealthy(d, t)'
  BY WasHealthyStays
<1>4. CASE Snapshot(e)
  <2>1. exec'[e].plan = x.plan /\ exec'[e].target = x.target
    BY <1>1, <1>4 DEF Snapshot, ExecState
  <2>2. exec'[e].phase = "remember" => RolloutOk(dep[d]) /\ exec'[e].seen = dep[d].tmpl
    BY <1>1, <1>4 DEF Snapshot, ExecState
  <2>3. RolloutOk(dep[d]) => WasHealthy(d, dep[d].tmpl)
    BY DEF HealthInv, StatusInv, StatusOK
  <2>4. exec'[e].phase = "remember" => WasHealthy(d, exec[e].seen)'
    BY <2>2, <2>3, <1>3 DEF WasHealthy
  <2>5. x.target # NoTemplate => exec'[e].snap = x.snap
    BY <1>1, <1>4 DEF Snapshot, CallOK, ExecState
  <2> QED
    BY <1>1, <1>3, <2>1, <2>4, <2>5
       DEF CallRemembersHealthy, CallRestoresTrusted, WasHealthy
<1>5. CASE Pick(e)
  <2>1. /\ exec'[e].plan = x.plan
        /\ exec'[e].snap = x.snap
        /\ exec'[e].phase # "remember"
        /\ exec'[e].target \in {x.target, RollbackTarget(x)}
    BY <1>1, <1>5 DEF Pick, ExecState
  <2>2. RollbackTarget(x) # NoTemplate =>
          RollbackTarget(x) = x.snap \/ WasHealthy(d, RollbackTarget(x))
    BY DEF RollbackTarget, HealthInv, KnownGoodWasHealthy, WasHealthy
  <2> QED
    BY <1>1, <1>3, <2>1, <2>2
       DEF CallRemembersHealthy, CallRestoresTrusted, WasHealthy
<1>6. CASE ~Snapshot(e) /\ ~Pick(e)
  <2>1. /\ exec'[e].plan = x.plan
        /\ exec'[e].target = x.target
        /\ exec'[e].snap = x.snap
        /\ exec'[e].phase # "remember"
    <3> USE <1>1 DEF ExecState
    <3>1. CASE GatePass(e)
      BY <3>1 DEF GatePass
    <3>10. CASE GateDeny(e)
      BY <3>10 DEF GateDeny
    <3>2. CASE Remember(e)
      BY <3>2 DEF Remember
    <3>3. CASE ApplyOk(e) \/ Record(e)
      BY <3>3 DEF ApplyOk, Record
    <3>4. CASE ApplyError(e)
      BY <3>4 DEF ApplyError
    <3>5. CASE VerifyOk(e)
      BY <3>5 DEF VerifyOk
    <3>6. CASE VerifyTimeout(e)
      BY <3>6 DEF VerifyTimeout
    <3>7. CASE RestoreOk(e)
      BY <3>7 DEF RestoreOk
    <3>8. CASE RestoreError(e)
      BY <3>8 DEF RestoreError
    <3>9. CASE Writeback(e)
      BY <3>9 DEF Writeback
    <3> QED
      BY <1>6, <3>1, <3>2, <3>3, <3>4, <3>5, <3>6, <3>7, <3>8, <3>9, <3>10
         DEF ExecStep
  <2> QED
    BY <1>1, <1>3, <2>1 DEF CallRemembersHealthy, CallRestoresTrusted, WasHealthy
<1> QED
  BY <1>4, <1>5, <1>6

\* Every step keeps what is remembered, seen or restored healthy.
LEMMA HealthStep == TypeInv /\ HealthInv /\ [Next]_vars => HealthInv'
<1> SUFFICES ASSUME TypeInv, HealthInv, [Next]_vars PROVE HealthInv'
  OBVIOUS
<1>1. StatusInv'
  BY StatusStep DEF HealthInv
<1>2. ASSUME NEW d \in Deployments, knownGood'[d] # NoTemplate
      PROVE  WasHealthy(d, knownGood[d])'
  <2>1. CASE knownGood'[d] = knownGood[d]
    BY <1>2, <2>1, WasHealthyStays DEF HealthInv, KnownGoodWasHealthy, WasHealthy
  <2>2. ASSUME NEW e \in Execs, Remember(e) PROVE WasHealthy(d, knownGood[d])'
    <3>1. CASE exec[e].plan.target = d
      <4>1. knownGood'[d] = exec[e].seen
        BY <2>2, <3>1 DEF Remember, TypeInv, TypeOK
      <4>2. WasHealthy(d, exec[e].seen)
        BY <2>2, <3>1 DEF HealthInv, CallRemembersHealthy, Remember
      <4> QED
        BY <4>1, <4>2, RolledGrows DEF WasHealthy
    <3>2. CASE exec[e].plan.target # d
      BY <2>1, <2>2, <3>2 DEF Remember, TypeInv, TypeOK
    <3> QED
      BY <3>1, <3>2
  <2>3. CASE Restart
    BY <1>2, <2>3 DEF Restart
  <2>4. CASE Request
    BY <2>1, <2>4 DEF Request, ToggleAutoMode, Propose, Submit, Approve
  <2>5. CASE Cluster
    BY <2>1, <2>5 DEF Cluster, Observe, Complete, Degrade, OutsideEdit
  <2>6. CASE UNCHANGED vars
    BY <2>1, <2>6 DEF vars
  <2>7. ASSUME NEW e \in Execs, ExecStep(e) PROVE WasHealthy(d, knownGood[d])'
    BY <2>1, <2>2, <2>7 DEF ExecStep, GatePass, GateDeny, Snapshot, ApplyOk, ApplyError,
       Record, VerifyOk, VerifyTimeout, Pick, RestoreOk, RestoreError, Writeback
  <2> QED
    BY <2>3, <2>4, <2>5, <2>6, <2>7 DEF Next
<1>3. KnownGoodWasHealthy'
  BY <1>2 DEF KnownGoodWasHealthy, WasHealthy
<1>4. ASSUME NEW f \in Execs
      PROVE  (CallRemembersHealthy(exec[f]) /\ CallRestoresTrusted(exec[f]))'
  <2>1. /\ exec \in [Execs -> ExecState] /\ exec[f] \in ExecState /\ CallOK(exec[f])
        /\ CallRemembersHealthy(exec[f]) /\ CallRestoresTrusted(exec[f])
    BY CallFacts DEF HealthInv, TypeInv, TypeOK
  <2>2. \A d \in Deployments : rolled[d] \subseteq rolled'[d]
    BY RolledGrows
  <2>3. exec[f].phase # "idle" => exec[f].plan.target \in Deployments
    BY CallFacts
  <2>4. exec[f].phase = "idle" => exec[f].target = NoTemplate
    BY <2>1 DEF CallOK
  <2>5. CASE exec'[f] = exec[f]
    BY <2>1, <2>2, <2>3, <2>4, <2>5
       DEF CallRemembersHealthy, CallRestoresTrusted, WasHealthy
  <2>6. CASE Restart
    BY <2>1, <2>2, <2>3, <2>4, <2>6
       DEF Restart, CallRemembersHealthy, CallRestoresTrusted, WasHealthy, ExecState
  <2>7. CASE Request
    <3>1. ASSUME NEW e \in Execs, NEW p \in Plans, NEW by \in Approvers \cup {NoOne},
                 Submit(e, p, by)
          PROVE  (CallRemembersHealthy(exec[f]) /\ CallRestoresTrusted(exec[f]))'
      BY <2>1, <2>5, <3>1
         DEF Submit, NewExec, CallRemembersHealthy, CallRestoresTrusted
    <3>2. ASSUME NEW e \in Execs, NEW i \in DOMAIN audit, NEW by \in Approvers,
                 Approve(e, i, by)
          PROVE  (CallRemembersHealthy(exec[f]) /\ CallRestoresTrusted(exec[f]))'
      BY <2>1, <2>5, <3>2
         DEF Approve, NewExec, CallRemembersHealthy, CallRestoresTrusted
    <3> QED
      BY <2>5, <2>7, <3>1, <3>2 DEF Request, ToggleAutoMode, Propose
  <2>8. CASE Cluster \/ UNCHANGED vars
    BY <2>5, <2>8 DEF Cluster, Observe, Complete, Degrade, OutsideEdit, vars
  <2>9. ASSUME NEW e \in Execs, ExecStep(e)
        PROVE  (CallRemembersHealthy(exec[f]) /\ CallRestoresTrusted(exec[f]))'
    BY <2>5, <2>9, OthersUntouched, CallHealthStep
  <2> QED
    BY <2>6, <2>7, <2>8, <2>9 DEF Next
<1> QED
  BY <1>1, <1>3, <1>4 DEF HealthInv

\* The invariant that the theorems on health rest on.
LEMMA HealthAlways == Spec => []HealthInv
<1>1. Spec => []TypeInv
  BY TypeInit, TypeStep, PTL DEF Spec
<1> QED
  BY <1>1, HealthInit, HealthStep, PTL DEF Spec

\* knownGood only ever holds templates whose rollout was complete, although
\* each is read and stored in two steps, by calls that overlap.
THEOREM KnownGoodAlwaysWasHealthy == Spec => []KnownGoodWasHealthy
<1>1. HealthInv => KnownGoodWasHealthy
  BY DEF HealthInv
<1> QED
  BY <1>1, HealthAlways, PTL

\* An automatic rollback only ever restores a template that was healthy, or
\* the one its own call replaced.
THEOREM RollbackTargetAlwaysTrusted == Spec => []RollbackTargetTrusted
<1>1. HealthInv => RollbackTargetTrusted
  BY DEF HealthInv, CallRestoresTrusted, RollbackTargetTrusted, WasHealthy
<1> QED
  BY <1>1, HealthAlways, PTL

\* "verified" is only concluded of a Deployment whose current template can
\* become available, or that is scaled to zero.
THEOREM VerifiedAlwaysMeansServing == Spec => VerifiedMeansServing
<1> DEFINE Concludes ==
      \A e \in Execs :
        (exec[e].phase = "verify" /\ exec[e]'.result = "verified"
           /\ IsDeploymentLevel(exec[e].plan.action)) =>
        LET x == dep[exec[e].plan.target]
        IN x.tmpl \in Serviceable \/ x.replicas = 0
<1>1. TypeInv /\ HealthInv /\ [Next]_vars => Concludes
  <2> SUFFICES ASSUME TypeInv, HealthInv, [Next]_vars, NEW e \in Execs,
                      exec[e].phase = "verify", exec[e]'.result = "verified",
                      IsDeploymentLevel(exec[e].plan.action)
               PROVE  LET x == dep[exec[e].plan.target]
                      IN x.tmpl \in Serviceable \/ x.replicas = 0
    OBVIOUS
  <2>1. /\ exec[e] \in ExecState /\ exec \in [Execs -> ExecState]
        /\ exec[e].result = "executed"
        /\ exec[e].plan.target \in Deployments
    BY CallFacts DEF CallOK, TypeInv, TypeOK
  <2>2. exec'[e] # exec[e]
    BY <2>1
  <2>3. ~Restart
    BY <2>1 DEF Restart, ExecState
  <2>4. ~Request /\ ~Cluster /\ ~UNCHANGED vars
    BY <2>1, <2>2 DEF Request, ToggleAutoMode, Propose, Submit, Approve, vars,
       Cluster, Observe, Complete, Degrade, OutsideEdit
  <2>5. ExecStep(e)
    BY <2>2, <2>3, <2>4, OthersUntouched DEF Next
  <2>6. VerifyOk(e) \/ VerifyTimeout(e)
    BY <2>5 DEF ExecStep, GatePass, GateDeny, Snapshot, Remember, ApplyOk, ApplyError,
       Record, Pick, RestoreOk, RestoreError, Writeback
  <2>7. ~VerifyTimeout(e)
    BY <2>1 DEF VerifyTimeout, ExecState
  <2> QED
    BY <2>1, <2>6, <2>7 DEF VerifyOk, HealthInv, StatusInv, StatusOK
<1>2. Spec => []TypeInv
  BY TypeInit, TypeStep, PTL DEF Spec
<1> HIDE DEF Concludes
<1>3. Spec => [][Concludes]_vars
  BY <1>1, <1>2, HealthAlways, PTL DEF Spec
<1> QED
  BY <1>3 DEF Concludes, VerifiedMeansServing
-----------------------------------------------------------------------------
(* What the audit table says of a change.                                  *)

\* No other call has a plan of this ID.
Alone(e) ==
  \A f \in Execs \ {e} : exec[f].plan = NoPlan \/ exec[f].plan.id # exec[e].plan.id

\* A call whose change was recorded has a row that names who decided.
CallRecorded(e) ==
  LET x == exec[e] IN
  x.result \in ExecutedMessages /\ x.phase \notin {"record", "lost"} =>
    \E i \in DOMAIN audit : /\ audit[i].plan.id = x.plan.id
                            /\ audit[i].approvedBy = x.by
                            /\ audit[i].autoExecuted = x.auto

\* The verdict of a plan's only call is in every row of the plan.
CallSettled(e) ==
  LET x == exec[e] IN
  x.phase = "done" /\ x.result \in VerdictMessages /\ x.plan.id # NoId /\ Alone(e) =>
    \A i \in DOMAIN audit : audit[i].plan.id = x.plan.id => audit[i].message = x.result

RecordInv ==
  /\ \A e \in Execs : exec[e].phase = "idle" => exec[e].plan = NoPlan
  /\ \A e \in Execs : CallRecorded(e) /\ CallSettled(e)

\* Rows only come at the end of the table, and none changes its plan or who decided.
LEMMA RowsKept ==
  ASSUME TypeInv, [Next]_vars, NEW i \in DOMAIN audit
  PROVE  /\ i \in DOMAIN audit'
         /\ audit'[i].plan = audit[i].plan
         /\ audit'[i].approvedBy = audit[i].approvedBy
         /\ audit'[i].autoExecuted = audit[i].autoExecuted
<1>1. audit \in Seq(AuditLog) /\ audit[i] \in AuditLog
  BY DEF TypeInv, TypeOK
<1> DEFINE Kept == /\ i \in DOMAIN audit'
                   /\ audit'[i].plan = audit[i].plan
                   /\ audit'[i].approvedBy = audit[i].approvedBy
                   /\ audit'[i].autoExecuted = audit[i].autoExecuted
<1>2. CASE UNCHANGED audit
  BY <1>2
<1>3. ASSUME NEW row, audit' = Append(audit, row) PROVE Kept
  <2>1. i \in 1..Len(audit) /\ Len(audit) \in Nat
    BY <1>1
  <2>2. DOMAIN audit' = 1..(Len(audit) + 1) /\ audit'[i] = audit[i]
    BY <1>1, <1>3, <2>1
  <2> QED
    BY <2>1, <2>2
<1>4. ASSUME NEW p, NEW ok, NEW m, audit' = UpdateResult(audit, p, ok, m) PROVE Kept
  BY <1>1, <1>4 DEF UpdateResult, AuditLog
<1>5. CASE audit' = Backfilled(audit)
  BY <1>1, <1>5 DEF Backfilled, AuditLog
<1>6. \/ UNCHANGED audit
      \/ \E row : audit' = Append(audit, row)
      \/ \E p, ok, m : audit' = UpdateResult(audit, p, ok, m)
      \/ audit' = Backfilled(audit)
  <2>1. CASE Request
    BY <2>1 DEF Request, ToggleAutoMode, Propose, Save, Submit, Approve
  <2>2. CASE Cluster
    BY <2>2 DEF Cluster, Observe, Complete, Degrade, OutsideEdit
  <2>3. CASE Restart \/ UNCHANGED vars
    BY <2>3 DEF Restart, vars
  <2>4. ASSUME NEW e \in Execs, ExecStep(e)
        PROVE  \/ UNCHANGED audit
               \/ \E row : audit' = Append(audit, row)
               \/ \E p, ok, m : audit' = UpdateResult(audit, p, ok, m)
    <3>1. CASE GateDeny(e) \/ Record(e)
      BY <3>1 DEF GateDeny, Record, Save
    <3>2. CASE Writeback(e)
      <4> DEFINE ok == exec[e].result = "verified"
      <4>1. \/ UNCHANGED audit
            \/ audit' = UpdateResult(audit, exec[e].plan, ok, exec[e].result)
        BY <3>2 DEF Writeback
      <4> HIDE DEF ok
      <4> QED
        BY <4>1
    <3>3. CASE ~ GateDeny(e) /\ ~ Record(e) /\ ~ Writeback(e)
      BY <2>4, <3>3 DEF ExecStep, GatePass, Snapshot, Remember, ApplyOk, ApplyError,
         VerifyOk, VerifyTimeout, Pick, RestoreOk, RestoreError
    <3> QED
      BY <3>1, <3>2, <3>3
  <2> QED
    BY <2>1, <2>2, <2>3, <2>4 DEF Next
<1> QED
  BY <1>2, <1>3, <1>4, <1>5, <1>6

\* A call that has a plan keeps it.
LEMMA PlanKept ==
  ASSUME TypeInv, RecordInv, [Next]_vars, NEW e \in Execs, exec[e].plan # NoPlan
  PROVE  exec'[e].plan = exec[e].plan
<1>1. exec \in [Execs -> ExecState] /\ exec[e] \in ExecState /\ exec[e].phase # "idle"
  BY DEF TypeInv, TypeOK, RecordInv
<1>2. CASE Request
  BY <1>1, <1>2 DEF Request, ToggleAutoMode, Propose, Submit, Approve
<1>3. CASE Cluster \/ UNCHANGED vars
  BY <1>3 DEF Cluster, Observe, Complete, Degrade, OutsideEdit, vars
<1>4. CASE Restart
  BY <1>1, <1>4 DEF Restart, ExecState
<1>5. CASE ExecStep(e)
  <2>1. CASE GatePass(e)
    BY <1>1, <2>1 DEF GatePass, ExecState
  <2>2. CASE GateDeny(e)
    BY <1>1, <2>2 DEF GateDeny, ExecState
  <2> QED
    BY <1>5, <2>1, <2>2, CallMovesOn
<1>6. ASSUME NEW f \in Execs, f # e, ExecStep(f) PROVE exec'[e].plan = exec[e].plan
  BY <1>6, OthersUntouched
<1> QED
  BY <1>2, <1>3, <1>4, <1>5, <1>6 DEF Next

\* So a call that is alone with its plan was alone before.
LEMMA AloneBefore ==
  ASSUME TypeInv, RecordInv, [Next]_vars, NEW e \in Execs, exec[e].plan # NoPlan, Alone(e)'
  PROVE  Alone(e)
BY PlanKept DEF Alone
\* Until a call with a plan of the same ID writes, the rows of a plan neither change
\* their text nor get more.
LEMMA RowsOfOthers ==
  ASSUME TypeInv, RecordInv, [Next]_vars, NEW e \in Execs, exec[e].plan # NoPlan,
         Alone(e), ~ ExecStep(e), NEW i \in DOMAIN audit',
         audit'[i].plan.id = exec[e].plan.id
  PROVE  i \in DOMAIN audit /\ audit'[i].message = audit[i].message
<1>1. audit \in Seq(AuditLog) /\ \A j \in DOMAIN audit : audit[j] \in AuditLog
  BY DEF TypeInv, TypeOK
<1> DEFINE Kept == i \in DOMAIN audit /\ audit'[i].message = audit[i].message
<1>2. CASE UNCHANGED audit
  BY <1>2
<1>3. ASSUME NEW row, audit' = Append(audit, row), row.plan.id # exec[e].plan.id
      PROVE  Kept
  <2>1. DOMAIN audit = 1..Len(audit) /\ Len(audit) \in Nat
    BY <1>1
  <2>2. DOMAIN audit' = 1..(Len(audit) + 1)
    BY <1>1, <1>3
  <2>3. audit'[Len(audit) + 1] = row
    BY <1>1, <1>3
  <2>4. i # Len(audit) + 1
    BY <1>3, <2>3
  <2>5. i \in DOMAIN audit
    BY <2>1, <2>2, <2>4
  <2>6. audit'[i] = audit[i]
    BY <1>1, <1>3, <2>1, <2>5
  <2> QED
    BY <2>5, <2>6
<1>4. ASSUME NEW p, NEW ok, NEW m, audit' = UpdateResult(audit, p, ok, m),
             p.id # exec[e].plan.id
      PROVE  Kept
  <2>1. i \in DOMAIN audit
    BY <1>4 DEF UpdateResult
  <2>2. audit'[i].plan = audit[i].plan
    BY <2>1, RowsKept
  <2>3. audit'[i] = audit[i]
    BY <1>4, <2>1, <2>2 DEF UpdateResult
  <2> QED
    BY <2>1, <2>3
<1>5. CASE audit' = Backfilled(audit)
  BY <1>1, <1>5 DEF Backfilled, AuditLog
<1>6. CASE Request
  <2>1. ASSUME NEW p \in Plans, Propose(p) PROVE Kept
    <3>1. p.id # exec[e].plan.id
      BY <2>1 DEF Propose
    <3>2. Row(p, "pending approval", FALSE, FALSE, NoOne).plan = p
      BY DEF Row
    <3>3. \/ UNCHANGED audit
          \/ audit' = Append(audit, Row(p, "pending approval", FALSE, FALSE, NoOne))
      BY <2>1 DEF Propose, Save
    <3> QED
      BY <1>2, <1>3, <3>1, <3>2, <3>3
  <2> QED
    BY <1>2, <1>6, <2>1 DEF Request, ToggleAutoMode, Submit, Approve
<1>7. CASE Cluster \/ UNCHANGED vars
  BY <1>2, <1>7 DEF Cluster, Observe, Complete, Degrade, OutsideEdit, vars
<1>8. CASE Restart
  BY <1>5, <1>8 DEF Restart
<1>9. ASSUME NEW f \in Execs, ExecStep(f) PROVE Kept
  <2>1. f # e
    BY <1>9
  <2>2. exec[f].phase # "idle"
    BY <1>9 DEF ExecStep, GatePass, GateDeny, Snapshot, Remember, ApplyOk, ApplyError,
       Record, VerifyOk, VerifyTimeout, Pick, RestoreOk, RestoreError, Writeback
  <2>3. exec[f].plan \in Plans
    BY <2>2, CallFacts
  <2>4. exec[f].plan.id # exec[e].plan.id
    BY <2>1, <2>3, ConstantsAssumption DEF Alone
  <2>5. CASE GateDeny(f) \/ Record(f)
    <3>1. \/ UNCHANGED audit
          \/ \E msg, ok, auto, by : audit' = Append(audit, Row(exec[f].plan, msg, ok, auto, by))
      <4>1. CASE GateDeny(f)
        BY <4>1 DEF GateDeny, Save
      <4>2. CASE Record(f)
        <5> DEFINE ok == exec[f].result = "executed"
        <5>1. \/ UNCHANGED audit
              \/ audit' = Append(audit, Row(exec[f].plan, exec[f].result, ok,
                                            exec[f].auto, exec[f].by))
          BY <4>2 DEF Record, Save
        <5> HIDE DEF ok
        <5> QED
          BY <5>1, Zenon
      <4> QED
        BY <2>5, <4>1, <4>2
    <3>2. \A msg, ok, auto, by : Row(exec[f].plan, msg, ok, auto, by).plan = exec[f].plan
      BY DEF Row
    <3> QED
      BY <1>2, <1>3, <2>4, <3>1, <3>2
  <2>6. CASE Writeback(f)
    <3> DEFINE ok == exec[f].result = "verified"
    <3>1. \/ UNCHANGED audit
          \/ audit' = UpdateResult(audit, exec[f].plan, ok, exec[f].result)
      BY <2>6 DEF Writeback
    <3> HIDE DEF ok
    <3> QED
      BY <1>2, <1>4, <2>4, <3>1
  <2>7. CASE ~ GateDeny(f) /\ ~ Record(f) /\ ~ Writeback(f)
    BY <1>2, <1>9, <2>7 DEF ExecStep, GatePass, Snapshot, Remember, ApplyOk, ApplyError,
       VerifyOk, VerifyTimeout, Pick, RestoreOk, RestoreError
  <2> QED
    BY <2>5, <2>6, <2>7
<1> QED
  BY <1>6, <1>7, <1>8, <1>9 DEF Next
\* A step of a call leaves it recorded, and settled once it is done.
LEMMA CallRecordStep ==
  ASSUME TypeInv, RecordInv, [Next]_vars, ~ StoreFaults, NEW e \in Execs, ExecStep(e)
  PROVE  CallRecorded(e)' /\ CallSettled(e)'
<1>1. /\ exec \in [Execs -> ExecState] /\ exec[e] \in ExecState /\ CallOK(exec[e])
      /\ audit \in Seq(AuditLog)
  BY CallFacts DEF TypeInv, TypeOK
<1>2. CallRecorded(e)
  BY DEF RecordInv
<1>3. ASSUME exec[e].result \in ExecutedMessages, exec[e].phase \notin {"record", "lost"},
             exec'[e].plan = exec[e].plan, exec'[e].by = exec[e].by,
             exec'[e].auto = exec[e].auto
      PROVE  CallRecorded(e)'
  <2>1. PICK i \in DOMAIN audit : /\ audit[i].plan.id = exec[e].plan.id
                                  /\ audit[i].approvedBy = exec[e].by
                                  /\ audit[i].autoExecuted = exec[e].auto
    BY <1>2, <1>3 DEF CallRecorded
  <2>2. /\ i \in DOMAIN audit' /\ audit'[i].plan = audit[i].plan
        /\ audit'[i].approvedBy = audit[i].approvedBy
        /\ audit'[i].autoExecuted = audit[i].autoExecuted
    BY RowsKept
  <2> QED
    BY <1>3, <2>1, <2>2 DEF CallRecorded
<1>4. CASE GatePass(e)
  <2>1. exec'[e].phase # "done" /\ exec'[e].result = "none"
    BY <1>1, <1>4 DEF GatePass, ExecState, CallOK
  <2> QED
    BY <2>1 DEF CallRecorded, CallSettled, ExecutedMessages, VerdictMessages
<1>5. CASE GateDeny(e)
  <2>1. exec'[e].result \in {"below threshold", "approval required"}
    BY <1>1, <1>5 DEF GateDeny, ExecState
  <2> QED
    BY <2>1 DEF CallRecorded, CallSettled, ExecutedMessages, VerdictMessages
<1>6. CASE ApplyOk(e) \/ ApplyError(e)
  <2>1. exec'[e].phase = "record"
    BY <1>1, <1>6 DEF ApplyOk, ApplyError, ExecState
  <2> QED
    BY <2>1 DEF CallRecorded, CallSettled
<1>7. CASE Record(e)
  <2> DEFINE ok == exec[e].result = "executed"
             row == Row(exec[e].plan, exec[e].result, ok, exec[e].auto, exec[e].by)
  <2>1. audit' = Append(audit, row)
    BY <1>7 DEF Record, Save
  <2>2. /\ row.plan = exec[e].plan /\ row.approvedBy = exec[e].by
        /\ row.autoExecuted = exec[e].auto
    BY DEF Row
  <2>3. /\ exec'[e].plan = exec[e].plan /\ exec'[e].by = exec[e].by
        /\ exec'[e].auto = exec[e].auto /\ exec'[e].result = exec[e].result
    BY <1>1, <1>7 DEF Record, ExecState
  <2>4. exec[e].result \notin VerdictMessages
    BY <1>1, <1>7 DEF Record, CallOK, VerdictMessages
  <2> HIDE DEF ok, row
  <2>5. Len(audit) + 1 \in DOMAIN audit' /\ audit'[Len(audit) + 1] = row
    BY <1>1, <2>1
  <2>6. CallRecorded(e)'
    BY <2>2, <2>3, <2>5 DEF CallRecorded
  <2> QED
    BY <2>3, <2>4, <2>6 DEF CallSettled
<1>8. CASE Snapshot(e) \/ Remember(e) \/ VerifyOk(e) \/ VerifyTimeout(e)
           \/ Pick(e) \/ RestoreOk(e) \/ RestoreError(e)
  <2>1. /\ exec'[e].plan = exec[e].plan /\ exec'[e].by = exec[e].by
        /\ exec'[e].auto = exec[e].auto
    <3>1. ~ GatePass(e) /\ ~ GateDeny(e)
      BY <1>8 DEF GatePass, GateDeny, Snapshot, Remember, VerifyOk, VerifyTimeout, Pick,
         RestoreOk, RestoreError
    <3> QED
      BY <3>1, CallMovesOn
  <2>2. exec'[e].phase # "done"
    <3>1. CASE Snapshot(e)
      BY <1>1, <3>1 DEF Snapshot, ExecState
    <3>2. CASE Remember(e)
      BY <1>1, <3>2 DEF Remember, ExecState
    <3>3. CASE VerifyOk(e)
      BY <1>1, <3>3 DEF VerifyOk, ExecState
    <3>4. CASE VerifyTimeout(e)
      BY <1>1, <3>4 DEF VerifyTimeout, ExecState
    <3>5. CASE Pick(e)
      BY <1>1, <3>5 DEF Pick, ExecState
    <3>6. CASE RestoreOk(e)
      BY <1>1, <3>6 DEF RestoreOk, ExecState
    <3>7. CASE RestoreError(e)
      BY <1>1, <3>7 DEF RestoreError, ExecState
    <3> QED
      BY <1>8, <3>1, <3>2, <3>3, <3>4, <3>5, <3>6, <3>7
  <2>3. exec[e].phase \notin {"record", "lost"}
    BY <1>8 DEF Snapshot, Remember, VerifyOk, VerifyTimeout, Pick, RestoreOk, RestoreError
  <2>4. exec[e].result \in ExecutedMessages \/ exec'[e].result = "none"
    <3>1. CASE Snapshot(e)
      <4>1. exec'[e].result = exec[e].result
        BY <1>1, <3>1 DEF Snapshot, ExecState
      <4>2. exec[e].result \in {"none", "verified"}
        BY <1>1, <3>1 DEF Snapshot, CallOK
      <4> QED
        BY <4>1, <4>2 DEF ExecutedMessages, VerdictMessages
    <3>2. CASE Remember(e)
      BY <1>1, <3>2 DEF Remember, ExecState, CallOK, ExecutedMessages, VerdictMessages
    <3>3. CASE ~ Snapshot(e) /\ ~ Remember(e)
      BY <1>1, <1>8, <3>3 DEF VerifyOk, VerifyTimeout, Pick, RestoreOk, RestoreError,
         CallOK, ExecutedMessages
    <3> QED
      BY <3>1, <3>2, <3>3
  <2>5. CallSettled(e)'
    BY <2>2 DEF CallSettled
  <2>6. CASE exec'[e].result = "none"
    BY <2>5, <2>6 DEF CallRecorded, ExecutedMessages, VerdictMessages
  <2> QED
    BY <1>3, <2>1, <2>3, <2>4, <2>5, <2>6
<1>9. CASE Writeback(e)
  <2>1. /\ exec[e].phase = "writeback" /\ exec[e].result \in VerdictMessages
        /\ exec'[e].plan = exec[e].plan /\ exec'[e].by = exec[e].by
        /\ exec'[e].auto = exec[e].auto /\ exec'[e].result = exec[e].result
    BY <1>1, <1>9 DEF Writeback, CallOK, ExecState
  <2>2. CallRecorded(e)'
    BY <1>3, <2>1 DEF ExecutedMessages
  <2>3. ASSUME exec[e].plan.id # NoId
        PROVE  \A i \in DOMAIN audit' :
                 audit'[i].plan.id = exec[e].plan.id => audit'[i].message = exec[e].result
    <3> DEFINE ok == exec[e].result = "verified"
    <3>1. audit' = UpdateResult(audit, exec[e].plan, ok, exec[e].result)
      BY <1>9, <2>3 DEF Writeback
    <3> HIDE DEF ok
    <3>2. ASSUME NEW i \in DOMAIN audit', audit'[i].plan.id = exec[e].plan.id
          PROVE  audit'[i].message = exec[e].result
      <4>1. i \in DOMAIN audit
        BY <3>1 DEF UpdateResult
      <4>2. audit[i] \in AuditLog /\ audit'[i].plan = audit[i].plan
        BY <1>1, <4>1, RowsKept
      <4> QED
        BY <3>1, <3>2, <4>1, <4>2 DEF UpdateResult, AuditLog
    <3> QED
      BY <3>2
  <2> QED
    BY <2>1, <2>2, <2>3 DEF CallSettled
<1> QED
  BY <1>4, <1>5, <1>6, <1>7, <1>8, <1>9 DEF ExecStep

\* Steps of others leave a call recorded and settled.
LEMMA RecordStep ==
  ASSUME ~ StoreFaults PROVE TypeInv /\ RecordInv /\ [Next]_vars => RecordInv'
<1> SUFFICES ASSUME TypeInv, RecordInv, [Next]_vars, NEW e \in Execs
             PROVE  /\ exec'[e].phase = "idle" => exec'[e].plan = NoPlan
                    /\ CallRecorded(e)' /\ CallSettled(e)'
  BY DEF RecordInv
<1>1. exec \in [Execs -> ExecState] /\ exec[e] \in ExecState /\ CallOK(exec[e])
  BY CallFacts DEF TypeInv, TypeOK
<1>2. CallRecorded(e) /\ CallSettled(e) /\ (exec[e].phase = "idle" => exec[e].plan = NoPlan)
  BY DEF RecordInv
<1>3. CASE exec'[e] = exec[e] /\ ~ ExecStep(e)
  <2>1. CallRecorded(e)'
    <3>1. ASSUME exec[e].result \in ExecutedMessages, exec[e].phase \notin {"record", "lost"}
          PROVE  CallRecorded(e)'
      <4>1. PICK i \in DOMAIN audit : /\ audit[i].plan.id = exec[e].plan.id
                                      /\ audit[i].approvedBy = exec[e].by
                                      /\ audit[i].autoExecuted = exec[e].auto
        BY <1>2, <3>1 DEF CallRecorded
      <4>2. /\ i \in DOMAIN audit' /\ audit'[i].plan = audit[i].plan
            /\ audit'[i].approvedBy = audit[i].approvedBy
            /\ audit'[i].autoExecuted = audit[i].autoExecuted
        BY RowsKept
      <4> QED
        BY <1>3, <4>1, <4>2 DEF CallRecorded
    <3> QED
      BY <1>3, <3>1 DEF CallRecorded
  <2>2. ASSUME exec[e].phase = "done", exec[e].result \in VerdictMessages,
               exec[e].plan.id # NoId, Alone(e)',
               NEW i \in DOMAIN audit', audit'[i].plan.id = exec[e].plan.id
        PROVE  audit'[i].message = exec[e].result
    <3>1. exec[e].plan \in Plans /\ exec[e].plan # NoPlan
      BY <2>2, CallFacts, ConstantsAssumption
    <3>2. Alone(e)
      BY <2>2, <3>1, AloneBefore
    <3>3. i \in DOMAIN audit /\ audit'[i].message = audit[i].message
      BY <1>3, <2>2, <3>1, <3>2, RowsOfOthers
    <3>4. audit'[i].plan = audit[i].plan
      BY <3>3, RowsKept
    <3> QED
      BY <1>2, <2>2, <3>2, <3>3, <3>4 DEF CallSettled
  <2> QED
    BY <1>2, <1>3, <2>1, <2>2 DEF CallSettled
<1>4. CASE ExecStep(e)
  <2>1. exec'[e].phase # "idle"
    <3>1. CASE GatePass(e)
      BY <1>1, <3>1 DEF GatePass, ExecState
    <3>2. CASE GateDeny(e)
      BY <1>1, <3>2 DEF GateDeny, ExecState
    <3> QED
      BY <1>4, <3>1, <3>2, CallMovesOn
  <2> QED
    BY <1>4, <2>1, CallRecordStep
<1>5. CASE Restart /\ exec'[e] # exec[e]
  <2>1. exec'[e].phase = "lost"
    BY <1>1, <1>5 DEF Restart, ExecState
  <2> QED
    BY <2>1 DEF CallRecorded, CallSettled
<1>6. CASE Request /\ exec'[e] # exec[e]
  <2>1. exec'[e].phase = "gate"
    <3>1. ASSUME NEW f \in Execs, NEW p \in Plans, NEW by \in Approvers \cup {NoOne},
                 Submit(f, p, by)
          PROVE  exec'[e].phase = "gate" /\ exec'[e].result = "none"
      BY <1>1, <1>6, <3>1 DEF Submit, NewExec
    <3>2. ASSUME NEW f \in Execs, NEW i \in DOMAIN audit, NEW by \in Approvers,
                 Approve(f, i, by)
          PROVE  exec'[e].phase = "gate" /\ exec'[e].result = "none"
      BY <1>1, <1>6, <3>2 DEF Approve, NewExec
    <3> QED
      BY <1>6, <3>1, <3>2 DEF Request, ToggleAutoMode, Propose
  <2>2. exec'[e].result = "none"
    <3>1. ASSUME NEW f \in Execs, NEW p \in Plans, NEW by \in Approvers \cup {NoOne},
                 Submit(f, p, by)
          PROVE  exec'[e].result = "none"
      BY <1>1, <1>6, <3>1 DEF Submit, NewExec
    <3>2. ASSUME NEW f \in Execs, NEW i \in DOMAIN audit, NEW by \in Approvers,
                 Approve(f, i, by)
          PROVE  exec'[e].result = "none"
      BY <1>1, <1>6, <3>2 DEF Approve, NewExec
    <3> QED
      BY <1>6, <3>1, <3>2 DEF Request, ToggleAutoMode, Propose
  <2> QED
    BY <2>1, <2>2 DEF CallRecorded, CallSettled, ExecutedMessages, VerdictMessages
<1>7. exec'[e] = exec[e] \/ ExecStep(e) \/ Restart \/ Request
  <2>1. CASE Cluster \/ UNCHANGED vars
    BY <2>1 DEF Cluster, Observe, Complete, Degrade, OutsideEdit, vars
  <2>2. ASSUME NEW f \in Execs, f # e, ExecStep(f) PROVE exec'[e] = exec[e]
    BY <2>2, OthersUntouched
  <2> QED
    BY <2>1, <2>2 DEF Next
<1> QED
  BY <1>3, <1>4, <1>5, <1>6, <1>7

\* The only call of a plan leaves its verdict in every row of the plan, one of which
\* names who decided, whatever other calls, restarts and their backfill do to the
\* table meanwhile (pg_store.go).
THEOREM VerdictAlwaysOnRecord == Spec => []VerdictOnRecord
<1>1. CASE StoreFaults
  <2>1. VerdictOnRecord
    BY <1>1 DEF VerdictOnRecord
  <2> QED
    BY <2>1, PTL
<1>2. CASE ~ StoreFaults
  <2>1. Init => RecordInv
    <3>1. Init => \A e \in Execs : exec[e] = NewExec
      BY DEF Init
    <3>2. /\ NewExec.phase = "idle" /\ NewExec.plan = NoPlan
          /\ NewExec.result \notin ExecutedMessages
      BY DEF NewExec, ExecutedMessages, VerdictMessages
    <3> QED
      BY <3>1, <3>2 DEF RecordInv, CallRecorded, CallSettled
  <2>2. TypeInv /\ RecordInv /\ [Next]_vars => RecordInv'
    BY <1>2, RecordStep
  <2>3. RecordInv => VerdictOnRecord
    <3> SUFFICES ASSUME RecordInv, NEW e \in Execs, exec[e].phase = "done",
                        exec[e].result \in VerdictMessages, exec[e].plan.id # NoId, Alone(e)
                 PROVE  /\ \A i \in DOMAIN audit : audit[i].plan.id = exec[e].plan.id =>
                             audit[i].message = exec[e].result
                        /\ \E i \in DOMAIN audit : /\ audit[i].plan.id = exec[e].plan.id
                                                   /\ audit[i].approvedBy = exec[e].by
                                                   /\ audit[i].autoExecuted = exec[e].auto
      BY DEF VerdictOnRecord, Alone
    <3>1. CallRecorded(e) /\ CallSettled(e)
      BY DEF RecordInv
    <3> QED
      BY <3>1 DEF CallRecorded, CallSettled, ExecutedMessages
  <2>4. Spec => []TypeInv
    BY TypeInit, TypeStep, PTL DEF Spec
  <2> QED
    BY <2>1, <2>2, <2>3, <2>4, PTL DEF Spec
<1> QED
  BY <1>1, <1>2

-----------------------------------------------------------------------------
(* The executor implements ChangeControl: its initial states map to initial  *)
(* states, and every step maps to a step of ChangeControl or leaves what it  *)
(* sees alone.                                                               *)

\* A step that replaces one call is seen at this call alone.
LEMMA OneCallSeen ==
  ASSUME TypeInv, NEW e \in Execs, NEW new,
         exec' = [exec EXCEPT ![e] = new]
  PROVE  /\ Stages' = [Stages EXCEPT ![e] = StageOf(new)]
         /\ Targets' = [Targets EXCEPT ![e] = ObjectOf(new)]
         /\ Grounds' = [Grounds EXCEPT ![e] = GroundsOf(new)]
         /\ Priors' = [Priors EXCEPT ![e] = new.snap]
<1>1. exec \in [Execs -> ExecState]
  BY DEF TypeInv, TypeOK
<1>2. \A f \in Execs : exec'[f] = IF f = e THEN new ELSE exec[f]
  BY <1>1
<1>3. Stages' = [Stages EXCEPT ![e] = StageOf(new)]
  <2>1. Stages' = [f \in Execs |-> StageOf(IF f = e THEN new ELSE exec[f])]
    BY <1>2 DEF Stages
  <2> QED
    BY <2>1 DEF Stages
<1>4. Targets' = [Targets EXCEPT ![e] = ObjectOf(new)]
  <2>1. Targets' = [f \in Execs |-> ObjectOf(IF f = e THEN new ELSE exec[f])]
    BY <1>2 DEF Targets
  <2> QED
    BY <2>1 DEF Targets
<1>5. Grounds' = [Grounds EXCEPT ![e] = GroundsOf(new)]
  <2>1. Grounds' = [f \in Execs |-> GroundsOf(IF f = e THEN new ELSE exec[f])]
    BY <1>2 DEF Grounds
  <2> QED
    BY <2>1 DEF Grounds
<1>6. Priors' = [Priors EXCEPT ![e] = new.snap]
  <2>1. \A f \in Execs : exec'[f].snap = IF f = e THEN new.snap ELSE exec[f].snap
    BY <1>2
  <2> QED
    BY <2>1 DEF Priors
<1> QED
  BY <1>3, <1>4, <1>5, <1>6

\* What ChangeControl sees of one call.
LEMMA CallSeen ==
  ASSUME NEW e \in Execs
  PROVE  /\ Stages[e] = StageOf(exec[e])
         /\ Targets[e] = ObjectOf(exec[e])
         /\ Grounds[e] = GroundsOf(exec[e])
         /\ Priors[e] = exec[e].snap
BY DEF Stages, Targets, Grounds, Priors

\* A call that only moves to another stage.
LEMMA OnlyStageMoves ==
  ASSUME TypeInv, NEW e \in Execs, NEW new,
         exec' = [exec EXCEPT ![e] = new],
         exec[e].phase # "idle", new.phase # "idle",
         new.plan = exec[e].plan, new.by = exec[e].by, new.snap = exec[e].snap
  PROVE  /\ Stages' = [Stages EXCEPT ![e] = StageOf(new)]
         /\ UNCHANGED <<Targets, Grounds, Priors>>
<1>1. ObjectOf(new) = Targets[e] /\ GroundsOf(new) = Grounds[e] /\ new.snap = Priors[e]
  BY CallSeen DEF ObjectOf, GroundsOf
<1>2. /\ [Targets EXCEPT ![e] = Targets[e]] = Targets
      /\ [Grounds EXCEPT ![e] = Grounds[e]] = Grounds
      /\ [Priors EXCEPT ![e] = Priors[e]] = Priors
  BY DEF Targets, Grounds, Priors
<1>3. /\ Stages' = [Stages EXCEPT ![e] = StageOf(new)]
      /\ Targets' = [Targets EXCEPT ![e] = ObjectOf(new)]
      /\ Grounds' = [Grounds EXCEPT ![e] = GroundsOf(new)]
      /\ Priors' = [Priors EXCEPT ![e] = new.snap]
  BY OneCallSeen
<1> QED
  BY <1>1, <1>2, <1>3

\* Writing a template is seen at its Deployment alone.
LEMMA WriteSeen ==
  ASSUME TypeInv, NEW d \in Deployments, NEW t \in Template, WriteTemplate(d, t)
  PROVE  Templates' = [Templates EXCEPT ![d] = t]
<1>1. dep \in [Deployments -> Deployment] /\ dep[d] \in Deployment
  BY DEF TypeInv, TypeOK
<1>2. Written(dep[d], t, dep[d].replicas).tmpl = t
  BY <1>1 DEF Written, Deployment
<1>3. \A c \in Deployments : dep'[c] = IF c = d THEN Written(dep[d], t, dep[d].replicas)
                                       ELSE dep[c]
  BY <1>1 DEF WriteTemplate
<1> QED
  BY <1>2, <1>3 DEF Templates

\* So is the change of a plan, whichever its action.
LEMMA ChangeSeen ==
  ASSUME TypeInv, NEW p \in Plans, Change(p)
  PROVE  \E s \in Template : Templates' = [Templates EXCEPT ![p.target] = s]
<1> DEFINE d == p.target
<1>1. /\ d \in Deployments
      /\ dep \in [Deployments -> Deployment] /\ dep[d] \in Deployment
      /\ past[d] \subseteq Template
  BY PlanType DEF TypeInv, TypeOK
<1>2. dep[d].tmpl \in Template /\ dep[d].replicas \in Nat /\ p.replicas \in Nat
  BY <1>1, PlanType DEF Deployment
<1>3. ASSUME \A c \in Deployments : dep'[c].tmpl = dep[c].tmpl
      PROVE  Templates' = [Templates EXCEPT ![d] = dep[d].tmpl]
  BY <1>3 DEF Templates
<1>4. CASE CanAutoRollback(p.action)
  <2>1. Changed(dep[d].tmpl, p) \in Template
    BY <1>2, ChangedType
  <2>2. WriteTemplate(d, Changed(dep[d].tmpl, p))
    BY <1>4 DEF Change, CanAutoRollback
  <2> QED
    BY <1>1, <2>1, <2>2, WriteSeen
<1>5. CASE p.action = "scale_deployment"
  <2>1. dep' = [dep EXCEPT ![d] = Written(dep[d], dep[d].tmpl, p.replicas)]
    BY <1>5 DEF Change, CanAutoRollback
  <2>2. Written(dep[d], dep[d].tmpl, p.replicas).tmpl = dep[d].tmpl
    BY <1>1, <1>2 DEF Written, Deployment
  <2>3. \A c \in Deployments : dep'[c].tmpl = dep[c].tmpl
    BY <1>1, <2>1, <2>2
  <2> QED
    BY <1>2, <1>3, <2>3
<1>6. CASE p.action = "rollout_restart"
  BY <1>1, <1>2, <1>3, <1>6 DEF Change, CanAutoRollback, Deployment
<1>7. CASE p.action = "rollout_undo"
  BY <1>1, <1>7, WriteSeen DEF Change, CanAutoRollback
<1>8. CASE ~CanAutoRollback(p.action)
           /\ p.action \notin {"scale_deployment", "rollout_restart", "rollout_undo"}
  BY <1>2, <1>3, <1>8 DEF Change
<1> QED
  BY <1>4, <1>5, <1>6, <1>7, <1>8

-----------------------------------------------------------------------------
\* The initial states of the executor are initial states of ChangeControl.
LEMMA InitControlled == Init => Control!Init
<1> SUFFICES ASSUME Init PROVE Control!Init
  OBVIOUS
<1>1. TypeInv
  BY TypeInit
<1>2. autoMode \in BOOLEAN /\ rolled \in [Deployments -> SUBSET Template] /\ edits = 0
  BY <1>1 DEF TypeInv, TypeOK, Init
<1>3. Templates \in [Deployments -> Template]
  BY <1>1 DEF TypeInv, TypeOK, Deployment, Templates
<1>4. /\ Stages = [e \in Execs |-> "new"]
      /\ Targets = [e \in Execs |-> NoPlan]
      /\ Grounds = [e \in Execs |-> {}]
      /\ Priors = [e \in Execs |-> NoTemplate]
  BY DEF Init, NewExec, Stages, Targets, Grounds, Priors, StageOf, ObjectOf, GroundsOf
<1> QED
  BY <1>2, <1>3, <1>4 DEF Control!Init

\* Entering the gate is asking; the rest of what is requested is not seen, or
\* toggles the mode.
LEMMA RequestControlled == TypeInv /\ Request => [Control!Next]_Control!vars
<1> SUFFICES ASSUME TypeInv, Request PROVE Control!Next \/ UNCHANGED Control!vars
  OBVIOUS
<1>1. CASE ToggleAutoMode
  <2>1. UNCHANGED <<Stages, Targets, Grounds, Priors, Templates>>
    BY <1>1 DEF ToggleAutoMode, Stages, Targets, Grounds, Priors, Templates
  <2> QED
    BY <1>1, <2>1 DEF ToggleAutoMode, Control!Toggle, Control!Next
<1>2. ASSUME NEW p \in Plans, Propose(p) PROVE UNCHANGED Control!vars
  BY <1>2 DEF Propose, Control!vars, Stages, Targets, Grounds, Priors, Templates
<1>3. ASSUME NEW e \in Execs, NEW p \in Plans, NEW by \in Approvers \cup {NoOne},
             exec[e].phase = "idle",
             exec' = [exec EXCEPT ![e] =
                        [NewExec EXCEPT !.phase = "gate", !.plan = p, !.by = by]],
             UNCHANGED <<autoMode, dep, edits, rolled>>
      PROVE  Control!Next
  <2> DEFINE new == [NewExec EXCEPT !.phase = "gate", !.plan = p, !.by = by]
  <2>1. /\ StageOf(new) = "asked" /\ ObjectOf(new) = p.target
        /\ GroundsOf(new) \in SUBSET {"person", "program"}
        /\ new.snap = NoTemplate
    BY DEF NewExec, StageOf, ObjectOf, GroundsOf
  <2>2. /\ Stages' = [Stages EXCEPT ![e] = StageOf(new)]
        /\ Targets' = [Targets EXCEPT ![e] = ObjectOf(new)]
        /\ Grounds' = [Grounds EXCEPT ![e] = GroundsOf(new)]
        /\ Priors' = [Priors EXCEPT ![e] = new.snap]
    BY <1>3, OneCallSeen
  <2>3. UNCHANGED Templates
    BY <1>3 DEF Templates
  <2>4. Stages[e] = "new" /\ p.target \in Deployments
    BY <1>3, PlanType, CallSeen DEF StageOf
  <2> HIDE DEF new
  <2>5. Control!Ask(e)
    BY <1>3, <2>1, <2>2, <2>3, <2>4 DEF Control!Ask, Control!Moves
  <2> QED
    BY <2>5 DEF Control!Next, Control!CallNext
<1>4. ASSUME NEW e \in Execs, NEW p \in Plans, NEW by \in Approvers \cup {NoOne},
             Submit(e, p, by)
      PROVE  Control!Next
  BY <1>3, <1>4 DEF Submit
<1>5. ASSUME NEW e \in Execs, NEW i \in DOMAIN audit, NEW by \in Approvers,
             Approve(e, i, by)
      PROVE  Control!Next
  <2>1. audit[i].plan \in Plans
    <3> audit[i] \in AuditLog
      BY DEF TypeInv, TypeOK
    <3> QED
      BY DEF AuditLog
  <2> QED
    BY <1>3, <1>5, <2>1 DEF Approve
<1> QED
  BY <1>1, <1>2, <1>4, <1>5 DEF Request

\* What the cluster and other writers do is progress of a rollout, an edit, or
\* not seen.
LEMMA ClusterControlled == TypeInv /\ Cluster => [Control!Next]_Control!vars
<1> SUFFICES ASSUME TypeInv, NEW d \in Deployments,
                    \/ Observe(d) \/ Complete(d) \/ Degrade(d)
                    \/ \E t \in Template : OutsideEdit(d, t)
             PROVE  Control!Next \/ UNCHANGED Control!vars
  BY DEF Cluster
<1>1. dep \in [Deployments -> Deployment] /\ dep[d] \in Deployment
  BY DEF TypeInv, TypeOK
<1>2. UNCHANGED exec => UNCHANGED <<Stages, Targets, Grounds, Priors>>
  BY DEF Stages, Targets, Grounds, Priors
<1>3. CASE Observe(d) \/ Degrade(d)
  <2>1. UNCHANGED Templates
    BY <1>1, <1>3 DEF Observe, Degrade, Templates, Deployment
  <2> QED
    BY <1>2, <1>3, <2>1 DEF Observe, Degrade, Control!vars
<1>4. CASE Complete(d)
  <2>1. UNCHANGED Templates
    BY <1>1, <1>4 DEF Complete, Templates, Deployment
  <2>2. rolled' = [rolled EXCEPT ![d] = @ \cup {Templates[d]}]
    BY <1>4 DEF Complete, Templates
  <2>3. Control!Works(d)
    BY <1>2, <1>4, <2>1, <2>2 DEF Complete, Control!Works
  <2> QED
    BY <2>3 DEF Control!Next
<1>5. ASSUME NEW t \in Template, OutsideEdit(d, t) PROVE Control!Next
  <2>1. Templates' = [Templates EXCEPT ![d] = t]
    BY <1>5, WriteSeen DEF OutsideEdit
  <2>2. Control!Edit(d)
    BY <1>2, <1>5, <2>1 DEF OutsideEdit, Control!Edit
  <2> QED
    BY <2>2 DEF Control!Next
<1> QED
  BY <1>3, <1>4, <1>5

\* The end of the process ends every call that was made.
LEMMA RestartControlled == TypeInv /\ Restart => Control!Crash
<1> SUFFICES ASSUME TypeInv, Restart PROVE Control!Crash
  OBVIOUS
<1>1. /\ exec \in [Execs -> ExecState]
      /\ \A e \in Execs : exec'[e] =
           IF exec[e].phase \in {"idle", "done"} THEN exec[e]
           ELSE [exec[e] EXCEPT !.phase = "lost"]
  BY DEF TypeInv, TypeOK, Restart
<1>2. ASSUME NEW e \in Execs
      PROVE  /\ StageOf(exec'[e]) = IF Stages[e] = "new" THEN "new" ELSE "over"
             /\ ObjectOf(exec'[e]) = ObjectOf(exec[e])
             /\ GroundsOf(exec'[e]) = GroundsOf(exec[e])
             /\ exec'[e].snap = exec[e].snap
  <2>1. exec[e] \in ExecState
    BY <1>1
  <2>2. CASE exec[e].phase \in {"idle", "done"}
    BY <1>1, <2>1, <2>2, CallSeen DEF StageOf
  <2>3. CASE exec[e].phase \notin {"idle", "done"}
    <3>1. exec'[e].phase = "lost" /\ Stages[e] # "new"
      BY <1>1, <2>1, <2>3, CallSeen DEF StageOf, ExecState
    <3>2. /\ exec'[e].plan = exec[e].plan /\ exec'[e].by = exec[e].by
          /\ exec'[e].snap = exec[e].snap
      BY <1>1, <2>1, <2>3 DEF ExecState
    <3> QED
      BY <2>3, <3>1, <3>2 DEF StageOf, ObjectOf, GroundsOf
  <2> QED
    BY <2>2, <2>3
<1>3. /\ Stages' = [e \in Execs |-> IF Stages[e] = "new" THEN "new" ELSE "over"]
      /\ UNCHANGED <<Targets, Grounds, Priors>>
  BY <1>2 DEF Stages, Targets, Grounds, Priors
<1>4. UNCHANGED Templates
  BY DEF Restart, Templates
<1> QED
  BY <1>3, <1>4, ConstantsAssumption DEF Restart, Control!Crash

-----------------------------------------------------------------------------
\* The steps of a call, from the gate on.
LEMMA CallControlled ==
  ASSUME TypeInv, HealthInv, NEW e \in Execs, ExecStep(e)
  PROVE  Control!CallNext(e) \/ UNCHANGED Control!vars
<1> DEFINE x == exec[e]
           d == exec[e].plan.target
<1>1. /\ x \in ExecState /\ CallOK(x)
      /\ exec \in [Execs -> ExecState]
      /\ dep \in [Deployments -> Deployment]
  BY CallFacts DEF TypeInv, TypeOK
<1>2. x.phase \in Phases \ {"idle", "done", "lost"}
  BY <1>1 DEF ExecState, ExecStep, GatePass, GateDeny, Snapshot, Remember, ApplyOk, ApplyError,
     Record, VerifyOk, VerifyTimeout, Pick, RestoreOk, RestoreError, Writeback
<1>3. /\ d \in Deployments /\ x.plan \in Plans
      /\ Targets[e] = d /\ Stages[e] = StageOf(x) /\ Priors[e] = x.snap
      /\ Grounds[e] = GroundsOf(x)
  BY <1>2, CallFacts, CallSeen DEF ObjectOf
<1>4. UNCHANGED dep => UNCHANGED Templates
  BY DEF Templates
<1>5. ASSUME NEW new, exec' = [exec EXCEPT ![e] = new], new.phase # "idle",
             new.plan = x.plan, new.by = x.by, new.snap = x.snap
      PROVE  /\ Stages' = [Stages EXCEPT ![e] = StageOf(new)]
             /\ UNCHANGED <<Targets, Grounds, Priors>>
  BY <1>2, <1>5, OnlyStageMoves
<1>6. Stages = [Stages EXCEPT ![e] = Stages[e]]
  BY DEF Stages
<1>7. CASE GatePass(e)
  <2> DEFINE new == [x EXCEPT !.auto = autoMode /\ x.by = NoOne,
                              !.phase = IF CanAutoRollback(x.plan.action)
                                        THEN "snapshot" ELSE "apply"]
  <2>1. exec' = [exec EXCEPT ![e] = new]
    BY <1>1, <1>7 DEF GatePass
  <2>2. /\ new.phase \in {"snapshot", "apply"} /\ new.plan = x.plan
        /\ new.by = x.by /\ new.snap = x.snap
    BY <1>1 DEF ExecState
  <2> HIDE DEF new
  <2>3. Stages[e] = "asked" /\ StageOf(new) = "allowed"
    BY <1>3, <1>7, <2>2 DEF GatePass, StageOf
  <2>4. "person" \in Grounds[e] \/ (autoMode /\ "program" \in Grounds[e])
    BY <1>3, <1>7 DEF GatePass, Allowed, GroundsOf
  <2> QED
    BY <1>4, <1>5, <1>7, <2>1, <2>2, <2>3, <2>4
       DEF GatePass, Control!Allow, Control!Moves, Control!CallNext
<1>8. CASE GateDeny(e)
  <2> DEFINE msg == IF autoMode THEN "below threshold" ELSE "approval required"
             new == [x EXCEPT !.phase = "done", !.result = msg]
  <2>1. exec' = [exec EXCEPT ![e] = new]
    BY <1>1, <1>8 DEF GateDeny
  <2>2. new.phase = "done" /\ new.plan = x.plan /\ new.by = x.by /\ new.snap = x.snap
    BY <1>1 DEF ExecState
  <2> HIDE DEF new
  <2>3. Stages[e] = "asked" /\ StageOf(new) = "over"
    BY <1>3, <1>8, <2>2 DEF GateDeny, StageOf
  <2> QED
    BY <1>4, <1>5, <1>8, <2>1, <2>2, <2>3
       DEF GateDeny, Control!Refuse, Control!Moves, Control!CallNext
<1>9. CASE Snapshot(e)
  <2>1. CASE x.phase = "snapshot"
    <3>1. PICK new :
            /\ exec' = [exec EXCEPT ![e] = new]
            /\ new.phase \in {"apply", "remember"}
            /\ new.plan = x.plan /\ new.by = x.by /\ new.result = x.result
            /\ new.snap \in {dep[d].tmpl, NoTemplate}
      <4>1. CASE exec' = [exec EXCEPT ![e].phase = "apply", ![e].snap = NoTemplate]
        <5> DEFINE new == [x EXCEPT !.phase = "apply", !.snap = NoTemplate]
        <5>1. exec' = [exec EXCEPT ![e] = new]
          BY <1>1, <4>1
        <5>2. /\ new.phase \in {"apply", "remember"}
              /\ new.plan = x.plan /\ new.by = x.by /\ new.result = x.result
              /\ new.snap \in {dep[d].tmpl, NoTemplate}
          BY <1>1 DEF ExecState
        <5> HIDE DEF new
        <5> QED
          BY <5>1, <5>2
      <4>2. CASE exec' = [exec EXCEPT
                   ![e].phase = IF RolloutOk(dep[d]) THEN "remember" ELSE "apply",
                   ![e].seen = IF RolloutOk(dep[d]) THEN dep[d].tmpl ELSE NoTemplate,
                   ![e].snap = dep[d].tmpl]
        <5> DEFINE new == [x EXCEPT
                     !.phase = IF RolloutOk(dep[d]) THEN "remember" ELSE "apply",
                     !.seen = IF RolloutOk(dep[d]) THEN dep[d].tmpl ELSE NoTemplate,
                     !.snap = dep[d].tmpl]
        <5>1. exec' = [exec EXCEPT ![e] = new]
          BY <1>1, <4>2
        <5>2. /\ new.phase \in {"apply", "remember"}
              /\ new.plan = x.plan /\ new.by = x.by /\ new.result = x.result
              /\ new.snap \in {dep[d].tmpl, NoTemplate}
          BY <1>1 DEF ExecState
        <5> HIDE DEF new
        <5> QED
          BY <5>1, <5>2
      <4> QED
        BY <1>9, <2>1, <4>1, <4>2 DEF Snapshot
    <3>2. /\ StageOf(new) = "allowed" /\ Stages[e] = "allowed"
          /\ ObjectOf(new) = Targets[e] /\ GroundsOf(new) = Grounds[e]
          /\ new.snap \in {Templates[Targets[e]], NoTemplate}
      BY <1>1, <1>3, <2>1, <3>1 DEF StageOf, ObjectOf, GroundsOf, CallOK, Templates
    <3>3. /\ Stages' = [Stages EXCEPT ![e] = StageOf(new)]
          /\ Targets' = [Targets EXCEPT ![e] = ObjectOf(new)]
          /\ Grounds' = [Grounds EXCEPT ![e] = GroundsOf(new)]
          /\ Priors' = [Priors EXCEPT ![e] = new.snap]
      BY <3>1, OneCallSeen
    <3>4. UNCHANGED <<Stages, Targets, Grounds>>
      BY <3>2, <3>3 DEF Stages, Targets, Grounds
    <3> QED
      BY <1>4, <1>9, <3>2, <3>3, <3>4 DEF Snapshot, Control!Look, Control!CallNext
  <2>2. CASE x.phase = "confirm"
    <3>1. PICK new :
            /\ exec' = [exec EXCEPT ![e] = new]
            /\ new.phase \in {"writeback", "remember"}
            /\ new.plan = x.plan /\ new.by = x.by /\ new.result = x.result
            /\ new.snap = x.snap
      <4>1. CASE exec' = [exec EXCEPT ![e].phase = "writeback", ![e].snap = x.snap]
        <5> DEFINE new == [x EXCEPT !.phase = "writeback", !.snap = x.snap]
        <5>1. exec' = [exec EXCEPT ![e] = new]
          BY <1>1, <4>1
        <5>2. /\ new.phase \in {"writeback", "remember"}
              /\ new.plan = x.plan /\ new.by = x.by /\ new.result = x.result
              /\ new.snap = x.snap
          BY <1>1 DEF ExecState
        <5> HIDE DEF new
        <5> QED
          BY <5>1, <5>2
      <4>2. CASE exec' = [exec EXCEPT
                   ![e].phase = IF RolloutOk(dep[d]) THEN "remember" ELSE "writeback",
                   ![e].seen = IF RolloutOk(dep[d]) THEN dep[d].tmpl ELSE NoTemplate,
                   ![e].snap = x.snap]
        <5> DEFINE new == [x EXCEPT
                     !.phase = IF RolloutOk(dep[d]) THEN "remember" ELSE "writeback",
                     !.seen = IF RolloutOk(dep[d]) THEN dep[d].tmpl ELSE NoTemplate,
                     !.snap = x.snap]
        <5>1. exec' = [exec EXCEPT ![e] = new]
          BY <1>1, <4>2
        <5>2. /\ new.phase \in {"writeback", "remember"}
              /\ new.plan = x.plan /\ new.by = x.by /\ new.result = x.result
              /\ new.snap = x.snap
          BY <1>1 DEF ExecState
        <5> HIDE DEF new
        <5> QED
          BY <5>1, <5>2
      <4> QED
        BY <1>9, <2>2, <4>1, <4>2 DEF Snapshot
    <3>2. StageOf(new) = "over" /\ Stages[e] = "over"
      BY <1>1, <1>3, <2>2, <3>1 DEF StageOf, CallOK
    <3>3. UNCHANGED <<Stages, Targets, Grounds, Priors>>
      BY <1>5, <1>6, <3>1, <3>2
    <3> QED
      BY <1>4, <1>9, <3>3 DEF Snapshot, Control!vars
  <2> QED
    BY <1>9, <2>1, <2>2 DEF Snapshot
<1>10. CASE Remember(e)
  <2> DEFINE new == [x EXCEPT !.phase = IF x.result = "none" THEN "apply" ELSE "writeback"]
  <2>1. exec' = [exec EXCEPT ![e] = new]
    BY <1>1, <1>10 DEF Remember
  <2>2. /\ new.phase = IF x.result = "none" THEN "apply" ELSE "writeback"
        /\ new.plan = x.plan /\ new.by = x.by /\ new.snap = x.snap
    BY <1>1 DEF ExecState
  <2> HIDE DEF new
  <2>3. StageOf(new) = Stages[e]
    BY <1>3, <1>10, <2>2 DEF Remember, StageOf
  <2>4. UNCHANGED <<Stages, Targets, Grounds, Priors>>
    BY <1>5, <1>6, <2>1, <2>2, <2>3
  <2> QED
    BY <1>4, <1>10, <2>4 DEF Remember, Control!vars
<1>11. CASE ApplyOk(e) \/ ApplyError(e)
  <2>1. PICK new :
          /\ exec' = [exec EXCEPT ![e] = new]
          /\ new.phase = "record"
          /\ new.plan = x.plan /\ new.by = x.by /\ new.snap = x.snap
    <3>1. ASSUME NEW r \in {"executed", "failed"},
                 exec' = [exec EXCEPT ![e].phase = "record", ![e].result = r]
          PROVE  \E new :
                   /\ exec' = [exec EXCEPT ![e] = new]
                   /\ new.phase = "record"
                   /\ new.plan = x.plan /\ new.by = x.by /\ new.snap = x.snap
      <4> DEFINE new == [x EXCEPT !.phase = "record", !.result = r]
      <4>1. exec' = [exec EXCEPT ![e] = new]
        BY <1>1, <3>1
      <4>2. new.phase = "record" /\ new.plan = x.plan /\ new.by = x.by /\ new.snap = x.snap
        BY <1>1 DEF ExecState
      <4> HIDE DEF new
      <4> QED
        BY <4>1, <4>2
    <3> QED
      BY <1>11, <3>1 DEF ApplyOk, ApplyError
  <2>2. Stages[e] = "allowed" /\ StageOf(new) = "made"
    BY <1>3, <1>11, <2>1 DEF ApplyOk, ApplyError, StageOf
  <2>3. \E s \in Template : Templates' = [Templates EXCEPT ![Targets[e]] = s]
    <3>1. CASE Change(x.plan)
      BY <1>3, <3>1, ChangeSeen
    <3>2. CASE UNCHANGED dep
      <4>1. Templates[d] \in Template
        BY <1>1, <1>3 DEF Templates, Deployment
      <4>2. Templates = [Templates EXCEPT ![d] = Templates[d]]
        BY DEF Templates
      <4> QED
        BY <1>3, <1>4, <3>2, <4>1, <4>2
    <3> QED
      BY <1>11, <3>1, <3>2 DEF ApplyOk, ApplyError
  <2> QED
    BY <1>5, <1>11, <2>1, <2>2, <2>3
       DEF ApplyOk, ApplyError, Control!Change, Control!Moves, Control!CallNext
<1>12. CASE Record(e)
  <2> DEFINE to == IF x.result = "executed" /\ NeedsVerification(x.plan.action)
                   THEN "verify" ELSE "done"
             new == [x EXCEPT !.phase = to]
  <2>1. exec' = [exec EXCEPT ![e] = new]
    BY <1>1, <1>12 DEF Record
  <2>2. /\ new.phase \in {"verify", "done"}
        /\ new.plan = x.plan /\ new.by = x.by /\ new.snap = x.snap
    BY <1>1 DEF ExecState
  <2> HIDE DEF new
  <2>3. Stages[e] = "made" /\ StageOf(new) \in {"made", "over"}
    BY <1>3, <1>12, <2>2 DEF Record, StageOf
  <2>4. CASE StageOf(new) = "made"
    <3>1. UNCHANGED <<Stages, Targets, Grounds, Priors>>
      BY <1>5, <1>6, <2>1, <2>2, <2>3, <2>4
    <3> QED
      BY <1>4, <1>12, <3>1 DEF Record, Control!vars
  <2>5. CASE StageOf(new) = "over"
    <3>1. Control!Moves(e, "made", "over") /\ UNCHANGED <<Targets, Grounds, Priors>>
      BY <1>5, <2>1, <2>2, <2>3, <2>5 DEF Control!Moves
    <3>2. Control!Judge(e)
      BY <1>4, <1>12, <3>1 DEF Record, Control!Judge
    <3> QED
      BY <3>2 DEF Control!CallNext
  <2> QED
    BY <2>3, <2>4, <2>5
<1>13. CASE VerifyOk(e)
  <2> DEFINE new == [x EXCEPT !.result = "verified",
                              !.phase = IF IsDeploymentLevel(x.plan.action)
                                        THEN "confirm" ELSE "writeback"]
  <2>1. exec' = [exec EXCEPT ![e] = new]
    BY <1>1, <1>13 DEF VerifyOk
  <2>2. /\ new.phase \in {"confirm", "writeback"}
        /\ new.plan = x.plan /\ new.by = x.by /\ new.snap = x.snap
    BY <1>1 DEF ExecState
  <2> HIDE DEF new
  <2>3. Stages[e] = "made" /\ StageOf(new) = "over"
    BY <1>3, <1>13, <2>2 DEF VerifyOk, StageOf
  <2> QED
    BY <1>4, <1>5, <1>13, <2>1, <2>2, <2>3
       DEF VerifyOk, Control!Judge, Control!Moves, Control!CallNext
<1>14. CASE VerifyTimeout(e)
  <2>1. PICK new :
          /\ exec' = [exec EXCEPT ![e] = new]
          /\ new.phase \in {"pick", "writeback"}
          /\ new.plan = x.plan /\ new.by = x.by /\ new.snap = x.snap
    <3>1. CASE CanAutoRollback(x.plan.action)
      <4> DEFINE new == [x EXCEPT !.phase = "pick"]
      <4>1. exec' = [exec EXCEPT ![e] = new]
        BY <1>1, <1>14, <3>1 DEF VerifyTimeout
      <4>2. new.phase = "pick" /\ new.plan = x.plan /\ new.by = x.by /\ new.snap = x.snap
        BY <1>1 DEF ExecState
      <4> HIDE DEF new
      <4> QED
        BY <4>1, <4>2
    <3>2. CASE ~CanAutoRollback(x.plan.action)
      <4> DEFINE new == [x EXCEPT !.phase = "writeback", !.result = "verification failed"]
      <4>1. exec' = [exec EXCEPT ![e] = new]
        BY <1>1, <1>14, <3>2 DEF VerifyTimeout
      <4>2. /\ new.phase = "writeback"
            /\ new.plan = x.plan /\ new.by = x.by /\ new.snap = x.snap
        BY <1>1 DEF ExecState
      <4> HIDE DEF new
      <4> QED
        BY <4>1, <4>2
    <3> QED
      BY <3>1, <3>2
  <2>2. Stages[e] = "made" /\ StageOf(new) \in {"over", "undoing"}
    BY <1>3, <1>14, <2>1 DEF VerifyTimeout, StageOf
  <2> QED
    BY <1>4, <1>5, <1>14, <2>1, <2>2
       DEF VerifyTimeout, Control!Judge, Control!Moves, Control!CallNext
<1>15. CASE Pick(e)
  <2>1. PICK new :
          /\ exec' = [exec EXCEPT ![e] = new]
          /\ new.phase \in {"restore", "writeback"}
          /\ new.plan = x.plan /\ new.by = x.by /\ new.snap = x.snap
    <3>1. CASE RollbackTarget(x) = NoTemplate
      <4> DEFINE new == [x EXCEPT !.phase = "writeback", !.result = "no rollback template"]
      <4>1. exec' = [exec EXCEPT ![e] = new]
        BY <1>1, <1>15, <3>1 DEF Pick
      <4>2. /\ new.phase = "writeback"
            /\ new.plan = x.plan /\ new.by = x.by /\ new.snap = x.snap
        BY <1>1 DEF ExecState
      <4> HIDE DEF new
      <4> QED
        BY <4>1, <4>2
    <3>2. CASE RollbackTarget(x) # NoTemplate
      <4> DEFINE new == [x EXCEPT !.phase = "restore", !.target = RollbackTarget(x)]
      <4>1. exec' = [exec EXCEPT ![e] = new]
        BY <1>1, <1>15, <3>2 DEF Pick
      <4>2. new.phase = "restore" /\ new.plan = x.plan /\ new.by = x.by /\ new.snap = x.snap
        BY <1>1 DEF ExecState
      <4> HIDE DEF new
      <4> QED
        BY <4>1, <4>2
    <3> QED
      BY <3>1, <3>2
  <2>2. Stages[e] = "undoing"
    BY <1>3, <1>15 DEF Pick, StageOf
  <2>3. CASE new.phase = "restore"
    <3>1. StageOf(new) = "undoing"
      BY <2>3 DEF StageOf
    <3>2. UNCHANGED <<Stages, Targets, Grounds, Priors>>
      BY <1>5, <1>6, <2>1, <2>2, <3>1
    <3> QED
      BY <1>4, <1>15, <3>2 DEF Pick, Control!vars
  <2>4. CASE new.phase = "writeback"
    <3>1. StageOf(new) = "over"
      BY <2>4 DEF StageOf
    <3>2. Templates = [Templates EXCEPT ![Targets[e]] = Templates[Targets[e]]]
      BY DEF Templates
    <3> QED
      BY <1>4, <1>5, <1>15, <2>1, <2>2, <3>1, <3>2
         DEF Pick, Control!PutBack, Control!Moves, Control!CallNext
  <2> QED
    BY <2>1, <2>3, <2>4
<1>16. CASE RestoreOk(e) \/ RestoreError(e)
  <2>1. PICK new :
          /\ exec' = [exec EXCEPT ![e] = new]
          /\ new.phase = "writeback"
          /\ new.plan = x.plan /\ new.by = x.by /\ new.snap = x.snap
    <3>1. ASSUME NEW r \in {"rolled back", "rollback failed"},
                 exec' = [exec EXCEPT ![e].phase = "writeback", ![e].result = r]
          PROVE  \E new :
                   /\ exec' = [exec EXCEPT ![e] = new]
                   /\ new.phase = "writeback"
                   /\ new.plan = x.plan /\ new.by = x.by /\ new.snap = x.snap
      <4> DEFINE new == [x EXCEPT !.phase = "writeback", !.result = r]
      <4>1. exec' = [exec EXCEPT ![e] = new]
        BY <1>1, <3>1
      <4>2. /\ new.phase = "writeback"
            /\ new.plan = x.plan /\ new.by = x.by /\ new.snap = x.snap
        BY <1>1 DEF ExecState
      <4> HIDE DEF new
      <4> QED
        BY <4>1, <4>2
    <3> QED
      BY <1>16, <3>1 DEF RestoreOk, RestoreError
  <2>2. Stages[e] = "undoing" /\ StageOf(new) = "over"
    BY <1>3, <1>16, <2>1 DEF RestoreOk, RestoreError, StageOf
  <2>3. x.target \in Template /\ x.target \in rolled[d] \cup {x.snap}
    <3>1. x.target # NoTemplate
      BY <1>1, <1>16 DEF RestoreOk, RestoreError, CallOK
    <3> QED
      BY <1>1, <3>1 DEF ExecState, HealthInv, CallRestoresTrusted, WasHealthy
  <2>4. \E s \in rolled[d] \cup {Priors[e], Templates[d]} :
          Templates' = [Templates EXCEPT ![d] = s]
    <3>1. CASE WriteTemplate(d, x.target)
      BY <1>3, <2>3, <3>1, WriteSeen
    <3>2. CASE UNCHANGED dep
      <4>1. Templates = [Templates EXCEPT ![d] = Templates[d]]
        BY DEF Templates
      <4> QED
        BY <1>4, <3>2, <4>1
    <3> QED
      BY <1>16, <3>1, <3>2 DEF RestoreOk, RestoreError
  <2> QED
    <3>1. Control!Moves(e, "undoing", "over") /\ UNCHANGED <<Targets, Grounds, Priors>>
      BY <1>5, <2>1, <2>2 DEF Control!Moves
    <3>2. UNCHANGED <<autoMode, rolled, edits>>
      BY <1>16 DEF RestoreOk, RestoreError
    <3>3. Control!PutBack(e)
      BY <1>3, <2>4, <3>1, <3>2 DEF Control!PutBack
    <3> QED
      BY <3>3 DEF Control!CallNext
<1>17. CASE Writeback(e)
  <2> DEFINE new == [x EXCEPT !.phase = "done"]
  <2>1. exec' = [exec EXCEPT ![e] = new]
    BY <1>1, <1>17 DEF Writeback
  <2>2. new.phase = "done" /\ new.plan = x.plan /\ new.by = x.by /\ new.snap = x.snap
    BY <1>1 DEF ExecState
  <2> HIDE DEF new
  <2>3. StageOf(new) = Stages[e]
    BY <1>3, <1>17, <2>2 DEF Writeback, StageOf
  <2>4. UNCHANGED <<Stages, Targets, Grounds, Priors>>
    BY <1>5, <1>6, <2>1, <2>2, <2>3
  <2> QED
    BY <1>4, <1>17, <2>4 DEF Writeback, Control!vars
<1> QED
  BY <1>7, <1>8, <1>9, <1>10, <1>11, <1>12, <1>13, <1>14, <1>15, <1>16, <1>17 DEF ExecStep

\* Every step of the executor is a step of ChangeControl or not seen by it.
LEMMA StepControlled == TypeInv /\ HealthInv /\ [Next]_vars => [Control!Next]_Control!vars
<1> SUFFICES ASSUME TypeInv, HealthInv, [Next]_vars PROVE [Control!Next]_Control!vars
  OBVIOUS
<1>1. CASE UNCHANGED vars
  BY <1>1 DEF vars, Control!vars, Stages, Targets, Grounds, Priors, Templates
<1>2. CASE Restart
  BY <1>2, RestartControlled DEF Control!Next
<1>3. ASSUME NEW e \in Execs, ExecStep(e) PROVE [Control!Next]_Control!vars
  BY <1>3, CallControlled DEF Control!Next
<1> QED
  BY <1>1, <1>2, <1>3, RequestControlled, ClusterControlled DEF Next

\* The executor implements ChangeControl: no interleaving of calls, lost
\* replies, edits by others, toggles and restarts makes it change a Deployment
\* without authority, more than once, or put back what was neither proven nor
\* found there.
THEOREM ExecutorImplementsControl == Spec => ChangesControlled
<1>1. Spec => []TypeInv
  BY TypeInit, TypeStep, PTL DEF Spec
<1> QED
  BY <1>1, HealthAlways, InitControlled, StepControlled, PTL
     DEF Spec, ChangesControlled, Control!Spec
=============================================================================
