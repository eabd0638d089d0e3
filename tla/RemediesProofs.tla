--------------------------- MODULE RemediesProofs ---------------------------
(* Remediation and the parts of MCRemedies for every value of the constants: *)
(* dangerous actions, pending plans, restarts of Pods, undone rollouts,      *)
(* retrospectives and diagnoses.  Each section is about the steps of one     *)
(* part; the others leave its variables alone.                               *)
EXTENDS MCRemedies, FiniteSetTheorems, SequenceTheorems, TLAPS

allVars == <<part, vars, podVars, undoVars, retroVars, diagnosisVars>>

-----------------------------------------------------------------------------
(* The pipeline and the tools: no dangerous action without approval.         *)

\* What is known of a task: who has left "idle" has a plan, a tool knows its
\* action from the call on, and what stands at the gate is approved or
\* harmless.
TaskOK(x) ==
  /\ x \in Task
  /\ x.phase # "idle" => x.plan \in Tasks
  /\ x.phase \in {"lookup", "confidence"} => x.action \in SafeTools \cup ProposalTools
  /\ x.phase \in {"propose", "gate", "apply"} => x.action \in ActionTypes
  /\ x.phase \in {"gate", "apply"} /\ x.action \in Dangerous => x.approved

RowOK(r) ==
  /\ r \in AuditLog
  /\ r.message = "executed" /\ r.action \in Dangerous => r.approved

TasksInv == task \in [Tasks -> Task] /\ \A t \in Tasks : TaskOK(task[t])

RowsInv == \A r \in rows : RowOK(r)

\* Whoever is in the queue has left "idle".
QueueInv ==
  /\ queue \in Seq(Tasks)
  /\ \A i \in 1..Len(queue) : task[queue[i]].phase # "idle"

IInv == TasksInv /\ RowsInv /\ QueueInv

-----------------------------------------------------------------------------
(* The two lists of bridge.go agree: every name that stands for a          *)
(* dangerous action is one that ShouldExecute turns down.                  *)

\* A suggestion stands for one action or for none.
LEMMA MappedActionType ==
  ASSUME NEW s \in Suggestion
  PROVE  MappedAction(s) \in ActionTypes \cup {NoAction}
BY DEF MappedAction, FallbackAction, Suggestion, ActionTypes, OldNames

\* So does the plan that is made of it.
LEMMA PlanActionType ==
  ASSUME NEW s \in Suggestion
  PROVE  PlanAction(s) \in ActionTypes \cup {NoAction}
BY MappedActionType DEF PlanAction

\* ShouldExecute never lets a plan with a dangerous action pass.
LEMMA DangerIsTurnedDown ==
  ASSUME NEW s \in Suggestion, PlanAction(s) \in Dangerous, ShouldExecute(s)
  PROVE  FALSE
<1>1. MappedAction(s) \in Dangerous
  BY ConstantsAssumption DEF PlanAction, Dangerous, ActionTypes
<1>2. QED
  BY <1>1, ConstantsAssumption
  DEF MappedAction, FallbackAction, ShouldExecute, Suggestion, Dangerous, ActionTypes, OldNames

-----------------------------------------------------------------------------
(* Steps that change one task, and steps that add a row.                   *)

\* A task may be replaced by one that satisfies the invariant.
LEMMA OneTask ==
  ASSUME TasksInv, NEW t \in Tasks, NEW x, TaskOK(x), task' = [task EXCEPT ![t] = x]
  PROVE  TasksInv'
BY DEF TasksInv, TaskOK

\* The changes of phase that touch nothing else.
LEMMA GotoStep ==
  ASSUME TasksInv, NEW t \in Tasks, NEW phase, Goto(t, phase),
         \/ task[t].phase # "idle"
            /\ phase \in {"queued", "diagnose", "keep", "bridge", "end"}
         \/ task[t].phase = "lookup" /\ phase = "confidence"
         \/ task[t].phase = "gate" /\ phase = "apply"
  PROVE  TasksInv'
<1> DEFINE x == [task[t] EXCEPT !.phase = phase]
<1>1. TaskOK(task[t])
  BY DEF TasksInv
<1>2. TaskOK(x)
  BY <1>1 DEF TaskOK, Task, Phases
<1>3. task' = [task EXCEPT ![t] = x]
  BY DEF Goto
<1> HIDE DEF x
<1>4. QED
  BY <1>2, <1>3, OneTask

\* A new row is as sound as the task that writes it.
LEMMA RecordStep ==
  ASSUME TasksInv, RowsInv, NEW t \in Tasks, NEW message \in Messages, NEW approved \in BOOLEAN,
         task[t].phase \in {"propose", "gate", "apply"},
         message = "executed" /\ task[t].action \in Dangerous => approved,
         Record(t, message, approved)
  PROVE  RowsInv'
<1>1. TaskOK(task[t])
  BY DEF TasksInv
<1> DEFINE r == [plan |-> task[t].plan, alert |-> task[t].alert,
                 action |-> task[t].action, message |-> message,
                 approved |-> approved]
<1>2. RowOK(r)
  BY <1>1 DEF TaskOK, Task, RowOK, AuditLog
<1>3. rows' \subseteq rows \cup {r}
  BY DEF Record
<1> HIDE DEF r
<1>4. QED
  BY <1>2, <1>3 DEF RowsInv

-----------------------------------------------------------------------------
\* Nothing has happened yet.
LEMMA InitInv == Init => IInv
<1> SUFFICES ASSUME Init PROVE IInv
  OBVIOUS
<1>1. TaskOK(NewTask)
  BY DEF NewTask, TaskOK, Task, Phases
<1>2. QED
  BY <1>1 DEF Init, IInv, TasksInv, RowsInv, QueueInv, TaskOK

\* No task returns to "idle".
LEMMA NonIdleKept ==
  ASSUME TasksInv, [Next]_vars
  PROVE  \A u \in Tasks : task[u].phase # "idle" => task'[u].phase # "idle"
<1> SUFFICES ASSUME NEW u \in Tasks, task[u].phase # "idle"
             PROVE  task'[u].phase # "idle"
  OBVIOUS
<1> USE DEF TasksInv
<1>1. CASE UNCHANGED task
  BY <1>1
<1>2. ASSUME NEW t \in Tasks, NEW phase \in Phases \ {"idle"}, Goto(t, phase)
      PROVE  task'[u].phase # "idle"
  BY <1>2 DEF Goto, TaskOK, Task
<1>3. ASSUME NEW t \in Tasks, Step(t) PROVE task'[u].phase # "idle"
  <2>1. CASE Bridge(t) \/ Confidence(t)
    <3>1. CASE \E phase \in {"end"} : Goto(t, phase)
      BY <1>2, <3>1 DEF Phases
    <3>2. CASE Bridge(t) /\ ~Goto(t, "end")
      <4>1. PICK s \in Suggestions :
              task' = [task EXCEPT ![t].action = PlanAction(s), ![t].confident = s.confident,
                         ![t].phase = AfterBridge(t, s)]
        BY <3>2 DEF Bridge
      <4> DEFINE phase == AfterBridge(t, s)
                 x == [task[t] EXCEPT !.action = PlanAction(s),
                         !.confident = s.confident, !.phase = phase]
      <4>2. phase # "idle" /\ task' = [task EXCEPT ![t] = x]
        BY <4>1 DEF AfterBridge
      <4> HIDE DEF phase
      <4>3. x.phase # "idle"
        BY <4>2 DEF TaskOK, Task
      <4> HIDE DEF x
      <4>4. task'[u] = IF u = t THEN x ELSE task[u]
        BY <4>2
      <4>5. QED BY <4>3, <4>4
    <3>3. CASE Confidence(t) /\ ~Goto(t, "end")
      <4>1. PICK confident \in BOOLEAN :
              task' = [task EXCEPT ![t].confident = confident,
                ![t].phase = IF task[t].action \in ProposalTools THEN "propose" ELSE "gate"]
        BY <3>3 DEF Confidence
      <4> DEFINE phase == IF task[t].action \in ProposalTools THEN "propose" ELSE "gate"
                 x == [task[t] EXCEPT !.confident = confident, !.phase = phase]
      <4>2. phase # "idle" /\ task' = [task EXCEPT ![t] = x]
        BY <4>1
      <4> HIDE DEF phase
      <4>3. x.phase # "idle"
        BY <4>2 DEF TaskOK, Task
      <4> HIDE DEF x
      <4>4. task'[u] = IF u = t THEN x ELSE task[u]
        BY <4>2
      <4>5. QED BY <4>3, <4>4
    <3>4. QED BY <2>1, <3>1, <3>2, <3>3
  <2>2. CASE ~(Bridge(t) \/ Confidence(t))
    <3>1. UNCHANGED task \/ \E phase \in Phases \ {"idle"} : Goto(t, phase)
      BY <1>3, <2>2 DEF Step, Enqueue, Take, Diagnose, Keep, Lookup, Propose, Gate, Apply, Phases
    <3>2. QED BY <1>1, <1>2, <3>1
  <2>3. QED BY <2>1, <2>2
<1>4. ASSUME NEW t \in Tasks, NEW a \in Alerts, Offer(t, a) PROVE task'[u].phase # "idle"
  BY <1>4 DEF Offer, TaskOK, Task
<1>5. ASSUME NEW t \in Tasks, NEW a \in Alerts, NEW tool \in Tools, Call(t, a, tool)
      PROVE  task'[u].phase # "idle"
  BY <1>5 DEF Call
<1>6. ASSUME NEW t \in Tasks, NEW r \in rows, Approve(t, r) PROVE task'[u].phase # "idle"
  BY <1>6 DEF Approve
<1>7. ASSUME NEW t \in Tasks, NEW a \in Alerts, DiagnoseAndExecute(t, a)
      PROVE  task'[u].phase # "idle"
  <2>1. PICK phase \in {"bridge", "end"} :
          task' = [task EXCEPT ![t] = [NewTask EXCEPT !.phase = phase,
                     !.kind = "request", !.alert = a, !.plan = t]]
    BY <1>7 DEF DiagnoseAndExecute
  <2>2. QED BY <2>1 DEF NewTask
<1>8. QED
  BY <1>1, <1>3, <1>4, <1>5, <1>6, <1>7
  DEF Next, vars, ToggleAutoMode, Stop, WorkerEnds, StopReturns, UserDiagnosis, Verdict

\* The queue holds tasks that arrived.
LEMMA QueueStep ==
  ASSUME TasksInv, QueueInv, [Next]_vars
  PROVE  QueueInv'
<1> DEFINE kept == \A u \in Tasks : task[u].phase # "idle" => task'[u].phase # "idle"
<1>1. kept
  BY NonIdleKept
<1> HIDE DEF kept
<1>2. CASE UNCHANGED queue
  BY <1>1, <1>2 DEF QueueInv, kept
<1>3. ASSUME NEW t \in Tasks, Enqueue(t), queue' = Append(queue, t) PROVE QueueInv'
  <2>1. task'[t].phase # "idle"
    BY <1>1, <1>3 DEF Enqueue, kept
  <2>2. QED
    BY <1>1, <1>3, <2>1 DEF QueueInv, kept
<1>4. ASSUME NEW t \in Tasks, Take(t) PROVE QueueInv'
  <2>1. queue' = Tail(queue) /\ queue # <<>>
    BY <1>4 DEF Take
  <2>2. QED
    BY <1>1, <2>1 DEF QueueInv, kept
<1>5. QED
  BY <1>2, <1>3, <1>4
  DEF Next, vars, Step, ToggleAutoMode, Stop, WorkerEnds, StopReturns, UserDiagnosis,
      Verdict, Offer, Call, DiagnoseAndExecute, Approve, Enqueue, Diagnose, Keep, Bridge, Lookup,
      Confidence, Propose, Gate, Apply

\* The pipeline.
LEMMA PipelineStep ==
  ASSUME TasksInv, RowsInv, QueueInv, NEW t \in Tasks,
         Enqueue(t) \/ Take(t) \/ Diagnose(t) \/ Keep(t) \/ Bridge(t)
  PROVE  TasksInv' /\ RowsInv'
<1>1. CASE Enqueue(t)
  <2>1. UNCHANGED task \/ Goto(t, "queued") \/ Goto(t, "end")
    BY <1>1 DEF Enqueue
  <2>2. UNCHANGED rows /\ task[t].phase = "checked"
    BY <1>1 DEF Enqueue
  <2>3. QED
    BY <2>1, <2>2, GotoStep DEF TasksInv, RowsInv
<1>2. CASE Take(t)
  <2>1. (Goto(t, "diagnose") \/ Goto(t, "end")) /\ UNCHANGED rows
    BY <1>2 DEF Take
  <2>2. task[t].phase # "idle"
    BY <1>2 DEF Take, QueueInv
  <2>3. QED
    BY <2>1, <2>2, GotoStep DEF RowsInv
<1>3. CASE Diagnose(t)
  <2>1. (Goto(t, "keep") \/ Goto(t, "end")) /\ UNCHANGED rows /\ task[t].phase = "diagnose"
    BY <1>3 DEF Diagnose
  <2>2. QED
    BY <2>1, GotoStep DEF RowsInv
<1>4. CASE Keep(t)
  <2>1. Goto(t, "bridge") /\ UNCHANGED rows /\ task[t].phase = "keep"
    BY <1>4 DEF Keep
  <2>2. QED
    BY <2>1, GotoStep DEF RowsInv
<1>5. CASE Bridge(t)
  <2>1. PICK s \in Suggestions :
          IF PlanAction(s) = NoAction THEN Goto(t, "end")
          ELSE task' = [task EXCEPT ![t].action = PlanAction(s),
                 ![t].confident = s.confident,
                 ![t].phase = AfterBridge(t, s)]
    BY <1>5 DEF Bridge
  <2>2. UNCHANGED rows /\ task[t].phase = "bridge" /\ s \in Suggestion
    BY <1>5, ConstantsAssumption DEF Bridge
  <2>3. CASE PlanAction(s) = NoAction
    BY <2>1, <2>2, <2>3, GotoStep DEF RowsInv
  <2>4. CASE PlanAction(s) # NoAction
    <3> DEFINE phase == AfterBridge(t, s)
               x == [task[t] EXCEPT !.action = PlanAction(s),
                       !.confident = s.confident, !.phase = phase]
    <3>1. PlanAction(s) \in ActionTypes /\ s.confident \in BOOLEAN
      BY <2>2, <2>4, PlanActionType DEF Suggestion
    <3>2. \/ phase \in {"propose", "end"}
          \/ phase = "gate" /\ PlanAction(s) \notin Dangerous
      BY <2>2, DangerIsTurnedDown DEF AfterBridge
    <3>3. TaskOK(task[t])
      BY DEF TasksInv
    <3>4. task' = [task EXCEPT ![t] = x]
      BY <2>1, <2>4
    <3> HIDE DEF phase
    <3>5. TaskOK(x)
      BY <2>2, <3>1, <3>2, <3>3 DEF TaskOK, Task, Phases
    <3> HIDE DEF x
    <3>6. QED
      BY <2>2, <3>4, <3>5, OneTask DEF RowsInv
  <2>5. QED BY <2>3, <2>4
<1>6. QED
  BY <1>1, <1>2, <1>3, <1>4, <1>5

\* The tools.
LEMMA ToolStep ==
  ASSUME TasksInv, RowsInv, NEW t \in Tasks, Lookup(t) \/ Confidence(t)
  PROVE  TasksInv' /\ RowsInv'
<1>1. CASE Lookup(t)
  <2>1. (Goto(t, "confidence") \/ Goto(t, "end")) /\ UNCHANGED rows /\ task[t].phase = "lookup"
    BY <1>1 DEF Lookup
  <2>2. QED
    BY <2>1, GotoStep DEF RowsInv
<1>2. CASE Confidence(t)
  <2>1. task[t].phase = "confidence" /\ UNCHANGED rows
    BY <1>2 DEF Confidence
  <2>2. CASE task[t].alert \notin cached
    <3>1. Goto(t, "end")
      BY <1>2, <2>2 DEF Confidence
    <3>2. QED
      BY <2>1, <3>1, GotoStep DEF RowsInv
  <2>3. CASE task[t].alert \in cached
    <3>1. PICK confident \in BOOLEAN :
            task' = [task EXCEPT ![t].confident = confident,
              ![t].phase = IF task[t].action \in ProposalTools THEN "propose" ELSE "gate"]
      BY <1>2, <2>3 DEF Confidence
    <3> DEFINE phase == IF task[t].action \in ProposalTools THEN "propose" ELSE "gate"
               x == [task[t] EXCEPT !.confident = confident, !.phase = phase]
    <3>2. TaskOK(task[t])
      BY DEF TasksInv
    <3>3. task[t].action \in SafeTools \cup ProposalTools /\ task[t].action \in ActionTypes
      BY <2>1, <3>2 DEF TaskOK, SafeTools, ProposalTools, ActionTypes
    <3>4. \/ phase = "propose"
          \/ phase = "gate" /\ task[t].action \notin Dangerous
      BY <3>3 DEF SafeTools, Dangerous
    <3>5. task' = [task EXCEPT ![t] = x]
      BY <3>1
    <3> HIDE DEF phase
    <3>6. TaskOK(x)
      BY <2>1, <3>2, <3>3, <3>4 DEF TaskOK, Task, Phases
    <3> HIDE DEF x
    <3>7. QED
      BY <2>1, <3>5, <3>6, OneTask DEF RowsInv
  <2>4. QED BY <2>2, <2>3
<1>3. QED BY <1>1, <1>2

\* What ends in a row of the audit table.
LEMMA RowStep ==
  ASSUME TasksInv, RowsInv, NEW t \in Tasks, Propose(t) \/ Gate(t) \/ Apply(t)
  PROVE  TasksInv' /\ RowsInv'
<1>1. TaskOK(task[t])
  BY DEF TasksInv
<1>2. CASE Propose(t)
  <2>1. task[t].phase = "propose" /\ Goto(t, "end") /\ Record(t, "pending approval", FALSE)
    BY <1>2 DEF Propose
  <2>2. TasksInv'
    BY <2>1, GotoStep
  <2>3. RowsInv'
    BY <2>1, RecordStep DEF Messages
  <2>4. QED BY <2>2, <2>3
<1>3. CASE Gate(t)
  <2>1. task[t].phase = "gate"
    BY <1>3 DEF Gate
  <2>2. CASE Allowed(t)
    <3>1. Goto(t, "apply") /\ UNCHANGED rows
      BY <1>3, <2>2 DEF Gate
    <3>2. QED
      BY <2>1, <3>1, GotoStep DEF RowsInv
  <2>3. CASE ~Allowed(t)
    <3>1. Goto(t, "end") /\ \/ Record(t, "below threshold", FALSE)
                            \/ Record(t, "approval required", FALSE)
      BY <1>3, <2>3 DEF Gate
    <3>2. TasksInv'
      BY <2>1, <3>1, GotoStep
    <3>3. RowsInv'
      BY <2>1, <3>1, RecordStep DEF Messages
    <3>4. QED BY <3>2, <3>3
  <2>4. QED BY <2>2, <2>3
<1>4. CASE Apply(t)
  <2>1. /\ task[t].phase = "apply" /\ Goto(t, "end")
        /\ \/ Record(t, "executed", task[t].approved)
           \/ Record(t, "failed", task[t].approved)
    BY <1>4 DEF Apply
  <2>2. task[t].approved \in BOOLEAN
        /\ (task[t].action \in Dangerous => task[t].approved)
    BY <1>1, <2>1 DEF TaskOK, Task
  <2>3. TasksInv'
    BY <2>1, GotoStep
  <2>4. RowsInv'
    BY <2>1, <2>2, RecordStep DEF Messages
  <2>5. QED BY <2>3, <2>4
<1>5. QED BY <1>2, <1>3, <1>4

\* A verdict turns executed rows into others.
LEMMA VerdictStep ==
  ASSUME TasksInv, RowsInv, NEW p \in Tasks, Verdict(p)
  PROVE  TasksInv' /\ RowsInv'
<1>1. PICK verdict \in {"verified", "not verified"} :
        rows' = {IF r.plan = p THEN [r EXCEPT !.message = verdict] ELSE r : r \in rows}
  BY DEF Verdict
<1>2. \A r \in rows : RowOK(r) /\ RowOK([r EXCEPT !.message = verdict])
  BY DEF RowsInv, RowOK, AuditLog, Messages
<1>3. RowsInv'
  BY <1>1, <1>2 DEF RowsInv
<1>4. QED
  BY <1>3 DEF Verdict, TasksInv

\* Every step keeps the invariant.
LEMMA NextInv == IInv /\ [Next]_vars => IInv'
<1> SUFFICES ASSUME IInv, [Next]_vars PROVE TasksInv' /\ RowsInv'
  BY QueueStep DEF IInv
<1>1. CASE UNCHANGED <<task, rows>>
  BY <1>1 DEF IInv, TasksInv, RowsInv
<1>2. CASE ToggleAutoMode \/ Stop \/ WorkerEnds \/ StopReturns
           \/ \E a \in Alerts : UserDiagnosis(a)
  BY <1>1, <1>2 DEF ToggleAutoMode, Stop, WorkerEnds, StopReturns, UserDiagnosis
<1>3. ASSUME NEW t \in Tasks, Step(t) PROVE TasksInv' /\ RowsInv'
  BY <1>3, PipelineStep, ToolStep, RowStep DEF IInv, Step
<1>4. ASSUME NEW t \in Tasks, NEW a \in Alerts, Offer(t, a) PROVE TasksInv' /\ RowsInv'
  <2> DEFINE x == [task[t] EXCEPT !.phase = "checked", !.kind = "alert",
                     !.alert = a, !.plan = t]
  <2>1. task' = [task EXCEPT ![t] = x] /\ UNCHANGED rows
    BY <1>4 DEF Offer
  <2>2. TaskOK(task[t])
    BY DEF IInv, TasksInv
  <2>3. TaskOK(x)
    BY <2>2 DEF TaskOK, Task, Phases
  <2> HIDE DEF x
  <2>4. QED
    BY <2>1, <2>3, OneTask DEF IInv, RowsInv
<1>5. ASSUME NEW t \in Tasks, NEW a \in Alerts, NEW tool \in Tools, Call(t, a, tool)
      PROVE TasksInv' /\ RowsInv'
  <2> DEFINE x == [NewTask EXCEPT !.phase = "lookup", !.kind = "tool",
                     !.alert = a, !.action = tool, !.plan = t]
  <2>1. task' = [task EXCEPT ![t] = x] /\ UNCHANGED rows
    BY <1>5 DEF Call
  <2>2. tool \in SafeTools \cup ProposalTools /\ tool \in ActionTypes
    BY ConstantsAssumption DEF SafeTools, ProposalTools, ActionTypes
  <2>3. TaskOK(x)
    BY <2>2 DEF NewTask, TaskOK, Task, Phases
  <2> HIDE DEF x
  <2>4. QED
    BY <2>1, <2>3, OneTask DEF IInv, RowsInv
<1>6. ASSUME NEW t \in Tasks, NEW r \in rows, Approve(t, r) PROVE TasksInv' /\ RowsInv'
  <2> DEFINE x == [phase |-> "gate", kind |-> "approval", alert |-> r.alert,
                   action |-> r.action, confident |-> FALSE, plan |-> r.plan,
                   approved |-> TRUE]
  <2>1. task' = [task EXCEPT ![t] = x] /\ UNCHANGED rows
    BY <1>6 DEF Approve
  <2>2. r \in AuditLog
    BY DEF IInv, RowsInv, RowOK
  <2>3. TaskOK(x)
    BY <2>2 DEF AuditLog, TaskOK, Task, Phases
  <2> HIDE DEF x
  <2>4. QED
    BY <2>1, <2>3, OneTask DEF IInv, RowsInv
<1>7. ASSUME NEW t \in Tasks, NEW a \in Alerts, DiagnoseAndExecute(t, a)
      PROVE TasksInv' /\ RowsInv'
  <2>1. PICK phase \in {"bridge", "end"} :
          task' = [task EXCEPT ![t] = [NewTask EXCEPT !.phase = phase,
                     !.kind = "request", !.alert = a, !.plan = t]]
    BY <1>7 DEF DiagnoseAndExecute
  <2> DEFINE x == [NewTask EXCEPT !.phase = phase, !.kind = "request",
                     !.alert = a, !.plan = t]
  <2>2. TaskOK(x)
    BY DEF NewTask, TaskOK, Task, Phases
  <2> HIDE DEF x
  <2>3. QED
    BY <1>7, <2>1, <2>2, OneTask DEF IInv, RowsInv, x, DiagnoseAndExecute
<1>8. QED
  BY <1>1, <1>2, <1>3, <1>4, <1>5, <1>6, <1>7, VerdictStep DEF Next, vars, IInv

\* A dangerous action is carried out only for an approved plan, whatever the
\* diagnoses, the tools, the modes and the approvals.
THEOREM DangerAlwaysNeedsApproval == Spec => []DangerNeedsApproval
<1>1. IInv => DangerNeedsApproval
  BY DEF IInv, TasksInv, TaskOK, RowsInv, RowOK, DangerNeedsApproval
<1>2. QED
  BY InitInv, NextInv, <1>1, PTL DEF Spec

-----------------------------------------------------------------------------
(* Pending plans: the tools of the bridge, called one after the other.       *)

Waiting == {"pending approval", "approval required"}
Waits(r) == r.message \in Waiting
NoneWaits(alert, action) ==
  \A r \in rows : r.alert = alert /\ r.action = action => ~Waits(r)
Runs(x) == x.kind = "tool" /\ x.phase # "end"
\* A call of a tool between its look at the table and what it writes there.
Looked(x) == x.kind = "tool" /\ x.phase \in {"confidence", "propose", "gate"}

\* The plan of a tool bears the name of its task; an approval brings its own.
ThreadOK(t, x) ==
  /\ x \in Pending!Task
  /\ \/ x.phase = "idle" /\ x.kind = "none"
     \/ /\ x.kind = "tool" /\ x.plan = t /\ ~x.approved
        /\ x.phase \in {"lookup", "confidence", "propose", "gate", "apply", "end"}
     \/ x.kind = "approval" /\ x.approved /\ x.phase \in {"gate", "apply", "end"}
  /\ x.phase # "idle" => x.plan \in Tasks /\ x.action \in ActionTypes

PendingInv ==
  /\ worker # "on" /\ ~closed
  /\ task \in [Tasks -> Pending!Task]
  /\ \A t \in Tasks : ThreadOK(t, task[t])
  /\ \A r \in rows : r \in Pending!AuditLog /\ (Waits(r) => ~r.approved)
  /\ \A t, u \in Tasks : Runs(task[t]) /\ Runs(task[u]) => t = u
  /\ \A t \in Tasks : Looked(task[t]) => NoneWaits(task[t].alert, task[t].action)
  /\ Pending!OnePendingPlan

\* In its part only the tools and approvals take steps.
LEMMA PendingSteps ==
  ASSUME part = "pending", [RemediesNext]_allVars
  PROVE  part' = part /\ (Pending!Next \/ UNCHANGED vars)
BY DEF RemediesNext, allVars

LEMMA PendingStart ==
  ASSUME RemediesInit, part = "pending"
  PROVE  PendingInv
<1>1. Pending!Init
  BY DEF RemediesInit
<1>2. /\ task = [t \in Tasks |-> Pending!NewTask] /\ rows = {}
      /\ worker = "off" /\ ~closed
  BY <1>1 DEF Pending!Init
<1>3. Pending!NewTask \in Pending!Task /\ Pending!NewTask.phase = "idle"
      /\ Pending!NewTask.kind = "none"
  BY DEF Pending!NewTask, Pending!Task, Pending!Phases
<1>4. QED
  BY <1>2, <1>3 DEF PendingInv, ThreadOK, Runs, Looked, Pending!OnePendingPlan

\* One thread moves, the table stays: it may start to run if nobody does, and go
\* on if it did.
LEMMA ThreadMoves ==
  ASSUME PendingInv, NEW t \in Tasks, NEW x, task' = [task EXCEPT ![t] = x],
         UNCHANGED <<worker, closed, rows>>, ThreadOK(t, x),
         Runs(x) => Runs(task[t]) \/ \A u \in Tasks : ~Runs(task[u]),
         Looked(x) => NoneWaits(x.alert, x.action)
  PROVE  PendingInv'
<1>1. task' \in [Tasks -> Pending!Task] /\ task'[t] = x
      /\ \A u \in Tasks : u # t => task'[u] = task[u]
  BY DEF PendingInv, ThreadOK
<1>2. \A u \in Tasks : ThreadOK(u, task'[u])
  BY <1>1 DEF PendingInv
<1>3. \A u, v \in Tasks : Runs(task'[u]) /\ Runs(task'[v]) => u = v
  BY <1>1 DEF PendingInv
<1>4. \A u \in Tasks : Looked(task'[u]) => NoneWaits(task'[u].alert, task'[u].action)
  BY <1>1 DEF PendingInv
<1>5. (\A u \in Tasks : Looked(task[u]) => NoneWaits(task[u].alert, task[u].action))'
  BY <1>4 DEF NoneWaits, Looked
<1>6. (Pending!OnePendingPlan)'
  BY DEF PendingInv, Pending!OnePendingPlan
<1>7. (\A u \in Tasks : ThreadOK(u, task[u]))'
  BY <1>2 DEF ThreadOK
<1>8. (\A u, v \in Tasks : Runs(task[u]) /\ Runs(task[v]) => u = v)'
  BY <1>3 DEF Runs
<1>9. (\A q \in rows : q \in Pending!AuditLog /\ (Waits(q) => ~q.approved))'
  BY DEF PendingInv, Waits
<1>10. QED
  BY <1>1, <1>5, <1>6, <1>7, <1>8, <1>9 DEF PendingInv

\* A thread ends and leaves a row, or none: one that waits is the first of its alert
\* and action, and written while nobody else runs.
LEMMA ThreadEnds ==
  ASSUME PendingInv, NEW t \in Tasks, NEW r, Pending!Goto(t, "end"),
         task[t].phase # "idle", UNCHANGED <<worker, closed>>,
         rows' = rows \/ rows' = rows \cup {r}, r \in Pending!AuditLog,
         Waits(r) => Runs(task[t]) /\ ~r.approved /\ NoneWaits(r.alert, r.action)
  PROVE  PendingInv'
<1> DEFINE x == [task[t] EXCEPT !.phase = "end"]
<1>1. ThreadOK(t, task[t])
  BY DEF PendingInv
<1>2. x \in Pending!Task /\ x.phase = "end" /\ x.kind = task[t].kind /\ x.plan = task[t].plan
      /\ x.approved = task[t].approved /\ x.action = task[t].action
  BY <1>1 DEF ThreadOK, Pending!Task, Pending!Phases
<1>3. ThreadOK(t, x) /\ ~Runs(x) /\ ~Looked(x)
  BY <1>1, <1>2 DEF ThreadOK, Runs, Looked
<1>4. task' = [task EXCEPT ![t] = x]
  BY DEF Pending!Goto, PendingInv
<1> HIDE DEF x
<1>5. task' \in [Tasks -> Pending!Task] /\ task'[t] = x
      /\ \A u \in Tasks : u # t => task'[u] = task[u]
  BY <1>3, <1>4 DEF PendingInv, ThreadOK
<1>6. \A u \in Tasks : ThreadOK(u, task'[u])
  BY <1>3, <1>5 DEF PendingInv
<1>7. \A u, v \in Tasks : Runs(task'[u]) /\ Runs(task'[v]) => u = v
  BY <1>3, <1>5 DEF PendingInv
<1>8. \A u \in Tasks : Looked(task'[u]) =>
        \A q \in rows' : q.alert = task'[u].alert /\ q.action = task'[u].action => ~Waits(q)
  <2>1. SUFFICES ASSUME NEW u \in Tasks, Looked(task'[u])
        PROVE \A q \in rows' : q.alert = task'[u].alert /\ q.action = task'[u].action
                             => ~Waits(q)
    OBVIOUS
  <2>2. u # t /\ task'[u] = task[u]
    BY <1>3, <1>5, <2>1
  <2>3. Runs(task[u]) /\ NoneWaits(task[u].alert, task[u].action)
    BY <2>1, <2>2 DEF PendingInv, Looked, Runs
  <2>4. ~Waits(r)
    BY <2>2, <2>3 DEF PendingInv
  <2>5. QED
    BY <2>2, <2>3, <2>4 DEF NoneWaits
<1>9. (Pending!OnePendingPlan)'
  <2>1. SUFFICES ASSUME NEW a \in rows', NEW b \in rows', Waits(a), Waits(b),
                        a.alert = b.alert, a.action = b.action
        PROVE a.plan = b.plan
    BY DEF Pending!OnePendingPlan, Waits, Waiting
  <2>2. CASE a \in rows /\ b \in rows
    BY <2>1, <2>2 DEF PendingInv, Pending!OnePendingPlan, Waits, Waiting
  <2>3. CASE a = r \/ b = r
    BY <2>1, <2>3 DEF NoneWaits
  <2>4. QED
    BY <2>2, <2>3
<1>10. (\A q \in rows : q \in Pending!AuditLog /\ (Waits(q) => ~q.approved))'
  BY DEF PendingInv, Waits
<1>11. (\A u \in Tasks : ThreadOK(u, task[u]))'
  BY <1>6 DEF ThreadOK
<1>12. (\A u, v \in Tasks : Runs(task[u]) /\ Runs(task[v]) => u = v)'
  BY <1>7 DEF Runs
<1>13. (\A u \in Tasks : Looked(task[u]) => NoneWaits(task[u].alert, task[u].action))'
  BY <1>8 DEF Looked, NoneWaits, Waits
<1>14. QED
  BY <1>5, <1>9, <1>10, <1>11, <1>12, <1>13 DEF PendingInv

\* A thread that changes its phase and nothing else.
LEMMA ThreadGoes ==
  ASSUME PendingInv, NEW t \in Tasks, NEW phase, Pending!Goto(t, phase),
         UNCHANGED <<worker, closed, rows>>,
         \/ phase = "end" /\ task[t].phase # "idle"
         \/ phase = "apply" /\ task[t].phase = "gate"
         \/ /\ phase = "confidence" /\ task[t].phase = "lookup"
            /\ NoneWaits(task[t].alert, task[t].action)
  PROVE  PendingInv'
<1> DEFINE x == [task[t] EXCEPT !.phase = phase]
<1>1. ThreadOK(t, task[t])
  BY DEF PendingInv
<1>2. x \in Pending!Task /\ x.phase = phase /\ x.kind = task[t].kind /\ x.plan = task[t].plan
      /\ x.approved = task[t].approved /\ x.action = task[t].action /\ x.alert = task[t].alert
  BY <1>1 DEF ThreadOK, Pending!Task, Pending!Phases
<1>3. task' = [task EXCEPT ![t] = x]
  BY DEF Pending!Goto, PendingInv
<1> HIDE DEF x
<1>4. ThreadOK(t, x)
  BY <1>1, <1>2 DEF ThreadOK
<1>5. Runs(x) => Runs(task[t])
  BY <1>1, <1>2 DEF Runs, ThreadOK
<1>6. Looked(x) => NoneWaits(x.alert, x.action)
  BY <1>2 DEF Looked
<1>7. QED
  BY <1>3, <1>4, <1>5, <1>6, ThreadMoves

\* A call of a tool starts while no other one runs.
LEMMA CallKeeps ==
  ASSUME PendingInv, NEW t \in Tasks, NEW a \in PendingAlerts, NEW tool \in Tools,
         Pending!Call(t, a, tool)
  PROVE  PendingInv'
<1> DEFINE x == [Pending!NewTask EXCEPT !.phase = "lookup", !.kind = "tool", !.alert = a,
                                        !.action = tool, !.plan = t]
<1>1. /\ \A u \in Tasks : ~Runs(task[u])
      /\ task' = [task EXCEPT ![t] = x] /\ UNCHANGED <<worker, closed, rows>>
  BY DEF Pending!Call, Pending!ToolRunning, Runs
<1>2. tool \in ActionTypes /\ tool \in Pending!ActionTypes
  BY ConstantsAssumption
  DEF SafeTools, ProposalTools, ActionTypes, Pending!ActionTypes
<1>3. /\ x \in Pending!Task /\ x.kind = "tool" /\ x.phase = "lookup" /\ x.plan = t
      /\ ~x.approved /\ x.action = tool
  BY <1>2 DEF Pending!NewTask, Pending!Task, Pending!Phases
<1> HIDE DEF x
<1>4. ThreadOK(t, x) /\ ~Looked(x)
  BY <1>2, <1>3 DEF ThreadOK, Looked
<1>5. QED
  BY <1>1, <1>4, ThreadMoves

\* What a call finds decides whether it goes on.
LEMMA LookupKeeps ==
  ASSUME PendingInv, NEW t \in Tasks, Pending!Lookup(t)
  PROVE  PendingInv'
<1>1. task[t].phase = "lookup" /\ UNCHANGED <<worker, closed, rows>>
  BY DEF Pending!Lookup
<1>2. CASE Pending!PendingPlan(task[t].alert, task[t].action) = {}
  <2>1. Pending!Goto(t, "confidence")
    BY <1>2 DEF Pending!Lookup
  <2>2. NoneWaits(task[t].alert, task[t].action)
    <3>1. SUFFICES ASSUME NEW r \in rows, r.alert = task[t].alert, r.action = task[t].action,
                          Waits(r)
          PROVE FALSE
      BY DEF NoneWaits
    <3>2. Pending!IsPending(r)
      BY <3>1 DEF PendingInv, Waits, Waiting, Pending!IsPending
    <3>3. r.plan \in Pending!PendingPlan(task[t].alert, task[t].action)
      BY <3>1, <3>2 DEF Pending!PendingPlan
    <3>4. QED
      BY <1>2, <3>3
  <2>3. QED
    BY <1>1, <2>1, <2>2, ThreadGoes
<1>3. CASE Pending!PendingPlan(task[t].alert, task[t].action) # {}
  <2>1. Pending!Goto(t, "end")
    BY <1>3 DEF Pending!Lookup
  <2>2. QED
    BY <1>1, <2>1, ThreadGoes
<1>4. QED
  BY <1>2, <1>3

LEMMA ConfidenceKeeps ==
  ASSUME PendingInv, NEW t \in Tasks, Pending!Confidence(t)
  PROVE  PendingInv'
<1>1. task[t].phase = "confidence" /\ UNCHANGED <<worker, closed, rows>>
  BY DEF Pending!Confidence
<1>2. ThreadOK(t, task[t])
  BY DEF PendingInv
<1>3. CASE task[t].alert \notin cached
  <2>1. Pending!Goto(t, "end")
    BY <1>3 DEF Pending!Confidence
  <2>2. QED
    BY <1>1, <2>1, ThreadGoes
<1>4. CASE task[t].alert \in cached
  <2>1. PICK confident \in BOOLEAN :
          task' = [task EXCEPT ![t].confident = confident,
            ![t].phase = IF task[t].action \in Pending!ProposalTools THEN "propose" ELSE "gate"]
    BY <1>4 DEF Pending!Confidence
  <2> DEFINE phase == IF task[t].action \in Pending!ProposalTools THEN "propose" ELSE "gate"
             x == [task[t] EXCEPT !.confident = confident, !.phase = phase]
  <2>2. phase \in {"propose", "gate"}
    OBVIOUS
  <2>3. task' = [task EXCEPT ![t] = x]
    BY <2>1 DEF PendingInv
  <2> HIDE DEF phase
  <2>4. /\ x \in Pending!Task /\ x.phase = phase /\ x.kind = task[t].kind
        /\ x.plan = task[t].plan /\ x.approved = task[t].approved
        /\ x.action = task[t].action /\ x.alert = task[t].alert
    BY <1>2, <2>2 DEF ThreadOK, Pending!Task, Pending!Phases
  <2> HIDE DEF x
  <2>5. ThreadOK(t, x) /\ Runs(task[t]) /\ Looked(task[t])
    BY <1>1, <1>2, <2>2, <2>4 DEF ThreadOK, Runs, Looked
  <2>6. NoneWaits(x.alert, x.action)
    BY <2>4, <2>5 DEF PendingInv
  <2>7. QED
    BY <1>1, <2>3, <2>5, <2>6, ThreadMoves
<1>5. QED
  BY <1>3, <1>4

\* A row that a thread writes about its plan.
LEMMA RowType ==
  ASSUME PendingInv, NEW t \in Tasks, task[t].phase # "idle", NEW message \in Pending!Messages,
         NEW approved \in BOOLEAN
  PROVE  [plan |-> task[t].plan, alert |-> task[t].alert, action |-> task[t].action,
          message |-> message, approved |-> approved] \in Pending!AuditLog
<1>1. task[t] \in Pending!Task /\ task[t].plan \in Tasks /\ task[t].action \in ActionTypes
  BY DEF PendingInv, ThreadOK
<1>2. ActionTypes = Pending!ActionTypes
  BY DEF ActionTypes, Pending!ActionTypes
<1>3. task[t].alert \in PendingAlerts \cup {"none"}
  BY <1>1 DEF Pending!Task
<1>4. QED
  BY <1>1, <1>2, <1>3 DEF Pending!AuditLog

\* The end of a thread with a row about its plan.
LEMMA RecordKeeps ==
  ASSUME PendingInv, NEW t \in Tasks, task[t].phase # "idle", NEW message \in Pending!Messages,
         NEW approved \in BOOLEAN, Pending!Record(t, message, approved), Pending!Goto(t, "end"),
         UNCHANGED <<worker, closed>>,
         message \in Waiting => ~approved /\ Looked(task[t])
  PROVE  PendingInv'
<1> DEFINE r == [plan |-> task[t].plan, alert |-> task[t].alert, action |-> task[t].action,
                 message |-> message, approved |-> approved]
<1>1. rows' = rows \/ rows' = rows \cup {r}
  BY DEF Pending!Record
<1>2. r \in Pending!AuditLog
  BY RowType
<1>3. /\ r.alert = task[t].alert /\ r.action = task[t].action /\ r.message = message
      /\ r.approved = approved
  OBVIOUS
<1> HIDE DEF r
<1>4. Waits(r) => Runs(task[t]) /\ ~r.approved /\ NoneWaits(r.alert, r.action)
  BY <1>3 DEF PendingInv, Waits, Looked, Runs
<1>5. QED
  BY <1>1, <1>2, <1>4, ThreadEnds

\* What a tool records before it ends, and what the gate does.
LEMMA GateKeeps ==
  ASSUME PendingInv, NEW t \in Tasks,
         Pending!Propose(t) \/ Pending!Gate(t) \/ Pending!Apply(t)
  PROVE  PendingInv'
<1>1. ThreadOK(t, task[t])
  BY DEF PendingInv
<1>2. {"pending approval", "below threshold", "approval required", "executed", "failed"}
      \subseteq Pending!Messages
  BY DEF Pending!Messages
<1>3. CASE Pending!Propose(t)
  <2>1. /\ task[t].phase = "propose" /\ UNCHANGED <<worker, closed>>
        /\ Pending!Record(t, "pending approval", FALSE) /\ Pending!Goto(t, "end")
    BY <1>3 DEF Pending!Propose
  <2>2. Looked(task[t])
    BY <1>1, <2>1 DEF ThreadOK, Looked
  <2>3. QED
    BY <1>2, <2>1, <2>2, RecordKeeps
<1>4. CASE Pending!Gate(t)
  <2>1. task[t].phase = "gate" /\ UNCHANGED <<worker, closed>>
    BY <1>4 DEF Pending!Gate
  <2>2. CASE Pending!Allowed(t)
    <3>1. Pending!Goto(t, "apply") /\ UNCHANGED rows
      BY <1>4, <2>2 DEF Pending!Gate
    <3>2. QED
      BY <2>1, <3>1, ThreadGoes
  <2>3. CASE ~Pending!Allowed(t)
    <3>1. Looked(task[t])
      BY <1>1, <2>1, <2>3 DEF ThreadOK, Looked, Pending!Allowed
    <3>2. Pending!Goto(t, "end")
      BY <1>4, <2>3 DEF Pending!Gate
    <3>3. CASE autoMode
      <4>1. Pending!Record(t, "below threshold", FALSE)
        BY <1>4, <2>3, <3>3 DEF Pending!Gate
      <4>2. QED
        BY <1>2, <2>1, <3>1, <3>2, <4>1, RecordKeeps
    <3>4. CASE ~autoMode
      <4>1. Pending!Record(t, "approval required", FALSE)
        BY <1>4, <2>3, <3>4 DEF Pending!Gate
      <4>2. QED
        BY <1>2, <2>1, <3>1, <3>2, <4>1, RecordKeeps
    <3>5. QED
      BY <3>3, <3>4
  <2>4. QED
    BY <2>2, <2>3
<1>5. CASE Pending!Apply(t)
  <2>1. /\ task[t].phase = "apply" /\ UNCHANGED <<worker, closed>> /\ Pending!Goto(t, "end")
        /\ \/ Pending!Record(t, "executed", task[t].approved)
           \/ Pending!Record(t, "failed", task[t].approved)
    BY <1>5 DEF Pending!Apply
  <2>2. task[t].approved \in BOOLEAN
    BY <1>1 DEF ThreadOK, Pending!Task
  <2>3. "executed" \notin Waiting /\ "failed" \notin Waiting
    BY DEF Waiting
  <2>4. CASE Pending!Record(t, "executed", task[t].approved)
    BY <1>2, <2>1, <2>2, <2>3, <2>4, RecordKeeps
  <2>5. CASE Pending!Record(t, "failed", task[t].approved)
    BY <1>2, <2>1, <2>2, <2>3, <2>5, RecordKeeps
  <2>6. QED
    BY <2>1, <2>4, <2>5
<1>6. QED
  BY <1>3, <1>4, <1>5

\* An approval is a thread that brings the plan of a row.
LEMMA ApproveKeeps ==
  ASSUME PendingInv, NEW t \in Tasks, NEW r \in rows, Pending!Approve(t, r)
  PROVE  PendingInv'
<1> DEFINE x == [phase |-> "gate", kind |-> "approval", alert |-> r.alert,
                 action |-> r.action, confident |-> FALSE, plan |-> r.plan, approved |-> TRUE]
<1>1. r \in Pending!AuditLog
  BY DEF PendingInv
<1>2. task' = [task EXCEPT ![t] = x] /\ UNCHANGED <<worker, closed, rows>>
  BY DEF Pending!Approve
<1>3. x \in Pending!Task /\ x.plan \in Tasks /\ x.action \in ActionTypes
  BY <1>1 DEF Pending!AuditLog, Pending!Task, Pending!Phases, ActionTypes, Pending!ActionTypes
<1>4. x.kind = "approval" /\ x.approved /\ x.phase = "gate"
  OBVIOUS
<1> HIDE DEF x
<1>5. ThreadOK(t, x) /\ ~Runs(x) /\ ~Looked(x)
  BY <1>3, <1>4 DEF ThreadOK, Runs, Looked
<1>6. QED
  BY <1>2, <1>5, ThreadMoves

\* A verdict takes rows off the list of those that wait, and puts none there.
LEMMA VerdictKeeps ==
  ASSUME PendingInv, NEW p \in Tasks, Pending!Verdict(p)
  PROVE  PendingInv'
<1>1. PICK verdict \in {"verified", "not verified"} :
        rows' = {IF r.plan = p THEN [r EXCEPT !.message = verdict] ELSE r : r \in rows}
  BY DEF Pending!Verdict
<1>2. UNCHANGED <<worker, closed, task>>
  BY DEF Pending!Verdict
<1>3. \A q \in rows' : q \in Pending!AuditLog /\ (Waits(q) => q \in rows)
  <2>1. SUFFICES ASSUME NEW r \in rows,
                        NEW q, q = IF r.plan = p THEN [r EXCEPT !.message = verdict] ELSE r
        PROVE q \in Pending!AuditLog /\ (Waits(q) => q \in rows)
    BY <1>1
  <2>2. r \in Pending!AuditLog
    BY DEF PendingInv
  <2>3. CASE r.plan = p
    <3>1. q \in Pending!AuditLog /\ q.message = verdict
      BY <2>1, <2>2, <2>3 DEF Pending!AuditLog, Pending!Messages
    <3>2. QED
      BY <3>1 DEF Waits, Waiting
  <2>4. QED
    BY <2>1, <2>2, <2>3
<1>4. (Pending!OnePendingPlan)'
  <2>1. SUFFICES ASSUME NEW a \in rows', NEW b \in rows', Waits(a), Waits(b),
                        a.alert = b.alert, a.action = b.action
        PROVE a.plan = b.plan
    BY DEF Pending!OnePendingPlan, Waits, Waiting
  <2>2. a \in rows /\ b \in rows
    BY <1>3, <2>1
  <2>3. QED
    BY <2>1, <2>2 DEF PendingInv, Pending!OnePendingPlan, Waits, Waiting
<1>5. (\A q \in rows : q \in Pending!AuditLog /\ (Waits(q) => ~q.approved))'
  BY <1>3 DEF PendingInv, Waits
<1>6. (\A u \in Tasks : ThreadOK(u, task[u]))'
  BY <1>2 DEF PendingInv, ThreadOK
<1>7. (\A u, v \in Tasks : Runs(task[u]) /\ Runs(task[v]) => u = v)'
  BY <1>2 DEF PendingInv, Runs
<1>8. (\A u \in Tasks : Looked(task[u]) => NoneWaits(task[u].alert, task[u].action))'
  <2>1. \A u \in Tasks : Looked(task[u]) =>
          \A q \in rows' : q.alert = task[u].alert /\ q.action = task[u].action => ~Waits(q)
    BY <1>3 DEF PendingInv, NoneWaits
  <2>2. QED
    BY <1>2, <2>1 DEF Looked, NoneWaits, Waits
<1>9. QED
  BY <1>2, <1>4, <1>5, <1>6, <1>7, <1>8 DEF PendingInv

\* What leaves threads and table alone.
LEMMA PendingStutters ==
  ASSUME PendingInv, UNCHANGED <<closed, task, rows>>, worker' \in {worker, "joined"}
  PROVE  PendingInv'
<1>1. worker' # "on" /\ ~closed'
  BY DEF PendingInv
<1>2. QED
  BY <1>1 DEF PendingInv, ThreadOK, Runs, Looked, NoneWaits, Waits, Pending!OnePendingPlan

LEMMA PendingStep ==
  ASSUME PendingInv, Pending!Next
  PROVE  PendingInv'
<1>1. CASE Pending!ToggleAutoMode \/ Pending!StopReturns
           \/ \E a \in PendingAlerts : Pending!UserDiagnosis(a)
  <2>1. UNCHANGED <<closed, task, rows>> /\ worker' \in {worker, "joined"}
    BY <1>1 DEF Pending!ToggleAutoMode, Pending!StopReturns, Pending!UserDiagnosis
  <2>2. QED
    BY <2>1, PendingStutters
<1>2. ASSUME NEW t \in Tasks, Pending!Step(t) PROVE PendingInv'
  <2>1. ThreadOK(t, task[t]) /\ worker # "on"
    BY DEF PendingInv
  <2>2. Pending!Lookup(t) \/ Pending!Confidence(t) \/ Pending!Propose(t)
        \/ Pending!Gate(t) \/ Pending!Apply(t)
    BY <1>2, <2>1
    DEF ThreadOK, Pending!Step, Pending!Enqueue, Pending!Take, Pending!Diagnose,
        Pending!Keep, Pending!Bridge
  <2>3. QED
    BY <2>2, LookupKeeps, ConfidenceKeeps, GateKeeps
<1>3. ~Pending!Stop /\ ~Pending!WorkerEnds
  BY DEF PendingInv, Pending!Stop, Pending!WorkerEnds
<1>4. \A t \in Tasks, a \in PendingAlerts :
        ~Pending!Offer(t, a) /\ ~Pending!DiagnoseAndExecute(t, a)
  BY DEF Pending!Offer, Pending!DiagnoseAndExecute
<1>5. QED
  BY <1>1, <1>2, <1>3, <1>4, CallKeeps, ApproveKeeps, VerdictKeeps DEF Pending!Next

\* Tools that are called one at a time leave one pending plan per alert and action,
\* though plans reach the list by two ways and verdicts and approvals change it
\* (findPendingPlan in exec_tools.go).
THEOREM OnePlanAlwaysPending == RemediesSpec => []OnePlanPending
<1> DEFINE Inv == part = "pending" => PendingInv
<1>1. RemediesInit => Inv
  BY PendingStart
<1>2. Inv /\ [RemediesNext]_allVars => Inv'
  <2>1. SUFFICES ASSUME Inv, [RemediesNext]_allVars, part' = "pending" PROVE PendingInv'
    OBVIOUS
  <2>2. part' = part
    BY <2>1 DEF RemediesNext, allVars
  <2>3. PendingInv /\ (Pending!Next \/ UNCHANGED vars)
    BY <2>1, <2>2, PendingSteps
  <2>4. CASE UNCHANGED vars
    BY <2>3, <2>4, PendingStutters DEF vars
  <2>5. QED
    BY <2>3, <2>4, PendingStep
<1>3. Inv => OnePlanPending
  BY DEF PendingInv, OnePlanPending
<1> HIDE DEF Inv
<1>4. QED
  BY <1>1, <1>2, <1>3, PTL DEF RemediesSpec, allVars

-----------------------------------------------------------------------------
(* Restarts of Pods.                                                         *)

Gap == IF CoolDown < CleanAge THEN CoolDown ELSE CleanAge
PodStages == {"idle", "check", "delete", "cool", "evict", "store", "verify", "done", "failed"}
PodCall ==
  [stage: PodStages, action: {"", "restart_pod", "delete_pod"}, name: 0..MaxPods,
   uid: 0..MaxPods, owned: BOOLEAN, after: SUBSET PodCalls, looked: 0..MaxTime,
   stored: 0..MaxTime, swept: BOOLEAN, verdict: {"", "verified", "failed"},
   others: SUBSET Pods!Uids]

Settled(x) == x.stage \in {"verify", "done"}
\* A restart whose cool-down was stored while the cleaner did not hold its name.
Counts(x) == Settled(x) /\ x.action = "restart_pod" /\ ~x.swept
OldEnough(x) == minute - x.stored > CleanAge
\* It is on record, itself or by a later one, or older than the cleaner allows.
OnRecord(x) ==
  \/ cool[x.name] # Pods!Never /\ cool[x.name] >= x.stored
  \/ OldEnough(x)
CallSound(x) ==
  /\ x.stage # "idle" => x.name \in Pods!Uids
  /\ x.stage \in {"cool", "check", "evict", "store"} => x.action = "restart_pod"
  /\ x.stage = "delete" => x.action = "delete_pod"
  /\ x.stored <= minute
  /\ x.verdict = "verified" /\ x.uid # Pods!NoUid => x.uid \notin x.others
\* The call found y settled, and came late enough after it.
CameAfter(x, y) == Settled(y) /\ (y.swept \/ x.looked - y.stored >= Gap)

PodInv ==
  /\ minute \in 0..MaxTime
  /\ cool \in [Pods!Uids -> 0..Pods!Never]
  /\ \A n \in Pods!Uids : cool[n] # Pods!Never => cool[n] <= minute
  /\ sweep \in 0..MaxPods
  /\ call \in [PodCalls -> PodCall]
  /\ \A c \in PodCalls : CallSound(call[c])
  /\ \A c \in PodCalls : Counts(call[c]) => OnRecord(call[c])
  /\ \A c \in PodCalls : Counts(call[c]) /\ sweep = call[c].name => OldEnough(call[c])
  /\ \A c \in PodCalls : \A d \in call[c].after : CameAfter(call[c], call[d])

\* In its part only PodRestart takes steps.
LEMMA PodSteps ==
  ASSUME part = "pods", [RemediesNext]_allVars
  PROVE  part' = part /\ (Pods!Next \/ UNCHANGED podVars)
BY DEF RemediesNext, allVars

\* A call that has not begun.
LEMMA FreshCall ==
  /\ Pods!Fresh \in PodCall /\ Pods!Fresh.stored = 0 /\ Pods!Fresh.verdict = ""
  /\ Pods!Fresh.after = {} /\ Pods!Fresh.stage = "idle"
<1>1. MaxTime \in Nat /\ MaxPods \in Nat
  BY RemediesAssumption
<1>2. QED
  BY <1>1 DEF Pods!Fresh, PodCall, PodStages, Pods!NoUid

LEMMA PodStart ==
  ASSUME RemediesInit, part = "pods"
  PROVE  PodInv
<1>1. Pods!Init
  BY DEF RemediesInit
<1>2. /\ minute = 0 /\ cool = [n \in Pods!Uids |-> Pods!Never] /\ sweep = 0
      /\ call = [c \in PodCalls |-> Pods!Fresh]
  BY <1>1 DEF Pods!Init
<1>3. MaxTime \in Nat /\ MaxPods \in Nat
  BY RemediesAssumption
<1>4. Pods!Fresh \in PodCall /\ Pods!Fresh.after = {}
  BY FreshCall
<1>5. CallSound(Pods!Fresh) /\ ~Counts(Pods!Fresh)
  <2>1. 0 <= minute
    BY <1>2
  <2>2. QED
    BY <2>1, FreshCall DEF CallSound, Counts, Settled
<1>6. 0 \in 0..MaxTime /\ 0 \in 0..MaxPods /\ Pods!Never \in 0..Pods!Never
  BY <1>3 DEF Pods!Never
<1>7. \A c \in PodCalls : call[c] = Pods!Fresh
  BY <1>2
<1>8. cool \in [Pods!Uids -> 0..Pods!Never] /\ call \in [PodCalls -> PodCall]
      /\ \A n \in Pods!Uids : cool[n] = Pods!Never
  BY <1>2, <1>4, <1>6
<1> HIDE DEF Pods!Fresh, Pods!Never
<1>9. QED
  BY <1>2, <1>4, <1>5, <1>6, <1>7, <1>8 DEF PodInv

\* One call moves, time and cool-downs stay.
LEMMA PodCallMoves ==
  ASSUME PodInv, NEW c \in PodCalls, NEW x \in PodCall, call' = [call EXCEPT ![c] = x],
         UNCHANGED <<minute, cool, sweep>>, CallSound(x),
         Settled(call[c]) => /\ Settled(x) /\ x.stored = call[c].stored
                             /\ x.swept = call[c].swept /\ x.name = call[c].name
                             /\ x.action = call[c].action,
         Counts(x) => Settled(call[c]),
         \/ x.after = {}
         \/ x.after = call[c].after /\ x.looked = call[c].looked
         \/ \A d \in x.after : CameAfter(x, call[d])
  PROVE  PodInv'
<1>1. /\ call' \in [PodCalls -> PodCall] /\ call'[c] = x
      /\ \A d \in PodCalls : d # c => call'[d] = call[d]
  BY DEF PodInv
<1>2. x.after \subseteq PodCalls /\ \A d \in PodCalls : call[d].after \subseteq PodCalls
  BY DEF PodInv, PodCall
<1>3. \A d \in PodCalls : CallSound(call'[d])
  BY <1>1 DEF PodInv
<1>4. \A d \in PodCalls : Counts(call'[d]) =>
        Counts(call[d]) /\ call'[d].stored = call[d].stored /\ call'[d].name = call[d].name
  BY <1>1 DEF Counts
<1>5. \A d \in PodCalls : Counts(call'[d]) =>
        OnRecord(call'[d]) /\ (sweep = call'[d].name => OldEnough(call'[d]))
  BY <1>4 DEF PodInv, OnRecord, OldEnough
<1>6. \A d \in PodCalls, y \in PodCall : CameAfter(y, call[d]) => CameAfter(y, call'[d])
  BY <1>1 DEF CameAfter
<1>7. \A d \in x.after : CameAfter(x, call[d])
  <2>1. \A d \in call[c].after : CameAfter(call[c], call[d])
    BY DEF PodInv
  <2>2. QED
    BY <2>1 DEF CameAfter
<1>8. \A d \in PodCalls : \A e \in call'[d].after : CameAfter(call'[d], call'[e])
  <2>1. \A d \in PodCalls : \A e \in call'[d].after : e \in PodCalls /\ CameAfter(call'[d], call[e])
    BY <1>1, <1>2, <1>7 DEF PodInv
  <2>2. QED
    BY <1>1, <1>6, <2>1
<1>9. (\A d \in PodCalls : CallSound(call[d]))'
  BY <1>3 DEF CallSound
<1>10. /\ (\A d \in PodCalls : Counts(call[d]) => OnRecord(call[d]))'
       /\ (\A d \in PodCalls : Counts(call[d]) /\ sweep = call[d].name => OldEnough(call[d]))'
  BY <1>5 DEF Counts, Settled, OnRecord, OldEnough
<1>11. (\A d \in PodCalls : \A e \in call[d].after : CameAfter(call[d], call[e]))'
  BY <1>8 DEF CameAfter, Settled
<1>12. QED
  BY <1>1, <1>9, <1>10, <1>11 DEF PodInv

LEMMA SnapshotKeeps ==
  ASSUME PodInv, NEW c \in PodCalls, NEW action \in {"restart_pod", "delete_pod"},
         NEW n \in Pods!Uids, Pods!Snapshot(c, action, n)
  PROVE  PodInv'
<1>1. call[c].stage = "idle" /\ UNCHANGED <<minute, cool, sweep>>
  BY DEF Pods!Snapshot, Pods!At
<1>2. minute \in Nat /\ MaxTime \in Nat /\ MaxPods \in Nat
  BY RemediesAssumption DEF PodInv
<1>3. \E x \in PodCall :
        /\ call' = [call EXCEPT ![c] = x] /\ x.name = n /\ x.stage \in {"check", "delete"}
        /\ x.action = action
        /\ (x.stage = "check" <=> action = "restart_pod")
        /\ x.stored = 0 /\ x.verdict = "" /\ x.after = {}
  <2> DEFINE stage == IF action = "restart_pod" THEN "check" ELSE "delete"
  <2>1. ASSUME NEW u \in Pods!Uids, NEW x,
               x = [Pods!Fresh EXCEPT !.action = action, !.name = n, !.uid = u, !.owned = TRUE,
                                      !.stage = stage]
               \/ x = [Pods!Fresh EXCEPT !.action = action, !.name = n, !.stage = stage]
        PROVE /\ x \in PodCall /\ x.name = n /\ x.stage = stage /\ x.action = action
              /\ x.stored = 0 /\ x.verdict = "" /\ x.after = {}
    <3>1. stage \in PodStages /\ n \in 0..MaxPods /\ u \in 0..MaxPods
      BY <1>2, <2>1 DEF PodStages, Pods!Uids
    <3> HIDE DEF stage
    <3>2. QED
      BY <2>1, <3>1, FreshCall DEF PodCall
  <2>2. stage \in {"check", "delete"} /\ (stage = "check" <=> action = "restart_pod")
    OBVIOUS
  <2>3. CASE \E u \in Pods!Named(n) : call' = [call EXCEPT ![c] =
               [Pods!Fresh EXCEPT !.action = action, !.name = n, !.uid = u, !.owned = TRUE,
                                  !.stage = stage]]
    <3>1. PICK u \in Pods!Named(n) : call' = [call EXCEPT ![c] =
               [Pods!Fresh EXCEPT !.action = action, !.name = n, !.uid = u, !.owned = TRUE,
                                  !.stage = stage]]
      BY <2>3
    <3>2. u \in Pods!Uids
      BY DEF Pods!Named
    <3> HIDE DEF stage
    <3>3. QED
      BY <2>1, <2>2, <3>1, <3>2
  <2>4. CASE call' = [call EXCEPT ![c] =
               [Pods!Fresh EXCEPT !.action = action, !.name = n, !.stage = stage]]
    <3> HIDE DEF stage
    <3>1. QED
      BY <2>1, <2>2, <2>4
  <2>5. QED
    BY <2>3, <2>4 DEF Pods!Snapshot
<1>4. PICK x \in PodCall :
        /\ call' = [call EXCEPT ![c] = x] /\ x.name = n /\ x.stage \in {"check", "delete"}
        /\ x.action = action
        /\ (x.stage = "check" <=> action = "restart_pod")
        /\ x.stored = 0 /\ x.verdict = "" /\ x.after = {}
  BY <1>3
<1>5. ~Settled(x) /\ ~Counts(x) /\ ~Settled(call[c])
  BY <1>1, <1>4 DEF Settled, Counts
<1>6. CallSound(x)
  <2>1. x.stored <= minute
    <3>1. 0 <= minute
      BY <1>2
    <3>2. QED
      BY <1>4, <3>1
  <2>2. QED
    BY <1>4, <2>1 DEF CallSound
<1>7. QED
  BY <1>1, <1>4, <1>5, <1>6, PodCallMoves

\* A call that goes to another stage and changes nothing else about itself.
LEMMA PodCallGoes ==
  ASSUME PodInv, NEW c \in PodCalls, NEW stage \in PodStages \ {"idle"},
         call' = [call EXCEPT ![c].stage = stage], UNCHANGED <<minute, cool, sweep>>,
         call[c].stage # "idle", stage # "delete",
         Settled(call[c]) => stage \in {"verify", "done"},
         stage \in {"verify", "done"} =>
           Settled(call[c]) \/ call[c].action # "restart_pod",
         stage \in {"cool", "check", "evict", "store"} => call[c].action = "restart_pod"
  PROVE  PodInv'
<1> DEFINE x == [call[c] EXCEPT !.stage = stage]
<1>1. call[c] \in PodCall /\ CallSound(call[c])
  BY DEF PodInv
<1>2. /\ x \in PodCall /\ x.stage = stage /\ x.action = call[c].action /\ x.name = call[c].name
      /\ x.uid = call[c].uid /\ x.after = call[c].after /\ x.looked = call[c].looked
      /\ x.stored = call[c].stored /\ x.swept = call[c].swept /\ x.verdict = call[c].verdict
      /\ x.others = call[c].others
  BY <1>1 DEF PodCall
<1>3. call' = [call EXCEPT ![c] = x]
  BY DEF PodInv
<1> HIDE DEF x
<1>4. CallSound(x)
  BY <1>1, <1>2 DEF CallSound
<1>5. QED
  BY <1>2, <1>3, <1>4, PodCallMoves DEF Settled, Counts

LEMMA CheckKeeps ==
  ASSUME PodInv, NEW c \in PodCalls, Pods!Check(c)
  PROVE  PodInv'
<1>1. call[c].stage = "check" /\ UNCHANGED <<minute, cool, sweep>>
  BY DEF Pods!Check, Pods!At
<1>2. call[c].action = "restart_pod" /\ ~Settled(call[c])
  BY <1>1 DEF PodInv, CallSound, Settled
<1>3. call' = [call EXCEPT ![c].stage = "cool"] \/ call' = [call EXCEPT ![c].stage = "failed"]
  BY DEF Pods!Check, Pods!Fail
<1>4. {"cool", "failed"} \subseteq PodStages \ {"idle"}
  BY DEF PodStages
<1>5. CASE call' = [call EXCEPT ![c].stage = "cool"]
  BY <1>1, <1>2, <1>4, <1>5, PodCallGoes
<1>6. CASE call' = [call EXCEPT ![c].stage = "failed"]
  BY <1>1, <1>2, <1>4, <1>6, PodCallGoes
<1>7. QED
  BY <1>3, <1>5, <1>6

\* A restart that passes the cool-down came late enough after all that are on record,
\* and after all that the cleaner dropped.
LEMMA LateEnough ==
  ASSUME PodInv, NEW c \in PodCalls, ~Pods!Cooling(call[c].name), NEW d \in PodCalls,
         Settled(call[d]), call[d].action = "restart_pod", call[d].name = call[c].name,
         ~call[d].swept
  PROVE  minute - call[d].stored >= Gap
<1>1. /\ minute \in Nat /\ CoolDown \in Nat /\ CleanAge \in Nat
      /\ call[d].stored \in Nat /\ CallSound(call[d]) /\ OnRecord(call[d])
  <2>1. call[d] \in PodCall /\ CallSound(call[d]) /\ OnRecord(call[d]) /\ minute \in 0..MaxTime
    BY DEF PodInv, Counts
  <2>2. call[d].stored \in 0..MaxTime
    BY <2>1 DEF PodCall
  <2>3. MaxTime \in Nat /\ CoolDown \in Nat /\ CleanAge \in Nat
    BY RemediesAssumption
  <2>4. QED
    BY <2>1, <2>2, <2>3
<1>2. CASE OldEnough(call[d])
  BY <1>1, <1>2 DEF OldEnough, Gap
<1>3. CASE cool[call[d].name] # Pods!Never /\ cool[call[d].name] >= call[d].stored
  <2>1. call[d].name \in Pods!Uids
    BY <1>1 DEF CallSound, Settled
  <2>2. cool[call[d].name] \in Nat
    BY <2>1 DEF PodInv
  <2>3. minute - cool[call[d].name] >= CoolDown
    BY <1>1, <1>3, <2>2 DEF Pods!Cooling
  <2>4. QED
    BY <1>1, <1>3, <2>2, <2>3 DEF Gap
<1>4. QED
  BY <1>1, <1>2, <1>3 DEF OnRecord

LEMMA LookUpKeeps ==
  ASSUME PodInv, NEW c \in PodCalls, Pods!LookUp(c)
  PROVE  PodInv'
<1>1. call[c].stage = "cool" /\ UNCHANGED <<minute, cool, sweep>>
  BY DEF Pods!LookUp, Pods!At
<1>2. call[c] \in PodCall /\ CallSound(call[c]) /\ ~Settled(call[c])
      /\ call[c].action = "restart_pod"
  BY <1>1 DEF PodInv, CallSound, Settled
<1>3. CASE Pods!Cooling(call[c].name)
  <2>1. call' = [call EXCEPT ![c].stage = "failed"] /\ "failed" \in PodStages \ {"idle"}
    BY <1>3 DEF Pods!LookUp, PodStages
  <2>2. QED
    BY <1>1, <1>2, <2>1, PodCallGoes
<1>4. CASE ~Pods!Cooling(call[c].name)
  <2> DEFINE earlier == {d \in PodCalls : call[d].stage \in {"verify", "done"}
                            /\ call[d].action = "restart_pod" /\ call[d].name = call[c].name}
             x == [call[c] EXCEPT !.stage = "evict", !.looked = minute, !.after = earlier]
  <2>1. call' = [call EXCEPT ![c] = x]
    BY <1>4 DEF Pods!LookUp, PodInv
  <2>2. earlier \subseteq PodCalls
    OBVIOUS
  <2>3. \A d \in earlier : Settled(call[d]) /\ (call[d].swept \/ minute - call[d].stored >= Gap)
    BY <1>4, LateEnough DEF Settled
  <2> HIDE DEF earlier
  <2>4. minute \in 0..MaxTime
    BY DEF PodInv
  <2>5. /\ x \in PodCall /\ x.stage = "evict" /\ x.action = call[c].action
        /\ x.name = call[c].name /\ x.uid = call[c].uid /\ x.stored = call[c].stored
        /\ x.verdict = call[c].verdict /\ x.others = call[c].others
        /\ x.looked = minute /\ x.after = earlier
    BY <1>2, <2>2, <2>4 DEF PodCall, PodStages
  <2> HIDE DEF x
  <2>6. CallSound(x) /\ ~Counts(x)
    BY <1>1, <1>2, <2>5 DEF CallSound, Counts, Settled
  <2>7. \A d \in x.after : CameAfter(x, call[d])
    BY <2>3, <2>5 DEF CameAfter
  <2>8. QED
    BY <1>1, <1>2, <2>1, <2>5, <2>6, <2>7, PodCallMoves
<1>5. QED
  BY <1>3, <1>4

LEMMA EvictKeeps ==
  ASSUME PodInv, NEW c \in PodCalls, Pods!Evict(c) \/ Pods!EvictFails(c)
  PROVE  PodInv'
<1>1. call[c].stage \in {"evict", "delete"} /\ UNCHANGED <<minute, cool, sweep>>
  BY DEF Pods!Evict, Pods!EvictFails
<1>2. call[c] \in PodCall /\ CallSound(call[c]) /\ ~Settled(call[c])
  BY <1>1 DEF PodInv, Settled
<1>3. {"store", "verify", "failed"} \subseteq PodStages \ {"idle"}
  BY DEF PodStages
<1>4. CASE Pods!EvictFails(c)
  <2>1. call' = [call EXCEPT ![c].stage = "failed"]
    BY <1>4 DEF Pods!EvictFails, Pods!Fail
  <2>2. QED
    BY <1>1, <1>2, <1>3, <2>1, PodCallGoes
<1>5. CASE Pods!Evict(c) /\ call[c].stage = "evict"
  <2>1. call' = [call EXCEPT ![c].stage = "store"]
    BY <1>5 DEF Pods!Evict, PodInv
  <2>2. call[c].action = "restart_pod"
    BY <1>2, <1>5 DEF CallSound
  <2>3. QED
    BY <1>1, <1>2, <1>3, <2>1, <2>2, PodCallGoes
<1>6. CASE Pods!Evict(c) /\ call[c].stage = "delete"
  <2>1. call' = [call EXCEPT ![c].stage = "verify"]
    BY <1>6 DEF Pods!Evict, PodInv
  <2>2. call[c].action = "delete_pod"
    BY <1>2, <1>6 DEF CallSound
  <2>3. QED
    BY <1>1, <1>2, <1>3, <2>1, <2>2, PodCallGoes
<1>7. QED
  BY <1>1, <1>4, <1>5, <1>6

\* The cool-down of a name is stored, after which the call counts unless the cleaner
\* is about to delete it.
LEMMA StoreCoolKeeps ==
  ASSUME PodInv, NEW c \in PodCalls, Pods!StoreCool(c)
  PROVE  PodInv'
<1> DEFINE n == call[c].name
           x == [call[c] EXCEPT !.stage = "verify", !.stored = minute, !.swept = (sweep = n)]
<1>1. call[c].stage = "store" /\ UNCHANGED <<minute, sweep>>
  BY DEF Pods!StoreCool, Pods!At
<1>2. call[c] \in PodCall /\ CallSound(call[c]) /\ ~Settled(call[c]) /\ n \in Pods!Uids
  BY <1>1 DEF PodInv, CallSound, Settled
<1>3. minute \in 0..MaxTime /\ MaxTime \in Nat /\ minute \in Nat
  BY RemediesAssumption DEF PodInv
<1>4. cool' = [cool EXCEPT ![n] = minute] /\ call' = [call EXCEPT ![c] = x]
  BY DEF Pods!StoreCool, PodInv
<1>5. (sweep = n) \in BOOLEAN
  OBVIOUS
<1>6. /\ x \in PodCall /\ x.stage = "verify" /\ x.action = call[c].action /\ x.name = n
      /\ x.uid = call[c].uid /\ x.after = call[c].after /\ x.looked = call[c].looked
      /\ x.stored = minute /\ x.verdict = call[c].verdict /\ x.others = call[c].others
      /\ (x.swept <=> sweep = n)
  BY <1>2, <1>3 DEF PodCall, PodStages
<1> HIDE DEF x
<1>7. minute # Pods!Never /\ minute \in 0..Pods!Never /\ minute <= minute
  BY <1>3 DEF Pods!Never
<1>8. /\ cool' \in [Pods!Uids -> 0..Pods!Never] /\ cool'[n] = minute
      /\ \A m \in Pods!Uids : m # n => cool'[m] = cool[m]
  BY <1>2, <1>4, <1>7 DEF PodInv
<1>9. /\ call' \in [PodCalls -> PodCall] /\ call'[c] = x
      /\ \A d \in PodCalls : d # c => call'[d] = call[d]
  BY <1>4, <1>6 DEF PodInv
<1>10. CallSound(x)
  BY <1>2, <1>6, <1>7, <1>1 DEF CallSound
<1>11. (\A d \in PodCalls : CallSound(call[d]))'
  <2>1. \A d \in PodCalls : CallSound(call'[d])
    BY <1>9, <1>10 DEF PodInv
  <2>2. QED
    BY <1>1, <2>1 DEF CallSound
<1>12. ASSUME NEW d \in PodCalls, Counts(call'[d])
       PROVE  /\ \/ /\ cool'[call'[d].name] # Pods!Never
                    /\ cool'[call'[d].name] >= call'[d].stored
                 \/ OldEnough(call'[d])
              /\ sweep = call'[d].name => OldEnough(call'[d])
  <2>1. CASE d = c
    BY <1>3, <1>6, <1>7, <1>8, <1>9, <1>12, <2>1 DEF Counts
  <2>2. CASE d # c
    <3>1. call'[d] = call[d] /\ Counts(call[d]) /\ call[d].name \in Pods!Uids
          /\ call[d].stored <= minute
      BY <1>9, <1>12, <2>2 DEF PodInv, CallSound, Counts, Settled
    <3>2. OnRecord(call[d]) /\ (sweep = call[d].name => OldEnough(call[d]))
      BY <3>1 DEF PodInv
    <3>3. CASE call[d].name = n
      <4>1. call[d].stored \in 0..MaxTime
        BY DEF PodInv, PodCall
      <4>2. minute >= call[d].stored
        BY <1>3, <3>1, <4>1
      <4>3. QED
        BY <1>7, <1>8, <3>1, <3>2, <3>3, <4>2
    <3>4. CASE call[d].name # n
      BY <1>8, <3>1, <3>2, <3>4 DEF OnRecord
    <3>5. QED
      BY <3>3, <3>4
  <2>3. QED
    BY <2>1, <2>2
<1>13. /\ (\A d \in PodCalls : Counts(call[d]) => OnRecord(call[d]))'
       /\ (\A d \in PodCalls : Counts(call[d]) /\ sweep = call[d].name => OldEnough(call[d]))'
  BY <1>1, <1>12 DEF Counts, Settled, OnRecord, OldEnough
<1>14. \A d \in PodCalls : \A e \in call'[d].after : CameAfter(call'[d], call'[e])
  <2>1. \A d \in PodCalls : call'[d].after = call[d].after /\ call'[d].looked = call[d].looked
    BY <1>6, <1>9
  <2>2. \A d \in PodCalls : \A e \in call[d].after :
          e \in PodCalls /\ CameAfter(call[d], call[e])
    BY DEF PodInv, PodCall
  <2>3. \A d \in PodCalls : \A e \in call[d].after : call'[e] = call[e]
    BY <1>2, <1>9, <2>2 DEF CameAfter
  <2>4. QED
    BY <2>1, <2>2, <2>3 DEF CameAfter
<1>15. (\A d \in PodCalls : \A e \in call[d].after : CameAfter(call[d], call[e]))'
  BY <1>14 DEF CameAfter, Settled
<1>16. \A m \in Pods!Uids : cool'[m] # Pods!Never => cool'[m] <= minute
  BY <1>7, <1>8 DEF PodInv
<1>17. QED
  BY <1>1, <1>8, <1>9, <1>11, <1>13, <1>15, <1>16 DEF PodInv

\* The cleaner: what it reads is too old, and so is everything that counts for it.
LEMMA SweepKeeps ==
  ASSUME PodInv, NEW n \in Pods!Uids, Pods!Sweep(n)
  PROVE  PodInv'
<1>1. /\ cool[n] # Pods!Never /\ minute - cool[n] > CleanAge /\ sweep' = n
      /\ UNCHANGED <<minute, cool, call>>
  BY DEF Pods!Sweep, Pods!TooOld
<1>2. \A d \in PodCalls : Counts(call[d]) /\ call[d].name = n => OldEnough(call[d])
  <2>1. SUFFICES ASSUME NEW d \in PodCalls, Counts(call[d]), call[d].name = n
        PROVE OldEnough(call[d])
    OBVIOUS
  <2>2. call[d].stored \in 0..MaxTime /\ cool[n] \in 0..Pods!Never /\ minute \in 0..MaxTime
    BY DEF PodInv, PodCall
  <2>3. MaxTime \in Nat /\ CleanAge \in Nat
    BY RemediesAssumption
  <2>4. OnRecord(call[d])
    BY <2>1 DEF PodInv
  <2>5. QED
    BY <1>1, <2>1, <2>2, <2>3, <2>4 DEF OnRecord, OldEnough, Pods!Never
<1>3. n \in 0..MaxPods
  BY RemediesAssumption DEF Pods!Uids
<1>4. (\A d \in PodCalls : Counts(call[d]) /\ sweep = call[d].name => OldEnough(call[d]))'
  BY <1>1, <1>2 DEF Counts, Settled, OldEnough
<1>5. QED
  BY <1>1, <1>3, <1>4 DEF PodInv, CallSound, Counts, Settled, OnRecord, OldEnough, CameAfter

LEMMA DropEntryKeeps ==
  ASSUME PodInv, Pods!DropEntry
  PROVE  PodInv'
<1>1. /\ sweep # 0 /\ cool' = [cool EXCEPT ![sweep] = Pods!Never] /\ sweep' = 0
      /\ UNCHANGED <<minute, call>>
  BY DEF Pods!DropEntry
<1>2. sweep \in Pods!Uids
  BY <1>1, RemediesAssumption DEF PodInv, Pods!Uids
<1>3. Pods!Never \in 0..Pods!Never
  BY RemediesAssumption DEF Pods!Never
<1>4. /\ cool' \in [Pods!Uids -> 0..Pods!Never] /\ cool'[sweep] = Pods!Never
      /\ \A m \in Pods!Uids : m # sweep => cool'[m] = cool[m]
  BY <1>1, <1>2, <1>3 DEF PodInv
<1>5. \A d \in PodCalls : Counts(call[d]) =>
        /\ \/ cool'[call[d].name] # Pods!Never /\ cool'[call[d].name] >= call[d].stored
           \/ OldEnough(call[d])
        /\ call[d].name # 0
  <2>1. SUFFICES ASSUME NEW d \in PodCalls, Counts(call[d])
        PROVE /\ \/ cool'[call[d].name] # Pods!Never /\ cool'[call[d].name] >= call[d].stored
                 \/ OldEnough(call[d])
              /\ call[d].name # 0
    OBVIOUS
  <2>2. call[d].name \in Pods!Uids
    BY <2>1 DEF PodInv, CallSound, Counts, Settled
  <2>3. OnRecord(call[d]) /\ (sweep = call[d].name => OldEnough(call[d]))
    BY <2>1 DEF PodInv
  <2>4. call[d].name # 0
    BY <2>2, RemediesAssumption DEF Pods!Uids
  <2>5. QED
    BY <1>4, <2>2, <2>3, <2>4 DEF OnRecord
<1>6. /\ (\A d \in PodCalls : Counts(call[d]) => OnRecord(call[d]))'
      /\ (\A d \in PodCalls : Counts(call[d]) /\ sweep = call[d].name => OldEnough(call[d]))'
  BY <1>1, <1>5 DEF Counts, Settled, OnRecord, OldEnough
<1>7. \A m \in Pods!Uids : cool'[m] # Pods!Never => cool'[m] <= minute
  BY <1>4 DEF PodInv
<1>8. 0 \in 0..MaxPods
  BY RemediesAssumption
<1>9. QED
  BY <1>1, <1>4, <1>6, <1>7, <1>8 DEF PodInv, CallSound, Settled, CameAfter

\* The verification ends: with another Pod, or without one.
LEMMA VerdictOfPodKeeps ==
  ASSUME PodInv, NEW c \in PodCalls, call[c].stage = "verify",
         UNCHANGED <<minute, cool, sweep>>,
         \/ call' = [call EXCEPT ![c].stage = "done", ![c].verdict = "failed"]
         \/ \E u \in Pods!Uids :
              /\ call[c].uid = Pods!NoUid \/ u # call[c].uid
              /\ Pods!Verified(c, {u})
  PROVE  PodInv'
<1>1. call[c] \in PodCall /\ CallSound(call[c])
  BY DEF PodInv
<1>2. \E x \in PodCall :
        /\ call' = [call EXCEPT ![c] = x] /\ x.stage = "done" /\ x.action = call[c].action
        /\ x.name = call[c].name /\ x.uid = call[c].uid /\ x.after = call[c].after
        /\ x.looked = call[c].looked /\ x.stored = call[c].stored
        /\ x.swept = call[c].swept
        /\ x.verdict = "verified" /\ x.uid # Pods!NoUid => x.uid \notin x.others
  <2>1. CASE call' = [call EXCEPT ![c].stage = "done", ![c].verdict = "failed"]
    <3> DEFINE x == [call[c] EXCEPT !.stage = "done", !.verdict = "failed"]
    <3>1. call' = [call EXCEPT ![c] = x]
      BY <2>1 DEF PodInv
    <3>2. /\ x \in PodCall /\ x.stage = "done" /\ x.action = call[c].action
          /\ x.name = call[c].name /\ x.uid = call[c].uid /\ x.after = call[c].after
          /\ x.looked = call[c].looked /\ x.stored = call[c].stored
          /\ x.swept = call[c].swept /\ x.verdict # "verified"
      BY <1>1 DEF PodCall, PodStages
    <3> HIDE DEF x
    <3>3. QED
      BY <3>1, <3>2
  <2>2. CASE \E u \in Pods!Uids :
              /\ call[c].uid = Pods!NoUid \/ u # call[c].uid
              /\ Pods!Verified(c, {u})
    <3>1. PICK u \in Pods!Uids : /\ call[c].uid = Pods!NoUid \/ u # call[c].uid
                                 /\ Pods!Verified(c, {u})
      BY <2>2
    <3> DEFINE x == [call[c] EXCEPT !.stage = "done", !.verdict = "verified", !.others = {u}]
    <3>2. call' = [call EXCEPT ![c] = x]
      BY <3>1 DEF PodInv, Pods!Verified
    <3>3. /\ x \in PodCall /\ x.stage = "done" /\ x.action = call[c].action
          /\ x.name = call[c].name /\ x.uid = call[c].uid /\ x.after = call[c].after
          /\ x.looked = call[c].looked /\ x.stored = call[c].stored
          /\ x.swept = call[c].swept /\ x.others = {u}
      BY <1>1 DEF PodCall, PodStages
    <3> HIDE DEF x
    <3>4. x.uid # Pods!NoUid => x.uid \notin x.others
      BY <3>1, <3>3
    <3>5. QED
      BY <3>2, <3>3, <3>4
  <2>3. QED
    BY <2>1, <2>2
<1>3. PICK x \in PodCall :
        /\ call' = [call EXCEPT ![c] = x] /\ x.stage = "done" /\ x.action = call[c].action
        /\ x.name = call[c].name /\ x.uid = call[c].uid /\ x.after = call[c].after
        /\ x.looked = call[c].looked /\ x.stored = call[c].stored
        /\ x.swept = call[c].swept
        /\ x.verdict = "verified" /\ x.uid # Pods!NoUid => x.uid \notin x.others
  BY <1>2
<1>4. CallSound(x) /\ Settled(x) /\ Settled(call[c])
  BY <1>1, <1>3 DEF CallSound, Settled
<1>5. QED
  BY <1>3, <1>4, PodCallMoves

LEMMA PollKeeps ==
  ASSUME PodInv, NEW c \in PodCalls, Pods!SameName(c) \/ Pods!OtherName(c) \/ Pods!GiveUp(c)
  PROVE  PodInv'
<1>1. call[c].stage = "verify" /\ UNCHANGED <<minute, cool, sweep>>
  BY DEF Pods!SameName, Pods!OtherName, Pods!GiveUp, Pods!At
<1>2. CASE Pods!GiveUp(c)
  BY <1>1, <1>2, VerdictOfPodKeeps DEF Pods!GiveUp
<1>3. CASE Pods!SameName(c)
  <2>1. \E u \in Pods!Uids : /\ call[c].uid = Pods!NoUid \/ u # call[c].uid
                             /\ Pods!Verified(c, {u})
    BY <1>3 DEF Pods!SameName, Pods!NewUid, Pods!Named
  <2>2. QED
    BY <1>1, <2>1, VerdictOfPodKeeps
<1>4. CASE Pods!OtherName(c)
  <2>1. \E u \in Pods!Uids : /\ call[c].uid = Pods!NoUid \/ u # call[c].uid
                             /\ Pods!Verified(c, {u})
    BY <1>4 DEF Pods!OtherName, Pods!Others
  <2>2. QED
    BY <1>1, <2>1, VerdictOfPodKeeps
<1>5. QED
  BY <1>2, <1>3, <1>4

\* What happens to the Pods is of no account; with time all gets older.
LEMMA PodStutters ==
  ASSUME PodInv, UNCHANGED <<minute, cool, sweep, call>>
  PROVE  PodInv'
BY DEF PodInv, CallSound, Counts, Settled, OnRecord, OldEnough, CameAfter

LEMMA TickKeeps ==
  ASSUME PodInv, Pods!Tick
  PROVE  PodInv'
<1>1. minute' = minute + 1 /\ minute < MaxTime /\ UNCHANGED <<cool, sweep, call>>
  BY DEF Pods!Tick
<1>2. MaxTime \in Nat /\ minute \in 0..MaxTime /\ CleanAge \in Nat
  BY RemediesAssumption DEF PodInv
<1>3. minute' \in 0..MaxTime /\ minute <= minute'
  BY <1>1, <1>2
<1>4. \A d \in PodCalls : call[d].stored \in Nat /\ CallSound(call[d])
  <2>1. \A d \in PodCalls : call[d] \in PodCall /\ CallSound(call[d])
    BY DEF PodInv
  <2>2. \A d \in PodCalls : call[d].stored \in 0..MaxTime
    BY <2>1 DEF PodCall
  <2>3. QED
    BY <1>2, <2>1, <2>2
<1>5. \A d \in PodCalls : (OldEnough(call[d]) => OldEnough(call[d])') /\ call[d].stored <= minute'
  BY <1>1, <1>2, <1>4 DEF OldEnough, CallSound
<1>6. \A n \in Pods!Uids : cool[n] # Pods!Never => cool[n] <= minute'
  <2>1. \A n \in Pods!Uids : cool[n] \in Nat /\ (cool[n] # Pods!Never => cool[n] <= minute)
    BY <1>2 DEF PodInv, Pods!Never
  <2>2. QED
    BY <1>1, <1>2, <2>1
<1>7. (\A d \in PodCalls : CallSound(call[d]))'
  BY <1>1, <1>4, <1>5 DEF CallSound
<1>8. /\ (\A d \in PodCalls : Counts(call[d]) => OnRecord(call[d]))'
      /\ (\A d \in PodCalls : Counts(call[d]) /\ sweep = call[d].name => OldEnough(call[d]))'
  <2>1. \A d \in PodCalls : Counts(call[d]) =>
          /\ \/ cool[call[d].name] # Pods!Never /\ cool[call[d].name] >= call[d].stored
             \/ OldEnough(call[d])'
          /\ sweep = call[d].name => OldEnough(call[d])'
    BY <1>5 DEF PodInv, OnRecord
  <2>2. QED
    BY <1>1, <2>1 DEF Counts, Settled, OnRecord, OldEnough
<1>9. QED
  BY <1>1, <1>3, <1>6, <1>7, <1>8 DEF PodInv, Settled, CameAfter

LEMMA PodStep ==
  ASSUME PodInv, Pods!Next
  PROVE  PodInv'
<1>1. ASSUME NEW u \in Pods!Uids, Pods!Vanish(u) \/ Pods!Replace(u) \/ Pods!Readiness(u)
      PROVE PodInv'
  <2>1. UNCHANGED <<minute, cool, sweep, call>>
    BY <1>1 DEF Pods!Vanish, Pods!Replace, Pods!Readiness
  <2>2. QED
    BY <2>1, PodStutters
<1>2. QED
  BY <1>1, SnapshotKeeps, CheckKeeps, LookUpKeeps, EvictKeeps, StoreCoolKeeps, SweepKeeps,
     DropEntryKeeps, PollKeeps, TickKeeps
  DEF Pods!Next

\* Two restarts of a Pod's name are a cool-down apart, unless they looked for it at
\* one time or the cleaner was at it (executor.go), and a restart is verified
\* only by another Pod than the one it removed (verify.go).
THEOREM RestartsAlwaysSafe == RemediesSpec => []RestartsSafe
<1> DEFINE Inv == part = "pods" => PodInv
<1>1. RemediesInit => Inv
  BY PodStart
<1>2. Inv /\ [RemediesNext]_allVars => Inv'
  <2>1. SUFFICES ASSUME Inv, [RemediesNext]_allVars, part' = "pods" PROVE PodInv'
    OBVIOUS
  <2>2. part' = part
    BY <2>1 DEF RemediesNext, allVars
  <2>3. PodInv /\ (Pods!Next \/ UNCHANGED podVars)
    BY <2>1, <2>2, PodSteps
  <2>4. CASE UNCHANGED podVars
    BY <2>3, <2>4, PodStutters DEF podVars
  <2>5. QED
    BY <2>3, <2>4, PodStep
<1>3. Inv => RestartsSafe
  <2>1. SUFFICES ASSUME PodInv PROVE Pods!RestartsSpaced /\ Pods!VerifiedByAnother
    BY DEF RestartsSafe
  <2>2. Pods!RestartsSpaced
    BY <2>1 DEF PodInv, CameAfter, Gap, Pods!RestartsSpaced
  <2>3. Pods!VerifiedByAnother
    BY <2>1 DEF PodInv, CallSound, Pods!VerifiedByAnother
  <2>4. QED
    BY <2>2, <2>3
<1> HIDE DEF Inv
<1>4. QED
  BY <1>1, <1>2, <1>3, PTL DEF RemediesSpec, allVars

-----------------------------------------------------------------------------
(* Undone rollouts.                                                          *)

\* The naturals are well-founded, so a bounded set of them has a greatest element.
LEMMA BoundedHasMax ==
  ASSUME NEW S, S \subseteq Nat, S # {}, NEW b \in Nat, \A y \in S : y <= b
  PROVE  \E x \in S : \A y \in S : x >= y
<1> DEFINE R == {ss \in Nat \X Nat : ss[1] < ss[2]}
           Bounds == {n \in Nat : \A y \in S : y <= n}
<1>1. IsWellFoundedOn(R, Nat)
  BY NatLessThanWellFounded DEF OpToRel
<1>2. Bounds \subseteq Nat /\ Bounds # {}
  OBVIOUS
<1>3. PICK x \in Bounds : \A y \in Bounds : <<y, x>> \notin R
  <2> HIDE DEF R, Bounds
  <2>1. QED
    BY <1>1, <1>2, WFMin
<1>4. \A y \in Bounds : ~(y < x)
  BY <1>3
<1>5. x \in S
  <2>1. SUFFICES ASSUME x \notin S PROVE FALSE
    OBVIOUS
  <2>2. PICK y \in S : TRUE
    OBVIOUS
  <2>3. \A z \in S : z \in Nat /\ z <= x /\ z # x
    BY <2>1
  <2>4. x \in Nat /\ x - 1 \in Nat
    BY <2>2, <2>3
  <2>5. x - 1 \in Bounds
    BY <2>3, <2>4
  <2>6. QED
    BY <1>4, <2>4, <2>5
<1>6. QED
  BY <1>5

\* What the operator of the community modules chooses.
LEMMA MaxOfBounded ==
  ASSUME NEW S, S \subseteq Nat, S # {}, NEW b \in Nat, \A y \in S : y <= b
  PROVE  Undos!Max(S) \in S /\ \A y \in S : Undos!Max(S) >= y
BY BoundedHasMax DEF Undos!Max

Revisions == {0} \cup {sets[t].revision : t \in Templates}
UndoInv ==
  /\ template \in Templates
  /\ version \in Nat
  /\ sets \in [Templates -> [revision: Nat, pods: BOOLEAN]]
  /\ \E b \in Nat : \A t \in Templates : sets[t].revision <= b
  /\ \A t, u \in Templates : t # u /\ sets[t].revision = sets[u].revision
                             => sets[t].revision = 0
  /\ DOMAIN order \subseteq Nat
  /\ \A i \in DOMAIN order : order[i] \in Templates
  /\ \A t \in Templates : \E i \in DOMAIN order : order[i] = t
  /\ \A i, j \in DOMAIN order : order[i] = order[j] => i = j
  /\ undo \in [stage: {"idle", "list", "update", "undone"}, asked: Asked \cup {0},
               version: Nat, settled: BOOLEAN, previous: SUBSET Templates,
               chosen: SUBSET Templates]
  /\ undo.stage \in {"update", "undone"} /\ undo.asked = 0 /\ undo.settled
     => undo.chosen = undo.previous

LEMMA UndoSteps ==
  ASSUME part = "undos", [RemediesNext]_allVars
  PROVE  part' = part /\ (Undos!Next \/ UNCHANGED undoVars)
BY DEF RemediesNext, allVars

\* The list of the ReplicaSets has every template once.
LEMMA OrderCovers ==
  ASSUME NEW s \in Undos!SetToSeqs(Templates)
  PROVE  /\ DOMAIN s \subseteq Nat
         /\ \A i \in DOMAIN s : s[i] \in Templates
         /\ \A t \in Templates : \E i \in DOMAIN s : s[i] = t
         /\ \A i, j \in DOMAIN s : s[i] = s[j] => i = j
<1> DEFINE D == 1..Cardinality(Templates)
<1>1. IsFiniteSet(Templates) /\ Cardinality(Templates) \in Nat
  BY RemediesAssumption, FS_CardinalityType
<1>2. s \in [D -> Templates] /\ \A i, j \in D : i # j => s[i] # s[j]
  <2>1. Undos!Cardinality(Templates) = Cardinality(Templates)
    BY DEF Undos!Cardinality, Cardinality
  <2>2. QED
    BY <2>1 DEF Undos!SetToSeqs
<1>3. s \in Injection(D, Templates)
  BY <1>2 DEF Injection, IsInjective
<1>4. Cardinality(D) = Cardinality(Templates)
  BY <1>1, FS_Interval
<1>5. s \in Surjection(D, Templates)
  BY <1>1, <1>3, <1>4, FS_Injection
<1>6. \A t \in Templates : \E i \in D : s[i] = t
  BY <1>5 DEF Surjection
<1>7. DOMAIN s = D /\ D \subseteq Nat
  BY <1>1, <1>2
<1>8. QED
  BY <1>2, <1>6, <1>7

LEMMA UndoStart ==
  ASSUME RemediesInit, part = "undos"
  PROVE  UndoInv
<1>1. Undos!Init
  BY DEF RemediesInit
<1>2. /\ template \in Templates /\ version = 1
      /\ sets = [t \in Templates |-> IF t = template THEN [revision |-> 1, pods |-> TRUE]
                                     ELSE [revision |-> 0, pods |-> FALSE]]
      /\ order \in Undos!SetToSeqs(Templates) /\ undo = Undos!Quiet
  BY <1>1, RemediesAssumption DEF Undos!Init
<1>3. /\ sets \in [Templates -> [revision: Nat, pods: BOOLEAN]]
      /\ \A t \in Templates : sets[t].revision = IF t = template THEN 1 ELSE 0
  BY <1>2
<1>4. \E b \in Nat : \A t \in Templates : sets[t].revision <= b
  <2>1. \A t \in Templates : sets[t].revision <= 1
    BY <1>3
  <2>2. QED
    BY <2>1
<1>5. /\ undo.stage = "idle"
      /\ undo \in [stage: {"idle", "list", "update", "undone"}, asked: Asked \cup {0},
               version: Nat, settled: BOOLEAN, previous: SUBSET Templates,
               chosen: SUBSET Templates]
  BY <1>2 DEF Undos!Quiet
<1>6. \A t, u \in Templates : t # u /\ sets[t].revision = sets[u].revision
                             => sets[t].revision = 0
  BY <1>3
<1>7. QED
  BY <1>2, <1>3, <1>4, <1>5, <1>6, OrderCovers DEF UndoInv

LEMMA HighestBounds ==
  ASSUME UndoInv
  PROVE  /\ Undos!Highest \in Nat
         /\ \A t \in Templates : sets[t].revision \in Nat /\ sets[t].revision <= Undos!Highest
<1> DEFINE S == {0} \cup {sets[t].revision : t \in Templates}
<1>1. PICK b \in Nat : \A t \in Templates : sets[t].revision <= b
  BY DEF UndoInv
<1>2. \A t \in Templates : sets[t].revision \in Nat
  BY DEF UndoInv
<1>3. S \subseteq Nat /\ S # {} /\ \A y \in S : y <= b
  BY <1>1, <1>2
<1>4. \A t \in Templates : sets[t].revision \in S
  OBVIOUS
<1>5. Undos!Highest = Undos!Max(S)
  BY DEF Undos!Highest
<1> HIDE DEF S
<1>6. Undos!Max(S) \in S /\ \A y \in S : Undos!Max(S) >= y
  BY <1>1, <1>3, MaxOfBounded
<1>7. QED
  BY <1>2, <1>3, <1>4, <1>5, <1>6

\* The ReplicaSets change and the call of the undo does not.
LEMMA SetsChange ==
  ASSUME UndoInv, NEW t \in Templates, NEW x \in [revision: Nat, pods: BOOLEAN],
         sets' = [sets EXCEPT ![t] = x], UNCHANGED <<template, version, order, undo>>,
         \/ x.revision = sets[t].revision
         \/ x.revision = Undos!Highest + 1
  PROVE  UndoInv'
<1>1. /\ sets' \in [Templates -> [revision: Nat, pods: BOOLEAN]] /\ sets'[t] = x
      /\ \A u \in Templates : u # t => sets'[u] = sets[u]
  BY DEF UndoInv
<1>2. /\ Undos!Highest \in Nat
      /\ \A u \in Templates : sets[u].revision \in Nat /\ sets[u].revision <= Undos!Highest
  BY HighestBounds
<1>3. \E b \in Nat : \A u \in Templates : sets'[u].revision <= b
  <2>1. \A u \in Templates : sets'[u].revision <= Undos!Highest + 1
    BY <1>1, <1>2
  <2>2. Undos!Highest + 1 \in Nat
    BY <1>2
  <2>3. QED
    BY <2>1, <2>2
<1>4. \A u, v \in Templates : u # v /\ sets'[u].revision = sets'[v].revision
                             => sets'[u].revision = 0
  <2>1. CASE x.revision = sets[t].revision
    BY <1>1, <2>1 DEF UndoInv
  <2>2. CASE x.revision = Undos!Highest + 1
    <3>1. \A u \in Templates : u # t => sets'[u].revision # x.revision
      BY <1>1, <1>2, <2>2
    <3>2. QED
      BY <1>1, <3>1 DEF UndoInv
  <2>3. QED
    BY <2>1, <2>2
<1>5. QED
  BY <1>1, <1>3, <1>4 DEF UndoInv

LEMMA ControllerKeeps ==
  ASSUME UndoInv, Undos!NewestSet \/ Undos!ScaleUp \/ \E t \in Templates : Undos!ScaleDown(t)
  PROVE  UndoInv'
<1>1. template \in Templates /\ Undos!Highest + 1 \in Nat
      /\ \A t \in Templates : sets[t] \in [revision: Nat, pods: BOOLEAN]
  BY HighestBounds DEF UndoInv
<1>2. CASE Undos!NewestSet
  <2> DEFINE x == [sets[template] EXCEPT !.revision = Undos!Highest + 1]
  <2>1. sets' = [sets EXCEPT ![template] = x] /\ UNCHANGED <<template, version, order, undo>>
    BY <1>2 DEF Undos!NewestSet, UndoInv
  <2>2. x \in [revision: Nat, pods: BOOLEAN] /\ x.revision = Undos!Highest + 1
    BY <1>1
  <2> HIDE DEF x
  <2>3. QED
    BY <1>1, <2>1, <2>2, SetsChange
<1>3. ASSUME NEW t \in Templates, NEW pods1 \in BOOLEAN,
             sets' = [sets EXCEPT ![t].pods = pods1],
             UNCHANGED <<template, version, order, undo>>
      PROVE UndoInv'
  <2> DEFINE x == [sets[t] EXCEPT !.pods = pods1]
  <2>1. sets' = [sets EXCEPT ![t] = x]
    BY <1>3 DEF UndoInv
  <2>2. x \in [revision: Nat, pods: BOOLEAN] /\ x.revision = sets[t].revision
    BY <1>1
  <2> HIDE DEF x
  <2>3. QED
    BY <1>3, <2>1, <2>2, SetsChange
<1>4. CASE Undos!ScaleUp
  BY <1>1, <1>3, <1>4 DEF Undos!ScaleUp
<1>5. CASE \E t \in Templates : Undos!ScaleDown(t)
  BY <1>3, <1>5 DEF Undos!ScaleDown
<1>6. QED
  BY <1>2, <1>4, <1>5

\* Between rollouts the ReplicaSet that wants Pods is the Deployment's own.
LEMMA CurrentIsHighest ==
  ASSUME UndoInv, Undos!Settled
  PROVE  Undos!Current = Undos!Highest
<1> DEFINE wanting == {i \in DOMAIN order : sets[order[i]].revision > 0 /\ sets[order[i]].pods}
<1>1. /\ template \in Templates /\ sets[template].revision > 0
      /\ {t \in Templates : sets[t].pods} = {template}
      /\ sets[template].revision = Undos!Highest
  BY DEF Undos!Settled, Undos!Made, UndoInv
<1>2. PICK i \in DOMAIN order : order[i] = template
  BY <1>1 DEF UndoInv
<1>3. \A j \in DOMAIN order : sets[order[j]].pods => j = i
  BY <1>1, <1>2 DEF UndoInv
<1>4. wanting = {i}
  BY <1>1, <1>2, <1>3
<1>5. i \in Nat
  BY DEF UndoInv
<1> HIDE DEF wanting
<1>6. Undos!Max({i}) = i
  BY <1>5 DEF Undos!Max
<1>7. Undos!Current = sets[order[Undos!Max(wanting)]].revision
  BY <1>4 DEF Undos!Current, wanting
<1>8. QED
  BY <1>1, <1>2, <1>4, <1>6, <1>7

\* So what is chosen is the ReplicaSet before it.
LEMMA TargetIsBefore ==
  ASSUME UndoInv, Undos!Settled
  PROVE  Undos!Target(0) = Undos!Before
<1>1. Undos!Current = Undos!Highest
  BY CurrentIsHighest
<1>2. template \in Undos!Made /\ sets[template].revision = Undos!Highest
  BY DEF Undos!Settled
<1>3. \A t \in Undos!Made : t \in Templates /\ sets[t].revision > 0
  BY DEF Undos!Made
<1>4. \A t \in Undos!Made : sets[t].revision \in Nat /\ sets[t].revision <= Undos!Highest
  BY <1>3, HighestBounds
<1>5. \A t \in Undos!Made : t # template => sets[t].revision # Undos!Highest
  BY <1>2, <1>3, <1>4 DEF UndoInv
<1>6. Undos!Highest \in Nat
  BY HighestBounds
<1>7. {t \in Undos!Made : sets[t].revision < Undos!Highest} = Undos!Made \ {template}
  BY <1>2, <1>4, <1>5, <1>6
<1>8. Undos!Target(0) = Undos!Greatest({t \in Undos!Made : sets[t].revision < Undos!Highest})
  BY <1>1 DEF Undos!Target
<1>9. Undos!Before = Undos!Greatest(Undos!Made \ {template})
  BY <1>2 DEF Undos!Before, Undos!Greatest
<1>10. QED
  BY <1>7, <1>8, <1>9

LEMMA UndoCallKeeps ==
  ASSUME UndoInv,
         \/ \E n \in Asked : Undos!ReadDeployment(n)
         \/ Undos!ListSets \/ Undos!Update \/ Undos!Answer
  PROVE  UndoInv'
<1> DEFINE Type == [stage: {"idle", "list", "update", "undone"}, asked: Asked \cup {0},
               version: Nat, settled: BOOLEAN, previous: SUBSET Templates,
               chosen: SUBSET Templates]
<1>1. undo \in Type /\ version \in Nat /\ template \in Templates
  BY DEF UndoInv
<1>2. Undos!Quiet \in Type /\ Undos!Quiet.stage = "idle"
  BY DEF Undos!Quiet
<1>3. CASE Undos!Answer
  BY <1>2, <1>3 DEF Undos!Answer, UndoInv
<1>4. CASE \E n \in Asked : Undos!ReadDeployment(n)
  <2>1. PICK n \in Asked : Undos!ReadDeployment(n)
    BY <1>4
  <2> DEFINE x == [Undos!Quiet EXCEPT !.stage = "list", !.asked = n, !.version = version]
  <2>2. undo' = x /\ UNCHANGED <<template, version, sets, order>>
    BY <2>1 DEF Undos!ReadDeployment
  <2>3. x \in Type /\ x.stage = "list"
    BY <1>1, <1>2 DEF Undos!Quiet
  <2> HIDE DEF x
  <2>4. QED
    BY <2>2, <2>3 DEF UndoInv
<1>5. CASE Undos!ListSets
  <2> DEFINE stage == IF Undos!Target(undo.asked) = {} THEN "idle" ELSE "update"
             settled == Undos!Settled /\ version = undo.version
             x == [undo EXCEPT !.stage = stage, !.chosen = Undos!Target(undo.asked),
                               !.settled = settled, !.previous = Undos!Before]
  <2>1. undo' = x /\ UNCHANGED <<template, version, sets, order>>
    BY <1>5 DEF Undos!ListSets
  <2>2. Undos!Target(undo.asked) \subseteq Templates /\ Undos!Before \subseteq Templates
    BY DEF Undos!Target, Undos!Before, Undos!Greatest, Undos!Made
  <2>3. stage \in {"idle", "list", "update", "undone"} /\ settled \in BOOLEAN
        /\ (settled => Undos!Settled)
    OBVIOUS
  <2> HIDE DEF stage, settled
  <2>4. /\ x \in Type /\ x.asked = undo.asked /\ x.chosen = Undos!Target(undo.asked)
        /\ x.settled = settled /\ x.previous = Undos!Before
    BY <1>1, <2>2, <2>3
  <2> HIDE DEF x
  <2>5. x.asked = 0 /\ x.settled => x.chosen = x.previous
    BY <2>3, <2>4, TargetIsBefore
  <2>6. QED
    BY <2>1, <2>4, <2>5 DEF UndoInv
<1>6. CASE Undos!Update
  <2> DEFINE stage == IF Undos!SameVersion THEN "undone" ELSE "idle"
             x == [undo EXCEPT !.stage = stage]
  <2>1. undo.stage = "update" /\ undo' = x /\ UNCHANGED <<sets, order>>
    BY <1>6 DEF Undos!Update
  <2>2. template' \in Templates /\ version' \in Nat
    BY <1>1, <1>6 DEF Undos!Update
  <2>3. stage \in {"idle", "undone"}
    OBVIOUS
  <2> HIDE DEF stage
  <2>4. /\ x \in Type /\ x.asked = undo.asked /\ x.chosen = undo.chosen
        /\ x.settled = undo.settled /\ x.previous = undo.previous
    BY <1>1, <2>3
  <2> HIDE DEF x
  <2>5. QED
    BY <2>1, <2>2, <2>4 DEF UndoInv
<1>7. QED
  BY <1>3, <1>4, <1>5, <1>6

LEMMA UndoStep ==
  ASSUME UndoInv, Undos!Next \/ UNCHANGED undoVars
  PROVE  UndoInv'
<1>1. CASE UNCHANGED undoVars
  BY <1>1 DEF UndoInv, undoVars
<1>2. ASSUME NEW t \in Templates, Undos!Edit(t) PROVE UndoInv'
  <2>1. template' = t /\ version' = version + 1 /\ UNCHANGED <<sets, order, undo>>
    BY <1>2 DEF Undos!Edit
  <2>2. version' \in Nat
    BY <2>1 DEF UndoInv
  <2>3. QED
    BY <2>1, <2>2 DEF UndoInv
<1>3. QED
  BY <1>1, <1>2, ControllerKeeps, UndoCallKeeps DEF Undos!Next

\* Between rollouts, an undo without a revision writes the template before the
\* Deployment's own, in whatever order the ReplicaSets are listed
\* (rolloutUndoDeployment).
THEOREM UndosAlwaysToPrevious == RemediesSpec => []UndoneToPrevious
<1> DEFINE Inv == part = "undos" => UndoInv
<1>1. RemediesInit => Inv
  BY UndoStart
<1>2. Inv /\ [RemediesNext]_allVars => Inv'
  <2>1. SUFFICES ASSUME Inv, [RemediesNext]_allVars, part' = "undos" PROVE UndoInv'
    OBVIOUS
  <2>2. part' = part
    BY <2>1 DEF RemediesNext, allVars
  <2>3. UndoInv /\ (Undos!Next \/ UNCHANGED undoVars)
    BY <2>1, <2>2, UndoSteps
  <2>4. QED
    BY <2>3, UndoStep
<1>3. Inv => UndoneToPrevious
  BY DEF UndoInv, UndoneToPrevious, Undos!UndoneToPrevious
<1> HIDE DEF Inv
<1>4. QED
  BY <1>1, <1>2, <1>3, PTL DEF RemediesSpec, allVars

-----------------------------------------------------------------------------
(* The totals of the diagnosis engine: the counters in memory are never below *)
(* the rows in PostgreSQL, and what a sync has read lies between them.        *)

StatOrder == <<"total_diagnoses", "llm_calls", "rule_only_calls">>
StatKeys == {"total_diagnoses", "llm_calls", "rule_only_calls"}
Counters == [StatKeys -> Nat]
\* The values of a sync that is reading begin at the first counter, those of a
\* sync that is writing end at the last one.
FirstKey(values, writing) == IF writing THEN 4 - Len(values) ELSE 1
ValueSound(key, value) == totals[key] <= value /\ value <= counter[key]

TotalsInv ==
  /\ counter \in Counters /\ totals \in Counters
  /\ sync \in [values : Seq(Nat), writing : BOOLEAN]
  /\ FirstKey(sync.values, sync.writing) \in 1..3
  /\ FirstKey(sync.values, sync.writing) + Len(sync.values) <= 4
  /\ ~unread =>
       /\ \A k \in StatKeys : totals[k] <= counter[k]
       /\ \A i \in 1..Len(sync.values) :
            ValueSound(StatOrder[FirstKey(sync.values, sync.writing) - 1 + i], sync.values[i])
NoneLess == \A k \in StatKeys : totals'[k] >= totals[k]

\* Each counter has its place in the order.
LEMMA KeysInOrder ==
  /\ \A i \in 1..3 : StatOrder[i] \in StatKeys
  /\ \A i, j \in 1..3 : StatOrder[i] = StatOrder[j] => i = j
BY DEF StatOrder, StatKeys

LEMMA SameKeys ==
  ASSUME NEW size
  PROVE  Diagnoses(size)!Order = StatOrder /\ Diagnoses(size)!Keys = StatKeys
BY DEF Diagnoses!Order, Diagnoses!Keys, StatOrder, StatKeys

LEMMA TotalsStart ==
  ASSUME NEW size, Diagnoses(size)!Init
  PROVE  TotalsInv
<1>1. /\ counter = Diagnoses(size)!Zero /\ totals = Diagnoses(size)!Zero
      /\ sync = [values |-> <<>>, writing |-> FALSE]
  BY DEF Diagnoses!Init, Diagnoses!NoSync
<1>2. sync.values = <<>> /\ sync.writing = FALSE
  BY <1>1
<1>3. Len(sync.values) = 0 /\ FirstKey(sync.values, sync.writing) = 1
  BY <1>2 DEF FirstKey
<1>4. \A k \in StatKeys : Diagnoses(size)!Zero[k] = 0
  BY SameKeys DEF Diagnoses!Zero
<1>5. Diagnoses(size)!Zero \in Counters
  BY SameKeys DEF Diagnoses!Zero, Counters
<1>6. \A k \in StatKeys : totals[k] <= counter[k]
  BY <1>1, <1>4
<1>7. sync \in [values : Seq(Nat), writing : BOOLEAN]
  <2>1. <<>> \in Seq(Nat)
    OBVIOUS
  <2>2. QED
    BY <1>1, <2>1
<1>8. \A i \in 1..Len(sync.values) : FALSE
  BY <1>3
<1>9. FirstKey(sync.values, sync.writing) \in 1..3
      /\ FirstKey(sync.values, sync.writing) + Len(sync.values) <= 4
  BY <1>3
<1>10. QED
  BY <1>1, <1>5, <1>6, <1>7, <1>8, <1>9 DEF TotalsInv

\* A step that counts keeps the totals below the counters, and what a sync has
\* read below them too.
LEMMA CountKeeps ==
  ASSUME NEW size, TotalsInv, NEW keys, Diagnoses(size)!Count(keys),
         UNCHANGED <<totals, sync, unread>>
  PROVE  TotalsInv' /\ NoneLess
<1>1. counter' = [k \in StatKeys |-> counter[k] + (IF k \in keys THEN 1 ELSE 0)]
  BY SameKeys DEF Diagnoses!Count
<1>2. \A k \in StatKeys : counter[k] \in Nat /\ totals[k] \in Nat
  BY DEF TotalsInv, Counters
<1>3. \A k \in StatKeys : counter'[k] \in Nat /\ counter'[k] >= counter[k]
  BY <1>1, <1>2
<1>4. counter' \in Counters
  BY <1>1, <1>2 DEF Counters
<1>5. NoneLess
  BY <1>2 DEF NoneLess
<1>6. ASSUME ~unread PROVE \A k \in StatKeys : totals'[k] <= counter'[k]
  BY <1>2, <1>3, <1>6 DEF TotalsInv
<1>7. ASSUME ~unread, NEW k \in StatKeys, NEW v \in Nat, ValueSound(k, v)
      PROVE  ValueSound(k, v)'
  BY <1>2, <1>3, <1>7 DEF ValueSound
<1>8. ASSUME ~unread, NEW i \in 1..Len(sync.values)
      PROVE  ValueSound(StatOrder[FirstKey(sync.values, sync.writing) - 1 + i],
                        sync.values[i])'
  <2> DEFINE first == FirstKey(sync.values, sync.writing)
             len == Len(sync.values)
  <2>1. first \in 1..3 /\ first + len <= 4 /\ len \in Nat /\ i \in 1..len
        /\ sync.values[i] \in Nat
    BY DEF TotalsInv
  <2>2. ValueSound(StatOrder[first - 1 + i], sync.values[i])
    BY <1>8 DEF TotalsInv
  <2> HIDE DEF first, len
  <2>3. first - 1 + i \in 1..3
    BY <2>1
  <2>4. QED
    BY <1>7, <1>8, <2>1, <2>2, <2>3, KeysInOrder DEF first, ValueSound
<1>9. QED
  BY <1>2, <1>4, <1>5, <1>6, <1>8 DEF TotalsInv

LEMMA ReadStatKeeps ==
  ASSUME NEW size, TotalsInv, Diagnoses(size)!ReadStat
  PROVE  TotalsInv' /\ NoneLess
<1> DEFINE n == Len(sync.values)
           v == counter[StatOrder[n + 1]]
<1>1. /\ ~sync.writing /\ sync.values \in Seq(Nat) /\ UNCHANGED <<counter, totals, unread>>
      /\ n < 3 /\ n \in Nat
  BY DEF TotalsInv, Diagnoses!ReadStat
<1>2. sync' = [sync EXCEPT !.values = Append(@, v), !.writing = (n = 2)]
  BY SameKeys DEF Diagnoses!ReadStat
<1>3. FirstKey(sync.values, sync.writing) = 1
  BY <1>1 DEF FirstKey
<1>4. n + 1 \in 1..3
  <2> HIDE DEF n
  <2>1. QED
    BY <1>1
<1>5. v \in Nat /\ StatOrder[n + 1] \in StatKeys
  BY <1>4, KeysInOrder DEF TotalsInv, Counters
<1> HIDE DEF v
<1>6. /\ sync' = [values |-> Append(sync.values, v), writing |-> (n = 2)]
      /\ Len(Append(sync.values, v)) = n + 1 /\ Append(sync.values, v) \in Seq(Nat)
  <2>1. sync = [values |-> sync.values, writing |-> sync.writing]
    BY DEF TotalsInv
  <2>2. sync' = [values |-> Append(sync.values, v), writing |-> (n = 2)]
    BY <1>2, <2>1
  <2>3. QED
    BY <1>1, <1>5, <2>2, AppendProperties
<1>7. /\ sync'.values = Append(sync.values, v) /\ sync'.writing = (n = 2)
      /\ sync' \in [values : Seq(Nat), writing : BOOLEAN]
  BY <1>6
<1>8. FirstKey(sync'.values, sync'.writing) = 1
  <2>1. Len(sync'.values) = n + 1
    BY <1>6, <1>7
  <2> HIDE DEF n
  <2>2. QED
    BY <1>1, <1>7, <2>1 DEF FirstKey
<1>9. FirstKey(sync'.values, sync'.writing) + Len(sync'.values) <= 4
  <2>1. Len(sync'.values) = n + 1
    BY <1>6, <1>7
  <2> HIDE DEF n
  <2>2. QED
    BY <1>1, <1>8, <2>1
<1>10. ASSUME ~unread, NEW i \in 1..(n + 1)
       PROVE  ValueSound(StatOrder[i], Append(sync.values, v)[i])
  <2>1. CASE i \in 1..n
    <3>1. Append(sync.values, v)[i] = sync.values[i]
      BY <1>1, <1>5, <2>1
    <3>2. ValueSound(StatOrder[1 - 1 + i], sync.values[i])
      BY <1>3, <1>10, <2>1 DEF TotalsInv
    <3>3. 1 - 1 + i = i
      BY <1>1
    <3>4. QED
      BY <3>1, <3>2, <3>3
  <2>2. CASE i = n + 1
    <3>1. Append(sync.values, v)[i] = v
      BY <1>1, <1>5, <2>2
    <3>2. totals[StatOrder[i]] <= v
      BY <1>5, <1>10, <2>2 DEF TotalsInv, v
    <3>3. v = counter[StatOrder[i]] /\ v <= v
      BY <1>5, <2>2 DEF v
    <3>4. QED
      BY <3>1, <3>2, <3>3 DEF ValueSound
  <2>3. i \in 1..n \/ i = n + 1
    <3> HIDE DEF n
    <3>1. QED
      BY <1>1
  <2>4. QED
    BY <2>1, <2>2, <2>3
<1>11. ASSUME ~unread, NEW i \in 1..Len(sync'.values)
       PROVE  ValueSound(StatOrder[FirstKey(sync.values, sync.writing) - 1 + i],
                         sync.values[i])'
  <2>1. i \in 1..(n + 1) /\ FirstKey(sync'.values, sync'.writing) - 1 + i = i
    BY <1>6, <1>7, <1>8
  <2>2. ValueSound(StatOrder[i], Append(sync.values, v)[i])
    BY <1>10, <1>11, <2>1
  <2>3. QED
    BY <1>1, <1>7, <2>1, <2>2 DEF ValueSound
<1>12. NoneLess
  BY <1>1 DEF TotalsInv, Counters, NoneLess
<1> HIDE DEF n
<1>13. FirstKey(sync'.values, sync'.writing) \in 1..3
  BY <1>8
<1>14. QED
  BY <1>1, <1>7, <1>9, <1>11, <1>12, <1>13 DEF TotalsInv

LEMMA WriteStatKeeps ==
  ASSUME NEW size, TotalsInv, Diagnoses(size)!WriteStat
  PROVE  TotalsInv' /\ (~unread => NoneLess)
<1> DEFINE n == Len(sync.values)
           key == StatOrder[4 - n]
           v == sync.values[1]
<1>1. /\ sync.writing /\ sync.values \in Seq(Nat) /\ UNCHANGED <<counter, unread>>
      /\ n \in Nat
  BY DEF TotalsInv, Diagnoses!WriteStat
<1>2. FirstKey(sync.values, sync.writing) = 4 - n
  BY <1>1 DEF FirstKey
<1>3. 4 - n \in 1..3 /\ n \in 1..3
  <2>1. 4 - n \in 1..3
    BY <1>2 DEF TotalsInv
  <2> HIDE DEF n
  <2>2. QED
    BY <1>1, <2>1
<1>4. v \in Nat /\ Head(sync.values) = v
  BY <1>1, <1>3
<1>5. key \in StatKeys
  BY <1>3, KeysInOrder
<1>6. sync' = [values |-> Tail(sync.values), writing |-> n > 1]
  BY DEF Diagnoses!WriteStat
<1>7. totals' = [totals EXCEPT ![key] = v] \/ totals' = totals
  BY <1>4, SameKeys DEF Diagnoses!WriteStat
<1>8. \A i \in 1..(n - 1) : i + 1 \in 1..n
  <2> HIDE DEF n
  <2>1. QED
    BY <1>1
<1>9. /\ Tail(sync.values) \in Seq(Nat) /\ Len(Tail(sync.values)) = n - 1
      /\ \A i \in 1..(n - 1) : Tail(sync.values)[i] = sync.values[i + 1]
  <2>1. sync.values # <<>>
    BY <1>1, <1>3
  <2>2. QED
    BY <1>1, <2>1, HeadTailProperties
<1>10. /\ sync'.values = Tail(sync.values) /\ sync'.writing = (n > 1)
       /\ sync' \in [values : Seq(Nat), writing : BOOLEAN]
  BY <1>6, <1>9
<1>11. FirstKey(sync'.values, sync'.writing) = (IF n > 1 THEN 5 - n ELSE 1)
  <2>1. Len(sync'.values) = n - 1
    BY <1>9, <1>10
  <2>2. n - 1 \in Nat /\ (~(n > 1) => n = 1) /\ 4 - (n - 1) = 5 - n
    <3> HIDE DEF n
    <3>1. QED
      BY <1>3
  <2>3. QED
    BY <1>10, <2>1, <2>2 DEF FirstKey
<1> DEFINE first == FirstKey(sync'.values, sync'.writing)
<1>12. first \in 1..3 /\ first + Len(sync'.values) <= 4
  <2>1. Len(sync'.values) = n - 1
    BY <1>9, <1>10
  <2>2. (IF n > 1 THEN 5 - n ELSE 1) \in 1..3 /\ (IF n > 1 THEN 5 - n ELSE 1) + (n - 1) <= 4
    <3> HIDE DEF n
    <3>1. QED
      BY <1>3
  <2>3. QED
    BY <1>11, <2>1, <2>2
<1>13. totals' \in Counters
  BY <1>4, <1>7 DEF TotalsInv, Counters
<1>14. \A k \in StatKeys : k # key => totals'[k] = totals[k]
  BY <1>7 DEF TotalsInv, Counters
<1>15. totals'[key] \in {totals[key], v}
  BY <1>5, <1>7 DEF TotalsInv, Counters
<1>16. \A k \in StatKeys : totals[k] \in Nat /\ totals'[k] \in Nat /\ counter[k] \in Nat
  BY <1>13 DEF TotalsInv, Counters
<1>17. ASSUME ~unread
       PROVE  totals[key] <= v /\ v <= counter[key] /\ totals[key] <= counter[key]
  <2>1. ValueSound(StatOrder[4 - n - 1 + 1], sync.values[1])
    BY <1>2, <1>3, <1>17 DEF TotalsInv
  <2>2. 4 - n - 1 + 1 = 4 - n
    BY <1>3
  <2>3. QED
    BY <1>5, <1>17, <2>1, <2>2 DEF ValueSound, TotalsInv
<1> HIDE DEF key, v
<1>18. ASSUME ~unread, NEW k \in StatKeys
       PROVE  totals[k] <= totals'[k] /\ totals'[k] <= counter[k]
  <2>1. totals[k] <= counter[k]
    BY <1>18 DEF TotalsInv
  <2>2. CASE k = key
    BY <1>4, <1>15, <1>16, <1>17, <1>18, <2>1, <2>2
  <2>3. CASE k # key
    BY <1>14, <1>16, <2>1, <2>3
  <2>4. QED
    BY <2>2, <2>3
<1>19. ASSUME ~unread, NEW i \in 1..(n - 1)
       PROVE  /\ totals'[StatOrder[5 - n - 1 + i]] <= Tail(sync.values)[i]
              /\ Tail(sync.values)[i] <= counter[StatOrder[5 - n - 1 + i]]
  <2>1. /\ i + 1 \in 1..n /\ 4 - n - 1 + (i + 1) = 5 - n - 1 + i
        /\ 5 - n - 1 + i \in 1..3 /\ 5 - n - 1 + i # 4 - n
    <3> HIDE DEF n
    <3>1. QED
      BY <1>3
  <2>2. \A j \in 1..n : ValueSound(StatOrder[4 - n - 1 + j], sync.values[j])
    BY <1>2, <1>19 DEF TotalsInv
  <2>3. ValueSound(StatOrder[5 - n - 1 + i], sync.values[i + 1])
    BY <2>1, <2>2
  <2>4. StatOrder[5 - n - 1 + i] \in StatKeys /\ StatOrder[5 - n - 1 + i] # key
    BY <1>3, <2>1, KeysInOrder DEF key
  <2>5. Tail(sync.values)[i] = sync.values[i + 1]
    BY <1>9
  <2>6. QED
    BY <1>14, <2>3, <2>4, <2>5 DEF ValueSound
<1>20. ASSUME ~unread, NEW i \in 1..Len(sync'.values)
       PROVE  ValueSound(StatOrder[FirstKey(sync.values, sync.writing) - 1 + i],
                         sync.values[i])'
  <2>1. Len(sync'.values) = n - 1
    BY <1>9, <1>10
  <2>2. first = 5 - n /\ i \in 1..(n - 1)
    <3>1. i \in 1..(n - 1)
      BY <2>1
    <3>2. n > 1
      <4> HIDE DEF n
      <4>1. QED
        BY <1>3, <3>1
    <3>3. QED
      BY <1>11, <3>1, <3>2
  <2>3. /\ totals'[StatOrder[5 - n - 1 + i]] <= Tail(sync.values)[i]
        /\ Tail(sync.values)[i] <= counter[StatOrder[5 - n - 1 + i]]
    BY <1>19, <1>20, <2>2
  <2> HIDE DEF n, first
  <2>4. first = FirstKey(sync'.values, sync'.writing)
    BY DEF first
  <2>5. QED
    BY <1>1, <1>10, <2>2, <2>3, <2>4 DEF ValueSound
<1> HIDE DEF n
<1>21. ~unread => NoneLess
  BY <1>16, <1>18 DEF NoneLess
<1>22. QED
  BY <1>1, <1>10, <1>12, <1>13, <1>18, <1>20, <1>21 DEF TotalsInv, first

LEMMA RestartKeeps ==
  ASSUME NEW size, TotalsInv, Diagnoses(size)!Restart
  PROVE  TotalsInv' /\ NoneLess
<1>1. /\ sync' = [values |-> <<>>, writing |-> FALSE] /\ UNCHANGED totals
      /\ \/ counter' = totals /\ UNCHANGED unread
         \/ counter' = Diagnoses(size)!Zero /\ unread'
  BY DEF Diagnoses!Restart, Diagnoses!NoSync
<1>2. sync'.values = <<>> /\ sync'.writing = FALSE
  BY <1>1
<1>3. Len(sync'.values) = 0 /\ FirstKey(sync'.values, sync'.writing) = 1
  BY <1>2 DEF FirstKey
<1>4. sync' \in [values : Seq(Nat), writing : BOOLEAN]
  <2>1. <<>> \in Seq(Nat)
    OBVIOUS
  <2>2. QED
    BY <1>1, <2>1
<1>5. Diagnoses(size)!Zero \in Counters
  BY SameKeys DEF Diagnoses!Zero, Counters
<1>6. \A k \in StatKeys : totals[k] \in Nat
  BY DEF TotalsInv, Counters
<1>7. ~unread' => \A k \in StatKeys : totals'[k] <= counter'[k]
  BY <1>1, <1>6
<1>8. \A i \in 1..Len(sync'.values) : FALSE
  BY <1>3
<1>9. FirstKey(sync'.values, sync'.writing) \in 1..3
      /\ FirstKey(sync'.values, sync'.writing) + Len(sync'.values) <= 4
  BY <1>3
<1>10. NoneLess
  BY <1>1, <1>6 DEF NoneLess
<1>11. QED
  BY <1>1, <1>4, <1>5, <1>7, <1>8, <1>9, <1>10 DEF TotalsInv

\* Every other step of the engine leaves the counters alone.
LEMMA TotalsStep ==
  ASSUME NEW size, TotalsInv, Diagnoses(size)!Next \/ UNCHANGED diagnosisVars
  PROVE  TotalsInv' /\ (~unread' => NoneLess)
<1>1. ASSUME UNCHANGED <<counter, totals, sync, unread>> PROVE TotalsInv' /\ NoneLess
  <2>1. TotalsInv'
    BY <1>1 DEF TotalsInv, ValueSound
  <2>2. NoneLess
    BY <1>1 DEF TotalsInv, Counters, NoneLess
  <2>3. QED
    BY <2>1, <2>2
<1>2. CASE UNCHANGED diagnosisVars
  BY <1>1, <1>2 DEF diagnosisVars
<1>3. ASSUME NEW r \in size.requests, Diagnoses(size)!Run(r) \/ Diagnoses(size)!Rerun(r)
             \/ Diagnoses(size)!Auto(r)
      PROVE  TotalsInv' /\ NoneLess
  BY <1>1, <1>3 DEF Diagnoses!Run, Diagnoses!Rerun, Diagnoses!Auto
<1>4. ASSUME NEW r \in size.requests, Diagnoses(size)!Step(r)
      PROVE  TotalsInv' /\ NoneLess
  <2>1. CASE Diagnoses(size)!Decide(r) \/ Diagnoses(size)!Ask(r) \/ Diagnoses(size)!Rules(r)
    <3>1. PICK keys : Diagnoses(size)!Count(keys) /\ UNCHANGED <<totals, sync, unread>>
      BY <2>1 DEF Diagnoses!Decide, Diagnoses!Ask, Diagnoses!Rules
    <3>2. QED
      BY <3>1, CountKeeps
  <2>2. CASE Diagnoses(size)!Missing(r) \/ Diagnoses(size)!Begin(r)
             \/ Diagnoses(size)!Topology(r) \/ Diagnoses(size)!Joined(r)
             \/ Diagnoses(size)!Store(r) \/ Diagnoses(size)!Persist(r)
             \/ Diagnoses(size)!Lookup(r)
    BY <1>1, <2>2 DEF Diagnoses!Missing, Diagnoses!Begin, Diagnoses!Topology,
       Diagnoses!Joined, Diagnoses!Store, Diagnoses!Persist, Diagnoses!Lookup
  <2>3. ASSUME NEW p, Diagnoses(size)!Collect(r, p) PROVE TotalsInv' /\ NoneLess
    BY <1>1, <2>3 DEF Diagnoses!Collect
  <2>4. QED
    BY <1>4, <2>1, <2>2, <2>3 DEF Diagnoses!Step
<1>5. ASSUME NEW j \in jobs, Diagnoses(size)!Job(j) PROVE TotalsInv' /\ NoneLess
  BY <1>1, <1>5 DEF Diagnoses!Job
<1>6. CASE Diagnoses(size)!Resolved
  BY <1>1, <1>6 DEF Diagnoses!Resolved
<1>7. CASE Diagnoses(size)!WriteStat
  <2>1. unread' = unread
    BY <1>7 DEF Diagnoses!WriteStat
  <2>2. QED
    BY <1>7, <2>1, WriteStatKeeps
<1>8. QED
  BY <1>2, <1>3, <1>4, <1>5, <1>6, <1>7, ReadStatKeeps, RestartKeeps DEF Diagnoses!Next

\* Whatever restarts happen, a sync never lowers a total in PostgreSQL, as long
\* as every start could load the totals (Engine.SyncStats, LoadStats).
THEOREM TotalsNeverFallBack == RemediesSpec => TotalsNeverFall
<1> DEFINE Inv == part = "totals" => TotalsInv
           Rises == part = "totals" /\ ~unread' =>
                      \A k \in Diagnoses(Restarts)!Keys : totals'[k] >= totals[k]
<1>1. RemediesInit => Inv
  BY TotalsStart DEF RemediesInit
<1>2. Inv /\ [RemediesNext]_allVars => Inv' /\ [Rises]_totals
  <2>1. SUFFICES ASSUME Inv, [RemediesNext]_allVars, part' = "totals"
                 PROVE  TotalsInv' /\ Rises
    BY DEF RemediesNext, allVars
  <2>2. part = "totals"
    BY <2>1 DEF RemediesNext, allVars
  <2>3. Diagnoses(Restarts)!Next \/ UNCHANGED diagnosisVars
    BY <2>1, <2>2 DEF RemediesNext, allVars
  <2>4. TotalsInv' /\ (~unread' => NoneLess)
    BY <2>1, <2>2, <2>3, TotalsStep
  <2>5. QED
    BY <2>4, SameKeys DEF NoneLess
<1>3. TotalsNeverFall <=> [][Rises]_totals
  BY DEF TotalsNeverFall
<1> HIDE DEF Inv, Rises
<1>4. QED
  BY <1>1, <1>2, <1>3, PTL DEF RemediesSpec, allVars

-----------------------------------------------------------------------------
(* One diagnosed alert: the context of a diagnosis, the counters of the       *)
(* engine and the two stores of the result.                                   *)

DParts == {"topology", "impact", "cases"}
DRequest ==
  [pc : {"idle", "lookup", "begin", "collect", "decide", "ask", "rules", "store", "persist"},
   kind : {"run", "rerun", "auto"}, n : Nat, uid : BOOLEAN,
   parts : SUBSET DParts, context : SUBSET DParts]
DJob == [to : {"pg", "redis"}, n : Nat]
Writes(x) == x.pc \in {"collect", "decide", "ask", "rules", "store", "persist"}
Counting(x) == x.pc = "ask" \/ x.pc = "rules"

\* A request of the pipeline knows the UID; what its goroutines have not yet
\* collected is still to be collected.
SerialOK(x) ==
  x.kind = "auto" =>
    /\ x.pc # "lookup"
    /\ x.pc = "begin" => x.uid /\ x.context = {}
    /\ x.pc = "collect" => x.uid /\ x.context \cup x.parts = DParts
    /\ x.pc = "decide" => x.context \in {DParts, {}}
RequestInv(size) ==
  req \in [size.requests -> DRequest] /\ \A r \in size.requests : SerialOK(req[r])

Counted(size) == {r \in size.requests : Counting(req[r])}
CountInv(size) ==
  /\ counter \in Counters /\ fallback \in Nat /\ crashes \in Nat
  /\ crashes = 0 =>
       counter["llm_calls"] + counter["rule_only_calls"] + Cardinality(Counted(size))
       = counter["total_diagnoses"] + fallback

\* Every result on its way is that of the newest diagnosis, PostgreSQL has it or
\* will have it, and Redis loses an older result before PostgreSQL does.
Newest(size) ==
  /\ \A r \in size.requests : Writes(req[r]) => req[r].n = began
  /\ \A j \in jobs : j.n = began
  /\ \/ pg = began \/ \E r \in size.requests : Writes(req[r])
     \/ \E j \in jobs : j.to = "pg"
  /\ redis \in {0, pg, began}
  /\ (\E r \in size.requests : req[r].pc = "persist") \/ (\E j \in jobs : j.to = "pg")
       => redis \in {0, began}
StoreInv(size) ==
  /\ began \in Nat /\ lost \in Nat /\ pg \in Nat /\ redis \in Nat
  /\ jobs \subseteq DJob /\ IsFiniteSet(jobs)
  /\ lost = 0 /\ ~mixed => Newest(size)

LEMMA DiagnosisStart ==
  ASSUME NEW size, Diagnoses(size)!Init, IsFiniteSet(size.requests)
  PROVE  RequestInv(size) /\ CountInv(size) /\ StoreInv(size)
<1>1. /\ req = [r \in size.requests |-> Diagnoses(size)!Idle]
      /\ redis = 0 /\ pg = 0 /\ jobs = {} /\ began = 0
      /\ counter = Diagnoses(size)!Zero /\ fallback = 0 /\ crashes = 0 /\ lost = 0
  BY DEF Diagnoses!Init
<1>2. Diagnoses(size)!Idle \in DRequest /\ Diagnoses(size)!Idle.pc = "idle"
  BY DEF Diagnoses!Idle, DRequest
<1>3. RequestInv(size) /\ \A r \in size.requests : req[r].pc = "idle"
  BY <1>1, <1>2 DEF RequestInv, SerialOK
<1>4. Counted(size) = {} /\ Cardinality(Counted(size)) = 0
  <2>1. Counted(size) = {}
    BY <1>3 DEF Counted, Counting
  <2>2. QED
    BY <2>1, FS_EmptySet
<1>5. counter \in Counters /\ \A k \in StatKeys : counter[k] = 0
  BY <1>1, SameKeys DEF Diagnoses!Zero, Counters
<1>6. counter["llm_calls"] = 0 /\ counter["rule_only_calls"] = 0
      /\ counter["total_diagnoses"] = 0
  BY <1>5 DEF StatKeys
<1>7. CountInv(size)
  BY <1>1, <1>4, <1>5, <1>6 DEF CountInv
<1>8. StoreInv(size)
  <2>1. \A r \in size.requests : ~Writes(req[r]) /\ req[r].pc # "persist"
    BY <1>3 DEF Writes
  <2>2. Newest(size)
    BY <1>1, <2>1 DEF Newest
  <2>3. QED
    BY <1>1, <2>2, FS_EmptySet DEF StoreInv
<1>9. QED
  BY <1>3, <1>7, <1>8

\* One request moves.
LEMMA RequestGoes ==
  ASSUME NEW size, RequestInv(size), NEW r \in size.requests, NEW y \in DRequest,
         SerialOK(y), req' = [req EXCEPT ![r] = y]
  PROVE  /\ RequestInv(size)'
         /\ req'[r] = y /\ \A q \in size.requests : q # r => req'[q] = req[q]
<1>1. req'[r] = y /\ \A q \in size.requests : q # r => req'[q] = req[q]
  BY DEF RequestInv
<1>2. req' \in [size.requests -> DRequest]
  BY DEF RequestInv
<1>3. \A q \in size.requests : SerialOK(req'[q])
  <2>1. TAKE q \in size.requests
  <2>2. CASE q = r
    BY <1>1, <2>2
  <2>3. CASE q # r
    BY <1>1, <2>3 DEF RequestInv
  <2>4. QED
    BY <2>2, <2>3
<1>4. (\A q \in size.requests : SerialOK(req[q]))'
  BY <1>3 DEF SerialOK
<1>5. QED
  BY <1>1, <1>2, <1>4 DEF RequestInv

\* The moves that neither begin nor end between the counters.
LEMMA SameCount ==
  ASSUME NEW size, CountInv(size), UNCHANGED <<counter, fallback, crashes>>,
         \A q \in size.requests : Counting(req'[q]) <=> Counting(req[q])
  PROVE  CountInv(size)'
<1>1. Counted(size)' = Counted(size)
  <2>1. \A q \in size.requests : Counting(req[q])' <=> Counting(req[q])
    BY DEF Counting
  <2>2. QED
    BY <2>1 DEF Counted
<1>2. QED
  BY <1>1 DEF CountInv

\* The moves that write nothing, but may drop the cached result.
LEMMA SameStores ==
  ASSUME NEW size, StoreInv(size), UNCHANGED <<pg, jobs, began, mixed>>,
         lost' \in {lost, lost + 1}, redis' \in {redis, 0},
         \A q \in size.requests : /\ Writes(req'[q]) <=> Writes(req[q])
                                  /\ Writes(req[q]) => req'[q].n = req[q].n
                                  /\ req'[q].pc = "persist" <=> req[q].pc = "persist"
  PROVE  StoreInv(size)'
<1>1. lost' \in Nat /\ redis' \in Nat /\ (lost' = 0 => lost = 0)
  BY DEF StoreInv
<1>2. ASSUME lost' = 0, ~mixed' PROVE Newest(size)'
  <2>1. Newest(size)
    BY <1>1, <1>2 DEF StoreInv
  <2>2. \A q \in size.requests : /\ Writes(req[q])' <=> Writes(req[q])
                                 /\ Writes(req[q]) => req'[q].n = req[q].n
                                 /\ req'[q].pc = "persist" <=> req[q].pc = "persist"
    BY DEF Writes
  <2>3. QED
    BY <2>1, <2>2 DEF Newest
<1>3. QED
  BY <1>1, <1>2 DEF StoreInv

\* A move of one request that touches neither the counters nor the stores.
DiagnosisInv(size) == RequestInv(size) /\ CountInv(size) /\ StoreInv(size)
SamePhase(x, y) ==
  /\ Counting(y) <=> Counting(x)
  /\ Writes(y) <=> Writes(x)
  /\ Writes(x) => y.n = x.n
  /\ y.pc = "persist" <=> x.pc = "persist"

LEMMA MoveKeeps ==
  ASSUME NEW size, DiagnosisInv(size), NEW r \in size.requests, NEW y \in DRequest,
         SerialOK(y), SamePhase(req[r], y), req' = [req EXCEPT ![r] = y],
         UNCHANGED <<pg, jobs, began, mixed, counter, fallback, crashes>>,
         lost' \in {lost, lost + 1}, redis' \in {redis, 0}
  PROVE  DiagnosisInv(size)'
<1>1. /\ RequestInv(size)'
      /\ req'[r] = y /\ \A q \in size.requests : q # r => req'[q] = req[q]
  BY RequestGoes DEF DiagnosisInv
<1>2. \A q \in size.requests : SamePhase(req[q], req'[q])
  <2>1. TAKE q \in size.requests
  <2>2. CASE q = r
    BY <1>1, <2>2
  <2>3. CASE q # r
    BY <1>1, <2>3 DEF SamePhase
  <2>4. QED
    BY <2>2, <2>3
<1>3. CountInv(size)'
  BY <1>2, SameCount DEF DiagnosisInv, SamePhase
<1>4. StoreInv(size)'
  BY <1>2, SameStores DEF DiagnosisInv, SamePhase
<1>5. QED
  BY <1>1, <1>3, <1>4 DEF DiagnosisInv

LEMMA FreshRequest ==
  ASSUME NEW size, NEW r, NEW kind \in {"run", "rerun", "auto"},
         NEW pc \in {"begin", "lookup"},
         NEW y,
         \/ y = Diagnoses(size)!Fresh(r, kind)
         \/ y = [Diagnoses(size)!Fresh(r, kind) EXCEPT !.pc = pc]
  PROVE  /\ y \in DRequest /\ y.pc \in {"begin", pc} /\ y.kind = kind /\ y.context = {}
         /\ kind = "auto" => y.uid
<1> DEFINE z == Diagnoses(size)!Fresh(r, kind)
<1>1. PICK b \in BOOLEAN : b = (kind = "auto")
  OBVIOUS
<1>2. z = [Diagnoses(size)!Idle EXCEPT !.pc = "begin", !.kind = kind, !.uid = b]
  BY <1>1, Zenon DEF Diagnoses!Fresh
<1>3. z = [pc |-> "begin", kind |-> kind, n |-> 0, uid |-> b, parts |-> {}, context |-> {}]
  BY <1>2 DEF Diagnoses!Idle
<1>4. z \in DRequest
  BY <1>3 DEF DRequest
<1>5. z.pc = "begin" /\ z.kind = kind /\ z.context = {} /\ z.uid = b
  BY <1>3
<1> HIDE DEF z
<1>6. [z EXCEPT !.pc = pc] \in DRequest
  BY <1>4 DEF DRequest
<1>7. [z EXCEPT !.pc = pc].pc = pc /\ [z EXCEPT !.pc = pc].kind = kind
      /\ [z EXCEPT !.pc = pc].context = {} /\ [z EXCEPT !.pc = pc].uid = b
  BY <1>4, <1>5 DEF DRequest
<1>8. y = z \/ y = [z EXCEPT !.pc = pc]
  BY DEF z
<1>9. kind = "auto" => b
  BY <1>1
<1>10. QED
  BY <1>4, <1>5, <1>6, <1>7, <1>8, <1>9

LEMMA ArrivalsKeep ==
  ASSUME NEW size, DiagnosisInv(size), NEW r \in size.requests,
         Diagnoses(size)!Run(r) \/ Diagnoses(size)!Rerun(r) \/ Diagnoses(size)!Auto(r)
  PROVE  DiagnosisInv(size)'
<1> DEFINE Moves(y) ==
      /\ req' = [req EXCEPT ![r] = y] /\ y \in DRequest
      /\ y.pc \in {"idle", "lookup", "begin"}
      /\ y.kind = "auto" => y.pc = "begin" /\ y.uid /\ y.context = {}
<1>1. /\ req[r].pc = "idle"
      /\ UNCHANGED <<pg, jobs, began, mixed, counter, fallback, crashes>>
      /\ lost' \in {lost, lost + 1} /\ redis' \in {redis, 0}
  BY DEF Diagnoses!Run, Diagnoses!Rerun, Diagnoses!Auto
<1>2. \E y : Moves(y)
  <2>1. CASE Diagnoses(size)!Run(r)
    <3> DEFINE idle == Diagnoses(size)!Idle
               lookup == [Diagnoses(size)!Fresh(r, "run") EXCEPT !.pc = "lookup"]
    <3>1. req' = [req EXCEPT ![r] = idle] \/ req' = [req EXCEPT ![r] = lookup]
      BY <2>1 DEF Diagnoses!Run, Diagnoses!Answer
    <3>2. idle \in DRequest /\ idle.pc = "idle" /\ idle.kind = "run"
      BY DEF Diagnoses!Idle, DRequest
    <3>3. lookup \in DRequest /\ lookup.pc \in {"begin", "lookup"} /\ lookup.kind = "run"
      BY FreshRequest
    <3> HIDE DEF idle, lookup
    <3>4. QED
      BY <3>1, <3>2, <3>3
  <2>2. ASSUME NEW kind \in {"rerun", "auto"},
               req' = [req EXCEPT ![r] = Diagnoses(size)!Fresh(r, kind)]
        PROVE  \E y : Moves(y)
    <3> DEFINE z == Diagnoses(size)!Fresh(r, kind)
    <3>1. /\ z \in DRequest /\ z.pc \in {"begin", "begin"} /\ z.kind = kind /\ z.context = {}
          /\ kind = "auto" => z.uid
      BY FreshRequest
    <3>2. req' = [req EXCEPT ![r] = z]
      BY <2>2
    <3> HIDE DEF z
    <3>3. QED
      BY <3>1, <3>2
  <2>3. QED
    BY <2>1, <2>2 DEF Diagnoses!Rerun, Diagnoses!Auto
<1>3. PICK y : Moves(y)
  BY <1>2
<1>4. SerialOK(y) /\ SamePhase(req[r], y)
  BY <1>1, <1>3 DEF SerialOK, SamePhase, Counting, Writes
<1>5. QED
  BY <1>1, <1>3, <1>4, MoveKeeps

\* The collector's goroutines, and a request whose alert is gone.
LEMMA CollectKeeps ==
  ASSUME NEW size, DiagnosisInv(size), NEW r \in size.requests,
         \/ Diagnoses(size)!Topology(r) \/ Diagnoses(size)!Joined(r)
         \/ Diagnoses(size)!Missing(r)
         \/ \E p \in DParts : Diagnoses(size)!Collect(r, p)
  PROVE  DiagnosisInv(size)'
<1> DEFINE x == req[r]
<1>1. x \in DRequest /\ SerialOK(x)
  BY DEF DiagnosisInv, RequestInv
<1>2. x.parts \in SUBSET DParts /\ x.context \in SUBSET DParts /\ x.uid \in BOOLEAN
  BY <1>1 DEF DRequest
<1>3. ASSUME NEW y \in DRequest, req' = [req EXCEPT ![r] = y], SerialOK(y), SamePhase(x, y),
             UNCHANGED <<redis, pg, jobs, began, counter, fallback, mixed, lost, crashes>>
      PROVE  DiagnosisInv(size)'
  BY <1>3, MoveKeeps
<1>4. ASSUME NEW p \in DParts, NEW found \in {TRUE, x.uid}, NEW seen \in SUBSET DParts,
             x.pc = "collect", p \in seen \/ ~found,
             UNCHANGED <<redis, pg, jobs, began, counter, fallback, mixed, lost, crashes>>,
             req' = [req EXCEPT ![r] = [x EXCEPT !.uid = found, !.parts = @ \ {p},
                                                 !.context = @ \cup seen]]
      PROVE  DiagnosisInv(size)'
  <2> DEFINE y == [x EXCEPT !.uid = found, !.parts = @ \ {p}, !.context = @ \cup seen]
  <2>1. y \in DRequest
    BY <1>1, <1>2 DEF DRequest
  <2>2. /\ y.pc = x.pc /\ y.kind = x.kind /\ y.n = x.n /\ y.uid = found
        /\ y.parts = x.parts \ {p} /\ y.context = x.context \cup seen
    BY <1>1 DEF DRequest
  <2> HIDE DEF y
  <2>3. SamePhase(x, y)
    BY <2>2 DEF SamePhase, Counting, Writes
  <2>4. SerialOK(y)
    <3>1. SUFFICES ASSUME y.kind = "auto" PROVE y.uid /\ y.context \cup y.parts = DParts
      BY <1>4, <2>2 DEF SerialOK
    <3>2. x.uid /\ x.context \cup x.parts = DParts
      BY <1>1, <1>4, <2>2, <3>1 DEF SerialOK
    <3>3. found = TRUE /\ p \in seen
      BY <1>4, <3>2
    <3>4. QED
      BY <2>2, <3>2, <3>3
  <2>5. req' = [req EXCEPT ![r] = y]
    BY <1>4 DEF y
  <2>6. QED
    BY <1>3, <1>4, <2>1, <2>3, <2>4, <2>5
<1>5. CASE Diagnoses(size)!Topology(r)
  <2>1. PICK found \in {TRUE, x.uid} :
          req' = [req EXCEPT ![r].uid = found, ![r].parts = @ \ {"topology"},
                             ![r].context = @ \cup (IF found THEN {"topology"} ELSE {})]
    BY <1>5 DEF Diagnoses!Topology
  <2> DEFINE seen == IF found THEN {"topology"} ELSE {}
  <2>2. req' = [req EXCEPT ![r] = [x EXCEPT !.uid = found, !.parts = @ \ {"topology"},
                                            !.context = @ \cup seen]]
    BY <2>1 DEF DiagnosisInv, RequestInv
  <2>3. /\ x.pc = "collect"
        /\ UNCHANGED <<redis, pg, jobs, began, counter, fallback, mixed, lost, crashes>>
    BY <1>5 DEF Diagnoses!Topology
  <2>4. "topology" \in DParts /\ seen \in SUBSET DParts /\ ("topology" \in seen \/ ~found)
    BY DEF DParts
  <2> HIDE DEF seen
  <2>5. QED
    BY <1>4, <2>2, <2>3, <2>4
<1>6. ASSUME NEW p \in DParts, Diagnoses(size)!Collect(r, p) PROVE DiagnosisInv(size)'
  <2> DEFINE seen == IF x.uid THEN {p} ELSE {}
  <2>1. /\ req' = [req EXCEPT ![r].parts = @ \ {p}, ![r].context = @ \cup seen]
        /\ x.pc = "collect"
        /\ UNCHANGED <<redis, pg, jobs, began, counter, fallback, mixed, lost, crashes>>
    BY <1>6 DEF Diagnoses!Collect, Diagnoses!Sees
  <2>2. seen \in SUBSET DParts /\ (p \in seen \/ ~x.uid)
    OBVIOUS
  <2> HIDE DEF seen
  <2>3. [x EXCEPT !.parts = @ \ {p}, !.context = @ \cup seen]
        = [x EXCEPT !.uid = x.uid, !.parts = @ \ {p}, !.context = @ \cup seen]
    BY <1>1 DEF DRequest
  <2>4. req' = [req EXCEPT ![r] = [x EXCEPT !.parts = @ \ {p}, !.context = @ \cup seen]]
    BY <2>1 DEF DiagnosisInv, RequestInv
  <2>5. QED
    BY <1>4, <2>1, <2>2, <2>3, <2>4
<1>7. CASE Diagnoses(size)!Joined(r)
  <2> DEFINE y == [x EXCEPT !.pc = "decide"]
  <2>1. /\ x.pc = "collect" /\ x.parts = {} /\ req' = [req EXCEPT ![r].pc = "decide"]
        /\ UNCHANGED <<redis, pg, jobs, began, counter, fallback, mixed, lost, crashes>>
    BY <1>7 DEF Diagnoses!Joined
  <2>2. req' = [req EXCEPT ![r] = y]
    BY <2>1 DEF DiagnosisInv, RequestInv
  <2>3. y \in DRequest /\ y.pc = "decide" /\ y.kind = x.kind /\ y.n = x.n /\ y.context = x.context
    BY <1>1 DEF DRequest
  <2> HIDE DEF y
  <2>4. SerialOK(y) /\ SamePhase(x, y)
    BY <1>1, <2>1, <2>3 DEF SerialOK, SamePhase, Counting, Writes
  <2>5. QED
    BY <1>3, <2>1, <2>2, <2>3, <2>4
<1>8. CASE Diagnoses(size)!Missing(r)
  <2> DEFINE y == Diagnoses(size)!Idle
  <2>1. /\ x.pc = "begin" /\ req' = [req EXCEPT ![r] = y]
        /\ UNCHANGED <<redis, pg, jobs, began, counter, fallback, mixed, lost, crashes>>
    BY <1>8 DEF Diagnoses!Missing, Diagnoses!Answer
  <2>2. y \in DRequest /\ y.pc = "idle"
    BY DEF Diagnoses!Idle, DRequest
  <2> HIDE DEF y
  <2>3. SerialOK(y) /\ SamePhase(x, y)
    BY <2>1, <2>2 DEF SerialOK, SamePhase, Counting, Writes
  <2>4. QED
    BY <1>3, <2>1, <2>2, <2>3
<1>9. QED
  BY <1>5, <1>6, <1>7, <1>8

\* Only requests enter and leave the state between the counters, one at a time.
LEMMA CountedMoves ==
  ASSUME NEW size, IsFiniteSet(size.requests), NEW r \in size.requests,
         \A q \in size.requests : q # r => req'[q] = req[q]
  PROVE  /\ Cardinality(Counted(size)) \in Nat
         /\ ~Counting(req[r]) /\ Counting(req'[r])
              => Cardinality(Counted(size)') = Cardinality(Counted(size)) + 1
         /\ Counting(req[r]) /\ ~Counting(req'[r])
              => Cardinality(Counted(size)') = Cardinality(Counted(size)) - 1
         /\ (Counting(req[r]) <=> Counting(req'[r])) => Counted(size)' = Counted(size)
<1>1. IsFiniteSet(Counted(size)) /\ Cardinality(Counted(size)) \in Nat
  <2>1. Counted(size) \in SUBSET size.requests
    BY DEF Counted
  <2>2. QED
    BY <2>1, FS_Subset, FS_CardinalityType
<1>2. Counted(size)' = {q \in size.requests : Counting(req'[q])}
  BY DEF Counted, Counting
<1>3. ASSUME ~Counting(req[r]), Counting(req'[r])
      PROVE  Cardinality(Counted(size)') = Cardinality(Counted(size)) + 1
  <2>1. Counted(size)' = Counted(size) \cup {r} /\ r \notin Counted(size)
    BY <1>2, <1>3 DEF Counted
  <2>2. QED
    BY <1>1, <2>1, FS_AddElement
<1>4. ASSUME Counting(req[r]), ~Counting(req'[r])
      PROVE  Cardinality(Counted(size)') = Cardinality(Counted(size)) - 1
  <2>1. Counted(size)' = Counted(size) \ {r} /\ r \in Counted(size)
    BY <1>2, <1>4 DEF Counted
  <2>2. QED
    BY <1>1, <2>1, FS_RemoveElement
<1>5. ASSUME Counting(req[r]) <=> Counting(req'[r]) PROVE Counted(size)' = Counted(size)
  BY <1>2, <1>5 DEF Counted
<1>6. QED
  BY <1>1, <1>3, <1>4, <1>5

\* Decide counts the diagnosis, Ask the model and Rules the rules.
LEMMA CountsKeep ==
  ASSUME NEW size, DiagnosisInv(size), IsFiniteSet(size.requests), NEW r \in size.requests,
         \/ Diagnoses(size)!Decide(r) \/ Diagnoses(size)!Ask(r) \/ Diagnoses(size)!Rules(r)
  PROVE  DiagnosisInv(size)'
<1> DEFINE x == req[r]
           D == "total_diagnoses"
           L == "llm_calls"
           R == "rule_only_calls"
<1>1. x \in DRequest /\ SerialOK(x) /\ req \in [size.requests -> DRequest]
  BY DEF DiagnosisInv, RequestInv
<1>2. /\ x.pc \in {"decide", "ask", "rules"}
      /\ UNCHANGED <<redis, pg, jobs, began, mixed, lost, crashes>>
  BY DEF Diagnoses!Decide, Diagnoses!Ask, Diagnoses!Rules
<1>3. PICK pc \in {"ask", "rules", "store"}, keys \in {{D}, {L}, {R}} :
        /\ req' = [req EXCEPT ![r].pc = pc] /\ Diagnoses(size)!Count(keys)
        /\ \/ x.pc = "decide" /\ keys = {D} /\ pc \in {"ask", "rules"} /\ fallback' = fallback
           \/ x.pc = "ask" /\ keys = {L} /\ pc = "store" /\ fallback' = fallback + 0
           \/ x.pc = "ask" /\ keys = {L} /\ pc = "rules" /\ fallback' = fallback + 1
           \/ x.pc = "rules" /\ keys = {R} /\ pc = "store" /\ fallback' = fallback
  <2>1. CASE Diagnoses(size)!Decide(r)
    <3>1. /\ x.pc = "decide" /\ Diagnoses(size)!Count({D}) /\ fallback' = fallback
          /\ \/ req' = [req EXCEPT ![r].pc = "ask"] \/ req' = [req EXCEPT ![r].pc = "rules"]
      BY <2>1 DEF Diagnoses!Decide
    <3>2. QED
      BY <3>1
  <2>2. CASE Diagnoses(size)!Ask(r)
    <3>1. /\ x.pc = "ask" /\ Diagnoses(size)!Count({L})
          /\ \/ req' = [req EXCEPT ![r].pc = "store"] /\ fallback' = fallback + 0
             \/ req' = [req EXCEPT ![r].pc = "rules"] /\ fallback' = fallback + 1
      BY <2>2 DEF Diagnoses!Ask
    <3>2. QED
      BY <3>1
  <2>3. CASE Diagnoses(size)!Rules(r)
    BY <2>3 DEF Diagnoses!Rules
  <2>4. QED
    BY <2>1, <2>2, <2>3
<1> DEFINE y == [x EXCEPT !.pc = pc]
<1>4. req' = [req EXCEPT ![r] = y]
  BY <1>1, <1>3
<1>5. /\ y \in DRequest /\ y.pc = pc /\ y.kind = x.kind /\ y.n = x.n
  BY <1>1, <1>3 DEF DRequest
<1> HIDE DEF y
<1>6. SerialOK(y)
  BY <1>3, <1>5 DEF SerialOK
<1>7. /\ RequestInv(size)'
      /\ req'[r] = y /\ \A q \in size.requests : q # r => req'[q] = req[q]
  BY <1>4, <1>5, <1>6, RequestGoes DEF DiagnosisInv
<1>8. StoreInv(size)'
  <2>1. \A q \in size.requests : /\ Writes(req'[q]) <=> Writes(req[q])
                                 /\ Writes(req[q]) => req'[q].n = req[q].n
                                 /\ req'[q].pc = "persist" <=> req[q].pc = "persist"
    <3>1. TAKE q \in size.requests
    <3>2. CASE q = r
      BY <1>2, <1>3, <1>5, <1>7, <3>2 DEF Writes
    <3>3. CASE q # r
      BY <1>7, <3>3
    <3>4. QED
      BY <3>2, <3>3
  <2>2. QED
    BY <1>2, <2>1, SameStores DEF DiagnosisInv
<1>9. CountInv(size)'
  <2>1. PICK c \in Nat : c = Cardinality(Counted(size))
    BY <1>7, CountedMoves
  <2>2. \A k \in StatKeys : counter[k] \in Nat
    BY DEF DiagnosisInv, CountInv, Counters
  <2>3. PICK d \in Nat, l \in Nat, u \in Nat : d = counter[D] /\ l = counter[L] /\ u = counter[R]
    BY <2>2 DEF StatKeys
  <2>4. counter' = [k \in StatKeys |-> counter[k] + (IF k \in keys THEN 1 ELSE 0)]
    BY <1>3, SameKeys DEF Diagnoses!Count
  <2>5. counter' \in Counters
    BY <2>2, <2>4 DEF Counters
  <2>6. /\ counter'[D] = d + (IF D \in keys THEN 1 ELSE 0)
        /\ counter'[L] = l + (IF L \in keys THEN 1 ELSE 0)
        /\ counter'[R] = u + (IF R \in keys THEN 1 ELSE 0)
    BY <2>3, <2>4 DEF StatKeys
  <2>7. PICK f \in Nat : f = fallback
    BY DEF DiagnosisInv, CountInv
  <2>8. fallback' \in Nat
    BY <1>3, <2>7
  <2>9. ASSUME crashes = 0
        PROVE  counter'[L] + counter'[R] + Cardinality(Counted(size)') = counter'[D] + fallback'
    <3>1. l + u + c = d + f
      BY <2>1, <2>3, <2>7, <2>9 DEF DiagnosisInv, CountInv
    <3>2. CASE x.pc = "decide"
      <4>1. keys = {D} /\ fallback' = f /\ Cardinality(Counted(size)') = c + 1
        BY <1>3, <1>5, <1>7, <2>1, <2>7, <3>2, CountedMoves DEF Counting
      <4>2. counter'[D] = d + 1 /\ counter'[L] = l /\ counter'[R] = u
        BY <2>6, <4>1
      <4>3. QED
        BY <3>1, <4>1, <4>2
    <3>3. CASE x.pc = "ask" /\ pc = "store"
      <4>1. keys = {L} /\ fallback' = f /\ Cardinality(Counted(size)') = c - 1
        BY <1>3, <1>5, <1>7, <2>1, <2>7, <3>3, CountedMoves DEF Counting
      <4>2. counter'[D] = d /\ counter'[L] = l + 1 /\ counter'[R] = u
        BY <2>6, <4>1
      <4>3. QED
        BY <3>1, <4>1, <4>2
    <3>4. CASE x.pc = "ask" /\ pc = "rules"
      <4>1. keys = {L} /\ fallback' = f + 1 /\ Cardinality(Counted(size)') = c
        BY <1>3, <1>5, <1>7, <2>1, <2>7, <3>4, CountedMoves DEF Counting
      <4>2. counter'[D] = d /\ counter'[L] = l + 1 /\ counter'[R] = u
        BY <2>6, <4>1
      <4>3. QED
        BY <3>1, <4>1, <4>2
    <3>5. CASE x.pc = "rules"
      <4>1. keys = {R} /\ fallback' = f /\ Cardinality(Counted(size)') = c - 1
        BY <1>3, <1>5, <1>7, <2>1, <2>7, <3>5, CountedMoves DEF Counting
      <4>2. counter'[D] = d /\ counter'[L] = l /\ counter'[R] = u + 1
        BY <2>6, <4>1
      <4>3. QED
        BY <3>1, <4>1, <4>2
    <3>6. QED
      BY <1>3, <3>2, <3>3, <3>4, <3>5
  <2>10. QED
    BY <1>2, <2>5, <2>8, <2>9 DEF DiagnosisInv, CountInv
<1>10. QED
  BY <1>7, <1>8, <1>9 DEF DiagnosisInv

LEMMA ImageFinite ==
  ASSUME NEW S, IsFiniteSet(S), NEW f
  PROVE  IsFiniteSet({f[s] : s \in S})
<1> DEFINE T == {f[s] : s \in S}
           g == [s \in S |-> f[s]]
<1>1. g \in Surjection(S, T)
  BY DEF Surjection
<1>2. QED
  BY <1>1, FS_Surjection

\* While results are not mixed, all those on their way are the same.
LEMMA OneWritten ==
  ASSUME NEW size, Diagnoses(size)!Mix, ~mixed', IsFiniteSet(size.requests),
         IsFiniteSet(jobs')
  PROVE  /\ \A q, r \in size.requests : Writes(req'[q]) /\ Writes(req'[r]) => req'[q].n = req'[r].n
         /\ \A i, j \in jobs' : i.n = j.n
         /\ \A r \in size.requests, j \in jobs' : Writes(req'[r]) => req'[r].n = j.n
<1> DEFINE writers == {q \in size.requests : Writes(req'[q])}
           f == [q \in writers |-> req'[q].n]
           g == [j \in jobs' |-> j.n]
           W == {f[q] : q \in writers} \cup {g[j] : j \in jobs'}
<1>1. Diagnoses(size)!Writing' = W
  BY DEF Diagnoses!Writing, Diagnoses!Diagnosing, Writes
<1>2. IsFiniteSet(W)
  <2>1. IsFiniteSet(writers)
    BY FS_Subset
  <2> HIDE DEF writers, f, g
  <2>2. IsFiniteSet({f[q] : q \in writers}) /\ IsFiniteSet({g[j] : j \in jobs'})
    BY <2>1, ImageFinite
  <2>3. QED
    BY <2>2, FS_Union
<1>3. ~(Cardinality(W) > 1)
  <2>1. Diagnoses(size)!Cardinality(W) = Cardinality(W)
    BY DEF Diagnoses!Cardinality, Cardinality
  <2>2. ~(Diagnoses(size)!Cardinality(Diagnoses(size)!Writing') > 1)
    BY DEF Diagnoses!Mix
  <2> HIDE DEF W
  <2>3. QED
    BY <1>1, <2>1, <2>2
<1>4. \A m, n \in W : m = n
  <2>1. SUFFICES ASSUME NEW m \in W, NEW n \in W, m # n PROVE FALSE
    OBVIOUS
  <2> HIDE DEF W
  <2>2. IsFiniteSet({m}) /\ Cardinality({m}) = 1
    BY FS_Singleton
  <2>3. Cardinality({m} \cup {n}) = 2
    <3>1. n \notin {m}
      BY <2>1
    <3>2. Cardinality({m} \cup {n}) = Cardinality({m}) + 1
      BY <2>2, <3>1, FS_AddElement
    <3>3. QED
      BY <2>2, <3>2
  <2>4. Cardinality({m} \cup {n}) <= Cardinality(W)
    BY <1>2, <2>1, FS_Subset
  <2>5. Cardinality(W) \in Nat
    BY <1>2, FS_CardinalityType
  <2>6. QED
    BY <1>3, <2>3, <2>4, <2>5
<1>5. (\A q \in size.requests : Writes(req'[q]) => req'[q].n \in W) /\ \A j \in jobs' : j.n \in W
  OBVIOUS
<1> HIDE DEF W
<1>6. QED
  BY <1>4, <1>5

\* A row in PostgreSQL is cached, or there is none.
LEMMA LookupRowKeeps ==
  ASSUME NEW size, DiagnosisInv(size), IsFiniteSet(size.requests), NEW r \in size.requests,
         Diagnoses(size)!Lookup(r)
  PROVE  DiagnosisInv(size)'
<1> DEFINE x == req[r]
<1>1. x \in DRequest /\ SerialOK(x) /\ req \in [size.requests -> DRequest]
  BY DEF DiagnosisInv, RequestInv
<1>2. /\ x.pc = "lookup" /\ Diagnoses(size)!Mix
      /\ UNCHANGED <<redis, pg, began, counter, fallback, lost, crashes>>
  BY DEF Diagnoses!Lookup
<1>3. PICK y \in DRequest :
        /\ req' = [req EXCEPT ![r] = y]
        /\ \/ /\ y.pc = "idle" /\ y.kind = "run" /\ pg # 0
              /\ jobs' = jobs \cup {[to |-> "redis", n |-> pg]}
           \/ y.pc = "begin" /\ y.kind = x.kind /\ y.uid = x.uid /\ y.context = x.context
              /\ UNCHANGED jobs
  <2>1. CASE pg # 0
    <3>1. /\ req' = [req EXCEPT ![r] = Diagnoses(size)!Idle]
          /\ jobs' = jobs \cup {[to |-> "redis", n |-> pg]}
      BY <2>1 DEF Diagnoses!Lookup, Diagnoses!Answer
    <3>2. Diagnoses(size)!Idle \in DRequest /\ Diagnoses(size)!Idle.pc = "idle"
          /\ Diagnoses(size)!Idle.kind = "run"
      BY DEF Diagnoses!Idle, DRequest
    <3>3. QED
      BY <2>1, <3>1, <3>2
  <2>2. CASE pg = 0
    <3> DEFINE y == [x EXCEPT !.pc = "begin"]
    <3>1. req' = [req EXCEPT ![r] = y] /\ UNCHANGED jobs
      BY <1>1, <2>2 DEF Diagnoses!Lookup
    <3>2. y \in DRequest /\ y.pc = "begin" /\ y.kind = x.kind /\ y.uid = x.uid
          /\ y.context = x.context
      BY <1>1 DEF DRequest
    <3> HIDE DEF y
    <3>3. QED
      BY <3>1, <3>2
  <2>3. QED
    BY <2>1, <2>2
<1>4. SerialOK(y)
  BY <1>1, <1>2, <1>3 DEF SerialOK
<1>5. /\ RequestInv(size)'
      /\ req'[r] = y /\ \A q \in size.requests : q # r => req'[q] = req[q]
  BY <1>3, <1>4, RequestGoes DEF DiagnosisInv
<1>6. SamePhase(x, y)
  BY <1>2, <1>3 DEF SamePhase, Counting, Writes
<1>7. \A q \in size.requests : SamePhase(req[q], req'[q])
  <2>1. TAKE q \in size.requests
  <2>2. CASE q = r
    BY <1>5, <1>6, <2>2
  <2>3. CASE q # r
    BY <1>5, <2>3 DEF SamePhase
  <2>4. QED
    BY <2>2, <2>3
<1>8. CountInv(size)'
  BY <1>2, <1>7, SameCount DEF DiagnosisInv, SamePhase
<1>9. pg \in Nat /\ jobs \subseteq DJob /\ IsFiniteSet(jobs)
  BY DEF DiagnosisInv, StoreInv
<1>10. jobs' \subseteq DJob /\ IsFiniteSet(jobs')
  <2>1. [to |-> "redis", n |-> pg] \in DJob
    BY <1>9 DEF DJob
  <2>2. QED
    BY <1>3, <1>9, <2>1, FS_AddElement
<1>11. \A j \in jobs' : j \in jobs \/ (j.to = "redis" /\ j.n = pg)
  BY <1>3
<1>12. \A j \in jobs : j \in jobs'
  BY <1>3
<1>13. ASSUME lost' = 0, ~mixed' PROVE Newest(size)'
  <2>1. Newest(size)
    BY <1>2, <1>13 DEF DiagnosisInv, StoreInv, Diagnoses!Mix
  <2>2. \A j \in jobs' : j.n = began
    <3>1. TAKE j \in jobs'
    <3>2. CASE j \in jobs
      BY <2>1, <3>2 DEF Newest
    <3>3. CASE j.n = pg
      <4>1. CASE \E q \in size.requests : Writes(req[q])
        <5>1. PICK q \in size.requests : Writes(req[q])
          BY <4>1
        <5>2. Writes(req'[q]) /\ req'[q].n = began
          BY <1>7, <2>1, <5>1 DEF Newest, SamePhase
        <5>3. QED
          BY <1>2, <1>10, <1>13, <5>2, OneWritten
      <4>2. CASE \E i \in jobs : i.to = "pg"
        <5>1. PICK i \in jobs' : i.n = began
          BY <1>12, <2>1, <4>2 DEF Newest
        <5>2. QED
          BY <1>2, <1>10, <1>13, <5>1, OneWritten
      <4>3. QED
        BY <2>1, <3>3, <4>1, <4>2 DEF Newest
    <3>4. QED
      BY <1>11, <3>2, <3>3
  <2>3. \A q \in size.requests : /\ Writes(req[q])' <=> Writes(req[q])
                                 /\ Writes(req[q]) => req'[q].n = req[q].n
                                 /\ req'[q].pc = "persist" <=> req[q].pc = "persist"
    BY <1>7 DEF SamePhase, Writes
  <2>4. (\E j \in jobs' : j.to = "pg") <=> \E j \in jobs : j.to = "pg"
    BY <1>11, <1>12
  <2>5. QED
    BY <1>2, <2>1, <2>2, <2>3, <2>4 DEF Newest
<1>14. StoreInv(size)'
  BY <1>2, <1>10, <1>13 DEF DiagnosisInv, StoreInv
<1>15. QED
  BY <1>5, <1>8, <1>14 DEF DiagnosisInv

\* A diagnosis begins: either nothing was on its way, or results are mixed.
LEMMA BeginKeeps ==
  ASSUME NEW size, DiagnosisInv(size), IsFiniteSet(size.requests), NEW r \in size.requests,
         Diagnoses(size)!Begin(r)
  PROVE  DiagnosisInv(size)'
<1> DEFINE x == req[r]
<1>1. x \in DRequest /\ SerialOK(x) /\ req \in [size.requests -> DRequest]
  BY DEF DiagnosisInv, RequestInv
<1>2. /\ x.pc = "begin" /\ began' = began + 1 /\ Diagnoses(size)!Mix
      /\ UNCHANGED <<redis, pg, jobs, counter, fallback, lost, crashes>>
  BY DEF Diagnoses!Begin
<1>3. PICK pc \in {"collect", "decide"}, parts \in {DParts, {}} :
        /\ req' = [req EXCEPT ![r].n = began + 1, ![r].pc = pc, ![r].parts = parts]
        /\ pc = "collect" => parts = DParts
  BY DEF Diagnoses!Begin, Diagnoses!Parts, DParts
<1> DEFINE y == [x EXCEPT !.n = began + 1, !.pc = pc, !.parts = parts]
<1>4. req' = [req EXCEPT ![r] = y]
  BY <1>1, <1>3
<1>5. began \in Nat /\ began + 1 \in Nat /\ began + 1 # began
  BY DEF DiagnosisInv, StoreInv
<1>6. /\ y \in DRequest /\ y.pc = pc /\ y.kind = x.kind /\ y.n = began + 1
      /\ y.uid = x.uid /\ y.context = x.context /\ y.parts = parts
  BY <1>1, <1>5 DEF DRequest
<1> HIDE DEF y
<1>7. SerialOK(y)
  BY <1>1, <1>2, <1>3, <1>6 DEF SerialOK, DRequest
<1>8. /\ RequestInv(size)'
      /\ req'[r] = y /\ \A q \in size.requests : q # r => req'[q] = req[q]
  BY <1>4, <1>6, <1>7, RequestGoes DEF DiagnosisInv
<1>9. CountInv(size)'
  <2>1. \A q \in size.requests : Counting(req'[q]) <=> Counting(req[q])
    BY <1>2, <1>6, <1>8 DEF Counting
  <2>2. QED
    BY <1>2, <2>1, SameCount DEF DiagnosisInv
<1>10. IsFiniteSet(jobs') /\ Writes(req'[r]) /\ req'[r].n = began'
  BY <1>2, <1>6, <1>8 DEF DiagnosisInv, StoreInv, Writes
<1>11. ASSUME lost' = 0, ~mixed' PROVE Newest(size)'
  <2>1. Newest(size)
    BY <1>2, <1>11 DEF DiagnosisInv, StoreInv, Diagnoses!Mix
  <2>2. ASSUME NEW q \in size.requests, Writes(req'[q]) PROVE q = r
    <3>1. req'[q].n = began + 1
      BY <1>2, <1>10, <1>11, <2>2, OneWritten
    <3>2. q # r => req'[q].n = began
      BY <1>8, <2>1, <2>2 DEF Newest
    <3>3. QED
      BY <1>5, <3>1, <3>2
  <2>3. jobs = {}
    <3>1. SUFFICES ASSUME NEW j \in jobs PROVE FALSE
      OBVIOUS
    <3>2. j.n = began /\ j \in jobs'
      BY <1>2, <2>1 DEF Newest
    <3>3. j.n = began + 1
      BY <1>2, <1>10, <1>11, <3>2, OneWritten
    <3>4. QED
      BY <1>5, <3>2, <3>3
  <2>4. pg = began
    <3>1. \A q \in size.requests : ~Writes(req[q])
      BY <1>2, <1>8, <2>2 DEF Writes
    <3>2. QED
      BY <2>1, <2>3, <3>1 DEF Newest
  <2>5. redis \in {0, pg}
    BY <2>1, <2>4 DEF Newest
  <2>6. \A q \in size.requests : req'[q].pc # "persist"
    BY <1>6, <1>8, <2>2 DEF Writes
  <2>7. \A q \in size.requests : Writes(req[q])' => req'[q].n = began'
    BY <1>10, <2>2 DEF Writes
  <2>8. Writes(req[r])'
    BY <1>10 DEF Writes
  <2>9. QED
    BY <1>2, <2>3, <2>5, <2>6, <2>7, <2>8 DEF Newest
<1>12. StoreInv(size)'
  BY <1>2, <1>5, <1>11 DEF DiagnosisInv, StoreInv
<1>13. QED
  BY <1>8, <1>9, <1>12 DEF DiagnosisInv

\* The result is cached, and on its way to PostgreSQL.
LEMMA StoreKeeps ==
  ASSUME NEW size, DiagnosisInv(size), NEW r \in size.requests, Diagnoses(size)!Store(r)
  PROVE  DiagnosisInv(size)'
<1> DEFINE x == req[r]
<1>1. x \in DRequest /\ SerialOK(x) /\ req \in [size.requests -> DRequest]
  BY DEF DiagnosisInv, RequestInv
<1>2. /\ x.pc = "store" /\ UNCHANGED <<pg, began, counter, fallback, mixed, crashes>>
      /\ \/ redis' = x.n /\ lost' = lost
         \/ redis' = redis /\ lost' = lost + 1
  BY DEF Diagnoses!Store
<1>3. x.n \in Nat
  BY <1>1 DEF DRequest
<1>4. PICK y \in DRequest :
        /\ req' = [req EXCEPT ![r] = y]
        /\ \/ y.pc = "persist" /\ y.n = x.n /\ UNCHANGED jobs
           \/ y.pc = "idle" /\ jobs' = jobs \cup {[to |-> "pg", n |-> x.n]}
  <2>1. CASE x.kind = "auto"
    <3> DEFINE y == [x EXCEPT !.pc = "persist"]
    <3>1. req' = [req EXCEPT ![r] = y] /\ UNCHANGED jobs
      BY <1>1, <2>1 DEF Diagnoses!Store
    <3>2. y \in DRequest /\ y.pc = "persist" /\ y.n = x.n
      BY <1>1 DEF DRequest
    <3> HIDE DEF y
    <3>3. QED
      BY <3>1, <3>2
  <2>2. CASE x.kind # "auto"
    <3>1. /\ req' = [req EXCEPT ![r] = Diagnoses(size)!Idle]
          /\ jobs' = jobs \cup {[to |-> "pg", n |-> x.n]}
      BY <2>2 DEF Diagnoses!Store, Diagnoses!Answer
    <3>2. Diagnoses(size)!Idle \in DRequest /\ Diagnoses(size)!Idle.pc = "idle"
      BY DEF Diagnoses!Idle, DRequest
    <3>3. QED
      BY <3>1, <3>2
  <2>3. QED
    BY <2>1, <2>2
<1>5. SerialOK(y)
  BY <1>4 DEF SerialOK
<1>6. /\ RequestInv(size)'
      /\ req'[r] = y /\ \A q \in size.requests : q # r => req'[q] = req[q]
  BY <1>4, <1>5, RequestGoes DEF DiagnosisInv
<1>7. CountInv(size)'
  <2>1. \A q \in size.requests : Counting(req'[q]) <=> Counting(req[q])
    BY <1>2, <1>4, <1>6 DEF Counting
  <2>2. QED
    BY <1>2, <2>1, SameCount DEF DiagnosisInv
<1>8. /\ began \in Nat /\ lost \in Nat /\ pg \in Nat /\ redis \in Nat /\ jobs \subseteq DJob
      /\ IsFiniteSet(jobs)
  BY DEF DiagnosisInv, StoreInv
<1>9. jobs' \subseteq DJob /\ IsFiniteSet(jobs')
  <2> DEFINE job == [to |-> "pg", n |-> x.n]
  <2>1. job \in DJob
    BY <1>3 DEF DJob
  <2>2. jobs' = jobs \/ jobs' = jobs \cup {job}
    BY <1>4
  <2> HIDE DEF job
  <2>3. IsFiniteSet(jobs \cup {job})
    BY <1>8, FS_AddElement
  <2>4. QED
    BY <1>8, <2>1, <2>2, <2>3
<1>10. lost' \in Nat /\ redis' \in Nat /\ (lost' = 0 => lost = 0 /\ redis' = x.n)
  BY <1>2, <1>3, <1>8
<1>11. ASSUME lost' = 0, ~mixed' PROVE Newest(size)'
  <2>1. Newest(size)
    BY <1>2, <1>10, <1>11 DEF DiagnosisInv, StoreInv
  <2>2. x.n = began /\ redis' = began
    BY <1>2, <1>10, <1>11, <2>1 DEF Newest, Writes
  <2>3. \A q \in size.requests : Writes(req[q])' => req'[q].n = began
    BY <1>4, <1>6, <2>1, <2>2 DEF Newest, Writes
  <2>4. \A j \in jobs' : j.n = began
    BY <1>4, <2>1, <2>2 DEF Newest
  <2>5. (\E q \in size.requests : Writes(req[q])') \/ \E j \in jobs' : j.to = "pg"
    <3>1. CASE y.pc = "persist"
      <4>1. Writes(req[r])'
        BY <1>6, <3>1 DEF Writes
      <4>2. QED
        BY <4>1
    <3>2. CASE jobs' = jobs \cup {[to |-> "pg", n |-> x.n]}
      <4>1. [to |-> "pg", n |-> x.n] \in jobs' /\ [to |-> "pg", n |-> x.n].to = "pg"
        BY <3>2
      <4>2. QED
        BY <4>1
    <3>3. QED
      BY <1>4, <3>1, <3>2
  <2>6. QED
    BY <1>2, <2>2, <2>3, <2>4, <2>5 DEF Newest
<1>12. StoreInv(size)'
  BY <1>2, <1>8, <1>9, <1>10, <1>11 DEF StoreInv
<1>13. QED
  BY <1>6, <1>7, <1>12 DEF DiagnosisInv

LEMMA PersistKeeps ==
  ASSUME NEW size, DiagnosisInv(size), NEW r \in size.requests, Diagnoses(size)!Persist(r)
  PROVE  DiagnosisInv(size)'
<1> DEFINE x == req[r]
           y == Diagnoses(size)!Idle
<1>1. x \in DRequest
  BY DEF DiagnosisInv, RequestInv
<1>2. /\ x.pc = "persist" /\ UNCHANGED <<redis, jobs, began, counter, fallback, mixed, crashes>>
      /\ req' = [req EXCEPT ![r] = y]
      /\ \/ pg' = x.n /\ lost' = lost
         \/ pg' = pg /\ lost' = lost + 1
  BY DEF Diagnoses!Persist, Diagnoses!Answer, Diagnoses!Upsert
<1>3. x.n \in Nat
  BY <1>1 DEF DRequest
<1>4. y \in DRequest /\ y.pc = "idle"
  BY DEF Diagnoses!Idle, DRequest
<1> HIDE DEF y
<1>5. SerialOK(y)
  BY <1>4 DEF SerialOK
<1>6. /\ RequestInv(size)'
      /\ req'[r] = y /\ \A q \in size.requests : q # r => req'[q] = req[q]
  BY <1>2, <1>4, <1>5, RequestGoes DEF DiagnosisInv
<1>7. CountInv(size)'
  <2>1. \A q \in size.requests : Counting(req'[q]) <=> Counting(req[q])
    BY <1>2, <1>4, <1>6 DEF Counting
  <2>2. QED
    BY <1>2, <2>1, SameCount DEF DiagnosisInv
<1>8. /\ began \in Nat /\ lost \in Nat /\ pg \in Nat /\ redis \in Nat /\ jobs \subseteq DJob
      /\ IsFiniteSet(jobs)
  BY DEF DiagnosisInv, StoreInv
<1>9. lost' \in Nat /\ pg' \in Nat /\ (lost' = 0 => lost = 0 /\ pg' = x.n)
  BY <1>2, <1>3, <1>8
<1>10. ASSUME lost' = 0, ~mixed' PROVE Newest(size)'
  <2>1. Newest(size)
    BY <1>2, <1>9, <1>10 DEF DiagnosisInv, StoreInv
  <2>2. pg' = began /\ redis \in {0, began}
    BY <1>2, <1>9, <1>10, <2>1 DEF Newest, Writes
  <2>3. \A q \in size.requests : Writes(req[q])' => req'[q].n = began
    BY <1>4, <1>6, <2>1 DEF Newest, Writes
  <2>4. QED
    BY <1>2, <2>1, <2>2, <2>3 DEF Newest
<1>11. StoreInv(size)'
  BY <1>2, <1>8, <1>9, <1>10 DEF StoreInv
<1>12. QED
  BY <1>6, <1>7, <1>11 DEF DiagnosisInv

LEMMA JobKeeps ==
  ASSUME NEW size, DiagnosisInv(size), NEW j \in jobs, Diagnoses(size)!Job(j)
  PROVE  DiagnosisInv(size)'
<1>1. /\ jobs' = jobs \ {j}
      /\ UNCHANGED <<req, began, counter, fallback, mixed, crashes>>
      /\ \/ j.to = "pg" /\ pg' = j.n /\ redis' = redis /\ lost' = lost
         \/ j.to = "redis" /\ redis' = j.n /\ pg' = pg /\ lost' = lost
         \/ lost' = lost + 1 /\ redis' = redis /\ pg' = pg
  BY DEF Diagnoses!Job, Diagnoses!Upsert
<1>2. RequestInv(size)'
  BY <1>1 DEF DiagnosisInv, RequestInv, SerialOK
<1>3. CountInv(size)'
  BY <1>1, SameCount DEF DiagnosisInv
<1>4. /\ began \in Nat /\ lost \in Nat /\ pg \in Nat /\ redis \in Nat /\ jobs \subseteq DJob
      /\ IsFiniteSet(jobs) /\ j.n \in Nat
  BY DEF DiagnosisInv, StoreInv, DJob
<1>5. jobs' \subseteq DJob /\ IsFiniteSet(jobs')
  BY <1>1, <1>4, FS_RemoveElement
<1>6. lost' \in Nat /\ redis' \in Nat /\ pg' \in Nat /\ (lost' = 0 => lost = 0)
  BY <1>1, <1>4
<1>7. ASSUME lost' = 0, ~mixed' PROVE Newest(size)'
  <2>1. Newest(size)
    BY <1>1, <1>6, <1>7 DEF DiagnosisInv, StoreInv
  <2>2. j.n = began
    BY <2>1 DEF Newest
  <2>3. \A q \in size.requests : Writes(req[q])' => req'[q].n = began
    BY <1>1, <2>1 DEF Newest, Writes
  <2>4. \A i \in jobs' : i.n = began
    BY <1>1, <2>1 DEF Newest
  <2>5. lost' # lost + 1
    BY <1>4, <1>6, <1>7
  <2>6. CASE j.to = "pg" /\ pg' = j.n /\ redis' = redis
    <3>1. redis \in {0, began}
      BY <2>1, <2>6 DEF Newest
    <3>2. QED
      BY <1>1, <2>2, <2>3, <2>4, <2>6, <3>1 DEF Newest
  <2>7. CASE j.to = "redis" /\ redis' = j.n /\ pg' = pg
    <3>1. \A i \in jobs : i.to = "pg" => i \in jobs'
      BY <1>1, <2>7
    <3>2. \A q \in size.requests : Writes(req[q]) => Writes(req[q])'
      BY <1>1 DEF Writes
    <3>3. \/ pg' = began' \/ \E q \in size.requests : Writes(req[q])'
          \/ \E i \in jobs' : i.to = "pg"
      BY <1>1, <2>1, <2>7, <3>1, <3>2 DEF Newest
    <3>4. QED
      BY <1>1, <2>2, <2>3, <2>4, <2>7, <3>3 DEF Newest
  <2>8. QED
    BY <1>1, <2>5, <2>6, <2>7
<1>8. StoreInv(size)'
  BY <1>1, <1>4, <1>5, <1>6, <1>7 DEF StoreInv
<1>9. QED
  BY <1>2, <1>3, <1>8 DEF DiagnosisInv

\* A restart loses what was on its way, or there was nothing.
LEMMA DiagnosisRestartKeeps ==
  ASSUME NEW size, DiagnosisInv(size), TotalsInv, Diagnoses(size)!Restart
  PROVE  DiagnosisInv(size)'
<1>1. /\ req' = [r \in size.requests |-> Diagnoses(size)!Idle] /\ jobs' = {}
      /\ crashes' = crashes + 1 /\ fallback' = 0
      /\ UNCHANGED <<redis, pg, began, mixed>>
      /\ counter' = totals \/ counter' = Diagnoses(size)!Zero
      /\ \/ lost' = lost + 1
         \/ lost' = lost /\ jobs = {} /\ \A r \in size.requests : ~Writes(req[r])
  BY DEF Diagnoses!Restart, Diagnoses!Diagnosing, Writes
<1>2. Diagnoses(size)!Idle \in DRequest /\ Diagnoses(size)!Idle.pc = "idle"
  BY DEF Diagnoses!Idle, DRequest
<1>3. \A r \in size.requests : req'[r].pc = "idle"
  BY <1>1, <1>2
<1>4. RequestInv(size)'
  <2>1. req' \in [size.requests -> DRequest]
    BY <1>1, <1>2
  <2>2. \A r \in size.requests : SerialOK(req[r])'
    BY <1>3 DEF SerialOK
  <2>3. QED
    BY <2>1, <2>2 DEF RequestInv
<1>5. CountInv(size)'
  <2>1. counter' \in Counters
    BY <1>1, SameKeys DEF TotalsInv, Diagnoses!Zero, Counters
  <2>2. crashes' \in Nat /\ crashes' # 0
    BY <1>1 DEF DiagnosisInv, CountInv
  <2>3. QED
    BY <1>1, <2>1, <2>2 DEF CountInv
<1>6. lost \in Nat /\ lost' \in Nat /\ (lost' = 0 => lost' = lost)
  BY <1>1 DEF DiagnosisInv, StoreInv
<1>7. ASSUME lost' = 0, ~mixed' PROVE Newest(size)'
  <2>1. Newest(size)
    BY <1>1, <1>6, <1>7 DEF DiagnosisInv, StoreInv
  <2>2. jobs = {} /\ \A r \in size.requests : ~Writes(req[r])
    BY <1>1, <1>6, <1>7
  <2>3. pg = began /\ redis \in {0, pg}
    BY <2>1, <2>2 DEF Newest
  <2>4. \A r \in size.requests : ~Writes(req[r])'
    BY <1>3 DEF Writes
  <2>5. QED
    BY <1>1, <1>3, <2>3, <2>4 DEF Newest
<1>8. StoreInv(size)'
  BY <1>1, <1>6, <1>7, FS_EmptySet DEF DiagnosisInv, StoreInv
<1>9. QED
  BY <1>4, <1>5, <1>8 DEF DiagnosisInv

LEMMA DiagnosisStep ==
  ASSUME NEW size, IsFiniteSet(size.requests), DiagnosisInv(size), TotalsInv,
         Diagnoses(size)!Next \/ UNCHANGED diagnosisVars
  PROVE  DiagnosisInv(size)'
<1>1. ASSUME UNCHANGED <<req, pg, jobs, began, counter, fallback, mixed, lost, crashes>>,
             redis' \in {redis, 0}
      PROVE  DiagnosisInv(size)'
  <2>1. RequestInv(size)'
    BY <1>1 DEF DiagnosisInv, RequestInv, SerialOK
  <2>2. CountInv(size)'
    BY <1>1, SameCount DEF DiagnosisInv
  <2>3. StoreInv(size)'
    BY <1>1, SameStores DEF DiagnosisInv
  <2>4. QED
    BY <2>1, <2>2, <2>3 DEF DiagnosisInv
<1>2. CASE UNCHANGED diagnosisVars
  BY <1>1, <1>2 DEF diagnosisVars
<1>3. ASSUME NEW r \in size.requests,
             \/ Diagnoses(size)!Run(r) \/ Diagnoses(size)!Rerun(r) \/ Diagnoses(size)!Auto(r)
             \/ Diagnoses(size)!Step(r)
      PROVE  DiagnosisInv(size)'
  <2>1. CASE Diagnoses(size)!Step(r)
    BY <2>1, CollectKeeps, BeginKeeps, CountsKeep, StoreKeeps, PersistKeeps, LookupRowKeeps
       DEF Diagnoses!Step, Diagnoses!Parts, DParts
  <2>2. QED
    BY <1>3, <2>1, ArrivalsKeep
<1>4. ASSUME NEW j \in jobs, Diagnoses(size)!Job(j) PROVE DiagnosisInv(size)'
  BY <1>4, JobKeeps
<1>5. CASE Diagnoses(size)!Resolved
  BY <1>1, <1>5 DEF Diagnoses!Resolved
<1>6. CASE Diagnoses(size)!ReadStat
  BY <1>1, <1>6 DEF Diagnoses!ReadStat
<1>7. CASE Diagnoses(size)!WriteStat
  <2>1. /\ UNCHANGED <<req, pg, jobs, began, counter, fallback, mixed, crashes, redis>>
        /\ lost' \in {lost, lost + 1}
    BY <1>7 DEF Diagnoses!WriteStat
  <2>2. RequestInv(size)'
    BY <2>1 DEF DiagnosisInv, RequestInv, SerialOK
  <2>3. CountInv(size)'
    BY <2>1, SameCount DEF DiagnosisInv
  <2>4. StoreInv(size)'
    BY <2>1, SameStores DEF DiagnosisInv
  <2>5. QED
    BY <2>2, <2>3, <2>4 DEF DiagnosisInv
<1>8. QED
  BY <1>2, <1>3, <1>4, <1>5, <1>6, <1>7, DiagnosisRestartKeeps DEF Diagnoses!Next

LEMMA DiagnosisSafe ==
  ASSUME NEW size, DiagnosisInv(size)
  PROVE  /\ Diagnoses(size)!StoresAgree /\ Diagnoses(size)!SameAsSerial
         /\ Diagnoses(size)!CountedOnce
<1>1. Diagnoses(size)!StoresAgree
  <2>1. SUFFICES ASSUME Diagnoses(size)!Quiet, lost = 0, ~mixed
                 PROVE  redis \in {0, pg} /\ pg = began
    BY DEF Diagnoses!StoresAgree
  <2>2. jobs = {} /\ \A r \in size.requests : ~Writes(req[r])
    BY <2>1 DEF Diagnoses!Quiet, Diagnoses!Diagnosing, Writes
  <2>3. QED
    BY <2>1, <2>2 DEF DiagnosisInv, StoreInv, Newest
<1>2. Diagnoses(size)!SameAsSerial
  BY DEF Diagnoses!SameAsSerial, DiagnosisInv, RequestInv, SerialOK, Diagnoses!Parts, DParts
<1>3. Diagnoses(size)!CountedOnce
  <2>1. {r \in size.requests : req[r].pc = "ask" \/ req[r].pc = "rules"} = Counted(size)
    BY DEF Counted, Counting
  <2>2. Diagnoses(size)!Cardinality(Counted(size)) = Cardinality(Counted(size))
    BY DEF Diagnoses!Cardinality, Cardinality
  <2>3. QED
    BY <2>1, <2>2 DEF Diagnoses!CountedOnce, DiagnosisInv, CountInv
<1>4. QED
  BY <1>1, <1>2, <1>3

\* However requests and the goroutines of their collectors interleave, the two
\* stores agree on the newest result when nothing is being written, the context
\* is that of a serial collection, and each diagnosis is counted once, for the
\* path that made it (Engine.Diagnose, ContextCollector.Collect, RunDiagnosis).
THEOREM DiagnosesAlwaysSound == RemediesSpec => []DiagnosesSound
<1> DEFINE Inv == part = "twice" => DiagnosisInv(Doubles) /\ TotalsInv
<1>1. RemediesInit => Inv
  BY DiagnosisStart, TotalsStart, RemediesAssumption DEF RemediesInit, DiagnosisInv
<1>2. Inv /\ [RemediesNext]_allVars => Inv'
  <2>1. SUFFICES ASSUME Inv, [RemediesNext]_allVars, part' = "twice"
                 PROVE  DiagnosisInv(Doubles)' /\ TotalsInv'
    OBVIOUS
  <2>2. part = "twice"
    BY <2>1 DEF RemediesNext, allVars
  <2>3. Diagnoses(Doubles)!Next \/ UNCHANGED diagnosisVars
    BY <2>1, <2>2 DEF RemediesNext, allVars
  <2>4. QED
    BY <2>1, <2>2, <2>3, DiagnosisStep, TotalsStep, RemediesAssumption
<1>3. Inv => DiagnosesSound
  BY DiagnosisSafe DEF DiagnosesSound
<1> HIDE DEF Inv
<1>4. QED
  BY <1>1, <1>2, <1>3, PTL DEF RemediesSpec, allVars

-----------------------------------------------------------------------------
(* Retrospectives: what is saved of the generations and of the corrections.   *)

FKinds == {"alert_triggered", "related_alert", "remediation_executed", "remediation_proposed"}
FEvent == [kind : FKinds, at : Nat]
Trigger == [kind |-> "alert_triggered", at |-> 2]
InTime(s) == \A i \in 2..Len(s) : s[i - 1].at <= s[i].at
HasTrigger(s) == \E i \in DOMAIN s : s[i] = Trigger
Timeline == {s \in Seq(FEvent) : InTime(s) /\ HasTrigger(s)}
FFields == {"root_cause", "resolution"}
FTexts(size) == SUBSET ({"rules", "diagnosis", "fixes", "insights"} \cup size.authors)
FReport(size) ==
  [n : Nat, timeline : Timeline, by : size.authors \cup {"nobody"}, ai : FTexts(size),
   final : [FFields -> FTexts(size)]]
FSave(size) == [to : {"row", "knowledge", "vector", "link"}, report : FReport(size)]
FGen(size) ==
  [step : {"idle", "diagnosis", "executions", "insights"}, report : FReport(size) \cup {NoReport}]
FEdit(size) == [base : FReport(size) \cup {NoReport}, fields : SUBSET FFields]

RetroType(size) ==
  /\ gen \in [size.generators -> FGen(size)]
  /\ \A g \in size.generators : gen[g].step # "idle" => gen[g].report \in FReport(size)
  /\ edit \in [size.authors -> FEdit(size)]
  /\ row \in FReport(size) \cup {NoReport}
  /\ saves \subseteq FSave(size) /\ knowledge \in Seq(Nat)
  /\ related \subseteq Nat /\ IsFiniteSet(related)
  /\ audit \subseteq [at : Nat, success : BOOLEAN] /\ IsFiniteSet(audit)
  /\ begun \in Nat /\ failed \in Nat
  /\ corrected \in [FFields -> size.authors \cup {"nobody"}]

\* While generations do not overlap, what is on its way is of the newest one;
\* what has no job left has been written.
GenActive(size) == \E g \in size.generators : gen[g].step # "idle"
JobTo(to) == \E j \in saves : j.to = to
Steady == ~crossed /\ failed = 0 /\ begun > 0
RetroOrder(size) ==
  /\ \A f \in FFields : corrected[f] # "nobody" =>
       row # NoReport /\ row.final[f] = {corrected[f]}
  /\ failed = 0 /\ (knowledge # <<>> \/ entries # {} \/ \E j \in saves : j.to # "row")
       => row # NoReport
  /\ ~crossed =>
       /\ \A g \in size.generators : gen[g].step # "idle" => gen[g].report.n = begun
       /\ \A j \in saves : j.report.n = begun
  /\ Steady /\ ~GenActive(size) /\ ~JobTo("row")
       => row # NoReport /\ (row.by = "nobody" => row.n = begun)
  /\ Steady /\ ~GenActive(size) /\ ~JobTo("row") /\ ~JobTo("knowledge")
       => Len(knowledge) > 0 /\ knowledge[Len(knowledge)] = begun

LEMMA ReportIsReport ==
  ASSUME NEW size, ReportsAssumption(size)
  PROVE  NoReport \notin FReport(size) /\ "nobody" \notin size.authors
<1>1. FReport(size) \subseteq Reports(size)!Report
  <2>1. SUFFICES ASSUME NEW r \in FReport(size) PROVE r \in Reports(size)!Report
    OBVIOUS
  <2>2. r.timeline \in Seq(FEvent)
    BY DEF FReport, Timeline
  <2>3. QED
    BY <2>2 DEF FReport, FTexts, FFields, FEvent, FKinds, Reports!EventKinds, Reports!Report,
       Reports!Texts, Reports!Fields, Reports!NoOne
<1>2. QED
  BY <1>1 DEF ReportsAssumption, Reports!NoOne

\* What a sort by time yields.
LEMMA SortedIsTimeline ==
  ASSUME NEW size, NEW S \in SUBSET FEvent, IsFiniteSet(S), Trigger \in S,
         NEW s \in Reports(size)!SortedByTime(S)
  PROVE  s \in Timeline
<1>1. Reports(size)!Cardinality(S) = Cardinality(S)
  BY DEF Reports!Cardinality, Cardinality
<1>2. Cardinality(S) \in Nat
  BY FS_CardinalityType
<1>3. /\ s \in [1..Cardinality(S) -> S] /\ {s[i] : i \in DOMAIN s} = S
      /\ Reports(size)!IsSorted(s)
  BY <1>1 DEF Reports!SortedByTime
<1>4. s \in Seq(FEvent)
  BY <1>2, <1>3
<1>5. HasTrigger(s)
  BY <1>3 DEF HasTrigger
<1>6. InTime(s)
  BY <1>3 DEF Reports!IsSorted, InTime
<1>7. QED
  BY <1>4, <1>5, <1>6 DEF Timeline

LEMMA RetroStart ==
  ASSUME NEW size, Reports(size)!Init
  PROVE  RetroType(size) /\ RetroOrder(size)
<1>1. /\ gen = [g \in size.generators |-> [step |-> "idle", report |-> NoReport]]
      /\ edit = [a \in size.authors |-> [base |-> NoReport, fields |-> {}]]
      /\ row = NoReport /\ knowledge = <<>> /\ entries = {} /\ saves = {}
      /\ related = {} /\ audit = {} /\ begun = 0 /\ failed = 0
      /\ corrected = [f \in FFields |-> "nobody"]
  BY DEF Reports!Init, Reports!Idle, Reports!NotEditing, Reports!Fields, Reports!NoOne, FFields
<1>2. [step |-> "idle", report |-> NoReport] \in FGen(size)
      /\ [base |-> NoReport, fields |-> {}] \in FEdit(size)
  BY DEF FGen, FEdit
<1>3. gen \in [size.generators -> FGen(size)] /\ edit \in [size.authors -> FEdit(size)]
      /\ \A g \in size.generators : gen[g].step = "idle"
  BY <1>1, <1>2
<1>4. corrected \in [FFields -> size.authors \cup {"nobody"}]
      /\ \A f \in FFields : corrected[f] = "nobody"
  BY <1>1
<1>5. RetroType(size)
  <2>1. <<>> \in Seq(Nat)
    OBVIOUS
  <2>2. QED
    BY <1>1, <1>3, <1>4, <2>1, FS_EmptySet DEF RetroType
<1>6. RetroOrder(size)
  BY <1>1, <1>3, <1>4 DEF RetroOrder, Steady
<1>7. QED
  BY <1>5, <1>6

\* Around the service.
LEMMA AroundKeeps ==
  ASSUME NEW size, ReportsAssumption(size), RetroType(size), RetroOrder(size),
         Reports(size)!AlertsChange \/ Reports(size)!Execute
  PROVE  RetroType(size)' /\ RetroOrder(size)'
<1>1. UNCHANGED <<gen, edit, row, knowledge, entries, saves, begun, corrected, failed, crossed>>
  BY DEF Reports!AlertsChange, Reports!Execute
<1>2. related' \subseteq Nat /\ IsFiniteSet(related')
  <2>1. CASE Reports(size)!AlertsChange
    <3>1. PICK t \in size.related :
            related' = IF t \in related THEN related \ {t} ELSE related \cup {t}
      BY <2>1 DEF Reports!AlertsChange
    <3>2. t \in Nat
      BY DEF ReportsAssumption
    <3>3. IsFiniteSet(related \ {t}) /\ IsFiniteSet(related \cup {t})
      BY FS_AddElement, FS_RemoveElement DEF RetroType
    <3>4. QED
      BY <3>1, <3>2, <3>3 DEF RetroType
  <2>2. CASE Reports(size)!Execute
    BY <2>2 DEF Reports!Execute, RetroType
  <2>3. QED
    BY <2>1, <2>2
<1>3. audit' \subseteq [at : Nat, success : BOOLEAN] /\ IsFiniteSet(audit')
  <2>1. CASE Reports(size)!Execute
    <3>1. PICK at \in size.fixed, success \in BOOLEAN :
            audit' = audit \cup {[at |-> at, success |-> success]}
      BY <2>1 DEF Reports!Execute
    <3> DEFINE e == [at |-> at, success |-> success]
    <3>2. e \in [at : Nat, success : BOOLEAN]
      BY DEF ReportsAssumption
    <3>3. audit' = audit \cup {e}
      BY <3>1
    <3> HIDE DEF e
    <3>4. QED
      BY <3>2, <3>3, FS_AddElement DEF RetroType
  <2>2. CASE Reports(size)!AlertsChange
    BY <2>2 DEF Reports!AlertsChange, RetroType
  <2>3. QED
    BY <2>1, <2>2
<1>4. RetroType(size)'
  BY <1>1, <1>2, <1>3 DEF RetroType
<1>5. RetroOrder(size)'
  BY <1>1 DEF RetroOrder, Steady, GenActive, JobTo
<1>6. QED
  BY <1>4, <1>5

\* A generation goes on with its report.
LEMMA GenerationGoes ==
  ASSUME NEW size, RetroType(size), RetroOrder(size), NEW g \in size.generators,
         gen[g].step # "idle", gen'[g] \in FGen(size), gen'[g].step # "idle",
         gen'[g].report \in FReport(size), gen'[g].report.n = gen[g].report.n,
         DOMAIN gen' = DOMAIN gen, gen' = [h \in DOMAIN gen' |-> gen'[h]],
         \A h \in size.generators : h # g => gen'[h] = gen[h],
         UNCHANGED <<edit, row, knowledge, entries, saves, related, audit, begun, corrected,
                     failed, crossed>>
  PROVE  RetroType(size)' /\ RetroOrder(size)'
<1>1. gen' \in [size.generators -> FGen(size)]
  BY DEF RetroType
<1>2. \A h \in size.generators : gen'[h].step # "idle" => gen'[h].report \in FReport(size)
  BY DEF RetroType
<1>3. RetroType(size)'
  BY <1>1, <1>2 DEF RetroType
<1>4. GenActive(size) /\ GenActive(size)'
  BY DEF GenActive
<1>5. ASSUME ~crossed
      PROVE  \A h \in size.generators : gen'[h].step # "idle" => gen'[h].report.n = begun
  BY <1>5 DEF RetroOrder
<1>6. RetroOrder(size)'
  BY <1>4, <1>5 DEF RetroOrder, Steady, JobTo
<1>7. QED
  BY <1>3, <1>6

LEMMA ReplaceType ==
  ASSUME NEW size, NEW final \in [FFields -> FTexts(size)], NEW fields,
         NEW source \in {"rules", "diagnosis", "fixes", "insights"} \cup size.authors
  PROVE  Reports(size)!Replace(final, fields, source) \in [FFields -> FTexts(size)]
BY DEF Reports!Replace, Reports!Fields, FFields, FTexts

LEMMA BuildKeeps ==
  ASSUME NEW size, RetroType(size), RetroOrder(size), NEW g \in size.generators,
         Reports(size)!BuildTimeline(g)
  PROVE  RetroType(size)' /\ RetroOrder(size)'
<1> DEFINE S == {Trigger} \cup {[kind |-> "related_alert", at |-> t] : t \in related}
<1>1. /\ gen[g].step = "idle" /\ begun' = begun + 1
      /\ crossed' = (crossed \/ Reports(size)!Busy)
      /\ UNCHANGED <<edit, row, knowledge, entries, saves, related, audit, corrected, failed>>
  BY DEF Reports!BuildTimeline
<1>2. PICK s \in Reports(size)!SortedByTime(S) :
        gen' = [gen EXCEPT ![g] =
          [step |-> "diagnosis",
           report |-> [n |-> begun + 1, timeline |-> s, by |-> "nobody", ai |-> {"rules"},
                       final |-> [f \in FFields |-> {"rules"}]]]]
  BY DEF Reports!BuildTimeline, Reports!Event, Reports!NoOne, Reports!Fields, FFields, Trigger
<1>3. s \in Timeline
  <2>1. S \in SUBSET FEvent /\ Trigger \in S
    <3>1. Trigger \in FEvent
      BY DEF Trigger, FEvent, FKinds
    <3>2. ASSUME NEW t \in related PROVE [kind |-> "related_alert", at |-> t] \in FEvent
      <4>1. t \in Nat
        BY DEF RetroType
      <4>2. QED
        BY <4>1 DEF FEvent, FKinds
    <3>3. QED
      BY <3>1, <3>2
  <2>2. IsFiniteSet(S)
    <3> DEFINE f == [t \in related |-> [kind |-> "related_alert", at |-> t]]
    <3>1. {f[t] : t \in related} = {[kind |-> "related_alert", at |-> t] : t \in related}
      OBVIOUS
    <3>2. IsFiniteSet({f[t] : t \in related})
      <4> HIDE DEF f
      <4>1. IsFiniteSet(related)
        BY DEF RetroType
      <4>2. QED
        BY <4>1, ImageFinite
    <3>3. IsFiniteSet({Trigger})
      BY FS_Singleton
    <3> HIDE DEF f
    <3>4. QED
      BY <3>1, <3>2, <3>3, FS_Union
  <2> HIDE DEF S
  <2>3. QED
    BY <2>1, <2>2, SortedIsTimeline
<1> HIDE DEF S
<1> DEFINE r == [n |-> begun + 1, timeline |-> s, by |-> "nobody", ai |-> {"rules"},
                 final |-> [f \in FFields |-> {"rules"}]]
           z == [step |-> "diagnosis", report |-> r]
<1>4. r \in FReport(size) /\ r.n = begun + 1
  BY <1>3 DEF FReport, FTexts, RetroType
<1>5. gen' = [gen EXCEPT ![g] = z]
  BY <1>2
<1> HIDE DEF r
<1>6. z \in FGen(size) /\ z.step = "diagnosis" /\ z.report = r
  BY <1>4 DEF FGen
<1> HIDE DEF z
<1>7. gen' \in [size.generators -> FGen(size)] /\ gen'[g] = z
      /\ \A h \in size.generators : h # g => gen'[h] = gen[h]
  BY <1>5, <1>6 DEF RetroType
<1>8. \A h \in size.generators : gen'[h].step # "idle" => gen'[h].report \in FReport(size)
  BY <1>4, <1>6, <1>7 DEF RetroType
<1>9. begun' \in Nat
  BY <1>1 DEF RetroType
<1>10. RetroType(size)'
  BY <1>1, <1>7, <1>8, <1>9 DEF RetroType
<1>11. GenActive(size)'
  BY <1>6, <1>7 DEF GenActive
<1>12. ASSUME ~crossed' PROVE saves = {} /\ \A h \in size.generators : gen[h].step = "idle"
  BY <1>1, <1>12 DEF Reports!Busy
<1>13. ASSUME ~crossed'
       PROVE  /\ \A h \in size.generators : gen'[h].step # "idle" => gen'[h].report.n = begun'
              /\ \A j \in saves' : j.report.n = begun'
  BY <1>1, <1>4, <1>6, <1>7, <1>12, <1>13
<1>14. RetroOrder(size)'
  BY <1>1, <1>11, <1>13 DEF RetroOrder
<1>15. QED
  BY <1>10, <1>14

\* A report's timeline stays one when the recorded fixes are sorted in.
LEMMA RecordsAreEvents ==
  ASSUME NEW size, RetroType(size), NEW old \in Timeline,
         NEW s \in Reports(size)!SortWithRecords(old)
  PROVE  s \in Timeline
<1> DEFINE S == Reports(size)!EventsOf(old) \cup Reports(size)!Recorded
<1>1. old \in Seq(FEvent) /\ HasTrigger(old)
  BY DEF Timeline
<1>2. Reports(size)!EventsOf(old) \subseteq FEvent
      /\ Trigger \in Reports(size)!EventsOf(old)
  BY <1>1 DEF Reports!EventsOf, HasTrigger
<1>3. Reports(size)!Recorded \subseteq FEvent
  <2>1. ASSUME NEW a \in audit, NEW kind \in {"remediation_executed", "remediation_proposed"}
        PROVE  [kind |-> kind, at |-> a.at] \in FEvent
    <3>1. a.at \in Nat
      BY DEF RetroType
    <3>2. QED
      BY <3>1 DEF FEvent, FKinds
  <2>2. QED
    BY <2>1 DEF Reports!Recorded, Reports!Event
<1>4. IsFiniteSet(Reports(size)!EventsOf(old))
  <2>1. DOMAIN old = 1..Len(old) /\ Len(old) \in Nat
    BY <1>1
  <2>2. IsFiniteSet(DOMAIN old)
    BY <2>1, FS_Interval
  <2>3. QED
    BY <2>2, ImageFinite DEF Reports!EventsOf
<1>5. IsFiniteSet(Reports(size)!Recorded)
  <2> DEFINE f == [a \in audit |-> Reports(size)!Event(
                     IF a.success THEN "remediation_executed" ELSE "remediation_proposed", a.at)]
  <2>1. Reports(size)!Recorded = {f[a] : a \in audit}
    BY DEF Reports!Recorded
  <2> HIDE DEF f
  <2>2. IsFiniteSet(audit)
    BY DEF RetroType
  <2>3. IsFiniteSet({f[a] : a \in audit})
    BY <2>2, ImageFinite
  <2>4. QED
    BY <2>1, <2>3
<1>6. s \in Reports(size)!SortedByTime(S)
  BY DEF Reports!SortWithRecords
<1>7. S \in SUBSET FEvent /\ Trigger \in S /\ IsFiniteSet(S)
  BY <1>2, <1>3, <1>4, <1>5, FS_Union
<1> HIDE DEF S
<1>8. QED
  BY <1>6, <1>7, SortedIsTimeline

LEMMA EnrichKeeps ==
  ASSUME NEW size, RetroType(size), RetroOrder(size), NEW g \in size.generators,
         Reports(size)!EnrichFromDiagnosis(g) \/ Reports(size)!EnrichFromExecutions(g)
  PROVE  RetroType(size)' /\ RetroOrder(size)'
<1> DEFINE r == gen[g].report
<1>1. UNCHANGED <<edit, row, knowledge, entries, saves, related, audit, begun, corrected,
                  failed, crossed>>
  BY DEF Reports!EnrichFromDiagnosis, Reports!EnrichFromExecutions
<1>2. /\ gen \in [size.generators -> FGen(size)] /\ gen[g].step # "idle"
      /\ r \in FReport(size)
  BY DEF Reports!EnrichFromDiagnosis, Reports!EnrichFromExecutions, RetroType
<1>3. r.final \in [FFields -> FTexts(size)] /\ r.timeline \in Timeline
  BY <1>2 DEF FReport
<1>4. CASE Reports(size)!EnrichFromDiagnosis(g)
  <2>1. PICK fields :
          gen' = [gen EXCEPT ![g].step = "executions",
                             ![g].report.final = Reports(size)!Replace(@, fields, "diagnosis")]
    BY <1>4 DEF Reports!EnrichFromDiagnosis
  <2> DEFINE final == Reports(size)!Replace(r.final, fields, "diagnosis")
             q == [r EXCEPT !.final = final]
  <2>2. final \in [FFields -> FTexts(size)]
    BY <1>3, ReplaceType
  <2>3. gen'[g] = [gen[g] EXCEPT !.step = "executions", !.report.final = final]
    BY <1>2, <2>1
  <2>4. /\ DOMAIN gen' = DOMAIN gen /\ gen' = [h \in DOMAIN gen' |-> gen'[h]]
        /\ \A h \in size.generators : h # g => gen'[h] = gen[h]
    BY <1>2, <2>1
  <2> HIDE DEF final
  <2>5. q \in FReport(size) /\ q.n = r.n
    BY <1>2, <2>2 DEF FReport
  <2>6. gen'[g].step = "executions" /\ gen'[g].report = q
    BY <1>2, <2>3 DEF FGen
  <2> HIDE DEF q
  <2>7. gen'[g] \in FGen(size)
    BY <1>2, <2>3, <2>5, <2>6 DEF FGen
  <2>8. QED
    BY <1>1, <1>2, <2>4, <2>5, <2>6, <2>7, GenerationGoes
<1>5. CASE Reports(size)!EnrichFromExecutions(g)
  <2>1. CASE gen' = [gen EXCEPT ![g].step = "insights"]
    <3>1. /\ DOMAIN gen' = DOMAIN gen /\ gen' = [h \in DOMAIN gen' |-> gen'[h]]
          /\ \A h \in size.generators : h # g => gen'[h] = gen[h]
          /\ gen'[g] = [gen[g] EXCEPT !.step = "insights"]
      BY <1>2, <2>1
    <3>2. gen'[g] \in FGen(size) /\ gen'[g].step = "insights" /\ gen'[g].report = r
      BY <1>2, <3>1 DEF FGen
    <3>3. QED
      BY <1>1, <1>2, <3>1, <3>2, GenerationGoes
  <2>2. ASSUME NEW s \in Reports(size)!SortWithRecords(r.timeline), NEW more \in {{"fixes"}, {}},
               gen' = [gen EXCEPT ![g].step = "insights", ![g].report.timeline = s,
                                  ![g].report.final["resolution"] = @ \cup more]
        PROVE  RetroType(size)' /\ RetroOrder(size)'
    <3>1. s \in Timeline
      BY <1>3, <2>2, RecordsAreEvents
    <3> DEFINE final == [r.final EXCEPT !["resolution"] = @ \cup more]
               q == [r EXCEPT !.timeline = s, !.final = final]
    <3>2. /\ DOMAIN gen' = DOMAIN gen /\ gen' = [h \in DOMAIN gen' |-> gen'[h]]
          /\ \A h \in size.generators : h # g => gen'[h] = gen[h]
      <4>1. gen' \in [DOMAIN gen -> {gen'[h] : h \in DOMAIN gen}]
        <5> DEFINE a == [gen EXCEPT ![g].step = "insights"]
                   b == [a EXCEPT ![g].report.timeline = s]
                   c == [b EXCEPT ![g].report.final["resolution"] = @ \cup more]
        <5>1. gen' = c
          BY <2>2
        <5>2. DOMAIN a = DOMAIN gen /\ DOMAIN b = DOMAIN a
          OBVIOUS
        <5> HIDE DEF b
        <5>3. c \in [DOMAIN b -> {c[h] : h \in DOMAIN b}]
          OBVIOUS
        <5> HIDE DEF c
        <5>4. QED
          BY <5>1, <5>2, <5>3
      <4>2. \A h \in size.generators : h # g => gen'[h] = gen[h]
        BY <1>2, <2>2
      <4>3. QED
        BY <4>1, <4>2
    <3>3. gen'[g].step = "insights" /\ gen'[g].report = q
      BY <1>2, <2>2 DEF FGen, FReport
    <3>4. final \in [FFields -> FTexts(size)]
      BY <1>3, <2>2 DEF FFields, FTexts
    <3> HIDE DEF final
    <3>5. q \in FReport(size) /\ q.n = r.n
      BY <1>2, <3>1, <3>4 DEF FReport
    <3>6. gen'[g] \in FGen(size)
      <4>1. gen'[g] = [gen[g] EXCEPT !.step = "insights", !.report.timeline = s,
                                     !.report.final["resolution"] = @ \cup more]
        BY <1>2, <2>2
      <4>2. QED
        BY <1>2, <3>3, <3>5, <4>1 DEF FGen
    <3> HIDE DEF q
    <3>7. QED
      BY <1>1, <1>2, <3>2, <3>3, <3>5, <3>6, GenerationGoes
  <2>3. \/ gen' = [gen EXCEPT ![g].step = "insights"]
        \/ \E s \in Reports(size)!SortWithRecords(r.timeline), more \in {{"fixes"}, {}} :
             gen' = [gen EXCEPT ![g].step = "insights", ![g].report.timeline = s,
                                ![g].report.final["resolution"] = @ \cup more]
    BY <1>5 DEF Reports!EnrichFromExecutions
  <2>4. QED
    BY <2>1, <2>2, <2>3
<1>6. QED
  BY <1>4, <1>5

\* The report is the reply, and a goroutine will save it.
LEMMA ReplyKeeps ==
  ASSUME NEW size, RetroType(size), RetroOrder(size), NEW g \in size.generators,
         Reports(size)!EnrichWithLLM(g)
  PROVE  RetroType(size)' /\ RetroOrder(size)'
<1> DEFINE r == gen[g].report
<1>1. /\ gen \in [size.generators -> FGen(size)] /\ gen[g].step = "insights"
      /\ r \in FReport(size)
      /\ UNCHANGED <<edit, row, knowledge, entries, related, audit, begun, corrected, failed,
                     crossed>>
  BY DEF Reports!EnrichWithLLM, RetroType
<1>2. PICK fields :
        saves' = saves \cup {[to |-> "row",
                              report |-> [r EXCEPT !.final =
                                            Reports(size)!Replace(@, fields, "insights")]]}
  BY DEF Reports!EnrichWithLLM, Reports!SaveFirst
<1> DEFINE final == Reports(size)!Replace(r.final, fields, "insights")
           q == [r EXCEPT !.final = final]
           job == [to |-> "row", report |-> q]
<1>3. final \in [FFields -> FTexts(size)]
  <2>1. r.final \in [FFields -> FTexts(size)]
    BY <1>1 DEF FReport
  <2>2. QED
    BY <2>1, ReplaceType
<1>4. saves' = saves \cup {job}
  BY <1>2
<1> HIDE DEF final
<1>5. q \in FReport(size) /\ q.n = r.n
  BY <1>1, <1>3 DEF FReport
<1> HIDE DEF q
<1>6. job \in FSave(size) /\ job.to = "row" /\ job.report = q
  BY <1>5 DEF FSave
<1> HIDE DEF job
<1>7. /\ gen' \in [size.generators -> FGen(size)] /\ gen'[g].step = "idle"
      /\ \A h \in size.generators : h # g => gen'[h] = gen[h]
  <2> DEFINE idle == [step |-> "idle", report |-> NoReport]
  <2>1. gen' = [gen EXCEPT ![g] = idle]
    BY DEF Reports!EnrichWithLLM, Reports!Idle
  <2>2. idle \in FGen(size) /\ idle.step = "idle"
    BY DEF FGen
  <2> HIDE DEF idle
  <2>3. QED
    BY <1>1, <2>1, <2>2
<1>8. RetroType(size)'
  <2>1. \A h \in size.generators : gen'[h].step # "idle" => gen'[h].report \in FReport(size)
    BY <1>7 DEF RetroType
  <2>2. saves' \subseteq FSave(size)
    BY <1>4, <1>6 DEF RetroType
  <2>3. QED
    BY <1>1, <1>7, <2>1, <2>2 DEF RetroType
<1>9. ASSUME ~crossed
      PROVE  /\ \A h \in size.generators : gen'[h].step # "idle" => gen'[h].report.n = begun
             /\ \A j \in saves' : j.report.n = begun
  BY <1>1, <1>4, <1>5, <1>6, <1>7, <1>9 DEF RetroOrder
<1>10. JobTo("row")'
  BY <1>4, <1>6 DEF JobTo
<1>11. (\E j \in saves' : j.to # "row") => \E j \in saves : j.to # "row"
  BY <1>4, <1>6
<1>12. RetroOrder(size)'
  BY <1>1, <1>9, <1>10, <1>11 DEF RetroOrder
<1>13. QED
  BY <1>8, <1>12

\* The goroutine that saves the report starts three more.
LEMMA SavePostmortemKeeps ==
  ASSUME NEW size, ReportsAssumption(size), RetroType(size), RetroOrder(size), NEW j,
         Reports(size)!SavePostmortem(j)
  PROVE  RetroType(size)' /\ RetroOrder(size)'
<1> DEFINE r == j.report
           Lookups == {[to |-> t, report |-> r] : t \in {"knowledge", "vector", "link"}}
           up == [r EXCEPT !.by = IF row = NoReport THEN "nobody" ELSE row.by]
<1>1. /\ j \in saves /\ j.to = "row" /\ saves' = (saves \ {j}) \cup Lookups
      /\ UNCHANGED <<gen, edit, knowledge, entries, related, audit, begun, crossed>>
      /\ \/ row' = up /\ corrected' = [f \in FFields |-> "nobody"] /\ failed' = failed
         \/ row' = row /\ corrected' = corrected /\ failed' = failed + 1
  BY DEF Reports!SavePostmortem, Reports!Lookups, Reports!Upserted, Reports!NoOne,
     Reports!Fields, FFields
<1>2. r \in FReport(size) /\ failed \in Nat
  BY <1>1 DEF RetroType, FSave
<1>3. up \in FReport(size) /\ up.n = r.n
  <2>1. (IF row = NoReport THEN "nobody" ELSE row.by) \in size.authors \cup {"nobody"}
    BY DEF RetroType, FReport
  <2>2. QED
    BY <1>2, <2>1 DEF FReport
<1>4. Lookups \subseteq FSave(size) /\ \A i \in Lookups : i.report = r /\ i.to # "row"
  BY <1>2 DEF FSave
<1>5. \E i \in Lookups : i.to = "knowledge"
  <2>1. [to |-> "knowledge", report |-> r] \in Lookups
    OBVIOUS
  <2>2. QED
    BY <2>1
<1> HIDE DEF Lookups, up
<1>6. RetroType(size)'
  <2>1. row' \in FReport(size) \cup {NoReport} /\ failed' \in Nat
    BY <1>1, <1>2, <1>3 DEF RetroType
  <2>2. corrected' \in [FFields -> size.authors \cup {"nobody"}]
    BY <1>1 DEF RetroType
  <2>3. saves' \subseteq FSave(size)
    BY <1>1, <1>4 DEF RetroType
  <2>4. QED
    BY <1>1, <2>1, <2>2, <2>3 DEF RetroType
<1>7. failed' = 0 => row' = up /\ failed = 0 /\ row' # NoReport
  BY <1>1, <1>2, <1>3, ReportIsReport
<1>8. \A f \in FFields :
        corrected'[f] # "nobody" => row' # NoReport /\ row'.final[f] = {corrected'[f]}
  BY <1>1 DEF RetroOrder
<1>9. ASSUME ~crossed
      PROVE  /\ \A i \in saves' : i.report.n = begun
             /\ failed' = 0 => row'.n = begun
  BY <1>1, <1>3, <1>4, <1>7, <1>9 DEF RetroOrder
<1>10. JobTo("knowledge")'
  BY <1>1, <1>5 DEF JobTo
<1>11. ~crossed => \A g \in size.generators : gen[g].step # "idle" => gen[g].report.n = begun
  BY DEF RetroOrder
<1>12. RetroOrder(size)'
  BY <1>1, <1>7, <1>8, <1>9, <1>10, <1>11 DEF RetroOrder, Steady
<1>13. QED
  BY <1>6, <1>12

\* What the search for earlier incidents finds is written after the report.
LEMMA LookupsKeep ==
  ASSUME NEW size, ReportsAssumption(size), RetroType(size), RetroOrder(size), NEW j,
         \/ Reports(size)!ExtractKnowledge(j) \/ Reports(size)!SaveFaultReportVector(j)
         \/ Reports(size)!SaveResourceLinks(j)
  PROVE  RetroType(size)' /\ RetroOrder(size)'
<1>1. /\ j \in saves /\ j.to # "row" /\ saves' = saves \ {j}
      /\ UNCHANGED <<gen, edit, row, related, audit, begun, corrected, crossed>>
      /\ \/ failed' = failed \/ failed' = failed + 1
  BY DEF Reports!ExtractKnowledge, Reports!SaveFaultReportVector, Reports!SaveResourceLinks
<1>2. /\ \/ knowledge' = knowledge /\ (j.to # "knowledge" \/ failed' = failed + 1)
         \/ knowledge' = Append(knowledge, j.report.n)
  BY DEF Reports!ExtractKnowledge, Reports!SaveFaultReportVector, Reports!SaveResourceLinks
<1>3. j.report \in FReport(size) /\ j.report.n \in Nat /\ knowledge \in Seq(Nat)
      /\ failed \in Nat /\ begun \in Nat
  BY <1>1 DEF RetroType, FSave, FReport
<1>4. failed' \in Nat /\ (failed' = 0 => failed = 0 /\ failed' # failed + 1)
  BY <1>1, <1>3
<1>5. RetroType(size)'
  <2>1. knowledge' \in Seq(Nat)
    BY <1>2, <1>3
  <2>2. saves' \subseteq FSave(size)
    BY <1>1 DEF RetroType
  <2>3. QED
    BY <1>1, <1>4, <2>1, <2>2 DEF RetroType
<1>6. failed' = 0 => row # NoReport
  BY <1>1, <1>4 DEF RetroOrder
<1>7. JobTo("row")' => JobTo("row")
  BY <1>1 DEF JobTo
<1>8. JobTo("row") => JobTo("row")'
  BY <1>1 DEF JobTo
<1>9. ASSUME Steady', ~GenActive(size), ~JobTo("row")', ~JobTo("knowledge")'
      PROVE  Len(knowledge') > 0 /\ knowledge'[Len(knowledge')] = begun
  <2>1. CASE knowledge' = Append(knowledge, j.report.n)
    <3>1. j.report.n = begun
      BY <1>1, <1>9 DEF RetroOrder, Steady
    <3>2. Len(knowledge') = Len(knowledge) + 1 /\ knowledge'[Len(knowledge) + 1] = begun
          /\ Len(knowledge) \in Nat
      BY <1>3, <2>1, <3>1
    <3>3. QED
      BY <3>2
  <2>2. CASE knowledge' = knowledge /\ (j.to # "knowledge" \/ failed' = failed + 1)
    <3>1. j.to # "knowledge"
      BY <1>4, <1>9, <2>2 DEF Steady
    <3>2. ~JobTo("knowledge")
      BY <1>1, <1>9, <3>1 DEF JobTo
    <3>3. Steady
      BY <1>1, <1>4, <1>9 DEF Steady
    <3>4. QED
      BY <1>8, <1>9, <2>2, <3>2, <3>3 DEF RetroOrder
  <2>3. QED
    BY <1>2, <2>1, <2>2
<1>10. ASSUME Steady', ~GenActive(size), ~JobTo("row")'
       PROVE  row # NoReport /\ (row.by = "nobody" => row.n = begun)
  BY <1>1, <1>4, <1>8, <1>10 DEF RetroOrder, Steady
<1>11. GenActive(size)' <=> GenActive(size)
  BY <1>1 DEF GenActive
<1>12. RetroOrder(size)'
  BY <1>1, <1>6, <1>9, <1>10, <1>11 DEF RetroOrder
<1>13. QED
  BY <1>5, <1>12

LEMMA ReadForUpdateKeeps ==
  ASSUME NEW size, RetroType(size), RetroOrder(size), NEW a \in size.authors,
         Reports(size)!ReadForUpdate(a)
  PROVE  RetroType(size)' /\ RetroOrder(size)'
<1>1. /\ row # NoReport
      /\ UNCHANGED <<gen, row, knowledge, entries, saves, related, audit, begun, corrected,
                     failed, crossed>>
  BY DEF Reports!ReadForUpdate
<1>2. PICK fields \in SUBSET FFields :
        edit' = [edit EXCEPT ![a] = [base |-> row, fields |-> fields]]
  BY DEF Reports!ReadForUpdate, Reports!Fields, FFields
<1>3. [base |-> row, fields |-> fields] \in FEdit(size)
  BY DEF RetroType, FEdit
<1>4. edit' \in [size.authors -> FEdit(size)]
  BY <1>2, <1>3 DEF RetroType
<1>5. RetroType(size)'
  BY <1>1, <1>4 DEF RetroType
<1>6. RetroOrder(size)'
  BY <1>1 DEF RetroOrder, Steady, GenActive, JobTo
<1>7. QED
  BY <1>5, <1>6

\* A correction replaces the row it has read, and signs it.
LEMMA SaveUpdateKeeps ==
  ASSUME NEW size, ReportsAssumption(size), RetroType(size), RetroOrder(size),
         NEW a \in size.authors, Reports(size)!SaveUpdate(a)
  PROVE  RetroType(size)' /\ RetroOrder(size)'
<1> DEFINE base == edit[a].base
           given == edit[a].fields
           final == Reports(size)!Replace(base.final, given, a)
           new == [base EXCEPT !.final = final, !.by = a]
           signed == [f \in FFields |-> IF f \in given THEN a
                                        ELSE IF row = base THEN corrected[f] ELSE "nobody"]
<1>1. /\ base # NoReport
      /\ edit' = [edit EXCEPT ![a] = [base |-> NoReport, fields |-> {}]]
      /\ UNCHANGED <<gen, knowledge, entries, saves, related, audit, begun, crossed>>
      /\ \/ row' = new /\ corrected' = signed /\ failed' = failed
         \/ row' = row /\ corrected' = corrected /\ failed' = failed + 1
  BY DEF Reports!SaveUpdate, Reports!NotEditing, Reports!Given, Reports!NoOne,
     Reports!Fields, FFields
<1>2. base \in FReport(size) /\ base.final \in [FFields -> FTexts(size)] /\ failed \in Nat
  BY <1>1 DEF RetroType, FEdit, FReport
<1>3. final \in [FFields -> FTexts(size)]
      /\ \A f \in FFields : final[f] = IF f \in given THEN {a} ELSE base.final[f]
  <2>1. final = [f \in FFields |-> IF f \in given THEN {a} ELSE base.final[f]]
    BY DEF Reports!Replace, Reports!Fields, FFields
  <2> HIDE DEF final
  <2>2. QED
    BY <1>2, <2>1 DEF FTexts
<1>4. signed \in [FFields -> size.authors \cup {"nobody"}]
  BY DEF RetroType
<1>5. \A f \in FFields : signed[f] # "nobody" => final[f] = {signed[f]}
  <2>1. SUFFICES ASSUME NEW f \in FFields, signed[f] # "nobody" PROVE final[f] = {signed[f]}
    OBVIOUS
  <2>2. signed[f] = IF f \in given THEN a ELSE IF row = base THEN corrected[f] ELSE "nobody"
    OBVIOUS
  <2> HIDE DEF signed, final
  <2>3. CASE f \in given
    BY <1>3, <2>2, <2>3
  <2>4. CASE f \notin given
    <3>1. row = base /\ signed[f] = corrected[f] /\ final[f] = base.final[f]
      BY <1>3, <2>1, <2>2, <2>4
    <3>2. QED
      BY <2>1, <3>1 DEF RetroOrder
  <2>5. QED
    BY <2>3, <2>4
<1> HIDE DEF final, signed
<1>6. new \in FReport(size) /\ new.final = final /\ new.by = a
  BY <1>2, <1>3 DEF FReport
<1> HIDE DEF new
<1>7. new # NoReport /\ a # "nobody"
  BY <1>6, ReportIsReport
<1>8. RetroType(size)'
  <2>1. row' \in FReport(size) \cup {NoReport} /\ failed' \in Nat
        /\ corrected' \in [FFields -> size.authors \cup {"nobody"}]
    BY <1>1, <1>2, <1>4, <1>6 DEF RetroType
  <2>2. edit' \in [size.authors -> FEdit(size)]
    <3>1. [base |-> NoReport, fields |-> {}] \in FEdit(size)
      BY DEF FEdit
    <3>2. QED
      BY <1>1, <3>1 DEF RetroType
  <2>3. QED
    BY <1>1, <2>1, <2>2 DEF RetroType
<1>9. failed' = 0 => failed = 0 /\ row' = new
  BY <1>1, <1>2
<1>10. \A f \in FFields : corrected'[f] # "nobody"
         => row' # NoReport /\ row'.final[f] = {corrected'[f]}
  <2>1. CASE row' = new /\ corrected' = signed
    BY <1>5, <1>6, <1>7, <2>1
  <2>2. CASE row' = row /\ corrected' = corrected
    BY <2>2 DEF RetroOrder
  <2>3. QED
    BY <1>1, <2>1, <2>2
<1>11. failed' = 0 => row' # NoReport /\ row'.by # "nobody"
  BY <1>6, <1>7, <1>9
<1>12. Steady' => Steady
  BY <1>1, <1>9 DEF Steady
<1>13. (GenActive(size)' <=> GenActive(size)) /\ (JobTo("row")' <=> JobTo("row"))
       /\ (JobTo("knowledge")' <=> JobTo("knowledge"))
  BY <1>1 DEF GenActive, JobTo
<1>14. /\ Steady' => failed' = 0
       /\ ~crossed => \A g \in size.generators : gen[g].step # "idle" => gen[g].report.n = begun
       /\ ~crossed => \A j \in saves : j.report.n = begun
       /\ Steady /\ ~GenActive(size) /\ ~JobTo("row") /\ ~JobTo("knowledge")
            => Len(knowledge) > 0 /\ knowledge[Len(knowledge)] = begun
  BY DEF RetroOrder, Steady
<1>15. RetroOrder(size)'
  BY <1>1, <1>10, <1>11, <1>12, <1>13, <1>14 DEF RetroOrder
<1>16. QED
  BY <1>8, <1>15

LEMMA RetroStep ==
  ASSUME NEW size, ReportsAssumption(size), RetroType(size), RetroOrder(size),
         Reports(size)!Next \/ UNCHANGED retroVars
  PROVE  RetroType(size)' /\ RetroOrder(size)'
<1>1. CASE UNCHANGED retroVars
  <2>1. RetroType(size)'
    BY <1>1 DEF retroVars, RetroType
  <2>2. RetroOrder(size)'
    BY <1>1 DEF retroVars, RetroOrder, Steady, GenActive, JobTo
  <2>3. QED
    BY <2>1, <2>2
<1>2. ASSUME NEW g \in size.generators, Reports(size)!Generate(g)
      PROVE  RetroType(size)' /\ RetroOrder(size)'
  BY <1>2, BuildKeeps, EnrichKeeps, ReplyKeeps DEF Reports!Generate
<1>3. ASSUME NEW j \in saves, Reports(size)!Save(j)
      PROVE  RetroType(size)' /\ RetroOrder(size)'
  BY <1>3, SavePostmortemKeeps, LookupsKeep DEF Reports!Save
<1>4. QED
  BY <1>1, <1>2, <1>3, AroundKeeps, ReadForUpdateKeeps, SaveUpdateKeeps DEF Reports!Next

LEMMA RetroSafe ==
  ASSUME NEW size, RetroType(size), RetroOrder(size)
  PROVE  /\ Reports(size)!CorrectionKept /\ Reports(size)!NewestStored
         /\ Reports(size)!FoundHasReport /\ Reports(size)!TimelineInOrder
<1>1. Reports(size)!CorrectionKept
  BY DEF Reports!CorrectionKept, Reports!Fields, Reports!NoOne, FFields, RetroOrder
<1>2. Reports(size)!FoundHasReport
  BY DEF Reports!FoundHasReport, RetroOrder
<1>3. Reports(size)!NewestStored
  <2>1. SUFFICES ASSUME ~Reports(size)!Busy, failed = 0, ~crossed, begun > 0, row.by = "nobody"
                 PROVE  row.n = begun /\ knowledge[Len(knowledge)] = begun
    BY DEF Reports!NewestStored, Reports!NoOne
  <2>2. ~GenActive(size) /\ ~JobTo("row") /\ ~JobTo("knowledge") /\ Steady
    BY <2>1 DEF Reports!Busy, GenActive, JobTo, Steady
  <2>3. QED
    BY <2>1, <2>2 DEF RetroOrder
<1>4. Reports(size)!TimelineInOrder
  <2>1. SUFFICES ASSUME row # NoReport
                 PROVE  /\ Reports(size)!IsSorted(row.timeline)
                        /\ Trigger \in Reports(size)!EventsOf(row.timeline)
    BY DEF Reports!TimelineInOrder, Reports!Event, Trigger
  <2>2. row.timeline \in Timeline
    BY <2>1 DEF RetroType, FReport
  <2>3. QED
    BY <2>2 DEF Timeline, InTime, HasTrigger, Reports!IsSorted, Reports!EventsOf
<1>5. QED
  BY <1>1, <1>2, <1>3, <1>4

\* Whatever generations, goroutines and corrections interleave, a correction stays
\* until the report is generated or the field corrected again, the stored report
\* is that of the newest generation, whatever is found of an incident has a
\* report, and a timeline is in order (RetrospectiveService).
THEOREM ReportsAlwaysSound == RemediesSpec => []ReportsSound
<1> DEFINE Inv == /\ part = "corrected" => RetroType(Corrections) /\ RetroOrder(Corrections)
                  /\ part = "timeline" => RetroType(Timelines) /\ RetroOrder(Timelines)
<1>1. RemediesInit => Inv
  BY RetroStart DEF RemediesInit
<1>2. Inv /\ [RemediesNext]_allVars => Inv'
  <2>1. SUFFICES ASSUME Inv, [RemediesNext]_allVars PROVE Inv'
    OBVIOUS
  <2>2. part' = part
    BY <2>1 DEF RemediesNext, allVars
  <2>3. CASE part = "corrected"
    <3>1. Reports(Corrections)!Next \/ UNCHANGED retroVars
      BY <2>1, <2>3 DEF RemediesNext, allVars
    <3>2. RetroType(Corrections)' /\ RetroOrder(Corrections)'
      BY <2>1, <2>3, <3>1, RetroStep, RemediesAssumption
    <3>3. QED
      BY <2>2, <2>3, <3>2
  <2>4. CASE part = "timeline"
    <3>1. Reports(Timelines)!Next \/ UNCHANGED retroVars
      BY <2>1, <2>4 DEF RemediesNext, allVars
    <3>2. RetroType(Timelines)' /\ RetroOrder(Timelines)'
      BY <2>1, <2>4, <3>1, RetroStep, RemediesAssumption
    <3>3. QED
      BY <2>2, <2>4, <3>2
  <2>5. QED
    BY <2>2, <2>3, <2>4
<1>3. Inv => ReportsSound
  BY RetroSafe DEF ReportsSound
<1> HIDE DEF Inv
<1>4. QED
  BY <1>1, <1>2, <1>3, PTL DEF RemediesSpec, allVars

=============================================================================
